SPECIFICATION Spec
CONSTANTS
  Files = {"a"}
  SourceRow <- OneFile
  ChunkSizes = {1}
  Versions = {v1}
  NReports = 2
  Requires = {TRUE}
INVARIANTS
  CheckpointSealed
