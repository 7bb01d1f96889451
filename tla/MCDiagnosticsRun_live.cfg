SPECIFICATION FairSpec
CONSTANTS
  Files = {"a"}
  SourceRow <- OneFile
  ChunkSizes = {1, 3}
  Versions = {v1, v2}
  NReports = 1
  Requires = {TRUE}
INVARIANTS
  SealedExact
PROPERTIES
  EventuallySealed
