SPECIFICATION Spec
CONSTANTS
  Files = {"a", "b"}
  SourceRow <- TwoFiles
  ChunkSizes = {1}
  Versions = {v1}
  NReports = 2
  Requires = {TRUE, FALSE}
INVARIANTS
  TypeOK
  SnapshotExact
  SealedExact
  ReloadSound
  MirrorsFollow
PROPERTIES
  CommittedIsKept
