SPECIFICATION FairSpec
CONSTANTS
  NFiles = 2
  Source <- TwoFiles
  Size <- TwoFilesSize
  MaxRows = 3
  Universe = {"p", "q"}
  ChunkSizes = {2}
  MaxRotten = 1
INVARIANTS
  TypeOK
  PassedIsPartition
  OneVersion
  CheckpointTrue
  ReportsExact
PROPERTIES
  EventuallyPassed
