SPECIFICATION Spec
CONSTANTS
  NFiles = 1
  Source <- OneFile
  Size <- OneFileSize
  MaxRows = 3
  Universe = {"p", "q"}
  ChunkSizes = {1, 2}
  MaxRotten = 1
INVARIANTS
  PassedIsPartition
