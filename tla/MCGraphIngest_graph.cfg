SPECIFICATION FairSpec
CONSTANTS
  NFiles = 2
  Source <- TwoWorkbooks
  Size <- Sizes
  MaxRows = 3
  Universe = {"ann", "bob"}
  NSnapshots = 2
  ChunkSize = 2
  FileLists = {{2}, {1, 2}}
  Syncs = {TRUE, FALSE}
  Absent = Absent
INVARIANTS
  TypeOK
  TablesExact
  PublishedGraph
  ValidatedExact
PROPERTIES
  EventuallyValidated
