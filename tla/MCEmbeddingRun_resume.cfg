SPECIFICATION FairSpec
CONSTANTS
  NBatches = 2
  Contents = {"x", "y"}
  Configs = {"full", "prefix", "other"}
  Selection <- AllSelections
  RemovedFirst = {"checkpoints", "manifests"}
INVARIANTS
  TypeOK
  CompletedIsSelection
  PooledFromUnits
PROPERTIES
  IncompleteIsLeft
  PoolingResumes
