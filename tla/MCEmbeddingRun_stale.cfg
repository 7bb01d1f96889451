SPECIFICATION Spec
CONSTANTS
  NBatches = 2
  Contents = {"x", "y"}
  Configs = {"full", "prefix"}
  Selection <- Prefixes
  RemovedFirst = {"unit_embeddings", "checkpoints"}
INVARIANTS
  PooledFromUnits
