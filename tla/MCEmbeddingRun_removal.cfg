SPECIFICATION Spec
CONSTANTS
  NBatches = 1
  Contents = {"x", "y"}
  Configs = {"full", "other"}
  Selection <- Disjoint
  RemovedFirst = {"unit_embeddings", "checkpoints", "pooling", "deltas"}
INVARIANTS
  FinalIsSealed
PROPERTIES
  CompletedKept
