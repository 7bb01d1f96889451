SPECIFICATION Spec
CONSTANTS
  Sources <- AllSources
  Modes = {"mock", "qwen"}
  Unusable = {"blank"}
  TextLevel <- Levels
  Priority <- Ranks
  ForceCoverage = TRUE
  Buckets = 2
  RowLimit = 3
  InputBatch = 2
  ShardSize = 2
  EncoderBatch = 2
  MaxRetries = 1
  Snapshots = {0, 1}
  Nodes = {0, 1}
  Relations = {0, 1, 2, 3}
  Publications <- Graphs
  ExpectedE = 5
  Absent = Absent
INVARIANTS SelectionExact LoadedExact
PROPERTIES EncodingEnds
CHECK_DEADLOCK FALSE
