SPECIFICATION Spec
CONSTANTS
  Inputs <- SomeInputs
  Names = {"", "ann", "bob", "eve", "t1", "t2", "1.2e+18"}
  NodeMap = {"ann", "bob"}
  Relations = {"mention", "retweet", "reply"}
  Malformed = {"1.2e+18"}
  Quality <- Qualities
  TextSize <- TextSizes
  Starts <- Calendar
  MinEpoch = 3
  MaxEpoch = 90
  Millis = 1000
  Quantiles <- SomeQuantiles
  ExampleLimit = 2
  ChunkSize = 2
INVARIANTS CountsExact
CHECK_DEADLOCK FALSE
