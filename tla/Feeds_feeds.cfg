SPECIFICATION FeedsSpec
CONSTANTS
  Symbols = {"AAA"}
  Strays <- MCStrays
  MaxTime = 2
  MaxDataAge = 0
  RetrainInterval = 1
  TrainRetryBackoff = 1
  StoreKey = TRUE
  Payloads <- MCPayloads
  Allowed = {"AAA", "BBB"}
  MaxBatch = 1
  Stamps = {1, 2}
  StaleAfter = 1
  MaxRefAge = 0
  MaxRegimeAge = 1
  Events = 1
PROPERTIES LabelArrives
INVARIANTS AegisRegimeTrue RegimeWatermarkTrue
CHECK_DEADLOCK FALSE
