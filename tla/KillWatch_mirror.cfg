SPECIFICATION FairWatchSpec
CONSTANTS
  Orders = {}
  FeedLevels = {0, 2}
  PageSize = 1
  MayStop = TRUE
  MaxStateSeq = 2
  MaxOutages = 1
  MaxFaults = 0
PROPERTIES MirrorConverges DeadAegisHalts StopEnds
CHECK_DEADLOCK FALSE
