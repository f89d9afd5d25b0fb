SPECIFICATION FairWatchSpec
CONSTANTS
  Orders = {"o1", "o2"}
  FeedLevels = {0, 2}
  PageSize = 1
  MayStop = FALSE
  MaxStateSeq = 2
  MaxOutages = 0
  MaxFaults = 1
INVARIANTS NoLostWake
PROPERTIES OrdersCancelled
CHECK_DEADLOCK FALSE
