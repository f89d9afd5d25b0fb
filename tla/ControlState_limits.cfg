SPECIFICATION Spec
CONSTANTS
  Allowed = {"A", "B"}
  Symbols = {"A", "B"}
  Ids = {"a1", "b1", "s1"}
  Sig <- Sigs
  Caps <- TheCaps
  Batches <- TheBatches
  Equities = {8, 6}
  FillStates = {"filled"}
  Ends = {"given", "refused", "downgraded", "gave_up", "abandoned", "kept"}
  LogFails = {}
  Unit = 2
  BpsBase = 4
  CollarBps = 2
  AdvBps = 1
  DrawdownBps = 1
  MaxGross = 3
  ShortSelling = FALSE
  OmegaMin = 1
  MinConfidence = 1
  Validated = {"calm"}
  DayLength = 2
  Weekdays = {1, 2, 3, 4, 5}
  SessionStart = 0
  SessionEnd = 2
  Skew = 0
  MaxSignalAge = 3
  MaxRefAge = 1
  MaxRegimeAge = 1
  MaxOpenOrders = 2
  MaxClosedOrders = 4
  ClosedRetention = 9
  Scale = 2
  GlobalRate <- Three
  SymbolRate <- Two
  MinHistory = 1
  WindowDays = 1
  MaxSizeSamples = 2
  Ttl = 0
  Reporters = {r1}
  r1 = r1
  KillLevelsSeen = {0}
  LateAtMidnight = FALSE
  MaxLag = 1
  MaxTime = 2
  MaxRestarts = 1
INVARIANTS RateBound UnattendedWithinHuman
PROPERTIES ApprovedWithinLimits 
CHECK_DEADLOCK FALSE
