SPECIFICATION Spec
CONSTANTS
  Unit = 4
  OmegaThreshold = 3
  NoReply = NoReply
  Garbage = Garbage
  Retention = 2
  TopK = 1
  CallTimeout = 1
  Seeds <- MCSeeds
  Configs <- MCConfigs
  Messages <- MCMessages
  Ages = {0, 2}
  HaltFile = {"absent", "unreadable"}
  BlueReplies <- MCBlue
  RedReplies <- MCRed
  JudgeReplies <- MCJudge
  QueueSize = 1
  MaxTracked = 1
  MaxAge = 1
  FutureTolerance = 0
  Interval = 2
  RecallTimeout = 1
  BlueBudget = 1
  RedBudget = 1
  JudgeBudget = 1
  CompressionBudget = 1
  BlueRedCeiling = 2
  Deadline = 2
  AegisTimeout = 1
  MotorTimeout = 1
  Heartbeat = 1
  MaxBeatAge = 7
INVARIANTS SignalEarned PrecedentsGenuine StaysHealthy
PROPERTIES LoopEnds
CHECK_DEADLOCK FALSE
