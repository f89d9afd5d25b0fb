SPECIFICATION Spec
CONSTANTS
  b = b
  b2 = b2
  c1 = c1
  c2 = c2
  Signals = {b, b2}
  IdOf <- MCIdOf
  CreatedAt <- Early
  ValidUntil <- Never
  Calls = {c1, c2}
  MaxAge = 1
  Skew = 0
  Retention = 1
  Ttl = 1
  HoldWindow = 1
  AuditMandatory = TRUE
  MaxHolds = 1
  SaveOutcomes = {"ok", "failed"}
  LogOutcomes = {"ok", "failed", "torn"}
  AuditOutcomes = {TRUE, FALSE}
  KillLevelsSeen = {0, 4}
  Faults = {"crash", "giveup", "panic"}
  MaxWait = 1
  MaxTime = 3
  LastCall = 2
  MaxFresh = 2
  MaxLines = 2
 
PROPERTIES AttestsOnce
SYMMETRY CallSymmetry
CHECK_DEADLOCK FALSE
