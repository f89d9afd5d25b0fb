SPECIFICATION FairSpec
CONSTANTS
  Peers = {"risk"}
  Texts = {"x"}
  RawLevels = {1, 2, 3, 9}
  People <- MCPeople
  RolesOf <- MCRolesOf
  AuditMandatory = TRUE
  Production = TRUE
  MaxLatches = 2
  Interval = 1
  WarnAfter = 0
  SaveOutcomes = {"ok", "failed"}
  MaxLag = 0
  Faults = {"crash", "damage", "wal", "lost", "poison"}
  MaxTime = 3
  MaxSeq = 4
  Requests <- TellingRequests
PROPERTIES LevelFallsOnlyByReset StartsAtOwedLevel  DeadMansTrips
CHECK_DEADLOCK FALSE
