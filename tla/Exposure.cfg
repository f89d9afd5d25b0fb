SPECIFICATION Spec
CONSTANTS
  Orders = {"b1", "b2", "s1"}
  Sells = {"s1"}
  Qty <- TwoBuysOneSell
  Ttl = 1
  SaveOutcomes = {"ok", "failed"}
  Timely = TRUE
  Crashes = TRUE
  MaxTime = 3
  MaxOpenOrders = 3
  MaxClosedOrders = 3
  ClosedRetention = 5
  MaxPosition = 2
 
PROPERTIES DuplicatesIdempotent
CHECK_DEADLOCK FALSE
