SPECIFICATION SharpSpec
CONSTANTS
  Pipeline <- ThePipeline
  Names <- TheNames
  Casefold <- TheFold
  Lower <- TheLower
  Proposers = {"ann"}
  Allowed <- TheAllowed
  Gates = {g1, g2}
  TradeStages = {"PROMOTED"}
  MaxOrphans = 1
  g1 = g1
  g2 = g2
INVARIANTS PromotionEarned OneWinner 
SYMMETRY GateSymmetry
CHECK_DEADLOCK FALSE
