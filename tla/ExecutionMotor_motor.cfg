SPECIFICATION Spec
CONSTANTS
  i1 = i1
  i2 = i2
  w1 = w1
  w2 = w2
  Ids = {i1, i2}
  Workers = {w1, w2}
  Requests <- MCRequests
  NoCall = NoCall
  MaxOrderNotional = 2
  SessionCap = 2
  AllowShort = FALSE
  ManifestOn = TRUE
  GateOn = TRUE
  MaxCrashes = 1
SYMMETRY MCSymmetry
INVARIANTS SubmittedOnce LedgerCovers TerminalIsTrue
