CONSTANTS
  w1 = w1  w2 = w2  p1 = p1  p2 = p2  NULL = NULL
  Wallets = {w1, w2}
  Pairs = {p1}
  ScoreInputs = {10, 50, 70, 90}
  Paths = {"submit", "batch"}
  AdminOps = {"clear", "dispute"}
  Args <- DirectArgs
  Cfg0 <- CfgPolicies
  StartTime = 3600
  TimeSteps = {3600}
  MaxTime = 10800
  MaxWrites = 3
  MaxErasures = 1
SPECIFICATION Spec
CONSTRAINTS OneException FewCases
INVARIANTS BreachIsTrailingRun BandTracksLive HistogramMatchesLive FloorHoldsAlongHistory
SYMMETRY WalletSymmetry
