CONSTANTS
  w1 = w1  w2 = w2  p1 = p1  p2 = p2  NULL = NULL
  Wallets = {w1, w2}
  Pairs = {p1}
  ScoreInputs = {0, 1, 20, 40}
  Paths = {"submit", "consensus"}
  AdminOps = {"dispute"}
  Args <- FullBoost
  Cfg0 <- CfgBurst
  StartTime = 3600
  TimeSteps = {1800, 3600, 604801}
  MaxTime = 608401
  MaxWrites = 5
  MaxErasures = 1
SPECIFICATION Spec
CONSTRAINTS OneScored OneDispute FewHours
INVARIANTS BurstBound DriftBound
\* The clock of the instance ends.
CHECK_DEADLOCK FALSE
