CONSTANTS
  w1 = w1  w2 = w2  p1 = p1  p2 = p2  NULL = NULL
  Wallets = {w1, w2}
  Pairs = {p1}
  ScoreInputs = {80, 90}
  Paths = {"submit"}
  AdminOps = {"cancel", "overrideRate", "clear", "dispute"}
  Args <- FullBoost
  Cfg0 <- CfgBuffered
  StartTime = 3600
  TimeSteps = {3600}
  MaxTime = 14400
  MaxWrites = 2
  MaxErasures = 1
SPECIFICATION Spec
CONSTRAINTS OneDispute FewCases
INVARIANTS HistoryTailIsLive PairListMatchesScores TotalCountsEachPairOnce
PROPERTIES FinalityWindowHonoured
SYMMETRY WalletSymmetry
\* The clock of the instance ends.
CHECK_DEADLOCK FALSE
