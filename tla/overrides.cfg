CONSTANTS
  Overrides = {o1, o2}
  Workers = {w1}
  OnSubmitted = FALSE
  MaxAttempts = 1
  MaxCrashes = 0
  MaxSteals = 0
  NULL = NULL
  Voters = {v1, v2, v3}
  Quorum = 2
  MaxDeaths = 1
SPECIFICATION Spec
SYMMETRY Symmetry
INVARIANTS RemovalBackedByVotes RemovalIsOwed SerialOneObligation ApprovalGapNeedsDeath
CHECK_DEADLOCK FALSE
