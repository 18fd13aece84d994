CONSTANTS
  Overrides = {o1}
  Workers = {w1, w2}
  OnSubmitted = TRUE
  MaxAttempts = 2
  MaxCrashes = 1
  MaxSteals = 1
  NULL = NULL
SPECIFICATION FairQueueSpec
INVARIANTS WritesWithinSlips SubmittedIsOnChain MirrorGapNeedsCrash
PROPERTIES ClosedStaysClosed ObligationsSettle
CHECK_DEADLOCK FALSE
