CONSTANTS
  MaxTrades = 3
  Interval = 2
  FailureThreshold = 2
  Malformed = {3}
  Backfilled = {2}
  MaxFaults = 2
  MaxSignals = 1
  OldTrades = 1
  Defaults = {0, Now}
  Now = Now
  None = None
SPECIFICATION FairSpec
INVARIANTS CheckpointCovers CountedOnce
PROPERTIES TradesReachWindows
CHECK_DEADLOCK FALSE
