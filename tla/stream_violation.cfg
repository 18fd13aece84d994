CONSTANTS
  MaxTrades = 3
  Interval = 2
  FailureThreshold = 2
  Malformed = {}
  Backfilled = {}
  MaxFaults = 1
  MaxSignals = 0
  OldTrades = 0
  Defaults = {Now}
  Now = Now
  None = None
SPECIFICATION Spec
INVARIANTS TokenSkipsNothing
CHECK_DEADLOCK FALSE
