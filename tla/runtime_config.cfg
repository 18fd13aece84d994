CONSTANTS
  Threads = {t1, t2}
  MaxWrites = 2
  MaxFaults = 1
  MaxResets = 1
  NULL = NULL
SPECIFICATION FairConfigSpec
INVARIANTS SeenBringsChange
PROPERTIES ConfigConverges
