CONSTANTS
  m1 = m1  m2 = m2  p1 = p1  p2 = p2
  NULL = NULL
  Threads = {}
  MaxWrites = 2
  MaxFaults = 0
  MaxResets = 0
  Members = {m1, m2}
  Founders = {m1}
  Proposals = {p1, p2}
  Payload <- PayloadSmall
  Closers = {c1, c2}
  MaxCrashes = 1
SPECIFICATION Spec
SYMMETRY CloserSymmetry
INVARIANTS EffectNeedsMajority ExecutedOnce EnvAgrees
CHECK_DEADLOCK FALSE
