CONSTANTS
  w1 = w1  w2 = w2  p1 = p1  p2 = p2  NULL = NULL
  Wallets = {w1}
  Pairs = {p1}
  ScoreInputs = {10, 90}
  Paths = {"submit", "attested"}
  AdminOps = {"cooldown", "capacity", "velocity", "overrideVelocity", "buffer", "cancel",
              "threshold", "margin", "adaptive", "depth", "floor", "overrideFloor", "resetBreach",
              "clear", "clearHistory", "pause", "freeze", "epoch", "pausePair"}
  Args <- AdminArgs
  Cfg0 <- CfgShort
  StartTime = 3600
  TimeSteps = {3600}
  MaxTime = 10800
  MaxWrites = 2
  MaxErasures = 1
SPECIFICATION Spec
CONSTRAINT OneChange
INVARIANTS StampsNeverAhead TypeOK
PROPERTIES CooldownSpacing
