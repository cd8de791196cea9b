SPECIFICATION Spec
CONSTANTS
  m = m  w = w  v = v  a = a  b = b  c = c  d = d
  Thread = {m, w}
  Main = m
  Runners = {m, w}
  NoActor = NoActor
  Pid = {a, b, c, d}
  Free = Free
  Sweep = TRUE
  MaxKills = 2
  Recycle = FALSE
  MaxRuns = 2
  MaxSignals = 1
INVARIANTS
  NothingOutlives
  Tracked
  RegisteredKilled
SYMMETRY Symmetric
CHECK_DEADLOCK FALSE
