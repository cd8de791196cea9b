SPECIFICATION FairSpec
CONSTANTS
  m = m  w = w  v = v  a = a  b = b  c = c  d = d
  Thread = {m, w, v}
  Main = m
  Runners = {w, v}
  NoActor = NoActor
  Pid = {a, b}
  Free = Free
  Sweep = FALSE
  MaxKills = 2
  Recycle = TRUE
  MaxRuns = 2
  MaxSignals = 1
PROPERTIES
  SignalEnds
  TimeoutHitsOwn
CHECK_DEADLOCK FALSE
