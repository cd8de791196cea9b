SPECIFICATION FairSpec
CONSTANTS
  m = m  w = w  v = v  a = a  b = b  c = c  d = d
  Thread = {m}
  Main = m
  Runners = {m}
  NoActor = NoActor
  Pid = {a, b}
  Free = Free
  Sweep = FALSE
  MaxKills = 2
  Recycle = FALSE
  MaxRuns = 1
  MaxSignals = 1
PROPERTIES
  SignalEnds
CHECK_DEADLOCK FALSE
