SPECIFICATION Spec
CONSTANTS
  p1 = p1  p2 = p2
  Proc = {p1, p2}
  Triagers = {p1}
  NoProc = NoProc
  Flock = TRUE
  MaxLoops = 2
  MaxResets = 1
  MaxRecords = 4
INVARIANTS
  LoggedIsApplied
  UnclearCounted
  JoinOwnLatest
PROPERTIES
  ImplementsLedger
