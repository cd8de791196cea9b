SPECIFICATION Spec
CONSTANTS
  n1 = n1  n2 = n2  o1 = o1  f1 = f1  f2 = f2
  Test = {n1, n2, o1}
  File = {f1, f2}
  FileOf <- MCFileOf
  Old = {o1}
  May <- MCMay
  Machines <- MCMachines
  Untidy = FALSE
INVARIANTS
  OkIsEarned
  NothingSlips
  CleansUp
  IsolatedOrKnowingly
CHECK_DEADLOCK FALSE
