SPECIFICATION MainSpec
CONSTANTS
  w1 = w1  w2 = w2  f = f  g = g
  Worker = {w1, w2}
  First = w1
  NoCopy = NoCopy
  Mutants = 2
  File = {f, g}
  FileOf <- MCFileOf
  MinRun = 1
  MaxRun = 2
  MinTimeout = 3
  Requests = {0, 2}
  Budget = 4
  MaxEdits = 1
  Machines <- MCMachines
  Texts <- MCTexts
INVARIANTS
  TypeOK
  NoFalseKill
  PassIsEarned
  OwnCopy
  WithinBudget
  KnowinglyMutated
