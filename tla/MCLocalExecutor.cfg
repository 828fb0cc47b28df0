CONSTANTS
  a = a
  b = b
  Tasks = {1, 2, 3}
  Files = {a, b}
  Inputs <- SharedInputs
  MaxConc = 2
  BatchLimit = 2
  MaxRestarts = 1
SPECIFICATION FairSpec
CHECK_DEADLOCK FALSE
INVARIANTS TypeOK BatchIsFresh OwnInputsWhole
PROPERTIES ExecutorIsPool OnlyHaltStrands LocalResultStays PendingLocalIsStarted
