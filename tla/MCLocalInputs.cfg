CONSTANTS
  a = a
  b = b
  Tasks = {1, 2}
  Files = {a, b}
  Inputs <- SharedInputs
  MaxConc = 2
  BatchLimit = 2
  MaxRestarts = 1
SPECIFICATION Spec
CHECK_DEADLOCK FALSE
INVARIANTS InputsWhole
