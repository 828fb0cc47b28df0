CONSTANTS
  k1 = k1
  k2 = k2
  None = None
  Tasks = {1}
  Keys = {k1}
  InitKeys = {k1}
  MaxConc <- OneSlot
  BatchLimit = 2
  MaxRetries = 0
  MaxPolls = 1
  MaxRestarts = 1
  MaxKeyChanges = 0
  MaxDisturbances = 1
SPECIFICATION Spec
CHECK_DEADLOCK FALSE
INVARIANTS DispatchedNotSubmitted
