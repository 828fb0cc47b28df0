CONSTANTS
  k1 = k1
  k2 = k2
  None = None
  Tasks = {1, 2}
  Keys = {k1}
  InitKeys = {k1}
  MaxConc <- TwoSlots
  BatchLimit = 2
  MaxRetries = 1
  MaxPolls = 1
  MaxRestarts = 1
  MaxKeyChanges = 1
  MaxDisturbances = 1
SPECIFICATION Spec
CHECK_DEADLOCK FALSE
INVARIANTS TypeOK SoleCustody NoSurplusJobs
PROPERTIES ResultNeverFlips
