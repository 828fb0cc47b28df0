CONSTANTS
  k1 = k1
  k2 = k2
  None = None
  Tasks = {1, 2}
  Keys = {k1}
  InitKeys = {k1}
  MaxConc <- OneSlot
  BatchLimit = 2
  MaxRetries = 0
  MaxPolls = 1
  MaxRestarts = 1
  MaxKeyChanges = 1
  MaxDisturbances = 1
SPECIFICATION FairSpec
CHECK_DEADLOCK FALSE
PROPERTIES WorkersArePools PendingIsDispatched CustodyEnds StopCompletes KeyRequestEnds
