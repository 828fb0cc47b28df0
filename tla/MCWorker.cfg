CONSTANTS
  t1 = t1
  t2 = t2
  t3 = t3
  t4 = t4
  Tasks <- MCTasks
  MaxConc = 2
SPECIFICATION FairSpec
INVARIANTS TypeOK CountersExact DispatchNeverRejected RunNeverWaits
PROPERTIES ImplementsSlotPool CapacityReturns ResumeCompletes StopReturns
CHECK_DEADLOCK FALSE
