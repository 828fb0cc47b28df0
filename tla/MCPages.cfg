CONSTANTS
  Ids = {1, 2}
  UploadName <- MCNames
  PageSize = 1
  MaxLists = 2
  MaxActs = 3
  MaxChanges = 1
  MaxFaults = 1
SPECIFICATION FairSpec
CHECK_DEADLOCK FALSE
INVARIANTS TypeOK UnpolledPageSettles
PROPERTIES PolledPageCatchesUp
