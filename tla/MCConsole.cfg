CONSTANTS
  Tabs = {tab1, tab2}
  MaxTokens = 2
  MaxActs = 3
  MaxFaults = 1
SPECIFICATION FairSpec
CHECK_DEADLOCK FALSE
INVARIANTS TypeOK
PROPERTIES DeadSessionLeavesConsole
