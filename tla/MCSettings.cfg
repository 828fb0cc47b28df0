CONSTANTS
  strategy = strategy
  tick = tick
  Admins = {page1}
  Script = script
  Order <- MCOrder
  Strategy <- strategy
  Tick <- tick
  Hi <- MCHi
  Default <- MCDefault
  Texts <- MCTexts
  Puts <- MCPuts
  MaxEdits = 2
  MaxSaves = 3
  MaxFaults = 1
  MaxRestarts = 1
SPECIFICATION FairSpec
CHECK_DEADLOCK FALSE
INVARIANTS TypeOK CopiesAgree RefusedSaveChangesNothing CleanPageShowsServer
PROPERTIES SaveReturns
