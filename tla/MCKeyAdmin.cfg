CONSTANTS
  None = None
  c1 = c1
  c2 = c2
  k1 = k1
  k2 = k2
  Keys = {k1, k2}
  InitKeys = {k1}
  Confs = {c1, c2}
  BlankConf = c1
  MaxActs = 3
  MaxTrouble = 1
SPECIFICATION Spec
CHECK_DEADLOCK FALSE
INVARIANTS TypeOK PoolMatchesRows DialogFormMatches
