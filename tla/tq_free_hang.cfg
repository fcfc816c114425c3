SPECIFICATION FairSpec
CONSTANTS
  k1 = k1
  k2 = k2
  k3 = k3
  NULL = NULL
  Task = {k1}
  Worker = {w1}
  Client = {c1}
  ta_priority <- MCPriority
  USHRT_MOD = 4
  ENQ_LIMIT <- MCLimit
PROPERTIES
  FreeReturns
CHECK_DEADLOCK FALSE
