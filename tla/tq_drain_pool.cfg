SPECIFICATION Spec
CONSTANTS
  k1 = k1
  k2 = k2
  k3 = k3
  NULL = NULL
  Task = {k1, k2}
  Worker = {w1, w2}
  Client = {c1, c2}
  ta_priority <- MCPriority
  USHRT_MOD = 4
  ENQ_LIMIT <- MCLimit
PROPERTIES
  DrainedIsDone
CHECK_DEADLOCK FALSE
