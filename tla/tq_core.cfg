SPECIFICATION FairSpec
CONSTANTS
  k1 = k1
  k2 = k2
  k3 = k3
  NULL = NULL
  Task = {k1, k2, k3}
  Worker = {w1, w2}
  Client = {c1, c2}
  ta_priority <- MCPriority
  USHRT_MOD = 4
  ENQ_LIMIT <- MCLimit
INVARIANTS
  PendingCountExact
  QueueWellFormed
  QueuedTaskIsRun
  FreedIsUnused
PROPERTIES
  SoloDrainIsDone
  RequestIsServed
CHECK_DEADLOCK FALSE
