SPECIFICATION Spec
CONSTANTS
  t1 = t1
  t2 = t2
  t3 = t3
  l1 = l1
  c1 = c1
  NULL = NULL
  Thread = {t1, t2, t3}
  Lock = {l1}
  Chain = {c1}
  TC_HASH <- MCHash
  BasePri <- MCPri
  PRI_MAX = 1
  Recursable = {l1}
  MaxRead = 2
  MaxWrite = 2
SYMMETRY MCSymmetry
INVARIANTS
  HoldersAccounted
  WaiterBitsExact
  NoStrandedWaiter
  NoReaderDeadlock
  WriterPriorityLent
PROPERTIES
  ImplementsRwlock
