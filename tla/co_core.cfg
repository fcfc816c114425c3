SPECIFICATION Spec
CONSTANTS
  x1 = x1
  x2 = x2
  l1 = l1
  r1 = r1
  r2 = r2
  NULL = NULL
  Cpu = {p0}
  Client = {t1}
  Calls = {x1, x2}
  Lock = {l1}
  c_lock <- MCLock
  ReturnUnlocked = {x1}
  Tables = {{}, {x1, x2}}
  Giant = l1
  Request = {r1, r2}
  timeout_cpu = p0
  Rearm = TRUE
  Targets = {p0}
  Delays = {0, 2}
  WHEEL = 2
  TICK_MOD = 8
  MAX_LAG = 1
INVARIANTS
  WheelWellFormed
  TableConserved
  NoMissedCallout
  StoppedStaysStopped
PROPERTIES
  NotEarly
