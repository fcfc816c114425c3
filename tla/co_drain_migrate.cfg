SPECIFICATION Spec
CONSTANTS
  x1 = x1
  x2 = x2
  l1 = l1
  NULL = NULL
  Cpu = {p0, p1}
  Client = {t1}
  Calls = {x1}
  Lock = {l1}
  c_lock <- MCLock
  ReturnUnlocked = {}
  Tables = {{}}
  Giant = l1
  Request = {}
  timeout_cpu = p0
  Rearm = TRUE
  Targets = {p0, p1}
  Delays = {1}
  WHEEL = 1
  TICK_MOD = 5
  MAX_LAG = 1
PROPERTIES
  SleepqChainHeld
