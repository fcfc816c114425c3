SPECIFICATION Spec
CONSTANTS
  t1 = t1
  t2 = t2
  w1 = w1
  NULL = NULL
  Thread = {t1, t2}
  Wchan = {w1}
  td_priority <- MCPri
  Apis = {"sleep", "cv", "sema"}
  Kinds = {"mtx", "sx"}
  MaxValue = 2
  INT_MAX = 3
  MayWrap = FALSE
INVARIANTS
  SleepQueueConservation
  NothingLeftBehind
  SleepHasTimer
  NoSleepOnSignal
  NoLostPost
