SPECIFICATION Spec
CONSTANTS
  t1 = t1
  t2 = t2
  t3 = t3
  m1 = m1
  m2 = m2
  c1 = c1
  NULL = NULL
  Thread = {t1, t2, t3}
  Lock = {m1}
  Chain = {c1}
  TC_HASH <- MCHash
  Rank <- MCRank
  BasePri <- MCPri
  PRI_MAX = 3
  Recursable = {m1}
  Destroyable = {m1}
  NewPri = {0}
  MaxHold <- MCTwice
INVARIANTS
  MutualExclusion
  RecursionAccounted
  NoLostWakeup
  UnlockFindsTurnstile
  TurnstileConservation
PROPERTIES
  ImplementsMutex
