SPECIFICATION FairSpec
CONSTANTS
  t1 = t1
  t2 = t2
  t3 = t3
  b1 = b1
  b2 = b2
  b3 = b3
  b4 = b4
  NULL = NULL
  Thread = {t1, t2, t3}
  Producer = {t1, t2}
  Consumer = {t2, t3}
  Buf = {b1, b2, b3, b4}
  Size = 4
  Modes = {"mc", "sc"}
  MayLap = FALSE
INVARIANTS
  ReservationsExact
  PeekStaysFirst
PROPERTIES
  ImplementsFifo
  ReservationEnds
