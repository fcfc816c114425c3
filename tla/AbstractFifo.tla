----------------------------- MODULE AbstractFifo -----------------------------
(***************************************************************************)
(* What a buffer ring promises its clients: a bounded queue.  A producer   *)
(* offers a buffer that is either queued, once, or refused; a consumer     *)
(* gets the oldest buffer, or nothing when the queue is empty.             *)
(***************************************************************************)
EXTENDS Naturals, Sequences

CONSTANTS Thread, Buf, NULL, Capacity

VARIABLES
  q,     \* the buffers queued, oldest first
  put,   \* [Thread -> Buf or NULL], the buffer a producer is offering
  got    \* [Thread -> Buf or NULL], the buffer a consumer was given

Init ==
  /\ q = <<>>
  /\ put = [t \in Thread |-> NULL]
  /\ got = [t \in Thread |-> NULL]

Offer(t, b) ==
  /\ put[t] = NULL
  /\ put' = [put EXCEPT ![t] = b]
  /\ UNCHANGED <<q, got>>

Accept(t) ==
  /\ put[t] # NULL
  /\ Len(q) < Capacity
  /\ q' = Append(q, put[t])
  /\ put' = [put EXCEPT ![t] = NULL]
  /\ UNCHANGED got

Refuse(t) ==
  /\ put' = [put EXCEPT ![t] = NULL]
  /\ UNCHANGED <<q, got>>

Take(t) ==
  /\ q # <<>>
  /\ got[t] = NULL
  /\ got' = [got EXCEPT ![t] = Head(q)]
  /\ q' = Tail(q)
  /\ UNCHANGED put

Return(t) ==
  /\ got' = [got EXCEPT ![t] = NULL]
  /\ UNCHANGED <<q, put>>

Next ==
  \E t \in Thread :
    \/ \E b \in Buf : Offer(t, b)
    \/ Accept(t) \/ Refuse(t) \/ Take(t) \/ Return(t)

Spec == Init /\ [][Next]_<<q, put, got>>
=============================================================================
