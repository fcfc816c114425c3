---------------------------- MODULE AbstractMutex ----------------------------
(***************************************************************************)
(* What a mutex promises its clients (the comments of sys/sys/mutex.h): it *)
(* belongs to at most one thread, only its owner takes it again or gives   *)
(* it back, and it is free only after as many releases as acquisitions.    *)
(***************************************************************************)
EXTENDS Naturals

CONSTANTS Thread, Mutex, Recursable, NULL

VARIABLES
  owner,  \* [Mutex -> Thread or NULL]
  depth   \* [Mutex -> Nat], acquisitions of the owner

Init ==
  /\ owner = [m \in Mutex |-> NULL]
  /\ depth = [m \in Mutex |-> 0]

Acquire(t, m) ==
  /\ owner[m] = NULL
  /\ owner' = [owner EXCEPT ![m] = t]
  /\ depth' = [depth EXCEPT ![m] = 1]

Recurse(t, m) ==
  /\ owner[m] = t
  /\ m \in Recursable
  /\ depth' = [depth EXCEPT ![m] = @ + 1]
  /\ UNCHANGED owner

Unrecurse(t, m) ==
  /\ owner[m] = t
  /\ depth[m] > 1
  /\ depth' = [depth EXCEPT ![m] = @ - 1]
  /\ UNCHANGED owner

Release(t, m) ==
  /\ owner[m] = t
  /\ depth[m] = 1
  /\ owner' = [owner EXCEPT ![m] = NULL]
  /\ depth' = [depth EXCEPT ![m] = 0]

Next ==
  \E t \in Thread, m \in Mutex :
    Acquire(t, m) \/ Recurse(t, m) \/ Unrecurse(t, m) \/ Release(t, m)

Spec == Init /\ [][Next]_<<owner, depth>>
=============================================================================
