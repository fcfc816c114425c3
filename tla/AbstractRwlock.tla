---------------------------- MODULE AbstractRwlock ----------------------------
(***************************************************************************)
(* What a reader/writer lock promises its clients (sys/sys/rwlock.h): any  *)
(* number of read locks or one writer, which may take the lock again; a    *)
(* lone reader may turn into the writer, and the writer into a reader.     *)
(***************************************************************************)
EXTENDS Naturals

CONSTANTS Thread, Rwlock, Recursable, NULL

VARIABLES
  writer,   \* [Rwlock -> Thread or NULL]
  depth,    \* [Rwlock -> Nat], acquisitions of the writer beyond the first
  readers   \* [Rwlock -> Nat], read locks held

Init ==
  /\ writer = [l \in Rwlock |-> NULL]
  /\ depth = [l \in Rwlock |-> 0]
  /\ readers = [l \in Rwlock |-> 0]

ReadLock(l) ==
  /\ writer[l] = NULL
  /\ readers' = [readers EXCEPT ![l] = @ + 1]
  /\ UNCHANGED <<writer, depth>>

ReadUnlock(l) ==
  /\ readers[l] > 0
  /\ readers' = [readers EXCEPT ![l] = @ - 1]
  /\ UNCHANGED <<writer, depth>>

WriteLock(t, l) ==
  /\ writer[l] = NULL
  /\ readers[l] = 0
  /\ writer' = [writer EXCEPT ![l] = t]
  /\ UNCHANGED <<depth, readers>>

WriteUnlock(t, l) ==
  /\ writer[l] = t
  /\ depth[l] = 0
  /\ writer' = [writer EXCEPT ![l] = NULL]
  /\ UNCHANGED <<depth, readers>>

Recurse(t, l) ==
  /\ writer[l] = t
  /\ l \in Recursable
  /\ depth' = [depth EXCEPT ![l] = @ + 1]
  /\ UNCHANGED <<writer, readers>>

Unrecurse(t, l) ==
  /\ writer[l] = t
  /\ depth[l] > 0
  /\ depth' = [depth EXCEPT ![l] = @ - 1]
  /\ UNCHANGED <<writer, readers>>

Upgrade(t, l) ==
  /\ readers[l] = 1
  /\ writer' = [writer EXCEPT ![l] = t]
  /\ readers' = [readers EXCEPT ![l] = 0]
  /\ UNCHANGED depth

Downgrade(t, l) ==
  /\ writer[l] = t
  /\ depth[l] = 0
  /\ writer' = [writer EXCEPT ![l] = NULL]
  /\ readers' = [readers EXCEPT ![l] = 1]
  /\ UNCHANGED depth

Next ==
  \E t \in Thread, l \in Rwlock :
    \/ ReadLock(l) \/ ReadUnlock(l) \/ WriteLock(t, l) \/ WriteUnlock(t, l)
    \/ Recurse(t, l) \/ Unrecurse(t, l) \/ Upgrade(t, l) \/ Downgrade(t, l)

Spec == Init /\ [][Next]_<<writer, depth, readers>>
=============================================================================
