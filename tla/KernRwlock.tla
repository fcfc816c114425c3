------------------------------ MODULE KernRwlock ------------------------------
(***************************************************************************)
(* Reader/writer locks of sys/kern/kern_rwlock.c and sys/sys/rwlock.h on   *)
(* an SMP kernel with INVARIANTS and adaptive rwlocks, on top of the       *)
(* turnstiles of module Turnstile.                                         *)
(*                                                                         *)
(* A read of the lock word followed by a compare-and-set of the value read *)
(* is one step: a compare-and-set that fails starts the loop over with     *)
(* nothing changed.  Taking the chain lock is merged with what follows it. *)
(* Between these steps a thread keeps what it has read, and others act:    *)
(* the word is read for rw_owner() after the waiter bits were set, stored  *)
(* back after the queue was emptied, and released before the waiters are   *)
(* looked up.                                                              *)
(***************************************************************************)
EXTENDS Turnstile, FiniteSets

CONSTANTS
  Recursable,  \* the rwlocks initialised with RW_RECURSE
  BasePri,     \* [Thread -> 0..PRI_MAX]
  MaxRead,     \* bound on the read locks one thread has on one rwlock
  MaxWrite     \* bound on the write acquisitions of one rwlock

Rwlock == Lock

DESTROYED == "destroyed"

ASSUME RwlockAssumption ==
  /\ Recursable \subseteq Rwlock
  /\ BasePri \in [Thread -> Priority]
  /\ MaxRead \in Nat \ {0}
  /\ MaxWrite \in Nat \ {0}
  /\ DESTROYED \notin Thread \cup {NULL}

VARIABLES
  rw_lock,       \* [Rwlock -> Word]
  rw_recurse,    \* [Rwlock -> Nat]
  td_rw_rlocks,  \* [Thread -> Nat], read locks of any rwlock
  pc,            \* [Thread -> control point]
  cur,           \* [Thread -> Rwlock or NULL], argument of the call in progress
  queue,         \* [Thread -> Queue], the queue the call in progress is about
  v,             \* [Thread -> Word], the word the call is going to store
  lts,           \* [Thread -> turnstile or NULL], the local variable ts
  rheld,         \* [Rwlock -> set of <<thread, n>>], read locks not given back
  wheld          \* [Rwlock -> [Thread -> Nat]], write acquisitions not given
                 \* back; rheld and wheld are the clients' accounts and no code
                 \* reads them

wordVars  == <<rw_lock, rw_recurse>>
localVars == <<cur, queue, v, lts>>
heldVars  == <<td_rw_rlocks, rheld, wheld>>
vars == <<turnstileVars, wordVars, pc, localVars, heldVars>>

-----------------------------------------------------------------------------
(***************************************************************************)
(* The lock word.  RW_LOCK_READ is set exactly when the word has no owner. *)
(***************************************************************************)
Word == [owner : Thread \cup {NULL, DESTROYED}, readers : Nat,
         read_waiters : BOOLEAN, write_waiters : BOOLEAN, spinner : BOOLEAN]

RW_READERS_LOCK(n) == [owner |-> NULL, readers |-> n, read_waiters |-> FALSE,
                       write_waiters |-> FALSE, spinner |-> FALSE]
RW_UNLOCKED  == RW_READERS_LOCK(0)
Owned(t)     == [RW_UNLOCKED EXCEPT !.owner = t]
RW_DESTROYED == Owned(DESTROYED)

rw_wowner(l)     == rw_lock[l].owner
rw_wlocked(t, l) == rw_wowner(l) = t
rw_recursed(l)   == rw_recurse[l] # 0

HasWaiters(w) == w.read_waiters \/ w.write_waiters

\* RW_LOCK_READ is set and the count is 0, whatever the flags.
IsFree(w) == w.owner = NULL /\ w.readers = 0

\* Variant: a reader that already reads is not let through.
RW_CAN_READ_strict(t, w) ==
  w.owner = NULL /\ ~w.write_waiters /\ ~w.spinner

\* Variant: a lock that is being written can be read.
RW_CAN_READ_any(t, w) ==
  td_rw_rlocks[t] > 0 \/ (~w.write_waiters /\ ~w.spinner)

\* Writers come first, except for a thread that has a read lock already.
RW_CAN_READ(t, w) ==
  /\ w.owner = NULL
  /\ td_rw_rlocks[t] > 0 \/ (~w.write_waiters /\ ~w.spinner)

OwnerRuns(w) == w.owner \in Thread /\ TD_IS_RUNNING(w.owner)

\* Variant: the waiters that stay asleep are forgotten.
Released_forget(w) == RW_UNLOCKED

\* The word that wakes one queue: writers first, and the bit of the readers, who
\* stay asleep, is kept.
Released(w) ==
  [RW_UNLOCKED EXCEPT !.read_waiters = w.write_waiters /\ w.read_waiters]
WakeQueue(w) == IF w.write_waiters THEN TS_EXCLUSIVE_QUEUE ELSE TS_SHARED_QUEUE

Init ==
  /\ TurnstileInit(BasePri)
  /\ rw_lock = [l \in Rwlock |-> RW_UNLOCKED]
  /\ rw_recurse = [l \in Rwlock |-> 0]
  /\ td_rw_rlocks = [t \in Thread |-> 0]
  /\ pc = [t \in Thread |-> "idle"]
  /\ cur = [t \in Thread |-> NULL]
  /\ queue = [t \in Thread |-> TS_SHARED_QUEUE]
  /\ v = [t \in Thread |-> RW_UNLOCKED]
  /\ lts = [t \in Thread |-> NULL]
  /\ rheld = [l \in Rwlock |-> {}]
  /\ wheld = [l \in Rwlock |-> [t \in Thread |-> 0]]

\* Control points at which a thread holds the lock of the chain of cur.
Chained == {"check", "contest", "wait", "wake", "release", "up_check", "down_store", "unpend"}
Points  == Chained \cup {"idle", "rlock", "wlock", "wspin", "chain", "propagate",
                         "blocked", "runlock", "runlock_chain", "wunlock",
                         "upgrade", "downgrade"}

Goto(t, from, to) ==
  /\ TD_IS_RUNNING(t)
  /\ pc[t] = from
  /\ pc' = [pc EXCEPT ![t] = to]

Return(t) ==
  /\ cur' = [cur EXCEPT ![t] = NULL]
  /\ queue' = [queue EXCEPT ![t] = TS_SHARED_QUEUE]
  /\ v' = [v EXCEPT ![t] = RW_UNLOCKED]
  /\ lts' = [lts EXCEPT ![t] = NULL]

Call(t, l, q) ==
  /\ cur' = [cur EXCEPT ![t] = l]
  /\ queue' = [queue EXCEPT ![t] = q]
  /\ UNCHANGED <<v, lts>>

SetWord(l, w) == rw_lock' = [rw_lock EXCEPT ![l] = w]

-----------------------------------------------------------------------------
(***************************************************************************)
(* The clients' accounts.                                                  *)
(***************************************************************************)
ReadsOf(t, l) == {r \in rheld[l] : r[1] = t}
Newest(t, l)  == <<t, Cardinality(ReadsOf(t, l))>>

AddRead(t, l)  == rheld' = [rheld EXCEPT ![l] = @ \cup {<<t, Cardinality(ReadsOf(t, l)) + 1>>}]
DropRead(t, l) == rheld' = [rheld EXCEPT ![l] = @ \ {Newest(t, l)}]

\* A client takes no rwlock that it holds for writing unless it may recurse, and
\* none that it reads for writing.
MayRead(t, l) ==
  /\ pc[t] = "idle"
  /\ rw_wowner(l) # DESTROYED
  /\ wheld[l][t] = 0
  /\ Cardinality(ReadsOf(t, l)) < MaxRead
MayWrite(t, l) ==
  /\ pc[t] = "idle"
  /\ rw_wowner(l) # DESTROYED
  /\ ReadsOf(t, l) = {}
  /\ wheld[l][t] < (IF l \in Recursable THEN MaxWrite ELSE 1)

-----------------------------------------------------------------------------
(***************************************************************************)
(* rw_rlock(), rw_try_rlock().                                             *)
(***************************************************************************)

\* The compare-and-set that adds a reader; flags of the word are kept.
TakeRead(t, l) ==
  /\ rw_lock' = [rw_lock EXCEPT ![l].readers = @ + 1]
  /\ td_rw_rlocks' = [td_rw_rlocks EXCEPT ![t] = @ + 1]
  /\ AddRead(t, l)
  /\ UNCHANGED <<turnstileVars, rw_recurse, wheld>>

RwRlock(t, l) ==
  /\ MayRead(t, l)
  /\ \/ /\ RW_CAN_READ(t, rw_lock[l])
        /\ Goto(t, "idle", "idle")
        /\ TakeRead(t, l)
        /\ UNCHANGED localVars
     \/ /\ ~RW_CAN_READ(t, rw_lock[l])
        /\ Goto(t, "idle", "rlock")
        /\ Call(t, l, TS_SHARED_QUEUE)
        /\ UNCHANGED <<turnstileVars, wordVars, heldVars>>

\* The loop of _rw_rlock(): take the lock, or, when its owner does not run on
\* another processor or the thread is tired of spinning on readers, go and block.
Rlock(t) ==
  \/ /\ Goto(t, "rlock", "idle")
     /\ RW_CAN_READ(t, rw_lock[cur[t]])
     /\ TakeRead(t, cur[t])
     /\ Return(t)
  \/ /\ Goto(t, "rlock", "chain")
     /\ ~RW_CAN_READ(t, rw_lock[cur[t]])
     /\ ~OwnerRuns(rw_lock[cur[t]])
     /\ UNCHANGED <<turnstileVars, wordVars, localVars, heldVars>>

\* Any lock that is not write-locked, waiters or not.
RwTryRlock(t, l) ==
  /\ MayRead(t, l)
  /\ rw_wowner(l) = NULL
  /\ Goto(t, "idle", "idle")
  /\ TakeRead(t, l)
  /\ UNCHANGED localVars

-----------------------------------------------------------------------------
(***************************************************************************)
(* rw_wlock(), rw_try_wlock().                                             *)
(***************************************************************************)
TakeWrite(t, l, w) ==
  /\ SetWord(l, w)
  /\ wheld' = [wheld EXCEPT ![l][t] = 1]
  /\ UNCHANGED <<rw_recurse, td_rw_rlocks, rheld>>

RecurseWrite(t, l) ==
  /\ rw_recurse' = [rw_recurse EXCEPT ![l] = @ + 1]
  /\ wheld' = [wheld EXCEPT ![l][t] = @ + 1]
  /\ UNCHANGED <<rw_lock, td_rw_rlocks, rheld>>

RwWlock(t, l) ==
  /\ MayWrite(t, l)
  /\ \/ /\ rw_lock[l] = RW_UNLOCKED
        /\ Goto(t, "idle", "idle")
        /\ TakeWrite(t, l, Owned(t))
        /\ UNCHANGED localVars
     \/ /\ rw_wlocked(t, l)
        /\ Goto(t, "idle", "idle")
        /\ RecurseWrite(t, l)
        /\ UNCHANGED localVars
     \/ /\ rw_lock[l] # RW_UNLOCKED /\ ~rw_wlocked(t, l)
        /\ Goto(t, "idle", "wlock")
        /\ Call(t, l, TS_EXCLUSIVE_QUEUE)
        /\ UNCHANGED <<wordVars, heldVars>>
  /\ UNCHANGED turnstileVars

RwTryWlock(t, l) ==
  /\ MayWrite(t, l)
  /\ Goto(t, "idle", "idle")
  /\ \/ rw_wlocked(t, l) /\ RecurseWrite(t, l)
     \/ rw_lock[l] = RW_UNLOCKED /\ TakeWrite(t, l, Owned(t))
  /\ UNCHANGED <<turnstileVars, localVars>>

\* The loop of _rw_wlock_hard(): take the lock, announce a spinning writer on a
\* lock that is read, or go and block.
Wlock(t) ==
  LET w == rw_lock[cur[t]]
  IN  /\ \/ /\ Goto(t, "wlock", "idle")
            /\ w = RW_UNLOCKED
            /\ TakeWrite(t, cur[t], Owned(t))
            /\ Return(t)
         \/ /\ Goto(t, "wlock", "wspin")
            /\ w.owner = NULL /\ w.readers > 0
            /\ SetWord(cur[t], [w EXCEPT !.spinner = TRUE])
            /\ UNCHANGED <<rw_recurse, localVars, heldVars>>
         \/ /\ Goto(t, "wlock", "chain")
            /\ w # RW_UNLOCKED /\ ~OwnerRuns(w)
            /\ UNCHANGED <<wordVars, localVars, heldVars>>
      /\ UNCHANGED turnstileVars

\* The bit has gone, or the thread has spun long enough.
WspinEnd(t) ==
  /\ \/ Goto(t, "wspin", "wlock") /\ ~rw_lock[cur[t]].spinner
     \/ Goto(t, "wspin", "chain")
  /\ UNCHANGED <<turnstileVars, wordVars, localVars, heldVars>>

-----------------------------------------------------------------------------
(***************************************************************************)
(* Blocking, for readers and writers: queue[t] says which.                 *)
(***************************************************************************)

\* Back to the head of the loop of the call in progress.
Loop(t) == IF queue[t] = TS_SHARED_QUEUE THEN "rlock" ELSE "wlock"

\* turnstile_trywait(), for a thread that is about to block or to upgrade.
Trywait(t) ==
  /\ Goto(t, "chain", "check") \/ Goto(t, "upgrade", "up_check")
  /\ turnstile_chain_lock(t, cur[t])
  /\ \E ts \in Turnstiles :
       /\ turnstile_trywait(t, cur[t], ts)
       /\ lts' = [lts EXCEPT ![t] = ts]
  /\ UNCHANGED <<tc_turnstiles, ts_owner, ts_blocked, ts_pending, ts_free,
                 td_turnstile, td_blocked, td_state, priVars,
                 wordVars, cur, queue, v, heldVars>>

\* turnstile_cancel() leaves the turnstile's queues and the priorities alone.
Cancel(t) ==
  /\ turnstile_cancel(t, cur[t], lts[t])
  /\ UNCHANGED <<tc_turnstiles, ts_owner, ts_blocked, ts_pending, ts_free,
                 td_turnstile, td_blocked, td_state, priVars>>

\* turnstile_claim() leaves the queues alone.
Claim(t) ==
  /\ turnstile_claim(t, cur[t], lts[t])
  /\ UNCHANGED <<tc_turnstiles, ts_lockobj, ts_blocked, ts_pending, ts_free,
                 td_turnstile, td_blocked, td_state, td_base_pri, prop>>

GiveUp(t, from) ==
  /\ Goto(t, from, Loop(t))
  /\ Cancel(t)
  /\ v' = [v EXCEPT ![t] = RW_UNLOCKED]
  /\ lts' = [lts EXCEPT ![t] = NULL]
  /\ UNCHANGED <<wordVars, cur, queue, heldVars>>

\* The word is read again under the chain lock: start over when the lock can be
\* read by now or its owner runs.
Check(t) ==
  LET w == rw_lock[cur[t]]
      stop == OwnerRuns(w) \/ (queue[t] = TS_SHARED_QUEUE /\ RW_CAN_READ(t, w))
  IN  /\ pc[t] = "check"
      /\ \/ stop /\ GiveUp(t, "check")
         \/ /\ ~stop
            /\ Goto(t, "check", "contest")
            /\ v' = [v EXCEPT ![t] = w]
            /\ UNCHANGED <<turnstileVars, wordVars, cur, queue, lts, heldVars>>

\* Variant: the bit is not set when some other thread waits already.
Announced_once(q, w) ==
  IF HasWaiters(w) THEN w
  ELSE IF q = TS_SHARED_QUEUE THEN [w EXCEPT !.read_waiters = TRUE]
       ELSE [w EXCEPT !.write_waiters = TRUE]

\* The word with the waiter bit of queue q.
Announced(q, w) ==
  IF q = TS_SHARED_QUEUE THEN [w EXCEPT !.read_waiters = TRUE]
  ELSE [w EXCEPT !.write_waiters = TRUE]

\* A writer that found the lock free takes it together with its waiters.
ContestFree(t) ==
  /\ Goto(t, "contest", "idle")
  /\ queue[t] = TS_EXCLUSIVE_QUEUE /\ IsFree(v[t])
  /\ rw_lock[cur[t]] = v[t]
  /\ TakeWrite(t, cur[t], [v[t] EXCEPT !.owner = t, !.spinner = FALSE])
  /\ IF HasWaiters(v[t]) THEN Claim(t) ELSE Cancel(t)
  /\ Return(t)

\* Set the waiter bit unless the copy of the word says it is set already.
ContestHeld(t) ==
  /\ Goto(t, "contest", "wait")
  /\ ~(queue[t] = TS_EXCLUSIVE_QUEUE /\ IsFree(v[t]))
  /\ rw_lock[cur[t]] = v[t] \/ v[t] = Announced(queue[t], v[t])
  /\ rw_lock' = IF v[t] = Announced(queue[t], v[t]) THEN rw_lock
                ELSE [rw_lock EXCEPT ![cur[t]] = Announced(queue[t], v[t])]
  /\ v' = [v EXCEPT ![t] = RW_UNLOCKED]
  /\ UNCHANGED <<turnstileVars, rw_recurse, cur, queue, lts, heldVars>>

\* The word has changed since it was read.
ContestChanged(t) ==
  /\ pc[t] = "contest"
  /\ rw_lock[cur[t]] # v[t]
  /\ (queue[t] = TS_EXCLUSIVE_QUEUE /\ IsFree(v[t]))
       \/ v[t] # Announced(queue[t], v[t])
  /\ GiveUp(t, "contest")

\* turnstile_wait() with the owner that the word names now.
Wait(t) ==
  /\ Goto(t, "wait", "propagate")
  /\ turnstile_wait_enqueue(t, cur[t], lts[t], rw_wowner(cur[t]), queue[t])
  /\ turnstile_wait_block(t, cur[t], lts[t])
  /\ lts' = [lts EXCEPT ![t] = NULL]
  /\ UNCHANGED <<ts_lock, ts_lockobj, ts_pending, td_priority, td_base_pri,
                 td_borrowing, wordVars, cur, queue, v, heldVars>>

Propagate(t) ==
  /\ pc[t] = "propagate"
  /\ propagate_priority(t)
  /\ pc' = [pc EXCEPT ![t] = IF prop'[t] # NULL THEN "propagate" ELSE "blocked"]
  /\ UNCHANGED <<wordVars, localVars, heldVars>>

Woken(t) ==
  /\ Goto(t, "blocked", Loop(t))
  /\ UNCHANGED <<turnstileVars, wordVars, localVars, heldVars>>

-----------------------------------------------------------------------------
(***************************************************************************)
(* rw_runlock() and rw_wunlock().                                          *)
(***************************************************************************)

\* One round of the loop of _rw_runlock(): drop one of several read locks, or
\* the last one when nobody waits, or go for the turnstile.
RunlockRound(t, l, from) ==
  LET w == rw_lock[l]
  IN  \/ /\ Goto(t, from, "idle")
         /\ w.readers > 1 \/ ~HasWaiters(w)
         /\ SetWord(l, IF w.readers > 1 THEN [w EXCEPT !.readers = @ - 1]
                       ELSE RW_UNLOCKED)
         /\ DropRead(t, l)
         /\ Return(t)
      \/ /\ Goto(t, from, "runlock_chain")
         /\ w.readers <= 1 /\ HasWaiters(w)
         /\ Call(t, l, TS_SHARED_QUEUE)
         /\ UNCHANGED <<rw_lock, rheld>>

RwRunlock(t, l) ==
  /\ ReadsOf(t, l) # {}
  /\ RunlockRound(t, l, "idle")
  /\ td_rw_rlocks' = [td_rw_rlocks EXCEPT ![t] = @ - 1]
  /\ UNCHANGED <<turnstileVars, rw_recurse, wheld>>

Runlock(t) ==
  /\ RunlockRound(t, cur[t], "runlock")
  /\ UNCHANGED <<turnstileVars, rw_recurse, td_rw_rlocks, wheld>>

\* The last reader frees the lock under the chain lock, before it looks for the
\* waiters; a reader that came in meanwhile makes it start over.
RunlockChain(t) ==
  LET l == cur[t]
      w == rw_lock[l]
  IN  /\ pc[t] = "runlock_chain"
      /\ tc_lock[TC_HASH[l]] = NULL
      /\ \/ /\ w.readers = 1
            /\ Goto(t, "runlock_chain", "wake")
            /\ turnstile_chain_lock(t, l)
            /\ SetWord(l, Released(w))
            /\ queue' = [queue EXCEPT ![t] = WakeQueue(w)]
            /\ DropRead(t, l)
         \/ /\ w.readers # 1
            /\ Goto(t, "runlock_chain", "runlock")
            /\ UNCHANGED <<tc_lock, rw_lock, queue, rheld>>
      /\ UNCHANGED <<tc_turnstiles, ts_lock, queueVars, td_state, priVars,
                     rw_recurse, cur, v, lts, td_rw_rlocks, wheld>>

\* turnstile_lookup() and turnstile_broadcast() of queue q.
LookupBroadcast(t, q) ==
  /\ \E ts \in Turnstiles :
       /\ turnstile_lookup(t, cur[t], ts)
       /\ turnstile_broadcast(cur[t], ts, q)
       /\ lts' = [lts EXCEPT ![t] = ts]
  /\ UNCHANGED <<ts_lockobj, ts_owner, td_blocked, td_state, priVars>>

Wake(t) ==
  /\ Goto(t, "wake", "unpend")
  /\ LookupBroadcast(t, queue[t])
  /\ UNCHANGED <<tc_lock, wordVars, cur, queue, v, heldVars>>

\* turnstile_unpend() and turnstile_chain_unlock().
UnpendReturn(t) ==
  /\ turnstile_unpend(t, lts[t])
  /\ turnstile_chain_unlock(cur[t])
  /\ Return(t)
  /\ UNCHANGED <<tc_turnstiles, ts_blocked, ts_free, td_turnstile, td_base_pri,
                 prop>>

Unpend(t) ==
  /\ Goto(t, "unpend", "idle")
  /\ UnpendReturn(t)
  /\ UNCHANGED <<wordVars, heldVars>>

\* __rw_wunlock(): one level of recursion, a lock nobody waits for, or
\* _rw_wunlock_hard().
RwWunlock(t, l) ==
  /\ wheld[l][t] > 0
  /\ \/ /\ rw_recursed(l)
        /\ Goto(t, "idle", "idle")
        /\ rw_recurse' = [rw_recurse EXCEPT ![l] = @ - 1]
        /\ wheld' = [wheld EXCEPT ![l][t] = @ - 1]
        /\ UNCHANGED <<rw_lock, localVars>>
     \/ /\ ~rw_recursed(l) /\ rw_lock[l] = Owned(t)
        /\ Goto(t, "idle", "idle")
        /\ SetWord(l, RW_UNLOCKED)
        /\ wheld' = [wheld EXCEPT ![l][t] = 0]
        /\ UNCHANGED <<rw_recurse, localVars>>
     \/ /\ ~rw_recursed(l) /\ rw_lock[l] # Owned(t)
        /\ Goto(t, "idle", "wunlock")
        /\ Call(t, l, TS_EXCLUSIVE_QUEUE)
        /\ UNCHANGED <<wordVars, wheld>>
  /\ UNCHANGED <<turnstileVars, td_rw_rlocks, rheld>>

\* Empty the queue to wake, and remember the word to store.
Wunlock(t) ==
  LET w == rw_lock[cur[t]]
  IN  /\ Goto(t, "wunlock", "release")
      /\ turnstile_chain_lock(t, cur[t])
      /\ LookupBroadcast(t, WakeQueue(w))
      /\ v' = [v EXCEPT ![t] = Released(w)]
      /\ UNCHANGED <<wordVars, cur, queue, heldVars>>

Release(t) ==
  /\ Goto(t, "release", "idle")
  /\ SetWord(cur[t], v[t])
  /\ wheld' = [wheld EXCEPT ![cur[t]][t] = 0]
  /\ UnpendReturn(t)
  /\ UNCHANGED <<rw_recurse, td_rw_rlocks, rheld>>

-----------------------------------------------------------------------------
(***************************************************************************)
(* rw_try_upgrade() and rw_downgrade().                                    *)
(***************************************************************************)

\* A reader becomes the writer.
TakeUpgrade(t, l, w) ==
  /\ SetWord(l, w)
  /\ td_rw_rlocks' = [td_rw_rlocks EXCEPT ![t] = @ - 1]
  /\ DropRead(t, l)
  /\ wheld' = [wheld EXCEPT ![l][t] = 1]
  /\ UNCHANGED rw_recurse

\* A lone reader that nobody waits for, or one that has to claim the turnstile;
\* with several readers the call fails.
RwTryUpgrade(t, l) ==
  LET w == rw_lock[l]
  IN  /\ ReadsOf(t, l) # {}
      /\ w.readers <= 1
      /\ \/ /\ ~HasWaiters(w)
            /\ Goto(t, "idle", "idle")
            /\ TakeUpgrade(t, l, Owned(t))
            /\ UNCHANGED localVars
         \/ /\ HasWaiters(w)
            /\ Goto(t, "idle", "upgrade")
            /\ Call(t, l, TS_EXCLUSIVE_QUEUE)
            /\ UNCHANGED <<wordVars, heldVars>>
      /\ UNCHANGED turnstileVars

\* Variant: the readers that came in since are not looked for.
UpgradeCheck_blind(t) ==
  /\ Goto(t, "up_check", "idle")
  /\ TakeUpgrade(t, cur[t], [rw_lock[cur[t]] EXCEPT !.owner = t, !.readers = 0,
                                                   !.spinner = FALSE])
  /\ Claim(t)
  /\ Return(t)

UpgradeCheck(t) ==
  LET w == rw_lock[cur[t]]
  IN  /\ Goto(t, "up_check", "idle")
      /\ \/ /\ w.readers > 1
            /\ Cancel(t)
            /\ UNCHANGED <<wordVars, heldVars>>
         \/ /\ w.readers <= 1
            /\ TakeUpgrade(t, cur[t], [w EXCEPT !.owner = t, !.readers = 0,
                                                !.spinner = FALSE])
            /\ IF HasWaiters(w) THEN Claim(t) ELSE Cancel(t)
      /\ Return(t)

\* The writer becomes the only reader.
TakeDowngrade(t, l, w) ==
  /\ SetWord(l, w)
  /\ td_rw_rlocks' = [td_rw_rlocks EXCEPT ![t] = @ + 1]
  /\ AddRead(t, l)
  /\ wheld' = [wheld EXCEPT ![l][t] = 0]
  /\ UNCHANGED rw_recurse

RwDowngrade(t, l) ==
  /\ wheld[l][t] = 1
  /\ \/ /\ rw_lock[l] = Owned(t)
        /\ Goto(t, "idle", "idle")
        /\ TakeDowngrade(t, l, RW_READERS_LOCK(1))
        /\ UNCHANGED localVars
     \/ /\ rw_lock[l] # Owned(t)
        /\ Goto(t, "idle", "downgrade")
        /\ Call(t, l, TS_SHARED_QUEUE)
        /\ UNCHANGED <<wordVars, heldVars>>
  /\ UNCHANGED turnstileVars

\* The waiter bits are read under the chain lock; the bit of the readers is
\* dropped when they are going to be woken.
Downgrade(t) ==
  LET w == rw_lock[cur[t]]
  IN  /\ Goto(t, "downgrade", "down_store")
      /\ turnstile_chain_lock(t, cur[t])
      /\ \E ts \in Turnstiles :
           /\ turnstile_lookup(t, cur[t], ts)
           /\ lts' = [lts EXCEPT ![t] = ts]
      /\ v' = [v EXCEPT ![t] =
                 [RW_READERS_LOCK(1) EXCEPT
                    !.write_waiters = w.write_waiters,
                    !.read_waiters = w.read_waiters /\ w.write_waiters]]
      /\ UNCHANGED <<tc_turnstiles, queueVars, td_state, priVars,
                     wordVars, cur, queue, heldVars>>

\* Store the word; then wake the readers, or leave the turnstile to the writers
\* that wait.
DownStore(t) ==
  /\ pc[t] = "down_store"
  /\ TakeDowngrade(t, cur[t], v[t])
  /\ \/ /\ ~v[t].write_waiters
        /\ Goto(t, "down_store", "unpend")
        /\ turnstile_broadcast(cur[t], lts[t], TS_SHARED_QUEUE)
        /\ UNCHANGED <<tc_lock, ts_lock, ts_lockobj, ts_owner, td_blocked,
                       td_state, priVars, localVars>>
     \/ /\ v[t].write_waiters
        /\ Goto(t, "down_store", "idle")
        /\ turnstile_disown(t, lts[t])
        /\ turnstile_chain_unlock(cur[t])
        /\ Return(t)
        /\ UNCHANGED <<tc_turnstiles, ts_lockobj, ts_blocked, ts_pending,
                       ts_free, td_turnstile, td_blocked, td_state,
                       td_base_pri, prop>>

-----------------------------------------------------------------------------
(***************************************************************************)
(* Life cycle and the scheduler.                                           *)
(***************************************************************************)

\* rw_destroy() of a lock that nobody holds or is about to use.
RwDestroy(t, l) ==
  /\ Goto(t, "idle", "idle")
  /\ rw_lock[l] = RW_UNLOCKED
  /\ \A u \in Thread : cur[u] # l
  /\ SetWord(l, RW_DESTROYED)
  /\ UNCHANGED <<turnstileVars, rw_recurse, localVars, heldVars>>

RwInit(t, l) ==
  /\ Goto(t, "idle", "idle")
  /\ rw_lock[l] = RW_DESTROYED
  /\ SetWord(l, RW_UNLOCKED)
  /\ rw_recurse' = [rw_recurse EXCEPT ![l] = 0]
  /\ UNCHANGED <<turnstileVars, localVars, heldVars>>

\* A thread that holds no spin lock may lose the processor at any time.
Preempt(t) ==
  /\ TD_IS_RUNNING(t)
  /\ pc[t] \notin Chained \cup {"propagate"}
  /\ td_state' = [td_state EXCEPT ![t] = "runq"]
  /\ UNCHANGED <<chainVars, ts_lock, queueVars, priVars, wordVars, pc,
                 localVars, heldVars>>

Dispatch(t) ==
  /\ td_state[t] = "runq"
  /\ td_state' = [td_state EXCEPT ![t] = "running"]
  /\ UNCHANGED <<chainVars, ts_lock, queueVars, priVars, wordVars, pc,
                 localVars, heldVars>>

Step(t) ==
  \/ Rlock(t) \/ Wlock(t) \/ WspinEnd(t) \/ Trywait(t) \/ Check(t)
  \/ ContestFree(t) \/ ContestHeld(t) \/ ContestChanged(t) \/ Wait(t)
  \/ Propagate(t) \/ Woken(t) \/ Runlock(t) \/ RunlockChain(t) \/ Wake(t)
  \/ Unpend(t) \/ Wunlock(t) \/ Release(t) \/ UpgradeCheck(t)
  \/ Downgrade(t) \/ DownStore(t)

Client(t) ==
  \E l \in Rwlock :
    \/ RwRlock(t, l) \/ RwTryRlock(t, l) \/ RwRunlock(t, l)
    \/ RwWlock(t, l) \/ RwTryWlock(t, l) \/ RwWunlock(t, l)
    \/ RwTryUpgrade(t, l) \/ RwDowngrade(t, l)
    \/ RwDestroy(t, l) \/ RwInit(t, l)

Next ==
  \E t \in Thread : Step(t) \/ Client(t) \/ Preempt(t) \/ Dispatch(t)

Spec == Init /\ [][Next]_vars

-----------------------------------------------------------------------------
TypeOK ==
  /\ rw_lock \in [Rwlock -> Word]
  /\ rw_recurse \in [Rwlock -> Nat]
  /\ td_rw_rlocks \in [Thread -> Nat]
  /\ pc \in [Thread -> Points]
  /\ cur \in [Thread -> Rwlock \cup {NULL}]
  /\ queue \in [Thread -> Queue]
  /\ v \in [Thread -> Word]
  /\ lts \in [Thread -> Turnstiles \cup {NULL}]
  /\ rheld \in [Rwlock -> SUBSET (Thread \X (1..MaxRead))]
  /\ wheld \in [Rwlock -> [Thread -> Nat]]

\* The lock word accounts for every holder: it counts the read locks that
\* clients have, names the one writer, and rw_recurse counts its further
\* acquisitions, whatever mix of fast paths, plain stores, upgrades and
\* downgrades led there.
HoldersAccounted ==
  /\ TypeOK
  /\ \A l \in Rwlock :
       /\ rw_lock[l].readers = Cardinality(rheld[l])
       /\ \A t \in Thread :
            IF rw_wowner(l) = t THEN wheld[l][t] = rw_recurse[l] + 1
            ELSE wheld[l][t] = 0

\* MPASS(owner == ts->ts_owner) in turnstile_wait(): while nobody has the chain
\* locked, the turnstile of a lock belongs to its writer, or to nobody when the
\* lock is read or free, so that priority is lent to the right thread.
TurnstileOfWriter ==
  \A l \in Rwlock : tc_lock[TC_HASH[l]] = NULL =>
    \A ts \in Attached(l) : ts_owner[ts] = rw_wowner(l)

\* While nobody has the chain locked, a waiter bit is set exactly when threads
\* wait in the corresponding queue of the lock's turnstile.  This is what the
\* MPASS(ts != NULL) of rw_runlock(), rw_wunlock() and rw_downgrade() and the
\* MPASS(ts != curthread->td_turnstile) of turnstile_claim() rest on; and the
\* turnstile records the writer that these waiters wait for.
WaiterBitsExact ==
  /\ TurnstileTypeOK
  /\ TurnstileOfWriter
  /\ \A l \in Rwlock : tc_lock[TC_HASH[l]] = NULL =>
       LET Waiting(q) == \E ts \in Attached(l) : ts_blocked[ts][q] # <<>>
       IN  /\ rw_lock[l].read_waiters <=> Waiting(TS_SHARED_QUEUE)
           /\ rw_lock[l].write_waiters <=> Waiting(TS_EXCLUSIVE_QUEUE)

\* A blocked thread is never left behind on a free lock: either somebody holds
\* the lock, and will find the waiter bits when it lets go, or a thread that was
\* woken, or that is about to wake others, is still on its way.
NoStrandedWaiter ==
  \A t \in Thread : TD_ON_LOCK(t) /\ IsFree(rw_lock[cur[t]]) =>
    \E u \in Thread : cur[u] = cur[t] /\ ~TD_ON_LOCK(u)

\* "to prevent deadlock from reader recursion": a thread that has a read lock
\* never blocks to read the same lock again, whoever waits to write.
NoReaderDeadlock ==
  \A t \in Thread : TD_ON_LOCK(t) => ReadsOf(t, cur[t]) = {}

\* The writer is at least as important as the first thread it keeps waiting,
\* unless a walk of propagate_priority() is about to raise it; a thread that
\* takes over a lock with waiters is no exception.
WriterPriorityLent ==
  \A ts \in Turnstiles :
    LET w == turnstile_first_waiter(ts)
        o == ts_owner[ts]
    IN  (w # NULL /\ o # NULL) =>
          \/ td_priority[o] <= td_priority[w]
          \/ \E u \in Thread : prop[u] # NULL /\ prop[u].cur = ts

AbstractWriter ==
  [l \in Rwlock |-> IF rw_wowner(l) = DESTROYED THEN NULL ELSE rw_wowner(l)]
AbstractReaders == [l \in Rwlock |-> rw_lock[l].readers]

Abstract == INSTANCE AbstractRwlock
              WITH writer <- AbstractWriter, depth <- rw_recurse,
                   readers <- AbstractReaders

\* The lock word and rw_recurse implement the abstract reader/writer lock.
ImplementsRwlock == Abstract!Spec
=============================================================================
