------------------------------ MODULE KernMutex ------------------------------
(***************************************************************************)
(* Sleep mutexes (MTX_DEF) of sys/kern/kern_mutex.c and sys/sys/mutex.h on *)
(* an SMP kernel with INVARIANTS and adaptive mutexes, on top of the       *)
(* turnstiles of module Turnstile.                                         *)
(*                                                                         *)
(* Every atomic access to a lock word is a step of its own, so that steps  *)
(* of other threads fall between the read of the word, the test whether    *)
(* the owner runs, and the compare-and-set that marks the mutex contested. *)
(* Lines that touch only what the thread has locked are folded into the    *)
(* step before or after them.                                              *)
(***************************************************************************)
EXTENDS Turnstile, FiniteSets

CONSTANTS
  Recursable,  \* the mutexes initialised with MTX_RECURSE
  Destroyable, \* the mutexes that clients destroy and initialise again
  Rank,        \* [Lock -> Nat], the order in which clients take mutexes
  BasePri,     \* [Thread -> 0..PRI_MAX], initial priorities
  NewPri,      \* priorities clients set with sched_prio()
  MaxHold      \* [Thread -> [Mutex -> Nat]], bound on the acquisitions of a mutex
               \* by a thread; 0 when the thread does not use the mutex

Mutex == Lock

DESTROYED == "destroyed"

ASSUME MutexAssumption ==
  /\ Recursable \subseteq Mutex
  /\ Destroyable \subseteq Mutex
  /\ Rank \in [Mutex -> Nat]
  /\ BasePri \in [Thread -> Priority]
  /\ NewPri \subseteq Priority
  /\ MaxHold \in [Thread -> [Mutex -> Nat]]
  /\ DESTROYED \notin Thread \cup {NULL}

VARIABLES
  mtx_lock,     \* [Mutex -> Word], the lock word
  mtx_recurse,  \* [Mutex -> Nat]
  pc,           \* [Thread -> control point]
  cur,          \* [Thread -> Mutex or NULL], argument of the call in progress
  v,            \* [Thread -> Word], the local copy of the lock word
  lts,          \* [Thread -> turnstile or NULL], the local variable ts
  hold          \* [Thread -> [Mutex -> Nat]], acquisitions not yet given back;
                \* kept by the clients, no code reads it

mutexVars == <<mtx_lock, mtx_recurse>>
localVars == <<cur, v, lts>>
vars == <<turnstileVars, mutexVars, pc, localVars, hold>>

-----------------------------------------------------------------------------
Word == [owner : Thread \cup {NULL, DESTROYED},
         contested : BOOLEAN, recursed : BOOLEAN]

Owned(t) == [owner |-> t, contested |-> FALSE, recursed |-> FALSE]
MTX_UNOWNED   == Owned(NULL)
MTX_DESTROYED == Owned(DESTROYED)

mtx_owner(m)    == mtx_lock[m].owner
mtx_owned(t, m) == mtx_owner(m) = t

\* Variant: off by one.
mtx_recursed_high(m) == mtx_recurse[m] > 1

mtx_recursed(m) == mtx_recurse[m] # 0

\* Control points.  A thread at a Chained point holds the lock of the chain of
\* cur; at a Locked point it also holds the lock of the turnstile lts.
Locked  == {"check", "check_running", "contest", "wait", "block",
            "release", "unpend"}
Chained == Locked \cup {"trywait", "lookup"}
Points  == Chained \cup {"idle", "obtain", "adaptive", "spin", "chain", "propagate",
                         "blocked", "unlock_sleep", "unlock_chain"}

Init ==
  /\ TurnstileInit(BasePri)
  /\ mtx_lock = [m \in Mutex |-> MTX_UNOWNED]
  /\ mtx_recurse = [m \in Mutex |-> 0]
  /\ pc = [t \in Thread |-> "idle"]
  /\ cur = [t \in Thread |-> NULL]
  /\ v = [t \in Thread |-> MTX_UNOWNED]
  /\ lts = [t \in Thread |-> NULL]
  /\ hold = [t \in Thread |-> [m \in Mutex |-> 0]]

\* Thread t, which has the processor, goes from one control point to another.
Goto(t, from, to) ==
  /\ TD_IS_RUNNING(t)
  /\ pc[t] = from
  /\ pc' = [pc EXCEPT ![t] = to]

\* The call in progress returns: its locals go out of scope.
Return(t) ==
  /\ cur' = [cur EXCEPT ![t] = NULL]
  /\ v' = [v EXCEPT ![t] = MTX_UNOWNED]
  /\ lts' = [lts EXCEPT ![t] = NULL]

Hold(t, m)   == hold' = [hold EXCEPT ![t][m] = @ + 1]
Unhold(t, m) == hold' = [hold EXCEPT ![t][m] = @ - 1]

-----------------------------------------------------------------------------
(***************************************************************************)
(* Lock word micro-operations.                                             *)
(***************************************************************************)
_obtain_lock(t, m) ==
  /\ mtx_lock[m] = MTX_UNOWNED
  /\ mtx_lock' = [mtx_lock EXCEPT ![m] = Owned(t)]

\* Variant: the flag bits of the word are not compared.
_release_lock_owner(t, m) ==
  /\ mtx_owned(t, m)
  /\ mtx_lock' = [mtx_lock EXCEPT ![m] = MTX_UNOWNED]

_release_lock(t, m) ==
  /\ mtx_lock[m] = Owned(t)
  /\ mtx_lock' = [mtx_lock EXCEPT ![m] = MTX_UNOWNED]

_release_lock_quick(m) == mtx_lock' = [mtx_lock EXCEPT ![m] = MTX_UNOWNED]

\* Variant: the bit MTX_RECURSED is not set.
Recurse_unmarked(m) ==
  /\ mtx_recurse' = [mtx_recurse EXCEPT ![m] = @ + 1]
  /\ UNCHANGED mtx_lock

\* The owner takes the mutex once more.
Recurse(m) ==
  /\ mtx_recurse' = [mtx_recurse EXCEPT ![m] = @ + 1]
  /\ mtx_lock' = [mtx_lock EXCEPT ![m].recursed = TRUE]

-----------------------------------------------------------------------------
(***************************************************************************)
(* mtx_lock().                                                             *)
(***************************************************************************)

\* What a client may ask for: witness(4) order, or recursion on a mutex that
\* allows it.
MayLock(t, m) ==
  /\ mtx_owner(m) # DESTROYED
  /\ hold[t][m] < MaxHold[t][m]
  /\ \/ hold[t][m] > 0 /\ m \in Recursable
     \/ \A n \in Mutex : hold[t][n] > 0 => Rank[n] < Rank[m]

\* _get_sleep_lock() and the head of _mtx_lock_sleep(): the fast path takes a
\* free mutex, the owner recurses, and anyone else goes to the loop.
MtxLock(t, m) ==
  /\ MayLock(t, m)
  /\ \/ /\ _obtain_lock(t, m)
        /\ Goto(t, "idle", "idle")
        /\ Hold(t, m)
        /\ UNCHANGED <<mtx_recurse, localVars>>
     \/ /\ mtx_owned(t, m)
        /\ Recurse(m)
        /\ Goto(t, "idle", "idle")
        /\ Hold(t, m)
        /\ UNCHANGED localVars
     \/ /\ mtx_lock[m] # MTX_UNOWNED
        /\ ~mtx_owned(t, m)
        /\ Goto(t, "idle", "obtain")
        /\ cur' = [cur EXCEPT ![t] = m]
        /\ UNCHANGED <<mutexVars, v, lts, hold>>
  /\ UNCHANGED turnstileVars

\* _mtx_trylock(): recursion when the mutex allows it, otherwise one attempt.
MtxTrylock(t, m) ==
  /\ mtx_owner(m) # DESTROYED
  /\ hold[t][m] < MaxHold[t][m]
  /\ Goto(t, "idle", "idle")
  /\ \/ /\ mtx_owned(t, m) /\ m \in Recursable
        /\ Recurse(m)
        /\ Hold(t, m)
     \/ /\ ~(mtx_owned(t, m) /\ m \in Recursable)
        /\ _obtain_lock(t, m)
        /\ Hold(t, m)
        /\ UNCHANGED mtx_recurse
  /\ UNCHANGED <<turnstileVars, localVars>>

\* The loop condition of _mtx_lock_sleep().
Obtain(t) ==
  /\ \/ /\ Goto(t, "obtain", "idle")
        /\ _obtain_lock(t, cur[t])
        /\ Return(t)
        /\ Hold(t, cur[t])
     \/ /\ Goto(t, "obtain", "adaptive")
        /\ mtx_lock[cur[t]] # MTX_UNOWNED
        /\ UNCHANGED <<mtx_lock, localVars, hold>>
  /\ UNCHANGED <<turnstileVars, mtx_recurse>>

\* A lock word whose owner runs on another processor.
OwnerRuns(w) == w.owner \in Thread /\ TD_IS_RUNNING(w.owner)

\* Adaptive spinning: remember the owner that runs, or go for the turnstile.
Adaptive(t) ==
  /\ \/ /\ Goto(t, "adaptive", "spin")
        /\ OwnerRuns(mtx_lock[cur[t]])
        /\ v' = [v EXCEPT ![t] = mtx_lock[cur[t]]]
     \/ /\ Goto(t, "adaptive", "chain")
        /\ ~OwnerRuns(mtx_lock[cur[t]])
        /\ UNCHANGED v
  /\ UNCHANGED <<turnstileVars, mutexVars, cur, lts, hold>>

Spin(t) ==
  /\ Goto(t, "spin", "obtain")
  /\ \/ mtx_owner(cur[t]) # v[t].owner
     \/ ~TD_IS_RUNNING(v[t].owner)
  /\ v' = [v EXCEPT ![t] = MTX_UNOWNED]
  /\ UNCHANGED <<turnstileVars, mutexVars, cur, lts, hold>>

\* turnstile_trywait(), in two steps: the chain lock, then the turnstile.
TrywaitChain(t) ==
  /\ Goto(t, "chain", "trywait")
  /\ turnstile_chain_lock(t, cur[t])
  /\ UNCHANGED <<tc_turnstiles, ts_lock, queueVars, td_state, priVars,
                 mutexVars, localVars, hold>>

Trywait(t) ==
  /\ Goto(t, "trywait", "check")
  /\ \E ts \in Turnstiles :
       /\ turnstile_trywait(t, cur[t], ts)
       /\ lts' = [lts EXCEPT ![t] = ts]
  /\ UNCHANGED <<chainVars, ts_owner, ts_blocked, ts_pending, ts_free,
                 td_turnstile, td_blocked, td_state, priVars,
                 mutexVars, cur, v, hold>>

\* turnstile_cancel() and back to the head of the loop.
CancelWait(t, from) ==
  /\ Goto(t, from, "obtain")
  /\ turnstile_cancel(t, cur[t], lts[t])
  /\ v' = [v EXCEPT ![t] = MTX_UNOWNED]
  /\ lts' = [lts EXCEPT ![t] = NULL]
  /\ UNCHANGED <<tc_turnstiles, ts_owner, ts_blocked, ts_pending, ts_free,
                 td_turnstile, td_blocked, td_state, priVars,
                 mutexVars, cur, hold>>

\* The lock word is read again under the chain lock.
Check(t) ==
  /\ pc[t] = "check"
  /\ \/ mtx_lock[cur[t]] = MTX_UNOWNED /\ CancelWait(t, "check")
     \/ /\ mtx_lock[cur[t]] # MTX_UNOWNED
        /\ Goto(t, "check", "check_running")
        /\ v' = [v EXCEPT ![t] = mtx_lock[cur[t]]]
        /\ UNCHANGED <<turnstileVars, mutexVars, cur, lts, hold>>

CheckRunning(t) ==
  \/ OwnerRuns(v[t]) /\ CancelWait(t, "check_running")
  \/ /\ ~OwnerRuns(v[t])
     /\ Goto(t, "check_running", "contest")
     /\ UNCHANGED <<turnstileVars, mutexVars, localVars, hold>>

\* Mark the mutex contested unless the copy of the word says it already is; a
\* word that changed since it was read makes the thread start over.
Contest(t) ==
  \/ /\ Goto(t, "contest", "wait")
     /\ v[t].contested
     /\ UNCHANGED <<turnstileVars, mutexVars, localVars, hold>>
  \/ /\ Goto(t, "contest", "wait")
     /\ ~v[t].contested
     /\ mtx_lock[cur[t]] = v[t]
     /\ mtx_lock' = [mtx_lock EXCEPT ![cur[t]].contested = TRUE]
     /\ UNCHANGED <<turnstileVars, mtx_recurse, localVars, hold>>
  \/ /\ pc[t] = "contest"
     /\ ~v[t].contested
     /\ mtx_lock[cur[t]] # v[t]
     /\ CancelWait(t, "contest")

\* turnstile_wait(), in three parts: Wait, Block and the steps of Propagate.
Wait(t) ==
  /\ Goto(t, "wait", "block")
  /\ turnstile_wait_enqueue(t, cur[t], lts[t], mtx_owner(cur[t]),
                            TS_EXCLUSIVE_QUEUE)
  /\ UNCHANGED <<tc_lock, ts_lock, ts_lockobj, ts_pending, td_turnstile,
                 td_blocked, td_state, priVars, mutexVars, localVars, hold>>

Block(t) ==
  /\ Goto(t, "block", "propagate")
  /\ turnstile_wait_block(t, cur[t], lts[t])
  /\ v' = [v EXCEPT ![t] = MTX_UNOWNED]
  /\ lts' = [lts EXCEPT ![t] = NULL]
  /\ UNCHANGED <<tc_turnstiles, ts_lock, ts_lockobj, ts_owner, ts_blocked,
                 ts_pending, ts_free, td_priority, td_base_pri, td_borrowing,
                 mutexVars, cur, hold>>

\* One iteration of propagate_priority().  A thread that blocks then switches
\* away; one that called sched_prio() returns.
Propagate(t) ==
  /\ pc[t] = "propagate"
  /\ propagate_priority(t)
  /\ pc' = [pc EXCEPT ![t] = IF prop'[t] # NULL THEN "propagate"
                             ELSE IF cur[t] # NULL THEN "blocked" ELSE "idle"]
  /\ UNCHANGED <<mutexVars, localVars, hold>>

\* turnstile_wait() returns in a thread that was woken.
Woken(t) ==
  /\ Goto(t, "blocked", "obtain")
  /\ UNCHANGED <<turnstileVars, mutexVars, localVars, hold>>

-----------------------------------------------------------------------------
(***************************************************************************)
(* mtx_unlock().                                                           *)
(***************************************************************************)

\* _rel_sleep_lock(): a mutex that is neither recursed nor contested is
\* released by one compare-and-set.
MtxUnlock(t, m) ==
  /\ hold[t][m] > 0
  /\ Unhold(t, m)
  /\ \/ /\ _release_lock(t, m)
        /\ Goto(t, "idle", "idle")
        /\ UNCHANGED localVars
     \/ /\ mtx_lock[m] # Owned(t)
        /\ Goto(t, "idle", "unlock_sleep")
        /\ cur' = [cur EXCEPT ![t] = m]
        /\ UNCHANGED <<mtx_lock, v, lts>>
  /\ UNCHANGED <<turnstileVars, mtx_recurse>>

\* _mtx_unlock_sleep(): give back one level of recursion, or go on to wake the
\* waiters.
UnlockSleep(t) ==
  LET m == cur[t]
  IN  /\ pc[t] = "unlock_sleep"
      /\ \/ /\ mtx_recursed(m)
            /\ mtx_recurse' = [mtx_recurse EXCEPT ![m] = @ - 1]
            /\ mtx_lock' = IF mtx_recurse[m] = 1
                           THEN [mtx_lock EXCEPT ![m].recursed = FALSE]
                           ELSE mtx_lock
            /\ Goto(t, "unlock_sleep", "idle")
            /\ Return(t)
         \/ /\ ~mtx_recursed(m)
            /\ Goto(t, "unlock_sleep", "unlock_chain")
            /\ UNCHANGED <<mutexVars, localVars>>
      /\ UNCHANGED <<turnstileVars, hold>>

UnlockChain(t) ==
  /\ Goto(t, "unlock_chain", "lookup")
  /\ turnstile_chain_lock(t, cur[t])
  /\ UNCHANGED <<tc_turnstiles, ts_lock, queueVars, td_state, priVars,
                 mutexVars, localVars, hold>>

\* turnstile_lookup() and turnstile_broadcast().
Broadcast(t) ==
  /\ Goto(t, "lookup", "release")
  /\ \E ts \in Turnstiles :
       /\ turnstile_lookup(t, cur[t], ts)
       /\ turnstile_broadcast(cur[t], ts, TS_EXCLUSIVE_QUEUE)
       /\ lts' = [lts EXCEPT ![t] = ts]
  /\ UNCHANGED <<tc_lock, ts_lockobj, ts_owner, td_blocked, td_state, priVars,
                 mutexVars, cur, v, hold>>

Release(t) ==
  /\ Goto(t, "release", "unpend")
  /\ _release_lock_quick(cur[t])
  /\ UNCHANGED <<turnstileVars, mtx_recurse, localVars, hold>>

\* turnstile_unpend() and turnstile_chain_unlock().
Unpend(t) ==
  /\ Goto(t, "unpend", "idle")
  /\ turnstile_unpend(t, lts[t])
  /\ turnstile_chain_unlock(cur[t])
  /\ Return(t)
  /\ UNCHANGED <<tc_turnstiles, ts_blocked, ts_free, td_turnstile, td_base_pri,
                 prop, mutexVars, hold>>

-----------------------------------------------------------------------------
(***************************************************************************)
(* Life cycle, priorities and the scheduler.                               *)
(***************************************************************************)

\* mtx_destroy() of a mutex that no other thread uses any more, by its owner or
\* when nobody owns it.  A thread that has stored MTX_UNOWNED in mtx_unlock() has
\* finished with the mutex as far as a client can tell, so it does not count.
MtxDestroy(t, m) ==
  /\ m \in Destroyable
  /\ \A u \in Thread \ {t} : cur[u] = m => pc[u] = "unpend"
  /\ Goto(t, "idle", "idle")
  /\ \/ hold[t][m] = 1 /\ Unhold(t, m)
     \/ mtx_lock[m] = MTX_UNOWNED /\ UNCHANGED hold
  /\ mtx_lock' = [mtx_lock EXCEPT ![m] = MTX_DESTROYED]
  /\ UNCHANGED <<turnstileVars, mtx_recurse, localVars>>

\* mtx_init() of a new mutex at the same address.
MtxInit(t, m) ==
  /\ mtx_lock[m] = MTX_DESTROYED
  /\ Goto(t, "idle", "idle")
  /\ mtx_lock' = [mtx_lock EXCEPT ![m] = MTX_UNOWNED]
  /\ mtx_recurse' = [mtx_recurse EXCEPT ![m] = 0]
  /\ UNCHANGED <<turnstileVars, localVars, hold>>

\* A client makes a thread more important.
SchedPrio(t, td, prio) ==
  /\ prio < td_base_pri[td]
  /\ TD_IS_RUNNING(t)
  /\ pc[t] = "idle"
  /\ sched_prio(t, td, prio)
  /\ pc' = [pc EXCEPT ![t] = IF prop'[t] # NULL THEN "propagate" ELSE "idle"]
  /\ UNCHANGED <<mutexVars, localVars, hold>>

\* A thread that holds no spin lock may lose the processor at any time.
Preempt(t) ==
  /\ TD_IS_RUNNING(t)
  /\ pc[t] \notin Chained \cup {"propagate"}
  /\ td_state' = [td_state EXCEPT ![t] = "runq"]
  /\ UNCHANGED <<chainVars, ts_lock, queueVars, priVars, mutexVars, pc,
                 localVars, hold>>

Dispatch(t) ==
  /\ td_state[t] = "runq"
  /\ td_state' = [td_state EXCEPT ![t] = "running"]
  /\ UNCHANGED <<chainVars, ts_lock, queueVars, priVars, mutexVars, pc,
                 localVars, hold>>

-----------------------------------------------------------------------------
\* The steps of a call of mtx_lock() or mtx_unlock() in progress.
Step(t) ==
  \/ Obtain(t) \/ Adaptive(t) \/ Spin(t) \/ TrywaitChain(t) \/ Trywait(t)
  \/ Check(t) \/ CheckRunning(t) \/ Contest(t) \/ Wait(t) \/ Block(t)
  \/ Propagate(t)
  \/ Woken(t) \/ UnlockSleep(t) \/ UnlockChain(t) \/ Broadcast(t)
  \/ Release(t) \/ Unpend(t)

Client(t) ==
  \E m \in Mutex : \/ MtxLock(t, m) \/ MtxTrylock(t, m) \/ MtxUnlock(t, m)
                   \/ MtxDestroy(t, m) \/ MtxInit(t, m)

Next ==
  \E t \in Thread :
    \/ Step(t)
    \/ Client(t)
    \/ \E td \in Thread, prio \in NewPri : SchedPrio(t, td, prio)
    \/ Preempt(t)
    \/ Dispatch(t)

Spec == Init /\ [][Next]_vars

\* The scheduler gives every runnable thread a processor again and again, spin
\* locks are handed to a thread that keeps trying, and clients give back what
\* they hold.  Nothing is assumed about a client starting a call.
FairSpec ==
  /\ Spec
  /\ \A t \in Thread : /\ SF_vars(Step(t))
                       /\ \A m \in Mutex : SF_vars(MtxUnlock(t, m))
                       /\ WF_vars(Dispatch(t))

-----------------------------------------------------------------------------
\* The lock words, the calls in progress and the clients' accounts.
WordTypeOK ==
  /\ mtx_lock \in [Mutex -> Word]
  /\ mtx_recurse \in [Mutex -> Nat]
  /\ pc \in [Thread -> Points]
  /\ cur \in [Thread -> Mutex \cup {NULL}]
  /\ v \in [Thread -> Word]
  /\ hold \in [Thread -> [Mutex -> Nat]]

\* Types of all variables; in particular mtx_recurse, an unsigned count that
\* mtx_unlock() decrements, never goes below zero.
TypeOK ==
  /\ TurnstileTypeOK
  /\ WordTypeOK
  /\ lts \in [Thread -> Turnstiles \cup {NULL}]

\* At most one thread holds a mutex, and it is the one the lock word names:
\* mtx_lock() by compare-and-set, mtx_unlock() by a plain store on the slow
\* path, contention marked by other threads in between.
MutualExclusion ==
  \A t \in Thread, m \in Mutex : hold[t][m] > 0 => mtx_owner(m) = t

\* A call of mtx_unlock() in progress that has not given anything back yet.
Unlocking(t, m) ==
  cur[t] = m /\ pc[t] \in {"unlock_sleep", "unlock_chain", "lookup", "release"}

\* mtx_recurse counts the acquisitions of the owner beyond the first, and the
\* MTX_RECURSED bit says exactly when there are any, so that the fast path of
\* mtx_unlock() never frees a mutex that is held more than once.
RecursionAccounted ==
  \A m \in Mutex :
    /\ mtx_lock[m].recursed <=> mtx_recursed(m)
    /\ \A t \in Thread : mtx_owner(m) = t =>
         mtx_recurse[m] + 1 = hold[t][m] + (IF Unlocking(t, m) THEN 1 ELSE 0)

\* No lost wakeup: a thread that is blocked either waits in the turnstile that
\* the unlock path will find, of a mutex whose word is marked contested and
\* names the turnstile's owner, so that mtx_unlock() cannot take the fast path;
\* or it is on a pending list that some thread is about to make runnable.
NoLostWakeup ==
  \A t \in Thread : TD_ON_LOCK(t) =>
    LET m  == cur[t]
        ts == td_blocked[t]
    IN  \/ /\ t \in Waiters(ts)
           /\ ts \in Attached(m)
           /\ mtx_lock[m].contested
           /\ mtx_owner(m) = ts_owner[ts]
        \/ /\ t \in ToSet(ts_pending[ts])
           /\ \E u \in Thread : pc[u] \in {"release", "unpend"} /\ lts[u] = ts

\* A waiter about to join a turnstile, MPASS(owner == ts->ts_owner) in
\* turnstile_wait() and MPASS(v != MTX_CONTESTED) in _mtx_lock_sleep().
OwnerOfRecord ==
  \A t \in Thread : pc[t] = "wait" =>
    /\ mtx_owner(cur[t]) \in Thread \ {t}
    /\ mtx_lock[cur[t]].contested
    /\ lts[t] # td_turnstile[t] => ts_owner[lts[t]] = mtx_owner(cur[t])

\* Waiters and owners agree on the turnstile: the owner a waiter found in the
\* lock word still owns the mutex when the waiter joins the turnstile, and an
\* owner that has the chain lock finds one turnstile, which records it as the
\* owner (MPASS(ts != NULL) in _mtx_unlock_sleep()).
UnlockFindsTurnstile ==
  /\ OwnerOfRecord
  /\ \A t \in Thread : pc[t] = "lookup" =>
       \E ts \in Turnstiles : Attached(cur[t]) = {ts} /\ ts_owner[ts] = t

\* Where turnstile ts is: with a thread, unless turnstile_wait() has given it away
\* already, in the hash table, or on the free list of a turnstile.
Places(ts) ==
  {<<"thread", t>> : t \in {u \in Thread : td_turnstile[u] = ts /\ pc[u] # "block"}}
    \cup {<<"chain", c>> : c \in {k \in Chain : ts \in tc_turnstiles[k]}}
    \cup UNION {{<<"free", x, i>> : i \in {j \in DOMAIN ts_free[x] :
                                            ts_free[x][j] = ts}} : x \in Turnstiles}

\* The turnstile that a thread brings to a lock, the KASSERTs of
\* turnstile_trywait() and turnstile_wait().
SpareTurnstileClean ==
  \A t \in Thread : pc[t] \in {"obtain", "chain", "trywait"} =>
    LET ts == td_turnstile[t]
    IN  /\ ts # NULL
        /\ ts_lockobj[ts] = NULL /\ ts_owner[ts] = NULL
        /\ Waiters(ts) = {} /\ ts_pending[ts] = <<>> /\ ts_free[ts] = <<>>

\* Turnstiles are neither lost nor shared: each is in one place, whatever order
\* the waiters of a lock arrive in and are given turnstiles back, and the one a
\* thread brings to a lock is clean.
TurnstileConservation ==
  /\ TypeOK
  /\ \A ts \in Turnstiles : Cardinality(Places(ts)) = 1
  /\ SpareTurnstileClean

\* No unbounded priority inversion: the owner of a contested mutex is at least
\* as important as the first waiter, unless that waiter is still on its way
\* into the queue or a walk of propagate_priority() is about to raise the owner.
PriorityLent ==
  \A ts \in Turnstiles :
    LET w == turnstile_first_waiter(ts)
        o == ts_owner[ts]
    IN  (w # NULL /\ o # NULL) =>
          \/ td_priority[o] <= td_priority[w]
          \/ pc[w] = "block"
          \/ \E u \in Thread : /\ prop[u] # NULL
                               /\ prop[u].cur = ts
                               /\ prop[u].pri <= td_priority[w]

\* The abstract mutex: a destroyed mutex is one that nobody owns.
AbstractOwner ==
  [m \in Mutex |-> IF mtx_owner(m) = DESTROYED THEN NULL ELSE mtx_owner(m)]
AbstractDepth ==
  [m \in Mutex |-> IF mtx_owner(m) \in Thread THEN mtx_recurse[m] + 1 ELSE 0]

Abstract == INSTANCE AbstractMutex
              WITH owner <- AbstractOwner, depth <- AbstractDepth

\* The lock word and mtx_recurse, changed by fast paths, slow paths and other
\* threads' contention marks, implement the abstract mutex.
ImplementsMutex == Abstract!Spec

\* The mutex that t waits for is owned by a thread that itself waits for another.
OwnerWaits(t) ==
  \E o \in Thread : /\ TD_ON_LOCK(t) /\ mtx_owned(o, cur[t])
                   /\ pc[o] # "idle" /\ ~Unlocking(o, cur[t])

\* A thread that blocks is woken up, whatever the others do, as long as owners
\* release: the wakeup is neither lost nor left on a pending list for ever.
\* Mutexes are not fair, so the only excuse is an owner that is kept for ever
\* from another mutex.
BlockedIsWoken ==
  \A t \in Thread : ([]<>~OwnerWaits(t)) => []<>~TD_ON_LOCK(t)
=============================================================================
