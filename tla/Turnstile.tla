------------------------------ MODULE Turnstile ------------------------------
(***************************************************************************)
(* The turnstiles of sys/kern/subr_turnstile.c: the queues of threads that *)
(* block on non-sleepable locks, kept outside the locks in a hash table.   *)
(* This module has the turnstile state and one operator per function; the  *)
(* lock modules that extend it build their actions from these operators.   *)
(*                                                                         *)
(* A turnstile is named by the thread turnstile_alloc() made it for, so    *)
(* the set of turnstiles is Thread; td_turnstile says who has it now.      *)
(* Spin mutexes (tc_lock, ts_lock) are variables holding their owner; the  *)
(* leaf lock td_contested_lock never nests around another lock and is      *)
(* folded into the step that takes it.  Priorities are numbers and, as in  *)
(* the kernel, a SMALLER number is a more important priority.              *)
(***************************************************************************)
EXTENDS Integers, Sequences, SequencesExt, FiniteSetsExt

CONSTANTS
  Thread,    \* threads
  Lock,      \* lock objects
  Chain,     \* buckets of the turnstile hash table
  TC_HASH,   \* [Lock -> Chain], the bucket of a lock
  PRI_MAX,   \* the least important priority
  NULL

ASSUME TurnstileAssumption ==
  /\ TC_HASH \in [Lock -> Chain]
  /\ NULL \notin Thread /\ NULL \notin Lock
  /\ PRI_MAX \in Nat

VARIABLES
  tc_lock,        \* [Chain -> Thread or NULL], owner of the chain's spin lock
  tc_turnstiles,  \* [Chain -> SUBSET Thread], turnstiles attached to a lock
  ts_lock,        \* [turnstile -> Thread or NULL], owner of ts_lock
  ts_lockobj,     \* [turnstile -> Lock or NULL]
  ts_owner,       \* [turnstile -> Thread or NULL], owner of ts_lockobj
  ts_blocked,     \* [turnstile -> [Queue -> Seq(Thread)]]
  ts_pending,     \* [turnstile -> Seq(Thread)], woken but not yet runnable
  ts_free,        \* [turnstile -> Seq(turnstile)], lent by later waiters
  td_turnstile,   \* [Thread -> turnstile or NULL]
  td_blocked,     \* [Thread -> turnstile or NULL], what the thread waits on
  td_state,       \* [Thread -> {"running", "runq", "lock"}]
  td_priority,    \* [Thread -> 0..PRI_MAX]
  td_base_pri,    \* [Thread -> 0..PRI_MAX]
  td_borrowing,   \* [Thread -> BOOLEAN], TDF_BORROWING
  prop            \* [Thread -> walk of propagate_priority or NULL]

chainVars == <<tc_lock, tc_turnstiles>>
queueVars == <<ts_lockobj, ts_owner, ts_blocked, ts_pending, ts_free,
               td_turnstile, td_blocked>>
priVars   == <<td_priority, td_base_pri, td_borrowing, prop>>
turnstileVars == <<chainVars, ts_lock, queueVars, td_state, priVars>>

-----------------------------------------------------------------------------
TS_EXCLUSIVE_QUEUE == "exclusive"
TS_SHARED_QUEUE    == "shared"
Queue == {TS_EXCLUSIVE_QUEUE, TS_SHARED_QUEUE}

Turnstiles == Thread
Priority   == 0..PRI_MAX

TurnstileTypeOK ==
  /\ tc_lock \in [Chain -> Thread \cup {NULL}]
  /\ tc_turnstiles \in [Chain -> SUBSET Turnstiles]
  /\ ts_lock \in [Turnstiles -> Thread \cup {NULL}]
  /\ ts_lockobj \in [Turnstiles -> Lock \cup {NULL}]
  /\ ts_owner \in [Turnstiles -> Thread \cup {NULL}]
  /\ ts_blocked \in [Turnstiles -> [Queue -> Seq(Thread)]]
  /\ ts_pending \in [Turnstiles -> Seq(Thread)]
  /\ ts_free \in [Turnstiles -> Seq(Turnstiles)]
  /\ td_turnstile \in [Thread -> Turnstiles \cup {NULL}]
  /\ td_blocked \in [Thread -> Turnstiles \cup {NULL}]
  /\ td_state \in [Thread -> {"running", "runq", "lock"}]
  /\ td_priority \in [Thread -> Priority]
  /\ td_base_pri \in [Thread -> Priority]
  /\ td_borrowing \in [Thread -> BOOLEAN]
  /\ prop \in [Thread ->
       [orig : Turnstiles, cur : Turnstiles, pri : Priority] \cup {NULL}]

\* init_turnstiles() and turnstile_alloc() for every thread: the hash table is
\* empty and every thread has a turnstile of its own.
TurnstileInit(base) ==
  /\ tc_lock = [c \in Chain |-> NULL]
  /\ tc_turnstiles = [c \in Chain |-> {}]
  /\ ts_lock = [ts \in Turnstiles |-> NULL]
  /\ ts_lockobj = [ts \in Turnstiles |-> NULL]
  /\ ts_owner = [ts \in Turnstiles |-> NULL]
  /\ ts_blocked = [ts \in Turnstiles |-> [q \in Queue |-> <<>>]]
  /\ ts_pending = [ts \in Turnstiles |-> <<>>]
  /\ ts_free = [ts \in Turnstiles |-> <<>>]
  /\ td_turnstile = [t \in Thread |-> t]
  /\ td_blocked = [t \in Thread |-> NULL]
  /\ td_state = [t \in Thread |-> "running"]
  /\ td_priority = base
  /\ td_base_pri = base
  /\ td_borrowing = [t \in Thread |-> FALSE]
  /\ prop = [t \in Thread |-> NULL]

TD_IS_RUNNING(t) == td_state[t] = "running"
TD_ON_LOCK(t)    == td_state[t] = "lock"

\* The list td_contested of a thread holds the turnstiles it is the owner of.
td_contested(t) == {ts \in Turnstiles : ts_owner[ts] = t}

Waiters(ts) == UNION {ToSet(ts_blocked[ts][q]) : q \in Queue}

\* The turnstiles a lookup of lock l finds in l's chain.
Attached(l) == {ts \in tc_turnstiles[TC_HASH[l]] : ts_lockobj[ts] = l}

-----------------------------------------------------------------------------
(***************************************************************************)
(* Chain and turnstile locks.                                              *)
(***************************************************************************)
turnstile_chain_lock(t, l) ==
  /\ tc_lock[TC_HASH[l]] = NULL
  /\ tc_lock' = [tc_lock EXCEPT ![TC_HASH[l]] = t]

turnstile_chain_unlock(l) == tc_lock' = [tc_lock EXCEPT ![TC_HASH[l]] = NULL]

\* The part of turnstile_trywait() after the chain lock: find the lock's
\* turnstile, or prepare the thread's own, and lock it.
turnstile_trywait(t, l, ts) ==
  /\ ts_lock[ts] = NULL
  /\ ts_lock' = [ts_lock EXCEPT ![ts] = t]
  /\ \/ /\ ts \in Attached(l)
        /\ UNCHANGED ts_lockobj
     \/ /\ Attached(l) = {}
        /\ ts = td_turnstile[t]
        /\ ts_lockobj' = [ts_lockobj EXCEPT ![ts] = l]

turnstile_cancel(t, l, ts) ==
  /\ ts_lock' = [ts_lock EXCEPT ![ts] = NULL]
  /\ ts_lockobj' = [ts_lockobj EXCEPT ![ts] =
                      IF ts = td_turnstile[t] THEN NULL ELSE @]
  /\ turnstile_chain_unlock(l)

turnstile_lookup(t, l, ts) ==
  /\ ts \in Attached(l)
  /\ ts_lock[ts] = NULL
  /\ ts_lock' = [ts_lock EXCEPT ![ts] = t]

-----------------------------------------------------------------------------
(***************************************************************************)
(* Blocking and waking.                                                    *)
(***************************************************************************)

\* Insert td before the first thread of q that is less important than td.
InsertByPriority(q, td, pri) ==
  LET later == {i \in DOMAIN q : pri[q[i]] > pri[td]}
  IN  InsertAt(q, IF later = {} THEN Len(q) + 1 ELSE Min(later), td)

\* turnstile_wait() up to thread_lock(): thread t, which holds the locks of the
\* chain of l and of ts, joins queue q of ts.  The first waiter attaches its own
\* turnstile; a later one gives its turnstile to the free list of the attached
\* one.  Its place in the queue comes from the priority it has NOW.
turnstile_wait_enqueue(t, l, ts, owner, q) ==
  \/ /\ ts = td_turnstile[t]
     /\ tc_turnstiles' = [tc_turnstiles EXCEPT ![TC_HASH[l]] = @ \cup {ts}]
     /\ ts_blocked' = [ts_blocked EXCEPT ![ts][q] = Append(@, t)]
     /\ ts_owner' = [ts_owner EXCEPT ![ts] = owner]
     /\ UNCHANGED ts_free
  \/ /\ ts # td_turnstile[t]
     /\ ts_blocked' = [ts_blocked EXCEPT ![ts][q] =
                         InsertByPriority(@, t, td_priority)]
     /\ ts_free' = [ts_free EXCEPT ![ts] = <<td_turnstile[t]>> \o @]
     /\ UNCHANGED <<tc_turnstiles, ts_owner>>

\* turnstile_wait() from thread_lock() to the call of propagate_priority(): the
\* lock of ts becomes the lock of thread t, t is no longer running, and it
\* starts to lend the priority it has by now.
turnstile_wait_block(t, l, ts) ==
  /\ td_turnstile' = [td_turnstile EXCEPT ![t] = NULL]
  /\ td_blocked' = [td_blocked EXCEPT ![t] = ts]
  /\ td_state' = [td_state EXCEPT ![t] = "lock"]
  /\ prop' = [prop EXCEPT ![t] =
                [orig |-> ts, cur |-> ts, pri |-> td_priority[t]]]
  /\ turnstile_chain_unlock(l)

\* Variant: the last turnstile of the free list is not given back.
Given_short(free, i, ts) == IF i < Len(free) THEN free[i] ELSE ts

\* The turnstile for the i-th pending thread: one of the free list, or, when
\* that is used up, ts itself.
Given(free, i, ts) == IF i <= Len(free) THEN free[i] ELSE ts

\* Move queue q of ts to the pending list and give every pending thread a
\* turnstile, from the free list first; the thread for which none is left takes
\* ts itself off the chain.
turnstile_broadcast(l, ts, q) ==
  LET pend == ts_pending[ts] \o ts_blocked[ts][q]
      free == ts_free[ts]
      Place(td) == CHOOSE j \in DOMAIN pend : pend[j] = td
  IN  /\ ts_pending' = [ts_pending EXCEPT ![ts] = pend]
      /\ ts_blocked' = [ts_blocked EXCEPT ![ts][q] = <<>>]
      /\ ts_free' = [ts_free EXCEPT ![ts] =
                       SubSeq(free, Len(pend) + 1, Len(free))]
      /\ td_turnstile' = [td \in Thread |->
                            IF td \in ToSet(pend) THEN Given(free, Place(td), ts)
                            ELSE td_turnstile[td]]
      /\ tc_turnstiles' = [tc_turnstiles EXCEPT ![TC_HASH[l]] =
                             IF Len(pend) > Len(free) THEN @ \ {ts} ELSE @]

\* The most important thread that waits on ts, of either queue.
turnstile_first_waiter(ts) ==
  LET std == ts_blocked[ts][TS_SHARED_QUEUE]
      xtd == ts_blocked[ts][TS_EXCLUSIVE_QUEUE]
  IN  IF xtd = <<>> \/ /\ std # <<>>
                       /\ td_priority[std[1]] < td_priority[xtd[1]]
      THEN IF std = <<>> THEN NULL ELSE std[1]
      ELSE xtd[1]

\* Variant: t falls back to its own priority.
sched_unlend_prio_base(t, pri) ==
  /\ td_borrowing' = [td_borrowing EXCEPT ![t] = FALSE]
  /\ td_priority' = [td_priority EXCEPT ![t] = td_base_pri[t]]

\* sched_unlend_prio(): t keeps a boost of pri when that is more important than
\* its own priority.
sched_unlend_prio(t, pri) ==
  /\ td_borrowing' = [td_borrowing EXCEPT ![t] = pri < td_base_pri[t]]
  /\ td_priority' = [td_priority EXCEPT ![t] = Min({pri, td_base_pri[t]})]

\* Thread t disowns ts, falls back to the priority its other contested locks
\* call for, and makes the pending threads runnable.
turnstile_unpend(t, ts) ==
  LET waiting == {turnstile_first_waiter(n) : n \in td_contested(t) \ {ts}}
      pend    == ToSet(ts_pending[ts])
  IN  /\ ts_pending' = [ts_pending EXCEPT ![ts] = <<>>]
      /\ ts_lockobj' = [ts_lockobj EXCEPT ![ts] =
                          IF Waiters(ts) = {} THEN NULL ELSE @]
      /\ ts_owner' = [ts_owner EXCEPT ![ts] = NULL]
      /\ sched_unlend_prio(t, Min({PRI_MAX} \cup {td_priority[w] : w \in waiting}))
      /\ td_state' = [td \in Thread |->
                        IF td \in pend THEN "runq" ELSE td_state[td]]
      /\ td_blocked' = [td \in Thread |->
                          IF td \in pend THEN NULL ELSE td_blocked[td]]
      /\ ts_lock' = [ts_lock EXCEPT ![ts] = NULL]

\* Variant: the thread takes the turnstile over without its waiters' priority.
turnstile_claim_unlent(t, l, ts) ==
  /\ ts_owner' = [ts_owner EXCEPT ![ts] = t]
  /\ ts_lock' = [ts_lock EXCEPT ![ts] = NULL]
  /\ turnstile_chain_unlock(l)
  /\ UNCHANGED <<td_priority, td_borrowing>>

\* Thread t, which has taken a lock that has waiters, becomes the owner of the
\* lock's turnstile and is lent the priority of the first waiter.
turnstile_claim(t, l, ts) ==
  LET w == turnstile_first_waiter(ts)
  IN  /\ ts # td_turnstile[t] /\ w # NULL
      /\ ts_owner' = [ts_owner EXCEPT ![ts] = t]
      /\ td_priority' = [td_priority EXCEPT ![t] = Min({@, td_priority[w]})]
      /\ td_borrowing' = [td_borrowing EXCEPT ![t] =
                            @ \/ td_priority[w] < td_priority[t]]
      /\ ts_lock' = [ts_lock EXCEPT ![ts] = NULL]
      /\ turnstile_chain_unlock(l)

\* Thread t gives up the ownership of ts, whose waiters stay, and falls back to
\* the priority its other contested locks call for.
turnstile_disown(t, ts) ==
  LET waiting == {turnstile_first_waiter(n) : n \in td_contested(t) \ {ts}}
  IN  /\ ts_owner' = [ts_owner EXCEPT ![ts] = NULL]
      /\ sched_unlend_prio(t, Min({PRI_MAX} \cup {td_priority[w] : w \in waiting}))
      /\ ts_lock' = [ts_lock EXCEPT ![ts] = NULL]

-----------------------------------------------------------------------------
(***************************************************************************)
(* Priority propagation.                                                   *)
(***************************************************************************)

\* The lock thread_lock(td) takes is that of the turnstile td is blocked on;
\* the scheduler's own locks are held within one step.
ThreadLockable(t, td) ==
  TD_ON_LOCK(td) => ts_lock[td_blocked[td]] \in {NULL, t}

\* Variant: a thread taken off the queue is not put back.
turnstile_adjust_thread_lost(q, td, pri) == Remove(q, td)

\* turnstile_adjust_thread(): queue q after the priority of td became pri[td].
turnstile_adjust_thread(q, td, pri) ==
  LET i == CHOOSE j \in DOMAIN q : q[j] = td
      misplaced == \/ i > 1 /\ pri[td] < pri[q[i - 1]]
                   \/ i < Len(q) /\ pri[td] > pri[q[i + 1]]
  IN  IF misplaced THEN InsertByPriority(RemoveAt(q, i), td, pri) ELSE q

\* All queues after the priority of the blocked thread td became pri[td].
Resorted(td, pri) ==
  [ts_blocked EXCEPT ![td_blocked[td]] =
     [q \in Queue |-> IF td \in ToSet(@[q])
                      THEN turnstile_adjust_thread(@[q], td, pri) ELSE @[q]]]

\* propagate_priority() returns; the caller then drops the lock of the
\* turnstile it started from (mi_switch() or thread_unlock()).
PropagateEnd(t) ==
  /\ ts_lock' = [ts_lock EXCEPT ![prop[t].orig] = NULL, ![prop[t].cur] = NULL]
  /\ prop' = [prop EXCEPT ![t] = NULL]

\* The owner of the turnstile is already as important as the blocked thread, or
\* there is no owner.
PropagateStop(t) ==
  LET td == ts_owner[prop[t].cur]
  IN  /\ td # NULL => /\ ThreadLockable(t, td)
                      /\ td_priority[td] <= prop[t].pri
      /\ PropagateEnd(t)
      /\ UNCHANGED <<td_priority, td_borrowing, ts_blocked>>

\* Lend the priority to the owner.  An owner that can run, or that has been
\* given a turnstile back and is about to, ends the walk; an owner that is
\* blocked itself is moved up in its queue and the walk goes on from there,
\* locking the next turnstile before it drops the last.
PropagateLend(t) ==
  LET ts  == prop[t].cur
      td  == ts_owner[ts]
      pri == [td_priority EXCEPT ![td] = prop[t].pri]
  IN  /\ td # NULL
      /\ ThreadLockable(t, td)
      /\ td_priority[td] > prop[t].pri
      /\ td_priority' = pri
      /\ td_borrowing' = [td_borrowing EXCEPT ![td] = TRUE]
      /\ IF TD_ON_LOCK(td) /\ td_turnstile[td] = NULL
         THEN /\ ts_blocked' = Resorted(td, pri)
              /\ ts_lock' = [x \in Turnstiles |->
                   IF x \in {td_blocked[td], prop[t].orig} THEN t
                   ELSE IF x = ts THEN NULL ELSE ts_lock[x]]
              /\ prop' = [prop EXCEPT ![t].cur = td_blocked[td]]
         ELSE PropagateEnd(t) /\ UNCHANGED ts_blocked

propagate_priority(t) ==
  /\ prop[t] # NULL
  /\ PropagateStop(t) \/ PropagateLend(t)
  /\ UNCHANGED <<chainVars, ts_lockobj, ts_owner, ts_pending, ts_free,
                 td_turnstile, td_blocked, td_state, td_base_pri>>

\* sched_prio(): thread u sets the base priority of td.  When td is blocked,
\* turnstile_adjust() moves it in its queue and, when td is now first there and
\* more important than before, starts to propagate its priority.
sched_prio(u, td, prio) ==
  LET keep == td_borrowing[td] /\ td_priority[td] < prio
      pri  == [td_priority EXCEPT ![td] = prio]
      ts   == td_blocked[td]
      first == \E q \in Queue : /\ Resorted(td, pri)[ts][q] # <<>>
                                /\ Resorted(td, pri)[ts][q][1] = td
  IN  /\ ThreadLockable(u, td)
      /\ td_base_pri' = [td_base_pri EXCEPT ![td] = prio]
      /\ td_priority' = IF keep THEN td_priority ELSE pri
      /\ IF ~keep /\ TD_ON_LOCK(td) /\ td_priority[td] # prio
            /\ td_turnstile[td] = NULL
         THEN /\ ts_blocked' = Resorted(td, pri)
              /\ IF first /\ prio < td_priority[td]
                 THEN /\ prop' = [prop EXCEPT ![u] =
                                    [orig |-> ts, cur |-> ts, pri |-> prio]]
                      /\ ts_lock' = [ts_lock EXCEPT ![ts] = u]
                 ELSE UNCHANGED <<prop, ts_lock>>
         ELSE UNCHANGED <<ts_blocked, prop, ts_lock>>
      /\ UNCHANGED <<chainVars, ts_lockobj, ts_owner, ts_pending, ts_free,
                     td_turnstile, td_blocked, td_state, td_borrowing>>
=============================================================================
