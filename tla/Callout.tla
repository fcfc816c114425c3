------------------------------- MODULE Callout -------------------------------
(***************************************************************************)
(* Callouts of sys/kern/kern_timeout.c: the hashed timing wheel of every   *)
(* CPU, its softclock() thread, the clock interrupt, and clients that      *)
(* reset, stop and drain callouts.  A section between CC_LOCK and          *)
(* CC_UNLOCK is one step, except for softclock()'s walk over a bucket,     *)
(* during which cc_lock is held by the walk.  The value of `ticks' is an   *)
(* int that wraps: here it counts modulo TICK_MOD.                         *)
(***************************************************************************)
EXTENDS Integers, Sequences, SequencesExt, FiniteSets

CONSTANTS
  Cpu,         \* CPUs; the softclock thread of a CPU has the CPU's name
  Client,      \* other threads
  Calls,       \* callouts, initialised by callout_init() or callout_init_mtx()
  Lock,        \* locks callouts are initialised with
  c_lock,      \* [Calls -> Lock or NULL]
  ReturnUnlocked, \* the callouts initialised with CALLOUT_RETURNUNLOCKED and a
               \* lock: their handlers return with the lock released
  Tables,      \* sets of callouts that may be the table of timeout(): callouts
               \* of the kernel's own, CALLOUT_LOCAL_ALLOC, with Giant
  Giant,       \* a lock
  Request,     \* the pairs of ftn and arg that timeout() is called with
  timeout_cpu, \* where a callout is until it is moved
  Rearm,       \* TRUE: handlers may reset their callout
  Targets,     \* CPUs that resets ask for
  Delays,      \* values of to_ticks that resets ask for
  WHEEL,       \* buckets of a wheel (callwheelsize)
  TICK_MOD,    \* 2 to the width of ticks
  MAX_LAG,     \* bound on how far a softclock thread lags behind the clock
  NULL

Thread == Cpu \cup Client

ASSUME CalloutAssumption ==
  /\ NULL \notin Cpu \cup Client \cup Calls \cup Lock
  /\ Cpu \cap Client = {}
  /\ c_lock \in [Calls -> Lock \cup {NULL}]
  /\ ReturnUnlocked \subseteq {x \in Calls : c_lock[x] # NULL}
  /\ Tables \subseteq SUBSET Calls /\ Giant \in Lock
  /\ NULL \notin Request \cup [c : Calls, to : Delays, cpu : Cpu]
  /\ IsFiniteSet(Calls)
  /\ timeout_cpu \in Cpu /\ Targets \subseteq Cpu
  /\ Rearm \in BOOLEAN
  /\ Delays \subseteq Int
  /\ WHEEL \in Nat \ {0} /\ TICK_MOD \in Nat \ {0}
  /\ TICK_MOD % WHEEL = 0
  /\ MAX_LAG \in Nat
  /\ \A d \in Delays \cup {WHEEL} : 2 * (d + MAX_LAG) < TICK_MOD

VARIABLES
  ticks,        \* 0..TICK_MOD-1
  cc_softticks, \* [Cpu -> 0..TICK_MOD-1], the next bucket to look at
  cc_callwheel, \* [Cpu -> [0..WHEEL-1 -> Seq(Calls)]]
  cc_lock,      \* [Cpu -> BOOLEAN], held by the walk of softclock()
  cc_next,      \* [Cpu -> Calls or NULL]
  cc_curr,      \* [Cpu -> Calls or NULL]
  cc_cancel,    \* [Cpu -> BOOLEAN]
  cc_waiting,   \* [Cpu -> BOOLEAN]
  swi,          \* [Cpu -> BOOLEAN], softclock is scheduled
  c_pending,    \* [Calls -> BOOLEAN], CALLOUT_PENDING
  c_time,       \* [Calls -> 0..TICK_MOD-1], 0 when not pending: it is not read
  c_cpu,        \* [Calls -> Cpu]
  owner,        \* [Lock -> Thread or NULL]
  sq_lock,      \* [Cpu -> Client or NULL], sleep queue chain of cc_waiting
  pc,           \* [Thread -> control point]
  c,            \* [Thread -> Calls or NULL], the local variable c
  curticks,     \* [Cpu -> 0..TICK_MOD-1], the local variable of softclock()
  req,          \* [Thread -> arguments of callout_reset_on() in progress, NULL]
  dcc,          \* [Client -> Cpu], the local variable cc of callout_drain()
  local,        \* the callouts that are CALLOUT_LOCAL_ALLOC, one of Tables
  cc_callfree,  \* the free ones among them, of timeout_cpu
  c_func,       \* [Calls -> Request or NULL], c_func and c_arg of these callouts
  handle,       \* [Request -> Calls or NULL], the handles their callers keep
  stopped       \* [Calls -> BOOLEAN], a client stopped the callout after it was
                \* last reset; kept by the clients, no code reads it

wheelVars == <<cc_callwheel, c_pending, c_time, c_cpu>>
cpuVars   == <<cc_softticks, cc_lock, cc_next, cc_curr, cc_cancel, cc_waiting>>
localVars == <<c, curticks, req, dcc>>
tableVars == <<cc_callfree, c_func>>
handleVars == <<local, tableVars, handle>>
vars == <<ticks, wheelVars, cpuVars, swi, owner, sq_lock, pc, localVars, handleVars,
          stopped>>

-----------------------------------------------------------------------------
Ticks == 0..(TICK_MOD - 1)

Plus(a, b) == (a + b) % TICK_MOD

\* a - b, as a signed int.
Diff(a, b) == ((a - b + TICK_MOD \div 2) % TICK_MOD) - TICK_MOD \div 2

Bucket(time) == time % WHEEL

SoftPoints   == {"idle", "scan", "relock", "getlock", "check", "arm", "handler",
                 "unlocked", "done", "wakeup"}
ClientPoints == {"idle", "drain", "drain_sq", "drain_locked", "asleep", "woken"}

Init ==
  /\ ticks \in {0, TICK_MOD - 1}
  /\ cc_softticks = [p \in Cpu |-> ticks]
  /\ cc_callwheel = [p \in Cpu |-> [b \in 0..(WHEEL - 1) |-> <<>>]]
  /\ cc_lock = [p \in Cpu |-> FALSE]
  /\ cc_next = [p \in Cpu |-> NULL]
  /\ cc_curr = [p \in Cpu |-> NULL]
  /\ cc_cancel = [p \in Cpu |-> FALSE]
  /\ cc_waiting = [p \in Cpu |-> FALSE]
  /\ swi = [p \in Cpu |-> FALSE]
  /\ c_pending = [x \in Calls |-> FALSE]
  /\ c_time = [x \in Calls |-> 0]
  /\ c_cpu = [x \in Calls |-> timeout_cpu]
  /\ owner = [l \in Lock |-> NULL]
  /\ sq_lock = [p \in Cpu |-> NULL]
  /\ pc = [t \in Thread |-> "idle"]
  /\ c = [t \in Thread |-> NULL]
  /\ curticks = [p \in Cpu |-> 0]
  /\ req = [t \in Thread |-> NULL]
  /\ dcc = [t \in Client |-> timeout_cpu]
  /\ local \in Tables
  /\ cc_callfree = SetToSeq(local)
  /\ c_func = [x \in Calls |-> NULL]
  /\ handle = [r \in Request |-> NULL]
  /\ stopped = [x \in Calls |-> FALSE]

At(t, p) == pc[t] = p
Goto(t, p) == pc' = [pc EXCEPT ![t] = p]

Holds(t, l) == l # NULL => owner[l] = t

\* The lock a callout was initialised with.
LockOf(x) == IF x \in local THEN Giant ELSE c_lock[x]

\* The callout after x in sequence q.
NextIn(q, x) ==
  LET i == CHOOSE j \in DOMAIN q : q[j] = x
  IN  IF i < Len(q) THEN q[i + 1] ELSE NULL

First(q) == IF q = <<>> THEN NULL ELSE Head(q)

-----------------------------------------------------------------------------
(***************************************************************************)
(* The clock interrupt.                                                    *)
(***************************************************************************)
HardTick ==
  /\ \A p \in Cpu : Diff(ticks, cc_softticks[p]) < MAX_LAG
  /\ ticks' = Plus(ticks, 1)
  /\ UNCHANGED <<wheelVars, cpuVars, swi, owner, sq_lock, pc, localVars,
                 handleVars, stopped>>

\* Variants: buckets that are not empty are skipped, too; softclock() is not
\* scheduled.
callout_tick_skip(p) ==
  /\ ~cc_lock[p]
  /\ Diff(ticks, cc_softticks[p]) > 0
  /\ cc_softticks' = [cc_softticks EXCEPT ![p] = ticks]
  /\ swi' = [swi EXCEPT ![p] = TRUE]
  /\ UNCHANGED <<ticks, wheelVars, cc_lock, cc_next, cc_curr, cc_cancel,
                 cc_waiting, owner, sq_lock, pc, localVars, handleVars, stopped>>

callout_tick_silent(p) ==
  /\ ~cc_lock[p]
  /\ Diff(ticks, cc_softticks[p]) > 0
  /\ cc_callwheel[p][Bucket(cc_softticks[p])] = <<>>
  /\ cc_softticks' = [cc_softticks EXCEPT ![p] = Plus(@, 1)]
  /\ UNCHANGED <<ticks, wheelVars, cc_lock, cc_next, cc_curr, cc_cancel,
                 cc_waiting, swi, owner, sq_lock, pc, localVars, handleVars, stopped>>

\* callout_tick(): skip the empty buckets of the past; a bucket that is not
\* empty stops the scan and schedules softclock().
callout_tick(p) ==
  LET past  == {n \in 0..MAX_LAG : n < Diff(ticks, cc_softticks[p])}
      full  == {n \in past :
                  cc_callwheel[p][Bucket(Plus(cc_softticks[p], n))] # <<>>}
      steps == IF full = {} THEN Cardinality(past)
               ELSE CHOOSE n \in full : \A k \in full : n <= k
  IN  /\ ~cc_lock[p]
      /\ past # {}
      /\ cc_softticks' = [cc_softticks EXCEPT ![p] = Plus(@, steps)]
      /\ swi' = [swi EXCEPT ![p] = @ \/ full # {}]
      /\ UNCHANGED <<ticks, wheelVars, cc_lock, cc_next, cc_curr, cc_cancel,
                     cc_waiting, owner, sq_lock, pc, localVars, handleVars, stopped>>

-----------------------------------------------------------------------------
(***************************************************************************)
(* softclock(), on the software interrupt thread of CPU p.                 *)
(***************************************************************************)
SoftStart(p) ==
  /\ At(p, "idle")
  /\ swi[p] /\ ~cc_lock[p]
  /\ swi' = [swi EXCEPT ![p] = FALSE]
  /\ cc_lock' = [cc_lock EXCEPT ![p] = TRUE]
  /\ Goto(p, "scan")
  /\ UNCHANGED <<ticks, wheelVars, cc_softticks, cc_next, cc_curr, cc_cancel,
                 cc_waiting, owner, sq_lock, localVars, handleVars, stopped>>

\* The next bucket, or the end.
SoftBucket(p) ==
  /\ At(p, "scan")
  /\ c[p] = NULL
  /\ \/ /\ cc_softticks[p] # ticks
        /\ curticks' = [curticks EXCEPT ![p] = cc_softticks[p]]
        /\ c' = [c EXCEPT ![p] = First(cc_callwheel[p][Bucket(cc_softticks[p])])]
        /\ cc_softticks' = [cc_softticks EXCEPT ![p] = Plus(@, 1)]
        /\ UNCHANGED <<cc_lock, cc_next, pc>>
     \/ /\ cc_softticks[p] = ticks
        /\ cc_next' = [cc_next EXCEPT ![p] = NULL]
        /\ cc_lock' = [cc_lock EXCEPT ![p] = FALSE]
        /\ Goto(p, "idle")
        /\ curticks' = [curticks EXCEPT ![p] = 0]
        /\ UNCHANGED <<cc_softticks, c>>
  /\ UNCHANGED <<ticks, wheelVars, cc_curr, cc_cancel, cc_waiting, swi, owner,
                 sq_lock, req, dcc, handleVars, stopped>>

\* Variant: every callout of the bucket is taken to be due.
Due_any(p) == TRUE

\* The callout of the walk on CPU p is due, not one of a later turn.
Due(p) == c_time[c[p]] = curticks[p]

\* A callout of a later turn of the wheel is passed over.  Every
\* MAX_SOFTCLOCK_STEPS of them the lock is dropped, with cc_next as a bookmark.
SoftSkip(p) ==
  LET x == NextIn(cc_callwheel[p][Bucket(curticks[p])], c[p])
  IN  /\ At(p, "scan")
      /\ c[p] # NULL /\ ~Due(p)
      /\ \/ /\ c' = [c EXCEPT ![p] = x]
            /\ UNCHANGED <<cc_lock, cc_next, pc>>
         \/ /\ cc_next' = [cc_next EXCEPT ![p] = x]
            /\ cc_lock' = [cc_lock EXCEPT ![p] = FALSE]
            /\ c' = [c EXCEPT ![p] = NULL]
            /\ Goto(p, "relock")
      /\ UNCHANGED <<ticks, wheelVars, cc_softticks, cc_curr, cc_cancel,
                     cc_waiting, swi, owner, sq_lock, curticks, req, dcc,
                     handleVars, stopped>>

SoftRelock(p) ==
  /\ At(p, "relock")
  /\ ~cc_lock[p]
  /\ cc_lock' = [cc_lock EXCEPT ![p] = TRUE]
  /\ c' = [c EXCEPT ![p] = cc_next[p]]
  /\ Goto(p, "scan")
  /\ UNCHANGED <<ticks, wheelVars, cc_softticks, cc_next, cc_curr, cc_cancel,
                 cc_waiting, swi, owner, sq_lock, curticks, req, dcc,
                 handleVars, stopped>>

\* A callout that is due leaves the wheel and becomes the current one.
SoftFire(p) ==
  LET b == Bucket(curticks[p])
      q == cc_callwheel[p][b]
  IN  /\ At(p, "scan")
      /\ c[p] # NULL /\ Due(p)
      /\ cc_next' = [cc_next EXCEPT ![p] = NextIn(q, c[p])]
      /\ cc_callwheel' = [cc_callwheel EXCEPT ![p][b] = RemoveFirst(q, c[p])]
      /\ c_pending' = [c_pending EXCEPT ![c[p]] = FALSE]
      /\ c_time' = [c_time EXCEPT ![c[p]] = 0]
      /\ cc_curr' = [cc_curr EXCEPT ![p] = c[p]]
      /\ cc_cancel' = [cc_cancel EXCEPT ![p] = FALSE]
      /\ cc_lock' = [cc_lock EXCEPT ![p] = FALSE]
      /\ Goto(p, IF LockOf(c[p]) # NULL THEN "getlock" ELSE "handler")
      /\ UNCHANGED <<ticks, c_cpu, cc_softticks, cc_waiting,
                     swi, owner, sq_lock, localVars, handleVars, stopped>>

SoftGetLock(p) ==
  /\ At(p, "getlock")
  /\ owner[LockOf(c[p])] = NULL
  /\ owner' = [owner EXCEPT ![LockOf(c[p])] = p]
  /\ Goto(p, "check")
  /\ UNCHANGED <<ticks, wheelVars, cpuVars, swi, sq_lock, localVars,
                 handleVars, stopped>>

\* Variant: cc_cancel is not looked at.
SoftCheck_blind(p) ==
  /\ At(p, "check")
  /\ Goto(p, "arm")
  /\ UNCHANGED <<ticks, wheelVars, cpuVars, swi, owner, sq_lock, localVars,
                 handleVars, stopped>>

\* cc_cancel is read, and then set, without cc_lock.
SoftCheck(p) ==
  /\ At(p, "check")
  /\ \/ /\ cc_cancel[p]
        /\ owner' = [owner EXCEPT ![LockOf(c[p])] = NULL]
        /\ Goto(p, "done")
     \/ ~cc_cancel[p] /\ Goto(p, "arm") /\ UNCHANGED owner
  /\ UNCHANGED <<ticks, wheelVars, cpuVars, swi, sq_lock, localVars,
                 handleVars, stopped>>

SoftArm(p) ==
  /\ At(p, "arm")
  /\ cc_cancel' = [cc_cancel EXCEPT ![p] = TRUE]
  /\ Goto(p, "handler")
  /\ UNCHANGED <<ticks, wheelVars, cc_softticks, cc_lock, cc_next, cc_curr,
                 cc_waiting, swi, owner, sq_lock, localVars, handleVars, stopped>>

\* The handler of callout x releases the lock of x itself.
ReturnsUnlocked(x) == x \in ReturnUnlocked \ local

\* Such a handler goes on for a while after it has released the lock.
HandlerUnlock(p) ==
  /\ At(p, "handler")
  /\ req[p] = NULL
  /\ ReturnsUnlocked(c[p])
  /\ owner' = [owner EXCEPT ![LockOf(c[p])] = NULL]
  /\ Goto(p, "unlocked")
  /\ UNCHANGED <<ticks, wheelVars, cpuVars, swi, sq_lock, localVars,
                 handleVars, stopped>>

\* The handler returns and its lock is released, unless the handler did that.
SoftReturn(p) ==
  /\ req[p] = NULL
  /\ \/ /\ At(p, "handler") /\ ~ReturnsUnlocked(c[p])
        /\ owner' = [l \in Lock |-> IF l = LockOf(c[p]) THEN NULL ELSE owner[l]]
     \/ At(p, "unlocked") /\ UNCHANGED owner
  /\ Goto(p, "done")
  /\ UNCHANGED <<ticks, wheelVars, cpuVars, swi, sq_lock, localVars,
                 handleVars, stopped>>

\* An entry of the table of timeout() goes back to the free list.
Release(x) ==
  IF x \in local
  THEN /\ c_func' = [c_func EXCEPT ![x] = NULL]
       /\ cc_callfree' = <<x>> \o cc_callfree
  ELSE UNCHANGED tableVars

\* Variant: drainers are not woken.
SoftDone_silent(p) ==
  /\ At(p, "done")
  /\ ~cc_lock[p]
  /\ Release(c[p])
  /\ cc_curr' = [cc_curr EXCEPT ![p] = NULL]
  /\ cc_waiting' = [cc_waiting EXCEPT ![p] = FALSE]
  /\ c' = [c EXCEPT ![p] = cc_next[p]]
  /\ cc_lock' = [cc_lock EXCEPT ![p] = TRUE]
  /\ Goto(p, "scan")
  /\ UNCHANGED <<ticks, wheelVars, cc_softticks, cc_next, cc_cancel, swi, owner,
                 sq_lock, curticks, req, dcc, local, handle, stopped>>

\* No callout is current any more; drainers are woken without cc_lock.
SoftDone(p) ==
  /\ At(p, "done")
  /\ ~cc_lock[p]
  /\ Release(c[p])
  /\ cc_curr' = [cc_curr EXCEPT ![p] = NULL]
  /\ cc_waiting' = [cc_waiting EXCEPT ![p] = FALSE]
  /\ \/ /\ cc_waiting[p]
        /\ c' = [c EXCEPT ![p] = NULL]
        /\ Goto(p, "wakeup")
        /\ UNCHANGED cc_lock
     \/ /\ ~cc_waiting[p]
        /\ c' = [c EXCEPT ![p] = cc_next[p]]
        /\ cc_lock' = [cc_lock EXCEPT ![p] = TRUE]
        /\ Goto(p, "scan")
  /\ UNCHANGED <<ticks, wheelVars, cc_softticks, cc_next, cc_cancel, swi, owner,
                 sq_lock, curticks, req, dcc, local, handle, stopped>>

SoftWakeup(p) ==
  /\ At(p, "wakeup")
  /\ sq_lock[p] = NULL
  /\ pc' = [t \in Thread |->
              IF t = p THEN "relock"
              ELSE IF At(t, "asleep") /\ dcc[t] = p THEN "woken" ELSE pc[t]]
  /\ UNCHANGED <<ticks, wheelVars, cpuVars, swi, owner, sq_lock, localVars,
                 handleVars, stopped>>

-----------------------------------------------------------------------------
(***************************************************************************)
(* callout_reset_on(), by a client or by the handler of the callout.       *)
(***************************************************************************)

\* Variant: the bookmark stays at the callout.
NextPast_stale(x) == cc_next

\* The wheel without callout x, and cc_next past it.
Unlink(x) == [cc_callwheel EXCEPT ![c_cpu[x]][Bucket(c_time[x])] = RemoveFirst(@, x)]
NextPast(x) ==
  [cc_next EXCEPT ![c_cpu[x]] =
     IF @ = x THEN NextIn(cc_callwheel[c_cpu[x]][Bucket(c_time[x])], x) ELSE @]

MayReset(t, x) ==
  \/ t \in Client /\ At(t, "idle") /\ Holds(t, LockOf(x))
  \/ t \in Cpu /\ Rearm /\ At(t, "handler") /\ c[t] = x

\* One pass of callout_reset_on() from retry: on.  The callout is cancelled if
\* it has not really started; a drainer wins over the reset; a change of CPU
\* needs another pass.
ResetPass(t, x, to_ticks, cpu) ==
  LET p  == c_cpu[x]
      to == IF to_ticks <= 0 THEN 1 ELSE to_ticks
      refused == cc_curr[p] = x /\ cc_waiting[p]
      wheel == IF c_pending[x] THEN Unlink(x) ELSE cc_callwheel
      time  == Plus(ticks, to)
  IN  /\ ~cc_lock[p]
      /\ cc_cancel' = [cc_cancel EXCEPT ![p] =
                         @ \/ (cc_curr[p] = x /\ LockOf(x) # NULL)]
      /\ \/ /\ refused
            /\ req' = [req EXCEPT ![t] = NULL]
            /\ UNCHANGED <<wheelVars, cc_next, stopped>>
         \/ /\ ~refused
            /\ cc_next' = IF c_pending[x] THEN NextPast(x) ELSE cc_next
            /\ \/ /\ p # cpu
                  /\ cc_callwheel' = wheel
                  /\ c_pending' = [c_pending EXCEPT ![x] = FALSE]
                  /\ c_time' = [c_time EXCEPT ![x] = 0]
                  /\ c_cpu' = [c_cpu EXCEPT ![x] = cpu]
                  /\ req' = [req EXCEPT ![t] =
                               [c |-> x, to |-> to_ticks, cpu |-> cpu]]
                  /\ UNCHANGED stopped
               \/ /\ p = cpu
                  /\ cc_callwheel' = [wheel EXCEPT ![p][Bucket(time)] = Append(@, x)]
                  /\ c_pending' = [c_pending EXCEPT ![x] = TRUE]
                  /\ c_time' = [c_time EXCEPT ![x] = time]
                  /\ req' = [req EXCEPT ![t] = NULL]
                  /\ stopped' = [stopped EXCEPT ![x] = FALSE]
                  /\ UNCHANGED c_cpu
      /\ UNCHANGED <<ticks, cc_softticks, cc_lock, cc_curr, cc_waiting, swi,
                     owner, sq_lock, pc, c, curticks, dcc>>

Reset(t, x, to_ticks, cpu) ==
  /\ x \notin local
  /\ req[t] = NULL /\ MayReset(t, x)
  /\ ResetPass(t, x, to_ticks, cpu)
  /\ UNCHANGED handleVars

ResetRetry(t) ==
  /\ req[t] # NULL
  /\ ResetPass(t, req[t].c, req[t].to, req[t].cpu)
  /\ UNCHANGED handleVars

\* timeout(), by a client or a handler: a free entry of the table is reset, on
\* the CPU it belongs to.  Without one the kernel panics ("timeout table full");
\* clients are taken not to go that far.
timeout(t, r, to_ticks) ==
  /\ At(t, IF t \in Client THEN "idle" ELSE "handler")
  /\ req[t] = NULL
  /\ cc_callfree # <<>>
  /\ LET x == Head(cc_callfree)
     IN /\ c_func' = [c_func EXCEPT ![x] = r]
        /\ handle' = [handle EXCEPT ![r] = x]
        /\ ResetPass(t, x, to_ticks, c_cpu[x])
  /\ cc_callfree' = Tail(cc_callfree)
  /\ UNCHANGED local

-----------------------------------------------------------------------------
(***************************************************************************)
(* callout_stop() and callout_drain().                                     *)
(***************************************************************************)

\* The tail of _callout_stop_safe(): take a pending callout off its wheel.
Dequeue(x) ==
  /\ cc_callwheel' = Unlink(x)
  /\ cc_next' = NextPast(x)
  /\ c_pending' = [c_pending EXCEPT ![x] = FALSE]
  /\ c_time' = [c_time EXCEPT ![x] = 0]
  /\ Release(x)

\* Variant: a callout cancelled while it waits for its lock is freed here, too.
Stop_frees(t, x) ==
  LET p == c_cpu[x]
      use_lock == LockOf(x) # NULL /\ owner[LockOf(x)] = t
  IN  /\ At(t, "idle") /\ req[t] = NULL
      /\ ~cc_lock[p]
      /\ \/ /\ c_pending[x]
            /\ Dequeue(x)
            /\ UNCHANGED cc_cancel
         \/ /\ ~c_pending[x]
            /\ cc_cancel' = [cc_cancel EXCEPT ![p] =
                               @ \/ (cc_curr[p] = x /\ use_lock)]
            /\ IF cc_curr[p] = x /\ use_lock THEN Release(x) ELSE UNCHANGED tableVars
            /\ UNCHANGED <<cc_callwheel, cc_next, c_pending, c_time>>
      /\ stopped' = [stopped EXCEPT ![x] = @ \/ Holds(t, LockOf(x))]
      /\ UNCHANGED <<ticks, c_cpu, cc_softticks, cc_lock, cc_curr,
                     cc_waiting, swi, owner, sq_lock, pc, localVars, local, handle>>

\* callout_stop(): a callout that waits for its lock is cancelled if the caller
\* holds that lock.
Stop(t, x) ==
  LET p == c_cpu[x]
      use_lock == LockOf(x) # NULL /\ owner[LockOf(x)] = t
  IN  /\ At(t, "idle") /\ req[t] = NULL
      /\ ~cc_lock[p]
      /\ \/ /\ c_pending[x]
            /\ Dequeue(x)
            /\ UNCHANGED cc_cancel
         \/ /\ ~c_pending[x]
            /\ cc_cancel' = [cc_cancel EXCEPT ![p] =
                               @ \/ (cc_curr[p] = x /\ use_lock)]
            /\ UNCHANGED <<cc_callwheel, cc_next, c_pending, c_time, tableVars>>
      /\ stopped' = [stopped EXCEPT ![x] = @ \/ Holds(t, LockOf(x))]
      /\ UNCHANGED <<ticks, c_cpu, cc_softticks, cc_lock, cc_curr,
                     cc_waiting, swi, owner, sq_lock, pc, localVars, local, handle>>

callout_stop(t, x) ==
  /\ x \notin local
  /\ Holds(t, LockOf(x))
  /\ Stop(t, x)

\* untimeout(), with or without Giant: only if the handle's callout still stands
\* for the caller's request.
untimeout(t, r) ==
  /\ handle[r] # NULL
  /\ c_func[handle[r]] = r
  /\ Stop(t, handle[r])

\* callout_drain(), which may sleep: without locks.
DrainCall(t, x) ==
  /\ x \notin local
  /\ At(t, "idle") /\ req[t] = NULL
  /\ \A l \in Lock : owner[l] # t
  /\ Goto(t, "drain")
  /\ c' = [c EXCEPT ![t] = x]
  /\ UNCHANGED <<ticks, wheelVars, cpuVars, swi, owner, sq_lock, curticks, req,
                 dcc, handleVars, stopped>>

\* sleepq_release() of the chain of cc_waiting of CPU p, if a chain is locked.
\* The CPU is the one the callout is on NOW.
SleepqRelease(t, p) ==
  sq_lock' = IF At(t, "drain_locked") THEN [sq_lock EXCEPT ![p] = NULL] ELSE sq_lock

DrainReturn(t) ==
  /\ Goto(t, "idle")
  /\ c' = [c EXCEPT ![t] = NULL]
  /\ dcc' = [dcc EXCEPT ![t] = timeout_cpu]

\* One pass of _callout_stop_safe() from again: on, at "drain" without and at
\* "drain_locked" with the sleep queue chain locked.
Drain(t) ==
  LET x == c[t]
      p == c_cpu[x]
  IN  /\ pc[t] \in {"drain", "drain_locked"}
      /\ ~cc_lock[p]
      /\ \/ /\ c_pending[x]
            /\ Dequeue(x)
            /\ SleepqRelease(t, p)
            /\ DrainReturn(t)
            /\ UNCHANGED cc_waiting
         \/ /\ ~c_pending[x]
            /\ \/ /\ cc_curr[p] # x
                  /\ SleepqRelease(t, p)
                  /\ DrainReturn(t)
                  /\ UNCHANGED cc_waiting
               \/ /\ cc_curr[p] = x
                  /\ At(t, "drain")
                  /\ Goto(t, "drain_sq")
                  /\ dcc' = [dcc EXCEPT ![t] = p]
                  /\ UNCHANGED <<cc_waiting, c, sq_lock>>
               \/ /\ cc_curr[p] = x
                  /\ At(t, "drain_locked")
                  /\ cc_waiting' = [cc_waiting EXCEPT ![p] = TRUE]
                  /\ dcc' = [dcc EXCEPT ![t] = p]
                  /\ SleepqRelease(t, p)
                  /\ Goto(t, "asleep")
                  /\ UNCHANGED c
            /\ UNCHANGED <<cc_callwheel, cc_next, c_pending, c_time, tableVars>>
      /\ UNCHANGED <<ticks, c_cpu, cc_softticks, cc_lock, cc_curr,
                     cc_cancel, swi, owner, curticks, req, local, handle, stopped>>

\* sleepq_lock(), after which the checks are made again.
DrainSq(t) ==
  /\ At(t, "drain_sq")
  /\ sq_lock[dcc[t]] = NULL
  /\ sq_lock' = [sq_lock EXCEPT ![dcc[t]] = t]
  /\ Goto(t, "drain_locked")
  /\ UNCHANGED <<ticks, wheelVars, cpuVars, swi, owner, localVars, handleVars, stopped>>

\* Variant: a drainer that was woken returns without another look.
DrainWoken_once(t) ==
  /\ At(t, "woken")
  /\ DrainReturn(t)
  /\ UNCHANGED <<ticks, wheelVars, cpuVars, swi, owner, sq_lock, curticks, req,
                 handleVars, stopped>>

\* The loop condition after the sleep: done, or wait for the next invocation.
DrainWoken(t) ==
  LET p == dcc[t]
  IN  /\ At(t, "woken")
      /\ ~cc_lock[p]
      /\ \/ /\ cc_curr[p] = c[t]
            /\ Goto(t, "drain_sq")
            /\ UNCHANGED <<c, dcc>>
         \/ cc_curr[p] # c[t] /\ DrainReturn(t)
      /\ UNCHANGED <<ticks, wheelVars, cpuVars, swi, owner, sq_lock, curticks, req,
                     handleVars, stopped>>

\* Clients lock and unlock what protects their callouts.
ClientLock(t, l) ==
  /\ At(t, "idle") /\ req[t] = NULL
  /\ owner[l] = NULL
  /\ owner' = [owner EXCEPT ![l] = t]
  /\ UNCHANGED <<ticks, wheelVars, cpuVars, swi, sq_lock, pc, localVars,
                 handleVars, stopped>>

ClientUnlock(t, l) ==
  /\ At(t, "idle") /\ req[t] = NULL
  /\ owner[l] = t
  /\ owner' = [owner EXCEPT ![l] = NULL]
  /\ UNCHANGED <<ticks, wheelVars, cpuVars, swi, sq_lock, pc, localVars,
                 handleVars, stopped>>

-----------------------------------------------------------------------------
Soft(p) ==
  \/ SoftStart(p) \/ SoftBucket(p) \/ SoftSkip(p) \/ SoftRelock(p) \/ SoftFire(p)
  \/ SoftGetLock(p) \/ SoftCheck(p) \/ SoftArm(p) \/ HandlerUnlock(p) \/ SoftReturn(p)
  \/ SoftDone(p) \/ SoftWakeup(p)

\* The steps of a call in progress.
Step(t) ==
  ResetRetry(t) \/ (t \in Client /\ (Drain(t) \/ DrainSq(t) \/ DrainWoken(t)))

Call(t) ==
  \/ \E x \in Calls : callout_stop(t, x) \/ DrainCall(t, x)
  \/ \E r \in Request : untimeout(t, r)
  \/ \E l \in Lock : ClientLock(t, l) \/ ClientUnlock(t, l)

Next ==
  \/ HardTick
  \/ \E p \in Cpu : callout_tick(p) \/ Soft(p)
  \/ \E t \in Thread : Step(t)
  \/ \E t \in Client : Call(t)
  \/ \E t \in Thread, x \in Calls, to \in Delays, cpu \in Targets :
       Reset(t, x, to, cpu)
  \/ \E t \in Thread, r \in Request, to \in Delays : timeout(t, r, to)

Spec == Init /\ [][Next]_vars

\* The clock ticks, softclock threads run, handlers and calls in progress go on,
\* and clients release their locks.
FairSpec ==
  /\ Spec
  /\ WF_vars(HardTick)
  /\ \A p \in Cpu : WF_vars(callout_tick(p)) /\ SF_vars(Soft(p))
  /\ \A t \in Thread : SF_vars(Step(t))
  /\ \A t \in Client, l \in Lock : WF_vars(ClientUnlock(t, l))

-----------------------------------------------------------------------------
TypeOK ==
  /\ ticks \in Ticks
  /\ cc_softticks \in [Cpu -> Ticks]
  /\ cc_callwheel \in [Cpu -> [0..(WHEEL - 1) -> Seq(Calls)]]
  /\ cc_lock \in [Cpu -> BOOLEAN]
  /\ cc_next \in [Cpu -> Calls \cup {NULL}]
  /\ cc_curr \in [Cpu -> Calls \cup {NULL}]
  /\ cc_cancel \in [Cpu -> BOOLEAN]
  /\ cc_waiting \in [Cpu -> BOOLEAN]
  /\ swi \in [Cpu -> BOOLEAN]
  /\ c_pending \in [Calls -> BOOLEAN]
  /\ c_time \in [Calls -> Ticks]
  /\ c_cpu \in [Calls -> Cpu]
  /\ owner \in [Lock -> Thread \cup {NULL}]
  /\ sq_lock \in [Cpu -> Client \cup {NULL}]
  /\ pc \in [Thread -> SoftPoints \cup ClientPoints]
  /\ c \in [Thread -> Calls \cup {NULL}]
  /\ curticks \in [Cpu -> Ticks]
  /\ req \in [Thread -> [c : Calls, to : Delays, cpu : Cpu] \cup {NULL}]
  /\ dcc \in [Client -> Cpu]
  /\ local \in Tables /\ cc_callfree \in Seq(local)
  /\ c_func \in [Calls -> Request \cup {NULL}]
  /\ handle \in [Request -> local \cup {NULL}]
  /\ stopped \in [Calls -> BOOLEAN]

\* CPUs that execute the handler of callout x.
Executing(x) == {p \in Cpu : pc[p] \in {"handler", "unlocked"} /\ c[p] = x}

\* The bookmark cc_next of a walk that has dropped the lock stays inside the
\* bucket being walked, however callouts are stopped, reset and moved meanwhile.
BookmarkValid ==
  \A p \in Cpu : (~At(p, "idle") /\ ~cc_lock[p] /\ cc_next[p] # NULL) =>
    cc_next[p] \in ToSet(cc_callwheel[p][Bucket(curticks[p])])

\* A callout is on a wheel exactly while it is pending: once, on the wheel of
\* its CPU and in the bucket of its time; and softclock()'s bookmark is valid.
WheelWellFormed ==
  /\ TypeOK
  /\ BookmarkValid
  /\ \A x \in Calls, p \in Cpu, b \in 0..(WHEEL - 1) :
       Cardinality({i \in DOMAIN cc_callwheel[p][b] : cc_callwheel[p][b][i] = x}) =
         IF c_pending[x] /\ p = c_cpu[x] /\ b = Bucket(c_time[x]) THEN 1 ELSE 0

\* softclock() on CPU p has still to come to callout x in the bucket it walks.
StillAhead(p, x) ==
  LET q    == cc_callwheel[p][Bucket(curticks[p])]
      mark == IF cc_lock[p] THEN c[p] ELSE cc_next[p]
  IN  /\ ~At(p, "idle")
      /\ c_time[x] = curticks[p]
      /\ mark # NULL
      /\ \E i, j \in DOMAIN q : i <= j /\ q[i] = mark /\ q[j] = x

\* No callout is forgotten: the time of a pending callout is not behind
\* cc_softticks, which the clock interrupt and softclock() both advance, unless
\* softclock() is on its way to it in the current bucket.
NoMissedCallout ==
  \A x \in Calls : c_pending[x] =>
    \/ Diff(c_time[x], cc_softticks[c_cpu[x]]) >= 0
    \/ StillAhead(c_cpu[x], x)

\* A handler is never entered before its time, also when ticks wraps.
NotEarly ==
  [][\A p \in Cpu : (cc_curr'[p] # cc_curr[p] /\ cc_curr'[p] # NULL) =>
       Diff(ticks, c_time[cc_curr'[p]]) > 0]_vars

\* "Changing to 1 with both callout_lock and c_lock held guarantees that the
\* current callout will not run": after a client has stopped a callout with its
\* lock held, the handler is not executed until somebody resets the callout.  (A
\* handler that releases the lock itself may still be on its way back.)
StoppedStaysStopped ==
  \A x \in Calls : (stopped[x] /\ LockOf(x) # NULL) =>
    /\ ~c_pending[x]
    /\ \A p \in Cpu : ~(pc[p] \in {"arm", "handler"} /\ c[p] = x)

\* The table of timeout() loses no entry and gives none out twice: an entry is on
\* the free list, once and with no function, exactly while it neither waits on the
\* wheel nor is softclock()'s current callout, however untimeout() races with
\* the handler and whatever stale handles it is called with.
TableConserved ==
  \A x \in local :
    /\ Cardinality({i \in DOMAIN cc_callfree : cc_callfree[i] = x}) =
         IF c_pending[x] \/ (\E p \in Cpu : cc_curr[p] = x) THEN 0 ELSE 1
    /\ c_func[x] = NULL <=> x \in ToSet(cc_callfree)

\* When callout_drain() has waited for a callout, its handler has returned.
DrainWaited ==
  [][\A t \in Client : (At(t, "woken") /\ pc'[t] = "idle") =>
       Executing(c[t]) = {}]_vars

\* A drainer that sleeps is woken up: the flag cc_waiting and the sleep queue
\* are protected by different locks.
DrainerIsWoken == \A t \in Client : At(t, "asleep") ~> ~At(t, "asleep")

\* No callout stays pending for one and the same time for ever: it fires, or it
\* is stopped or reset to another time first.
PendingFires ==
  \A x \in Calls : []<>(~c_pending[x]) \/ []<><<c_time'[x] # c_time[x]>>_vars

\* mtx_assert(&sc->sc_lock, MA_OWNED) in sleepq_add() and the unlock in
\* sleepq_release(): a drainer that comes back to again: uses the sleep queue
\* chain it has locked, although the callout may have been moved to another CPU
\* while cc_lock was dropped.
SleepqChainHeld ==
  [][\A t \in Client : (At(t, "drain_locked") /\ pc'[t] # pc[t]) =>
       sq_lock[c_cpu[c[t]]] = t]_vars
=============================================================================
