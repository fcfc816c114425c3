------------------------------ MODULE KernSynch ------------------------------
(***************************************************************************)
(* The clients of the sleep queues: _sleep, wakeup and wakeup_one          *)
(* (sys/kern/kern_synch.c), condition variables (sys/kern/kern_condvar.c)  *)
(* and counting semaphores (sys/kern/kern_sema.c), with the two things     *)
(* that race with them: the timeout of a sleep and the posting of a signal *)
(* (sys/kern/kern_sig.c).                                                  *)
(*                                                                         *)
(* Every behaviour uses one of the three interfaces, in the same way: a    *)
(* wait takes one unit of a count or sleeps until there is one, a post     *)
(* adds one and wakes.  The count is sema_value for the semaphore, and the *)
(* caller's own condition, under the interlock, for the other two.         *)
(*                                                                         *)
(* A step that needs a lock waits until it is free and, when the code      *)
(* releases the lock before the next step, does not show it.  So the       *)
(* interlock is held across steps only where _sleep or cv_wait must drop   *)
(* the chain lock to release a sleepable interlock.  The thread lock of a  *)
(* thread that sleeps on a queue is the chain lock.                        *)
(***************************************************************************)
EXTENDS SleepQueue

CONSTANTS
  Apis,       \* subset of {"sleep", "cv", "sema"}, the interfaces explored
  Kinds,      \* subset of {"mtx", "sx"}, the interlocks explored
  MaxValue,   \* bound: posts stop at this value of the count
  INT_MAX,    \* the largest value of the int cv_waiters
  MayWrap     \* bound: may cv_waiters pass INT_MAX?

ASSUME KernSynchAssumption ==
  /\ IsFiniteSet(Thread) /\ "signal" \notin Thread \cup {NULL}
  /\ NULL \notin [td : Thread, cont : BOOLEAN]
  /\ Wchan # {} /\ MaxValue \in Nat /\ INT_MAX \in Nat

VARIABLES
  api, kind,     \* the interface and the class of its interlock
  lock,          \* owner of the interlock, NULL when it is free
  sc_lock,       \* owner of the chain lock
  p_lock,        \* owner of the proc lock: a thread, "signal", or NULL
  p_slock,       \* owner of the proc spin lock
  pc,            \* [Thread -> where the thread stands]
  call,          \* [Thread -> [catch, timo : BOOLEAN]], the sleep it asked for
  rval,          \* [Thread -> the value the sleep returns, as far as known]
  td_sig,        \* [Thread -> the signal queued for the thread]: "none", one that
                 \* is "caught", or "cont", SIGCONT at its default action
  sigto,         \* the signal being posted: [td, cont], or NULL
  value,         \* sema_value, or the caller's count
  cv_waiters,
  sema_waiters

locks == <<lock, sc_lock, p_lock, p_slock>>
counts == <<value, cv_waiters, sema_waiters>>
sigVars == <<td_sig, sigto>>
vars == <<slp, api, kind, locks, pc, call, rval, sigVars, counts>>

\* One wait channel is enough: the channels share nothing but the chain lock.
wchan == CHOOSE w \in Wchan : TRUE

NoCall == [catch |-> FALSE, timo |-> FALSE]

Init ==
  /\ SleepQueueInit
  /\ api \in Apis
  /\ kind \in Kinds /\ (api = "sema" => kind = "mtx")   \* sema_mtx
  /\ lock = NULL /\ sc_lock = NULL /\ p_lock = NULL /\ p_slock = NULL
  /\ pc = [t \in Thread |-> "idle"]
  /\ call = [t \in Thread |-> NoCall]
  /\ rval = [t \in Thread |-> "0"]
  /\ td_sig = [t \in Thread |-> "none"]
  /\ sigto = NULL
  /\ value = 0 /\ cv_waiters = 0 /\ sema_waiters = 0

Goto(t, label) == pc' = [pc EXCEPT ![t] = label]

-----------------------------------------------------------------------------
(***************************************************************************)
(* Putting the thread on the queue: _sleep and the cv_wait family.         *)
(***************************************************************************)
Incremented(n) == IF n = INT_MAX THEN - INT_MAX - 1 ELSE n + 1

\* The chain lock keeps wakeups out until the thread sleeps, unless the interlock
\* is sleepable: then it is held while the chain lock is free.
Enter(t, c) ==
  /\ sc_lock = NULL
  /\ slp' = LET s == sleepq_add(slp, t, wchan, c.catch)
            IN IF c.timo THEN sleepq_set_timeout(s, t) ELSE s
  /\ IF api = "sleep"
     THEN UNCHANGED cv_waiters
     ELSE /\ MayWrap \/ cv_waiters < INT_MAX
          /\ cv_waiters' = Incremented(cv_waiters)
  /\ call' = [call EXCEPT ![t] = c]
  /\ IF kind = "mtx"
     THEN sc_lock' = t /\ lock' = NULL /\ Goto(t, "added")
     ELSE lock' = t /\ UNCHANGED sc_lock /\ Goto(t, "unlocking")

UnlockSleepable(t) ==
  /\ pc[t] = "unlocking"
  /\ lock' = NULL
  /\ Goto(t, "relock")
  /\ UNCHANGED <<slp, api, kind, sc_lock, p_lock, p_slock, call, rval, sigVars, counts>>

RelockChain(t) ==
  /\ pc[t] = "relock"
  /\ sc_lock = NULL
  /\ sc_lock' = t
  /\ Goto(t, "added")
  /\ UNCHANGED <<slp, api, kind, lock, p_lock, p_slock, call, rval, sigVars, counts>>

-----------------------------------------------------------------------------
(***************************************************************************)
(* sleepq_wait, sleepq_wait_sig, sleepq_timedwait, sleepq_timedwait_sig.   *)
(***************************************************************************)
\* What is left once the thread runs again with its lock held: the checks for a
\* timeout and for a signal.  A signal found before sleeping comes first.
Finish(s, t, rcatch) ==
  LET s1 == IF call[t].timo THEN sleepq_check_timeout(s, t) ELSE s
      s2 == IF call[t].catch THEN sleepq_check_signals(s1, t) ELSE s1
      rvals == IF call[t].catch THEN SignalValue(s1, t) ELSE "0"
      rvalt == IF call[t].timo THEN TimeoutValue(s, t) ELSE "0"
  IN IF TD_IS_SLEEPING(s1, t)
     THEN /\ slp' = s1
          /\ rval' = [rval EXCEPT ![t] = rcatch]
          /\ Goto(t, "sync")
     ELSE /\ slp' = s2
          /\ rval' = [rval EXCEPT ![t] = CASE rcatch # "0" -> rcatch
                                           [] rcatch = "0" /\ rvals # "0" -> rvals
                                           [] OTHER -> rvalt]
          /\ Goto(t, "return")

\* sleepq_switch() and, if the thread did not sleep, the checks.
Switch(t) ==
  LET s == sleepq_switch(slp, t)
  IN IF TD_IS_SLEEPING(s, t)
     THEN slp' = s /\ Goto(t, "asleep") /\ UNCHANGED rval
     ELSE Finish(s, t, "0")

Wait(t) ==
  /\ pc[t] = "added"
  /\ sc_lock' = NULL
  /\ IF call[t].catch /\ HasFlag(slp, t, NEEDSIGCHK)
     THEN Goto(t, "catch") /\ UNCHANGED <<slp, rval>>
     ELSE Switch(t)
  /\ UNCHANGED <<api, kind, lock, p_lock, p_slock, call, sigVars, counts>>

\* sleepq_catch_signals(): look for a signal under the proc lock.  cursig() throws
\* away a SIGCONT at its default action and finds nothing ...
CatchSignals(t) ==
  /\ pc[t] = "catch"
  /\ p_lock = NULL
  /\ p_lock' = t
  /\ rval' = [rval EXCEPT ![t] = IF td_sig[t] = "caught" THEN "EINTR" ELSE "0"]
  /\ td_sig' = [td_sig EXCEPT ![t] = IF @ = "cont" THEN "none" ELSE @]
  /\ Goto(t, "cursig")
  /\ UNCHANGED <<slp, api, kind, lock, sc_lock, p_slock, call, sigto, counts>>

\* Variant: the proc spin lock is not taken before the proc lock is dropped.
Interlocked_bare(t) ==
  /\ sc_lock' = t /\ p_lock' = NULL
  /\ UNCHANGED p_slock

\* ... and hand over to the proc spin lock, which the poster of a signal takes
\* before it looks at the thread.
Interlocked(t) ==
  /\ p_slock = NULL
  /\ p_slock' = t /\ sc_lock' = t /\ p_lock' = NULL

CatchRelock(t) ==
  /\ pc[t] = "cursig"
  /\ sc_lock = NULL
  /\ Interlocked(t)
  /\ Goto(t, "recheck")
  /\ UNCHANGED <<slp, api, kind, lock, call, rval, sigVars, counts>>

CatchRecheck(t) ==
  /\ pc[t] = "recheck"
  /\ sc_lock' = NULL
  /\ p_slock' = IF p_slock = t THEN NULL ELSE p_slock
  /\ IF rval[t] = "0"
     THEN Switch(t)
     ELSE Finish(IF TD_ON_SLEEPQ(slp, t) THEN sleepq_resume_thread(slp, t) ELSE slp,
                 t, rval[t])
  /\ UNCHANGED <<api, kind, lock, p_lock, call, sigVars, counts>>

\* mi_switch() returns: the thread was made runnable and has the processor.
Resumed(t) ==
  /\ pc[t] = "asleep"
  /\ ~ TD_IS_SLEEPING(slp, t)
  /\ Finish(slp, t, "0")
  /\ UNCHANGED <<api, kind, locks, call, sigVars, counts>>

\* The callout has looked at the thread that waited for it.
Synced(t) ==
  /\ pc[t] = "sync"
  /\ ~ TD_IS_SLEEPING(slp, t)
  /\ slp' = IF call[t].catch THEN sleepq_check_signals(slp, t) ELSE slp
  /\ rval' = [rval EXCEPT ![t] =
                IF @ = "0" /\ call[t].catch THEN SignalValue(slp, t) ELSE @]
  /\ Goto(t, "return")
  /\ UNCHANGED <<api, kind, locks, call, sigVars, counts>>

-----------------------------------------------------------------------------
(***************************************************************************)
(* A wait: sema_wait and sema_timedwait, or the same loop around _sleep or *)
(* cv_wait.  Taking a unit without sleeping is also sema_trywait.          *)
(***************************************************************************)
Calls == IF api = "sema" THEN [catch : {FALSE}, timo : BOOLEAN]
         ELSE [catch : BOOLEAN, timo : BOOLEAN]

StartWait(t, c) ==
  /\ pc[t] = "idle"
  /\ lock = NULL
  /\ IF value > 0
     THEN /\ value' = value - 1
          /\ UNCHANGED <<slp, lock, sc_lock, pc, call, cv_waiters, sema_waiters>>
     ELSE /\ Enter(t, c)
          /\ sema_waiters' = sema_waiters + (IF api = "sema" THEN 1 ELSE 0)
          /\ UNCHANGED value
  /\ UNCHANGED <<api, kind, p_lock, p_slock, rval, sigVars>>

\* Variant: a sleep that returns an error takes no unit.
TakesUnit_unless_error(t) == value > 0 /\ rval[t] = "0"

\* A unit is taken whatever the sleep returned.
TakesUnit(t) == value > 0

\* The sleep returns: the interlock is taken again and the condition tested.
ReturnFromSleep(t) ==
  /\ pc[t] = "return"
  /\ lock = NULL
  /\ \/ /\ TakesUnit(t)
        /\ value' = value - 1
        /\ sema_waiters' = sema_waiters - (IF api = "sema" THEN 1 ELSE 0)
        /\ Goto(t, "idle") /\ call' = [call EXCEPT ![t] = NoCall]
        /\ UNCHANGED <<slp, lock, sc_lock, cv_waiters>>
     \/ /\ ~ TakesUnit(t)
        /\ rval[t] # "0"
        /\ sema_waiters' = sema_waiters - (IF api = "sema" THEN 1 ELSE 0)
        /\ Goto(t, "idle") /\ call' = [call EXCEPT ![t] = NoCall]
        /\ UNCHANGED <<slp, lock, sc_lock, value, cv_waiters>>
     \/ /\ ~ TakesUnit(t)
        /\ rval[t] = "0"
        /\ Enter(t, call[t])
        /\ UNCHANGED <<value, sema_waiters>>
  /\ rval' = [rval EXCEPT ![t] = "0"]
  /\ UNCHANGED <<api, kind, p_lock, p_slock, sigVars>>

-----------------------------------------------------------------------------
(***************************************************************************)
(* A post: the count is raised under the interlock, and then a wakeup.     *)
(***************************************************************************)
wakeup     == slp' = sleepq_broadcast(slp, wchan)
wakeup_one == slp' = sleepq_signal(slp, wchan)

cv_signal ==
  IF cv_waiters > 0
  THEN cv_waiters' = cv_waiters - 1 /\ slp' = sleepq_signal(slp, wchan)
  ELSE UNCHANGED <<slp, cv_waiters>>

cv_broadcastpri ==
  IF cv_waiters > 0
  THEN cv_waiters' = 0 /\ slp' = sleepq_broadcast(slp, wchan)
  ELSE UNCHANGED <<slp, cv_waiters>>

_sema_post ==
  IF sema_waiters > 0 THEN cv_signal ELSE UNCHANGED <<slp, cv_waiters>>

Post ==
  /\ value < MaxValue
  /\ lock = NULL /\ sc_lock = NULL
  /\ value' = value + 1
  /\ \/ api = "sleep" /\ (wakeup \/ wakeup_one) /\ UNCHANGED cv_waiters
     \/ api = "cv" /\ (cv_signal \/ cv_broadcastpri)
     \/ api = "sema" /\ _sema_post
  /\ UNCHANGED <<api, kind, locks, pc, call, rval, sigVars, sema_waiters>>

-----------------------------------------------------------------------------
(***************************************************************************)
(* The callout of a sleep, and signals.                                    *)
(***************************************************************************)
\* The thread lock of t can be taken by another thread.
ThreadLockFree(t) ==
  TD_ON_SLEEPQ(slp, t) /\ TD_IS_SLEEPING(slp, t) => sc_lock = NULL

CalloutFires(t) ==
  /\ slp.td[t].callout = "pending"
  /\ slp' = [slp EXCEPT !.td[t].callout = "running"]
  /\ UNCHANGED <<api, kind, locks, pc, call, rval, sigVars, counts>>

CalloutRuns(t) ==
  /\ slp.td[t].callout = "running"
  /\ ThreadLockFree(t)
  /\ slp' = sleepq_timeout(slp, t)
  /\ UNCHANGED <<api, kind, locks, pc, call, rval, sigVars, counts>>

\* tdsignal() for a caught signal, or for SIGCONT at its default: queue it and, in
\* signotify(), have the thread look (bound: one queued signal per thread) ...
PostSignal(t, cont) ==
  /\ sigto = NULL /\ td_sig[t] = "none"
  /\ p_lock = NULL
  /\ ThreadLockFree(t)
  /\ p_lock' = "signal"
  /\ sigto' = [td |-> t, cont |-> cont]
  /\ td_sig' = [td_sig EXCEPT ![t] = IF cont THEN "cont" ELSE "caught"]
  /\ slp' = SetFlags(slp, t, {NEEDSIGCHK})
  /\ UNCHANGED <<api, kind, lock, sc_lock, p_slock, pc, call, rval, counts>>

\* ... and then tdsigwakeup(): abort the sleep if it is interruptible.  A
\* SIGCONT at its default action wakes nobody and is taken back instead.
tdsigwakeup ==
  /\ sigto # NULL
  /\ LET t == sigto.td
         interruptible == TD_ON_SLEEPQ(slp, t) /\ HasFlag(slp, t, SINTR)
     IN /\ p_slock = NULL
        /\ ThreadLockFree(t)
        /\ slp' = IF interruptible /\ ~ sigto.cont THEN sleepq_abort(slp, t) ELSE slp
        /\ td_sig' = [td_sig EXCEPT ![t] = IF interruptible /\ sigto.cont THEN "none" ELSE @]
  /\ p_lock' = NULL
  /\ sigto' = NULL
  /\ UNCHANGED <<api, kind, lock, sc_lock, p_slock, pc, call, rval, counts>>

\* ast(): on its way to user mode the thread takes its signals.
ast(t) ==
  /\ pc[t] = "idle"
  /\ HasFlag(slp, t, NEEDSIGCHK)
  /\ p_lock = NULL
  /\ slp' = ClearFlags(slp, t, {NEEDSIGCHK})
  /\ td_sig' = [td_sig EXCEPT ![t] = "none"]
  /\ UNCHANGED <<api, kind, locks, pc, call, rval, sigto, counts>>

-----------------------------------------------------------------------------
ThreadStep(t) ==
  \/ UnlockSleepable(t) \/ RelockChain(t)
  \/ Wait(t) \/ CatchSignals(t) \/ CatchRelock(t) \/ CatchRecheck(t)
  \/ Resumed(t) \/ Synced(t) \/ ReturnFromSleep(t)

Timer(t) == CalloutFires(t) \/ CalloutRuns(t)

Next ==
  \/ \E t \in Thread : \/ \E c \in Calls : StartWait(t, c)
                       \/ ThreadStep(t) \/ Timer(t) \/ ast(t)
                       \/ \E cont \in BOOLEAN : PostSignal(t, cont)
  \/ Post
  \/ tdsigwakeup

Spec == Init /\ [][Next]_vars

-----------------------------------------------------------------------------
(* Properties *)

InSleep == {"unlocking", "relock", "added", "catch", "cursig", "recheck",
            "asleep", "sync"}

TypeOK ==
  /\ SleepQueueTypeOK
  /\ api \in Apis /\ kind \in Kinds
  /\ {lock, sc_lock, p_slock} \subseteq Thread \cup {NULL}
  /\ p_lock \in Thread \cup {NULL, "signal"}
  /\ pc \in [Thread -> InSleep \cup {"idle", "return"}]
  /\ call \in [Thread -> [catch : BOOLEAN, timo : BOOLEAN]]
  /\ rval \in [Thread -> {"0", "EINTR", "EWOULDBLOCK"}]
  /\ td_sig \in [Thread -> {"none", "cont", "caught"}]
  /\ sigto \in [td : Thread, cont : BOOLEAN] \cup {NULL}
  /\ value \in 0 .. MaxValue
  /\ cv_waiters \in (- INT_MAX - 1) .. INT_MAX
  /\ sema_waiters \in 0 .. Cardinality(Thread)

\* A sleep leaves nothing behind: when it returns its callout neither is pending
\* nor runs, and no flag of it is set, so a late timeout or abort of one sleep
\* can never end a later sleep of the same thread.
NothingLeftBehind ==
  /\ TypeOK
  /\ \A t \in Thread :
       pc[t] \in {"idle", "return"} =>
         /\ slp.td[t].callout = "idle"
         /\ slp.td[t].flags \subseteq {NEEDSIGCHK}
         /\ ~ TD_ON_SLEEPQ(slp, t) /\ ~ TD_IS_SLEEPING(slp, t)

\* A thread in a timed sleep sleeps only while its callout is there to end it, and
\* one that sleeps on no queue waits for a callout that is running and has yet to
\* see it: nothing else will ever wake that thread.
SleepHasTimer ==
  \A t \in Thread :
    TD_IS_SLEEPING(slp, t) =>
      IF TD_ON_SLEEPQ(slp, t)
      THEN call[t].timo => slp.td[t].callout # "idle"
      ELSE slp.td[t].callout = "running" /\ HasFlag(slp, t, TIMEOUT)

\* No thread sleeps interruptibly on a signal: if one is queued for it, its poster
\* has yet to look at the thread.
NoSleepOnSignal ==
  \A t \in Thread :
    TD_IS_SLEEPING(slp, t) /\ HasFlag(slp, t, SINTR) /\ td_sig[t] # "none" =>
      sigto # NULL /\ sigto.td = t

\* While a thread sleeps, every unit of the count is matched by a thread that has
\* been woken and will test the count: no wakeup is lost, to a timeout or a signal
\* that comes at the same time, to a stale cv_waiters or in the window between
\* releasing the interlock and sleeping.
NoLostPost ==
  (\E t \in Thread : TD_ON_SLEEPQ(slp, t) /\ TD_IS_SLEEPING(slp, t)) =>
    value <= Cardinality({t \in Thread : pc[t] # "idle" /\ ~ TD_ON_SLEEPQ(slp, t)})
=============================================================================
