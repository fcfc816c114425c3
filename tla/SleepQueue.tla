------------------------------ MODULE SleepQueue ------------------------------
(***************************************************************************)
(* The sleep queues of sys/kern/subr_sleepqueue.c.  Each operator is one   *)
(* function, from the state s of the sleep queues (the variable slp of the *)
(* modules that extend this one) to the state the function leaves; the     *)
(* caller holds the locks the function asserts.                            *)
(*                                                                         *)
(* All sleep queues are alike, so a queue is only counted: a thread has a  *)
(* spare one or it has not, a wait channel has one attached or not, and    *)
(* sq_free is the number of queues the later sleepers have lent it.  The   *)
(* callout of a thread (td_slpcallout) keeps the contract of callout(9):   *)
(* callout_stop removes a pending callout and returns 1, and returns 0     *)
(* when the handler is already running or the callout is not scheduled.    *)
(***************************************************************************)
EXTENDS Integers, Sequences, SequencesExt, FiniteSetsExt

CONSTANTS
  Thread,
  Wchan,        \* wait channels
  td_priority,  \* [Thread -> Nat], a smaller number is more important
  NULL

ASSUME SleepQueueAssumption ==
  /\ td_priority \in [Thread -> Nat]
  /\ NULL \notin Thread \cup Wchan

VARIABLE slp

-----------------------------------------------------------------------------
SINTR      == "TDF_SINTR"        \* in an interruptible sleep
SLEEPABORT == "TDF_SLEEPABORT"   \* sleepq_abort() ended the sleep
TIMEOUT    == "TDF_TIMEOUT"      \* the sleep timed out, or waits for the callout
TIMOFAIL   == "TDF_TIMOFAIL"     \* the callout came after the wakeup
NEEDSIGCHK == "TDF_NEEDSIGCHK"   \* signals to look at
Flag == {SINTR, SLEEPABORT, TIMEOUT, TIMOFAIL, NEEDSIGCHK}

ThreadState ==
  [sq : BOOLEAN,                             \* td_sleepqueue is not NULL
   wchan : Wchan \cup {NULL},
   flags : SUBSET Flag,
   sleeping : BOOLEAN,                       \* TD_IS_SLEEPING
   callout : {"idle", "pending", "running"}]

SleepQueueState ==
  [blocked : [Wchan -> Seq(Thread)],  \* sq_blocked
   free : [Wchan -> Nat],             \* length of sq_free
   attached : SUBSET Wchan,
   td : [Thread -> ThreadState]]

SleepQueueTypeOK == slp \in SleepQueueState

\* init_sleepqueues(), and sleepq_alloc() for every thread.
SleepQueueInit ==
  slp = [blocked |-> [w \in Wchan |-> <<>>],
         free |-> [w \in Wchan |-> 0],
         attached |-> {},
         td |-> [t \in Thread |-> [sq |-> TRUE, wchan |-> NULL, flags |-> {},
                                   sleeping |-> FALSE, callout |-> "idle"]]]

TD_ON_SLEEPQ(s, t)   == s.td[t].wchan # NULL
TD_IS_SLEEPING(s, t) == s.td[t].sleeping
HasFlag(s, t, f)     == f \in s.td[t].flags

SetFlags(s, t, f)   == [s EXCEPT !.td[t].flags = @ \cup f]
ClearFlags(s, t, f) == [s EXCEPT !.td[t].flags = @ \ f]

-----------------------------------------------------------------------------
(***************************************************************************)
(* Going to sleep.                                                         *)
(***************************************************************************)
sleepq_add(s, t, w, interruptible) ==
  LET q == [s EXCEPT !.blocked[w] = Append(@, t),
                     !.free[w] = IF w \in s.attached THEN @ + 1 ELSE @,
                     !.attached = @ \cup {w},
                     !.td[t] = [@ EXCEPT !.sq = FALSE, !.wchan = w]]
  IN IF interruptible
     THEN ClearFlags(SetFlags(q, t, {SINTR}), t, {SLEEPABORT})
     ELSE q

sleepq_set_timeout(s, t) == [s EXCEPT !.td[t].callout = "pending"]

\* What is left of a sleep in a thread that is made runnable.
Awake(td) ==
  [td EXCEPT !.sq = TRUE, !.wchan = NULL, !.sleeping = FALSE, !.flags = @ \ {SINTR}]

\* Variant: the queue itself is taken while other threads still sleep on it.
sleepq_resume_thread_first(s, t) ==
  LET w == s.td[t].wchan
  IN [s EXCEPT !.blocked[w] = RemoveFirst(@, t),
               !.attached = @ \ {w},
               !.td[t] = Awake(@)]

\* The last sleeper takes the queue itself, the others one of the lent ones.
sleepq_resume_thread(s, t) ==
  LET w == s.td[t].wchan
      last == s.free[w] = 0
  IN [s EXCEPT !.blocked[w] = RemoveFirst(@, t),
               !.attached = IF last THEN @ \ {w} ELSE @,
               !.free[w] = IF last THEN @ ELSE @ - 1,
               !.td[t] = Awake(@)]

\* Variant: a timeout that came before the thread slept is not looked for.
sleepq_switch_deaf(s, t) ==
  IF s.td[t].sq THEN s ELSE [s EXCEPT !.td[t].sleeping = TRUE]

\* After it the thread sleeps, unless it was woken or timed out already.
sleepq_switch(s, t) ==
  CASE s.td[t].sq -> s
    [] ~ s.td[t].sq /\ HasFlag(s, t, TIMEOUT) -> sleepq_resume_thread(s, t)
    [] OTHER -> [s EXCEPT !.td[t].sleeping = TRUE]

-----------------------------------------------------------------------------
(***************************************************************************)
(* Coming back.                                                            *)
(***************************************************************************)
\* Variant: a callout that callout_stop() could not stop is not waited for.
sleepq_check_timeout_nowait(s, t) ==
  IF HasFlag(s, t, TIMEOUT) \/ HasFlag(s, t, TIMOFAIL)
  THEN ClearFlags(s, t, {TIMEOUT, TIMOFAIL})
  ELSE [s EXCEPT !.td[t].callout = IF @ = "pending" THEN "idle" ELSE @]

\* After it the thread sleeps, off any queue, if its callout is running and has
\* yet to look at the thread.
sleepq_check_timeout(s, t) ==
  CASE HasFlag(s, t, TIMEOUT)  -> ClearFlags(s, t, {TIMEOUT})
    [] ~ HasFlag(s, t, TIMEOUT) /\ HasFlag(s, t, TIMOFAIL) ->
         ClearFlags(s, t, {TIMOFAIL})
    [] ~ HasFlag(s, t, TIMEOUT) /\ ~ HasFlag(s, t, TIMOFAIL)
       /\ s.td[t].callout = "pending" -> [s EXCEPT !.td[t].callout = "idle"]
    [] OTHER -> [SetFlags(s, t, {TIMEOUT}) EXCEPT !.td[t].sleeping = TRUE]

TimeoutValue(s, t) == IF HasFlag(s, t, TIMEOUT) THEN "EWOULDBLOCK" ELSE "0"

sleepq_check_signals(s, t) == ClearFlags(s, t, {SINTR, SLEEPABORT})

SignalValue(s, t) == IF HasFlag(s, t, SLEEPABORT) THEN "EINTR" ELSE "0"

-----------------------------------------------------------------------------
(***************************************************************************)
(* Waking up.                                                              *)
(***************************************************************************)
\* The most important thread of the queue, the first one among equals.
Best(q) ==
  q[Min({i \in DOMAIN q :
           \A j \in DOMAIN q : td_priority[q[i]] <= td_priority[q[j]]})]

sleepq_signal(s, w) ==
  IF w \in s.attached THEN sleepq_resume_thread(s, Best(s.blocked[w])) ELSE s

\* sleepq_resume_thread() for every sleeper: the lent queues are used up, and the
\* last sleeper takes the queue itself.
sleepq_broadcast(s, w) ==
  IF w \in s.attached
  THEN [s EXCEPT !.blocked[w] = <<>>,
                 !.free[w] = 0,
                 !.attached = @ \ {w},
                 !.td = [t \in Thread |-> IF t \in ToSet(s.blocked[w])
                                          THEN Awake(s.td[t]) ELSE s.td[t]]]
  ELSE s

\* The handler of the thread's callout; with it the callout is done.
sleepq_timeout(s, t) ==
  LET done == [s EXCEPT !.td[t].callout = "idle"]
  IN CASE TD_ON_SLEEPQ(s, t) /\ TD_IS_SLEEPING(s, t) ->
            sleepq_resume_thread(SetFlags(done, t, {TIMEOUT}), t)
       [] TD_ON_SLEEPQ(s, t) /\ ~ TD_IS_SLEEPING(s, t) ->
            SetFlags(done, t, {TIMEOUT})
       [] ~ TD_ON_SLEEPQ(s, t) /\ HasFlag(s, t, TIMEOUT) ->
            [ClearFlags(done, t, {TIMEOUT}) EXCEPT !.td[t].sleeping = FALSE]
       [] OTHER -> SetFlags(done, t, {TIMOFAIL})

\* Ends an interruptible sleep for a signal.
sleepq_abort(s, t) ==
  LET aborted == SetFlags(s, t, {SLEEPABORT})
  IN CASE HasFlag(s, t, TIMEOUT) -> s
       [] ~ HasFlag(s, t, TIMEOUT) /\ TD_IS_SLEEPING(s, t) ->
            sleepq_resume_thread(aborted, t)
       [] OTHER -> aborted

-----------------------------------------------------------------------------
\* A wait channel has a queue attached exactly while threads sleep on it, with one
\* lent queue for each sleeper but the first; a thread has a spare queue exactly
\* while it is on none, so waking it never leaves it, or the channel, without one.
SleepQueueConservation ==
  /\ \A w \in Wchan :
       /\ w \in slp.attached <=> slp.blocked[w] # <<>>
       /\ w \in slp.attached => slp.free[w] = Len(slp.blocked[w]) - 1
       /\ IsInjective(slp.blocked[w])
  /\ \A t \in Thread :
       /\ slp.td[t].sq <=> ~ TD_ON_SLEEPQ(slp, t)
       /\ \A w \in Wchan :
            slp.td[t].wchan = w <=> t \in ToSet(slp.blocked[w])
=============================================================================
