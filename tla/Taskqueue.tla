------------------------------ MODULE Taskqueue ------------------------------
(***************************************************************************)
(* Task queues of sys/kern/subr_taskqueue.c: one queue, the threads that   *)
(* run its tasks, and clients that enqueue, drain, block, unblock, look up *)
(* and free it.  The owner of tq_mutex is a variable; a section that ends  *)
(* with TQ_UNLOCK or TQ_SLEEP without calling out is one step.  TQ_SLEEP   *)
(* and wakeup() are msleep(9) and wakeup(9): releasing the mutex and going *)
(* to sleep is atomic, and a thread that wakes up competes for the mutex.  *)
(***************************************************************************)
EXTENDS Integers, Sequences, SequencesExt, FiniteSets, FiniteSetsExt

CONSTANTS
  Task,       \* tasks of the clients
  Worker,     \* threads of taskqueue_start_threads(); one of them stands for
              \* the software interrupt thread when the queue has one
  Client,     \* other threads
  ta_priority,\* [Task -> Nat]
  USHRT_MOD,  \* 2 to the width of ta_pending
  ENQ_LIMIT,  \* [Task -> Nat], bound on the enqueues of a task that has not
              \* started yet
  NULL

Thread == Worker \cup Client

ASSUME TaskqueueAssumption ==
  /\ NULL \notin Task \cup Worker \cup Client \cup BOOLEAN
  /\ Worker \cap Client = {}
  /\ IsFiniteSet(Worker)
  /\ ta_priority \in [Task -> Nat]
  /\ USHRT_MOD \in Nat \ {0, 1}
  /\ ENQ_LIMIT \in [Task -> Nat]

VARIABLES
  tq_mutex,    \* Thread or NULL
  tq_queue,    \* Seq(Task)
  tq_running,  \* Task or NULL
  tq_tcount,   \* number of threads that have not ended
  tq_active,   \* TQ_FLAGS_ACTIVE
  tq_blocked,  \* TQ_FLAGS_BLOCKED
  tq_pending,  \* TQ_FLAGS_PENDING
  ta_pending,  \* [Task -> 0..USHRT_MOD-1]
  list_mutex,  \* taskqueue_queues_mutex, Thread or NULL
  listed,      \* the queue is on taskqueue_queues
  freed,       \* taskqueue_free() has freed the queue
  ih_need,     \* the software interrupt is scheduled; NULL for a queue whose
               \* tq_enqueue is taskqueue_thread_enqueue()
  pc,          \* [Thread -> control point]
  task,        \* [Thread -> Task or NULL], the local variable task
  owed         \* [Task -> Nat], enqueues since the task last started; kept by
               \* the clients, no code reads it

flagVars == <<tq_active, tq_blocked, tq_pending>>
listVars == <<list_mutex, listed, freed>>
vars == <<tq_mutex, tq_queue, tq_running, tq_tcount, flagVars, ta_pending,
          listVars, ih_need, pc, task, owed>>

-----------------------------------------------------------------------------
\* A worker sleeps on the queue at "asleep", a drainer on its task at
\* "drain_asleep", the thread that frees the queue on tq_threads at
\* "terminate_asleep".
WorkerPoints == {"new", "loop", "swi_idle", "swi_run", "run", "func", "asleep",
                 "exit"}
ClientPoints == {"idle", "drain", "drain_asleep", "find", "found", "free", "run",
                 "func", "terminate", "terminate_asleep"}

\* tq_enqueue schedules a software interrupt.
TQ_SWI == ih_need # NULL

\* taskqueue_create() with either kind of tq_enqueue.
Init ==
  /\ tq_mutex = NULL
  /\ tq_queue = <<>>
  /\ tq_running = NULL
  /\ tq_tcount = 0
  /\ tq_active = TRUE /\ tq_blocked = FALSE /\ tq_pending = FALSE
  /\ ta_pending = [k \in Task |-> 0]
  /\ list_mutex = NULL /\ listed = TRUE /\ freed = FALSE
  /\ \/ /\ ih_need = NULL
        /\ pc = [t \in Thread |-> IF t \in Client THEN "idle" ELSE "new"]
     \/ /\ ih_need = FALSE
        /\ \E w \in Worker :
             pc = [t \in Thread |-> IF t \in Client THEN "idle"
                                   ELSE IF t = w THEN "swi_idle" ELSE "new"]
  /\ task = [t \in Thread |-> NULL]
  /\ owed = [k \in Task |-> 0]

TQ_LOCK(t) == tq_mutex = NULL /\ tq_mutex' = t
TQ_UNLOCK  == tq_mutex' = NULL

\* A section that takes and releases tq_mutex in one step.
TQ_LOCK_UNLOCK == tq_mutex = NULL /\ UNCHANGED tq_mutex

At(t, p) == pc[t] = p

\* The control points after wakeup() of the threads in S and a move of t to p.
WakeAndGoto(S, resume, t, p) ==
  pc' = [u \in Thread |-> IF u \in S THEN resume ELSE IF u = t THEN p ELSE pc[u]]

Goto(t, p) == pc' = [pc EXCEPT ![t] = p]

Asleep == {w \in Worker : At(w, "asleep")}

\* Variant: nobody is woken.
tq_enqueue_silent == UNCHANGED <<ih_need, pc>>

\* tq_enqueue: wakeup_one() of a worker, or swi_sched().
tq_enqueue ==
  IF TQ_SWI
  THEN ih_need' = TRUE /\ UNCHANGED pc
  ELSE /\ \/ Asleep = {} /\ UNCHANGED pc
          \/ \E w \in Asleep : Goto(w, "loop")
       /\ UNCHANGED ih_need

-----------------------------------------------------------------------------
(***************************************************************************)
(* Clients and task handlers.                                              *)
(***************************************************************************)

\* Variants: a request for a queued task is not counted; the priority is ignored.
CountUp_lost(n) == n
InsertByPriority_fifo(q, k) == Append(q, k)

\* One more request in the u_short ta_pending.
CountUp(n) == (n + 1) % USHRT_MOD

\* Higher priorities first, first in first out within a priority.
InsertByPriority(q, k) ==
  LET lower == {i \in DOMAIN q : ta_priority[q[i]] < ta_priority[k]}
  IN  IF q = <<>> \/ ta_priority[Last(q)] >= ta_priority[k]
      THEN Append(q, k)
      ELSE InsertAt(q, Min(lower), k)

\* taskqueue_enqueue() by a client, or by a task handler at any time.
Enqueue(t, k) ==
  /\ (At(t, "idle") /\ listed) \/ At(t, "func")
  /\ owed[k] < ENQ_LIMIT[k]
  /\ TQ_LOCK_UNLOCK
  /\ owed' = [owed EXCEPT ![k] = @ + 1]
  /\ \/ /\ ta_pending[k] # 0
        /\ ta_pending' = [ta_pending EXCEPT ![k] = CountUp(@)]
        /\ UNCHANGED <<tq_queue, tq_pending, ih_need, pc>>
     \/ /\ ta_pending[k] = 0
        /\ ta_pending' = [ta_pending EXCEPT ![k] = 1]
        /\ tq_queue' = InsertByPriority(tq_queue, k)
        /\ IF tq_blocked
           THEN tq_pending' = TRUE /\ UNCHANGED <<ih_need, pc>>
           ELSE tq_enqueue /\ UNCHANGED tq_pending
  /\ UNCHANGED <<tq_running, tq_tcount, tq_active, tq_blocked, listVars, task>>

Block(t) ==
  /\ At(t, "idle") /\ listed
  /\ TQ_LOCK_UNLOCK
  /\ tq_blocked' = TRUE
  /\ UNCHANGED <<tq_queue, tq_running, tq_tcount, tq_active, tq_pending,
                 ta_pending, listVars, ih_need, pc, task, owed>>

\* Variant: the wakeup that was put off is forgotten.
Unblock_forgets(t) ==
  /\ At(t, "idle") /\ listed
  /\ TQ_LOCK_UNLOCK
  /\ tq_blocked' = FALSE
  /\ tq_pending' = FALSE
  /\ UNCHANGED <<tq_queue, tq_running, tq_tcount, tq_active, ta_pending,
                 listVars, ih_need, pc, task, owed>>

Unblock(t) ==
  /\ At(t, "idle") /\ listed
  /\ TQ_LOCK_UNLOCK
  /\ tq_blocked' = FALSE
  /\ tq_pending' = FALSE
  /\ IF tq_pending THEN tq_enqueue ELSE UNCHANGED <<ih_need, pc>>
  /\ UNCHANGED <<tq_queue, tq_running, tq_tcount, tq_active, ta_pending,
                 listVars, task, owed>>

\* taskqueue_drain(): the call, and one evaluation of its loop condition.
Drain(t, k) ==
  /\ At(t, "idle") /\ listed
  /\ Goto(t, "drain")
  /\ task' = [task EXCEPT ![t] = k]
  /\ UNCHANGED <<tq_mutex, tq_queue, tq_running, tq_tcount, flagVars,
                 ta_pending, listVars, ih_need, owed>>

\* Variant: the task being executed does not count.
Busy_queued(k) == ta_pending[k] # 0

\* What taskqueue_drain() waits for.
Busy(k) == ta_pending[k] # 0 \/ k = tq_running

DrainLoop(t) ==
  /\ At(t, "drain")
  /\ TQ_LOCK_UNLOCK
  /\ IF Busy(task[t])
     THEN Goto(t, "drain_asleep") /\ UNCHANGED task
     ELSE Goto(t, "idle") /\ task' = [task EXCEPT ![t] = NULL]
  /\ UNCHANGED <<tq_queue, tq_running, tq_tcount, flagVars, ta_pending, listVars,
                 ih_need, owed>>

\* taskqueue_find(): returns with the queue locked, and keeps the list locked
\* until it has the queue's mutex.  The caller then unlocks the queue.
Find(t) ==
  /\ At(t, "idle")
  /\ list_mutex = NULL /\ listed
  /\ list_mutex' = t
  /\ Goto(t, "find")
  /\ UNCHANGED <<tq_mutex, tq_queue, tq_running, tq_tcount, flagVars,
                 ta_pending, listed, freed, ih_need, task, owed>>

FindLock(t) ==
  /\ At(t, "find")
  /\ TQ_LOCK(t)
  /\ list_mutex' = NULL
  /\ Goto(t, "found")
  /\ UNCHANGED <<tq_queue, tq_running, tq_tcount, flagVars, ta_pending, listed,
                 freed, ih_need, task, owed>>

FoundUnlock(t) ==
  /\ At(t, "found")
  /\ TQ_UNLOCK
  /\ Goto(t, "idle")
  /\ UNCHANGED <<tq_queue, tq_running, tq_tcount, flagVars, ta_pending, listVars,
                 ih_need, task, owed>>

-----------------------------------------------------------------------------
(***************************************************************************)
(* taskqueue_run().                                                        *)
(***************************************************************************)

\* With the mutex held: take the first task and call its handler without the
\* mutex, or, when there is none, return.  A worker then sleeps, the software
\* interrupt ends, and taskqueue_free() goes on to taskqueue_terminate().
Run(t) ==
  /\ At(t, "run")
  /\ \/ /\ tq_queue # <<>>
        /\ tq_queue' = Tail(tq_queue)
        /\ tq_running' = Head(tq_queue)
        /\ ta_pending' = [ta_pending EXCEPT ![Head(tq_queue)] = 0]
        /\ owed' = [owed EXCEPT ![Head(tq_queue)] = 0]
        /\ task' = [task EXCEPT ![t] = Head(tq_queue)]
        /\ TQ_UNLOCK
        /\ Goto(t, "func")
     \/ /\ tq_queue = <<>>
        /\ \/ t \in Client /\ Goto(t, "terminate") /\ UNCHANGED tq_mutex
           \/ t \in Worker /\ TQ_SWI /\ Goto(t, "swi_idle") /\ TQ_UNLOCK
           \/ t \in Worker /\ ~TQ_SWI /\ Goto(t, "asleep") /\ TQ_UNLOCK
        /\ UNCHANGED <<tq_queue, tq_running, ta_pending, task, owed>>
  /\ UNCHANGED <<tq_tcount, flagVars, listVars, ih_need>>

\* The handler returns: wakeup(task), with the mutex held again.
FuncDone(t) ==
  /\ At(t, "func")
  /\ TQ_LOCK(t)
  /\ tq_running' = NULL
  /\ WakeAndGoto({u \in Client : At(u, "drain_asleep") /\ task[u] = task[t]},
                 "drain", t, "run")
  /\ task' = [task EXCEPT ![t] = NULL]
  /\ UNCHANGED <<tq_queue, tq_tcount, flagVars, ta_pending, listVars, ih_need,
                 owed>>

-----------------------------------------------------------------------------
(***************************************************************************)
(* Threads of the queue, and its end.                                      *)
(***************************************************************************)

\* taskqueue_start_threads(): kthread_add() succeeds for the threads in S and
\* they are released together.  S = {} is also the case of no memory.
StartThreads(t, S) ==
  /\ At(t, "idle") /\ listed /\ ~TQ_SWI
  /\ \A w \in Worker : At(w, "new")
  /\ tq_tcount = 0
  /\ tq_tcount' = Cardinality(S)
  /\ pc' = [u \in Thread |-> IF u \in S THEN "loop" ELSE pc[u]]
  /\ UNCHANGED <<tq_mutex, tq_queue, tq_running, flagVars, ta_pending, listVars,
                 ih_need, task, owed>>

\* The loop condition of taskqueue_thread_loop(), with the mutex just taken:
\* run the queue, or end and tell the thread that asked for it.
ThreadLoop(w) ==
  /\ At(w, "loop")
  /\ \/ /\ tq_active
        /\ TQ_LOCK(w)
        /\ Goto(w, "run")
        /\ UNCHANGED tq_tcount
     \/ /\ ~tq_active
        /\ TQ_LOCK_UNLOCK
        /\ tq_tcount' = tq_tcount - 1
        /\ WakeAndGoto({u \in Client : At(u, "terminate_asleep")}, "terminate",
                       w, "exit")
  /\ UNCHANGED <<tq_queue, tq_running, flagVars, ta_pending, listVars, ih_need,
                 task, owed>>

\* The software interrupt thread clears its flag, then calls
\* taskqueue_swi_run().
SwiStart(w) ==
  /\ At(w, "swi_idle")
  /\ ih_need = TRUE
  /\ ih_need' = FALSE
  /\ Goto(w, "swi_run")
  /\ UNCHANGED <<tq_mutex, tq_queue, tq_running, tq_tcount, flagVars, ta_pending,
                 listVars, task, owed>>

SwiRun(w) ==
  /\ At(w, "swi_run")
  /\ TQ_LOCK(w)
  /\ Goto(w, "run")
  /\ UNCHANGED <<tq_queue, tq_running, tq_tcount, flagVars, ta_pending, listVars,
                 ih_need, task, owed>>

\* taskqueue_free(), called once and when no other client is inside a call:
\* off the list, inactive, run what is queued, wait for the threads, free.
Free(t) ==
  /\ At(t, "idle") /\ listed /\ ~TQ_SWI
  /\ \A u \in Client \ {t} : pc[u] \in {"idle", "find", "found"}
  /\ list_mutex = NULL
  /\ listed' = FALSE
  /\ Goto(t, "free")
  /\ UNCHANGED <<tq_mutex, tq_queue, tq_running, tq_tcount, flagVars, ta_pending,
                 list_mutex, freed, ih_need, task, owed>>

FreeDeactivate(t) ==
  /\ At(t, "free")
  /\ TQ_LOCK(t)
  /\ tq_active' = FALSE
  /\ Goto(t, "run")
  /\ UNCHANGED <<tq_queue, tq_running, tq_tcount, tq_blocked, tq_pending,
                 ta_pending, listVars, ih_need, task, owed>>

\* Variant: the threads are not waited for.
Terminate_now(t) ==
  /\ At(t, "terminate")
  /\ tq_mutex \in {NULL, t}
  /\ TQ_UNLOCK
  /\ freed' = TRUE
  /\ WakeAndGoto(Asleep, "loop", t, "idle")
  /\ UNCHANGED <<tq_queue, tq_running, tq_tcount, flagVars, ta_pending,
                 list_mutex, listed, ih_need, task, owed>>

Terminate(t) ==
  /\ At(t, "terminate")
  /\ tq_mutex \in {NULL, t}
  /\ TQ_UNLOCK
  /\ \/ /\ tq_tcount > 0
        /\ WakeAndGoto(Asleep, "loop", t, "terminate_asleep")
        /\ UNCHANGED freed
     \/ /\ tq_tcount = 0
        /\ freed' = TRUE
        /\ Goto(t, "idle")
  /\ UNCHANGED <<tq_queue, tq_running, tq_tcount, flagVars, ta_pending,
                 list_mutex, listed, ih_need, task, owed>>

-----------------------------------------------------------------------------
\* What a thread does without a client asking for anything.
Step(t) ==
  \/ t \in Worker /\ (ThreadLoop(t) \/ SwiStart(t) \/ SwiRun(t))
  \/ t \in Client /\ \/ DrainLoop(t) \/ FindLock(t) \/ FoundUnlock(t)
                     \/ FreeDeactivate(t) \/ Terminate(t)
  \/ Run(t) \/ FuncDone(t)

Call(t) ==
  \/ \E k \in Task : Drain(t, k)
  \/ \E S \in SUBSET Worker : StartThreads(t, S)
  \/ Block(t) \/ Unblock(t) \/ Find(t) \/ Free(t)

\* The queue is gone and nobody is left inside it.
Finished == freed /\ UNCHANGED vars

Next ==
  \/ \E t \in Thread : Step(t)
  \/ \E t \in Client : Call(t)
  \/ \E t \in Thread, k \in Task : Enqueue(t, k)
  \/ Finished

Spec == Init /\ [][Next]_vars

\* Threads run, handlers return, and a mutex is handed to a thread that keeps
\* asking for it.  Nothing is assumed about a client starting a call.
FairSpec == Spec /\ \A t \in Thread : SF_vars(Step(t))

-----------------------------------------------------------------------------
TypeOK ==
  /\ tq_mutex \in Thread \cup {NULL}
  /\ tq_queue \in Seq(Task)
  /\ tq_running \in Task \cup {NULL}
  /\ tq_tcount \in 0..Cardinality(Worker)
  /\ tq_active \in BOOLEAN /\ tq_blocked \in BOOLEAN /\ tq_pending \in BOOLEAN
  /\ ta_pending \in [Task -> 0..(USHRT_MOD - 1)]
  /\ list_mutex \in Client \cup {NULL}
  /\ listed \in BOOLEAN /\ freed \in BOOLEAN /\ ih_need \in BOOLEAN \cup {NULL}
  /\ pc \in [Thread -> WorkerPoints \cup ClientPoints]
  /\ \A t \in Thread : pc[t] \in IF t \in Worker THEN WorkerPoints ELSE ClientPoints
  /\ task \in [Thread -> Task \cup {NULL}]
  /\ owed \in [Task -> Nat]

\* The queue has been given a thread.
Started == \E w \in Worker : ~At(w, "new")

\* Threads that are executing the handler of task k.
Running(k) == {t \in Thread : At(t, "func") /\ task[t] = k}

\* "a count of how many times the task was enqueued before the call": the
\* counter passed to the handler is the number of requests it stands for, so no
\* request is dropped or answered twice.
PendingCountExact == \A k \in Task : ta_pending[k] = owed[k]

\* A task is on the queue exactly while requests for it are pending, once, in
\* the order of the priorities; a second link would corrupt the STAILQ.
QueueWellFormed ==
  /\ TypeOK
  /\ IsInjective(tq_queue)
  /\ \A k \in Task : k \in ToSet(tq_queue) <=> ta_pending[k] # 0
  /\ \A i \in 1..(Len(tq_queue) - 1) :
       ta_priority[tq_queue[i]] >= ta_priority[tq_queue[i + 1]]

\* No lost wakeup: while a task is queued, somebody is awake to run it, or the
\* queue is blocked and taskqueue_unblock() knows that it has to wake a worker.
\* The check of the queue and the sleep of a worker are atomic with respect to
\* the insertion and the wakeup, also when block and unblock fall in between.
QueuedTaskIsRun ==
  (Started /\ tq_queue # <<>>) =>
    \/ \E t \in Thread : pc[t] \in {"loop", "swi_run", "run", "func", "free"}
    \/ ih_need = TRUE
    \/ tq_blocked /\ tq_pending

\* taskqueue_free() frees the queue only when every thread has left it and
\* nothing queued is lost, also against lookups and handlers that enqueue.
FreedIsUnused ==
  freed => /\ \A t \in Thread : pc[t] \in {"idle", "new", "exit"}
           /\ tq_queue = <<>>
           /\ tq_mutex = NULL

\* The same, seen from the clients: once the queue has a thread, a request is
\* eventually served, provided the clients do not leave the queue blocked and
\* there is no stream of tasks with a higher priority.
RequestIsServed ==
  ([]<>~tq_blocked) =>
    \A k \in Task : (\A j \in Task : ta_priority[j] <= ta_priority[k]) =>
      ((Started /\ owed[k] > 0) ~> (owed[k] = 0))

\* "we make sure our async task has completed by calling taskqueue_drain"
\* (sys/nlm/nlm_prot_impl.c): when taskqueue_drain() returns, the handler of the
\* task is not being executed.
DrainedIsDone ==
  [][\A t \in Client : (At(t, "drain") /\ pc'[t] = "idle") =>
       Running(task[t]) = {}]_vars

\* The same for a queue with at most one thread, where tq_running is the task of
\* that thread: a drain that returns has waited for every handler of its task,
\* also for one that was enqueued again while it was executed.
SoloDrainIsDone ==
  [][\A t \in Client : (At(t, "drain") /\ pc'[t] = "idle" /\ tq_tcount <= 1) =>
       Running(task[t]) = {}]_vars

\* "rendezvous with thread that asked us to terminate": taskqueue_free() does
\* not wait for ever.
FreeReturns == \A t \in Client : At(t, "free") ~> freed

=============================================================================
