# Verification of the kernel synchronisation core

TLA+ models, TLC runs and TLAPS proofs for the part of the FreeBSD kernel that
everything else leans on: sleep mutexes and reader/writer locks, the turnstiles
under them, sleep queues with `msleep()`, condition variables and semaphores on
top, task queues, callouts, and the lock-free buffer ring. All paths are relative to the repository (`src/sys/...`).

## 1. Inventory

| component | source | state | operations | interacts with | hard behaviours | what makes it correct | status |
|---|---|---|---|---|---|---|---|
| sleep mutexes | `kern/kern_mutex.c`, `sys/mutex.h` | lock word (owner, MTX_RECURSED, MTX_CONTESTED), `mtx_recurse` | lock, trylock, unlock, init, destroy | turnstiles, scheduler | lock-free fast paths against a slow path; reads used after the word changed | mutual exclusion, recursion accounting, no lost wakeup | partly: MTX_DEF |
| turnstiles | `kern/subr_turnstile.c` | hash chains, per-turnstile queues, pending and free lists, owner; per-thread `td_turnstile`, `td_blocked`, priority | trywait, cancel, lookup, wait, broadcast, unpend, adjust, propagate_priority; claim, disown for rwlocks | mutexes, rwlocks, scheduler | turnstiles change hands between threads; hand-over-hand locking; priorities change at any time | turnstiles conserved, waiters found by the unlocker, priority lent | partly: without `turnstile_signal`, `head`, `empty` |
| task queues | `kern/subr_taskqueue.c` | queue, `ta_pending`, `tq_running`, flags, thread count, global list | enqueue, block, unblock, drain, run, find, start_threads, free | msleep/wakeup, swi | handler runs without the mutex; deferred wakeups; termination; partial start | no request lost, counts exact, drain and free mean what they say | modelled |
| callouts | `kern/kern_timeout.c` | per-CPU wheel, `cc_softticks`, `cc_next`, `cc_curr`, `cc_cancel`, `cc_waiting` | tick, softclock, reset_on, stop, drain; timeout, untimeout | clock, swi, sleep queues, client locks | lock dropped in the middle of a bucket; lock order forces re-checks; migration; tick wrap | never early, never missed, stopped stays stopped, drainers woken, handles conserved | partly: without shared locks and `adjust_timeout_calltodo()` |
| spin mutexes, thread locks | `kern/kern_mutex.c` | word, `td_lock` | lock_spin, thread_lock, thread_lock_block/set | everything | `td_lock` changes while being acquired | the lock acquired is the thread's lock | not modelled |
| reader/writer locks | `kern/kern_rwlock.c`, `sys/rwlock.h` | word with owner or reader count, two waiter bits and the spinner bit; `rw_recurse`, `td_rw_rlocks` | rlock, wlock, try_rlock, try_wlock, runlock, wunlock, try_upgrade, downgrade, init, destroy | turnstiles, scheduler | shared owners, bits for two queues, upgrade and downgrade races, word released before the waiters are looked up | readers exclude writers, bits tell the truth, nobody left asleep, recursing readers get through | modelled |
| sleep queues, msleep and wakeup | `kern/subr_sleepqueue.c`, `kern/kern_synch.c`, `kern/kern_sig.c` | chains, queues, `td_sleepqueue`, `td_wchan`, `td_flags` (TDF_TIMEOUT, TDF_TIMOFAIL, TDF_SINTR, TDF_SLEEPABORT), the sleep's callout | add, set_timeout, wait, timedwait, wait_sig, timedwait_sig, signal, broadcast, abort, timeout; `_sleep`, `wakeup`, `wakeup_one` | callouts, signals, interlocks | wakeup racing a timeout racing a signal, before and after the switch | every sleeper woken, for one reason, and nothing left for the next sleep | partly |
| condition variables, counting semaphores | `kern/kern_condvar.c`, `kern/kern_sema.c` | `cv_waiters`; `sema_value`, `sema_waiters` | cv_wait, _sig, timedwait, timedwait_sig, signal, broadcast; sema wait, timedwait, trywait, post | sleep queues | counts read to decide whether to wake | no post lost while a waiter sleeps | partly |
| buf_ring | `sys/buf_ring.h`, `kern/subr_bufring.c` | head and tail index of each side, slots | enqueue, dequeue_mc, dequeue_sc, peek, full, empty, count | drivers | lock-free reservation and in-order publication | bounded FIFO, reservations disjoint | modelled |
| sx locks, lockmgr | `kern/kern_sx.c`, `kern/kern_lock.c` | as rwlocks, on sleep queues | as rwlocks | sleep queues | the same, with interruptible sleeps | the same | not modelled |
| rmlocks | `kern/kern_rmlock.c` | per-CPU reader lists | rlock, wlock | rendezvous, mutexes, turnstiles | fast path without atomics | readers exclude the writer | not modelled |
| schedulers | `kern/sched_ule.c`, `kern/sched_4bsd.c` | run queues, priorities | add, switch, prio, lend, unlend | all | heuristics | only priority lending matters here | lending functions modelled inside `Turnstile` |
| interrupt threads | `kern/kern_intr.c` | `ih_need`, `it_need` | swi_sched, execute_handlers | task queues, callouts | flag cleared before the handler | no lost interrupt | `ih_need` only |
| witness | `kern/subr_witness.c` | lock order graph | checkorder | locks | - | - | its order is a precondition of `MtxLock` |
| VM, VFS, network, drivers, machine-dependent code | `vm/`, `kern/vfs_*`, `net*/`, `dev/`, `amd64/`, ... | - | - | - | - | - | not modelled: outside this core |

Every hazard that the properties are written for is listed at its source line
in `PROJECT.json` under `hazards`.

## 2. Modules

| module | models |
|---|---|
| `Turnstile` | the turnstile state and one operator per function of `subr_turnstile.c`, plus the priority functions of `sched_ule.c` that it calls |
| `KernMutex` | extends `Turnstile`: the mutex words and one action per atomic access of `_mtx_lock_sleep()` and `_mtx_unlock_sleep()`, trylock, init, destroy, `sched_prio()` by a client, preemption |
| `AbstractMutex` | what a mutex promises: an owner and a depth; `KernMutex` implements it under the mapping `AbstractOwner`, `AbstractDepth` |
| `Taskqueue` | one task queue, its threads or software interrupt, and its clients |
| `Callout` | the wheels of all CPUs, the clock, softclock threads and clients |
| `KernRwlock` | extends `Turnstile`: the rwlock words, one action per atomic access or section under the chain lock |
| `AbstractRwlock` | what an rwlock promises: a writer with a depth, or readers; `KernRwlock` implements it |
| `SleepQueue` | the sleep queue state as one record and one operator per function of `subr_sleepqueue.c` |
| `KernSynch` | extends `SleepQueue`: `_sleep()`, condition variables and semaphores, with timeouts and signals |
| `BufRing` | the ring, its producers and consumers |
| `AbstractFifo` | a bounded FIFO; `BufRing` implements it |
| `SequenceLemmas` | lemmas about sequences that the proofs share: inserting, removing, the set of elements, sequences without duplicates |
| `TurnstileProofs` | lemmas about the operators of `Turnstile`: what inserting, moving and handing back do to queues, free lists and priorities |
| `KernMutexProofs` | theorems about `KernMutex`: its words, its refinement, and its contested path (turnstiles, waiters and wakeups) |
| `KernRwlockProofs` | theorems about `KernRwlock`: its words, its refinement, and its waiters |
| `BufRingProofs` | arithmetic of places in a ring; theorems about `BufRing`, and its refinement |
| `TaskqueueProofs` | what insertion by priority does to a queue; theorems about `Taskqueue` |
| `KernSynchProofs` | theorems about `SleepQueue` and `KernSynch` |
| `CalloutProofs` | arithmetic of ticks that wrap; theorems about `Callout` |
| `MCKernMutex`, `MCKernRwlock`, `MCTaskqueue`, `MCCallout`, `MCKernSynch`, `MCBufRing` | constants for TLC |

An operator whose comment starts with "Variant:" is a mutated form of the
operator after it (a dropped comparison, a missing reset, an off-by-one). No
specification uses it; `PROJECT.json` says under `mutants` which property
catches it when it replaces the original.

### KernMutex and Turnstile

The lock word is a record of owner and two bits; `MTX_UNOWNED` and
`MTX_DESTROYED` are words with pseudo-owners, as in the code. A thread's
program counter `pc` names the point in the code; its locals are `cur` (the
mutex), `v` (the copy of the word) and `lts` (the turnstile).

| control point | action | code |
|---|---|---|
| `idle` | `MtxLock`, `MtxTrylock`, `MtxUnlock`, `MtxInit`, `MtxDestroy`, `SchedPrio` | inline macros, head of `_mtx_lock_sleep()`, `_mtx_trylock()`, ... |
| `obtain` | `Obtain` | loop condition, `kern_mutex.c:327` |
| `adaptive`, `spin` | `Adaptive`, `Spin` | 333-344 |
| `chain`, `trywait` | `TrywaitChain`, `Trywait` | `turnstile_trywait()` in two steps |
| `check`, `check_running`, `contest` | `Check`, `CheckRunning`, `Contest` | 350-387; each may `CancelWait` |
| `wait`, `block`, `propagate`, `blocked` | `Wait`, `Block`, `Propagate`, `Woken` | `turnstile_wait()`: before `thread_lock()`, up to `propagate_priority()`, one iteration of its loop, after `mi_switch()` |
| `unlock_sleep`, `unlock_chain`, `lookup`, `release`, `unpend` | `UnlockSleep`, `UnlockChain`, `Broadcast`, `Release`, `Unpend` | 591-616 |

Chain locks and turnstile locks are variables that hold their owner, and a step
that needs one is disabled while another thread has it. The walk of
`propagate_priority()` is data (`prop`): the turnstile it started from, which
stays locked, the one it is at, and the priority it carries.
`td_contested_lock` is a leaf lock and is folded into the steps that take it.
A thread that holds a spin lock is not preempted; any other may be, at any step.
The priority a timeshare thread falls back to is `td_user_pri` in the ULE
scheduler; the model has one base priority. `SchedPrio` makes threads more
important only: `turnstile_adjust()` says "we currently don't try to revoke lent
priorities", so nothing is claimed about lowering.
`MayLock` is the client's side: the witness order (`Rank`), recursion only where
allowed, no use of a destroyed mutex. A mutex may be destroyed while the last
unlocker is past its store but still inside `mtx_unlock()`; to a client that
mutex is free.

`sys/mutex.h:275` says that mtx_trylock "does NOT handle recursion"; the code
does, since `LO_RECURSABLE` is tested, and `MtxTrylock` follows the code.

### KernRwlock

It uses the operators of `Turnstile` as `KernMutex` does, with both queues, and
with `turnstile_claim()` and `turnstile_disown()`. A read of the word and the
compare-and-set of what was read are one step, since a failed compare-and-set
only goes round the loop again; where something else happens between the read
and the store, there is a step in between. `v` is the word the call is going to
store, `queue` the turnstile queue it is about.

| control point | action | code |
|---|---|---|
| `idle` | `RwRlock`, `RwTryRlock`, `RwWlock`, `RwTryWlock`, `RwRunlock`, `RwWunlock`, `RwTryUpgrade`, `RwDowngrade`, `RwInit`, `RwDestroy` | the calls, up to the end of their fast paths |
| `rlock`, `wlock`, `wspin` | `Rlock`, `Wlock`, `WspinEnd` | head of the loops of `_rw_rlock()` and `_rw_wlock_hard()`, with adaptive spinning and `RW_LOCK_WRITE_SPINNER` |
| `chain`, `check`, `contest` | `Trywait`, `Check`, `ContestFree`, `ContestHeld`, `ContestChanged` | `turnstile_trywait()`, the second look at the word, the store of the waiter bit (or `turnstile_claim()` by a writer that finds it free) |
| `wait`, `propagate`, `blocked` | `Wait`, `Propagate`, `Woken` | `turnstile_wait()` with `rw_owner()` read now |
| `runlock`, `runlock_chain` | `Runlock`, `RunlockChain` | loop of `_rw_runlock()`; last reader under the chain lock |
| `wake`, `unpend` | `Wake`, `Unpend` | lookup and broadcast after the word was released; `turnstile_unpend()` |
| `wunlock`, `release` | `Wunlock`, `Release` | `_rw_wunlock_hard()`: broadcast, then the plain store |
| `upgrade`, `up_check` | `Trywait`, `UpgradeCheck` | `_rw_try_upgrade()` under the chain lock |
| `downgrade`, `down_store` | `Downgrade`, `DownStore` | `_rw_downgrade()`: store, then broadcast or disown |

`RW_DESTROYED` is a word with a pseudo-owner. `rheld` and `wheld` are the
clients' accounts. A client does not write-lock what it reads, and reads no more
than `MaxRead` times; recursion of the writer is limited to `Recursable`.

### SleepQueue and KernSynch

The state of the sleep queues is one record, `slp`: for each channel its queue of
threads and how many spare sleep queues its free list has, for each thread
whether it owns a spare queue, its channel, flags, and the state of its sleep's
callout. Queues are interchangeable, so they are counted, not named.
`KernSynch` has one step per section under the chain lock or the proc lock; a
lock is shown as held only where the code holds it across such sections (the
sleepable interlock while the chain lock is dropped, the proc locks of
`sleepq_catch_signals()`). Callouts are used by their contract: pending, then
running without a lock, then done; `callout_stop()` fails once the handler is
running. Each behaviour uses one interface (`api`) and one class of interlock
(`kind`); the caller waits for a count and posts to it. Signals are ones that
are caught, or SIGCONT with the default action: that one neither wakes nor
interrupts an interruptible sleeper and is deleted again (`kern_sig.c:2267`), and
a thread that finds it queued before it sleeps throws it away in `cursig()` and
sleeps. At most one signal is queued for a thread.
One wait channel is enough: channels share only the chain lock.

### BufRing

The build is the one with `DEBUG_BUFRING`, whose panics are the flag `panicked`.
An action is one access to a word that others write; the barriers in the code
order these accesses, so the memory is sequentially consistent in the model. Two
kinds of rings are explored (`mode`): one with a consumer lock and
`buf_ring_dequeue_sc()`/`buf_ring_peek()`, one with `buf_ring_dequeue_mc()`. The
lock is the driver's own, taken around the calls (`LockRing`, `UnlockRing`).

### Taskqueue

A section between `TQ_LOCK` and `TQ_UNLOCK` (or `TQ_SLEEP`) that does not call
out is one step; `tq_mutex` is a variable because `taskqueue_run()` holds it
across its loop and `taskqueue_find()` returns with it. `msleep`, `wakeup` and
`wakeup_one` are modelled by contract: going to sleep is atomic with releasing
the mutex, `wakeup_one` picks any sleeper, and a woken thread competes for the
mutex. `owed` counts requests in the clients and is read by no action.
A queue is served by threads or by a software interrupt, as `Init` chooses;
`TQ_SWI` is the interrupt handler, and `ih_need` its flag.
`StartThreads(t, S)` lets `kthread_add()` fail for any of the threads.
`taskqueue_free()` is called when no other client is inside an operation on the
queue except lookups; handlers keep enqueueing.

### Callout

`cc_lock` is a flag that only the walk of softclock() holds across steps; every
other critical section is one step that waits for it to be clear.
`MAX_SOFTCLOCK_STEPS` is abstracted: the lock may be dropped after any callout
that is passed over. The locks of callouts and the sleep queue chain of
`cc_waiting` are variables with an owner, since their order is what makes
`callout_drain()` restart. A reset that has to change the CPU takes two passes,
with `req` holding its arguments in between. `sleepq_release()` and
`sleepq_add()` act, as in the code, on the chain of the CPU the callout is on
*now*, which need not be the one that was locked; the passing runs keep to
configurations where that cannot differ (one CPU, or migration without a
concurrent drain) and `co_drain_migrate` shows what happens otherwise.
The table of `timeout()` is a set of callouts with `CALLOUT_LOCAL_ALLOC` and the
lock `Giant`, one of `Tables`; `cc_callfree` is its free list and `handle` what
the callers keep, so `untimeout()` is called with handles that are stale.
`stopped` is kept by the clients. The handler of a callout in `ReturnUnlocked`
(`CALLOUT_RETURNUNLOCKED`) releases the callout's lock itself and goes on for a
while (`HandlerUnlock`, the point `unlocked`); for the others softclock() releases
it (`SoftReturn`). `StoppedStaysStopped` therefore lets the handler of a stopped
callout be on its way back once it has released its lock, and nothing more. Such
handlers are in `co_core` and `co_live`; `co_migrate` leaves them out to stay
small, and the theorems have no such limit. A callout that is not pending has
`c_time` 0 in the model: the code does not read it then.

## 3. Runs

| run | checks | size |
|---|---|---|
| `mutex_contend` | `MutualExclusion`, `RecursionAccounted`, `NoLostWakeup`, `UnlockFindsTurnstile`, `TurnstileConservation`, `ImplementsMutex` | 3 threads, 1 mutex, depth 2, destruction, `sched_prio()`; 814 000 states |
| `mutex_chain` | `PriorityLent`, `BlockedIsWoken` | 3 threads, 2 mutexes on one chain, fair; 37 000 |
| `rw_core` | `HoldersAccounted`, `WaiterBitsExact`, `NoStrandedWaiter`, `NoReaderDeadlock`, `WriterPriorityLent`, `ImplementsRwlock` | 3 threads, 1 rwlock, read and write depth 2; 137 000 (the two threads of equal priority are symmetric) |
| `slp_core` | `SleepQueueConservation`, `NothingLeftBehind`, `SleepHasTimer`, `NoSleepOnSignal`, `NoLostPost` | 2 threads, three interfaces, two kinds of interlock; 2.2 million |
| `br_core` | `ReservationsExact`, `PeekStaysFirst`, `ImplementsFifo`, `ReservationEnds` | 2 producers, 2 consumers (one thread is both), 4 slots, no lap, fair; 474 000 |
| `tq_core` | `PendingCountExact`, `QueueWellFormed`, `QueuedTaskIsRun`, `FreedIsUnused`, `SoloDrainIsDone`, `RequestIsServed` | 2 workers or a software interrupt, 2 clients, 3 tasks, fair; 270 000 |
| `co_core` | `WheelWellFormed`, `TableConserved`, `NoMissedCallout`, `StoppedStaysStopped`, `NotEarly` | 1 CPU, 2 callouts or a table of 2; 2.1 million |
| `co_migrate` | `NoMissedCallout`, `StoppedStaysStopped` | 2 CPUs; 4.0 million |
| `co_live` | `DrainWaited`, `DrainerIsWoken`, `PendingFires` | 2 clients, fair; 108 000 |

The type invariant of a module is a conjunct of its conservation property
(`TurnstileConservation`, `HoldersAccounted`, `NothingLeftBehind`,
`ReservationsExact`, `QueueWellFormed`, `WheelWellFormed`), because the types
that matter there, such as a sequence without duplicates or a count in range, are
what the conservation is about. In `KernRwlock` the types of the turnstile state
are a conjunct of `WaiterBitsExact`.

Runs that show a disagreement between the code and what is said of it:

| run | property | what happens |
|---|---|---|
| `tq_drain_pool` | `DrainedIsDone` | with two threads `tq_running` forgets the first task, and `taskqueue_drain()` returns while its handler runs |
| `tq_free_hang` | `FreeReturns` | a thread in a handler while `taskqueue_free()` does its wakeup sleeps for ever, and so does the caller |
| `co_drain_migrate` | `SleepqChainHeld` | `callout_drain()` comes back with the sleep queue chain of the CPU the callout has left |

More places where the code and its comments part, or where the code has a limit
it does not check:

- `turnstile_wait()` takes a thread's place in the queue from its priority before
  `thread_lock()`; a priority raised before `TD_SET_LOCK` is not seen by
  `turnstile_adjust()`, so the queue stays unsorted and
  `turnstile_first_waiter()` need not return the thread "with the most important
  priority" (`subr_turnstile.c:613`). `PriorityLent` is therefore stated with the
  waiter that the code takes for the first;
- `ta_pending` is a `u_short` incremented without a limit (`subr_taskqueue.c:204`);
  at 2^16 requests it is 0 while the task is queued. Let `MCLimit` in `MCTaskqueue`
  reach `USHRT_MOD` for one task and TLC shows it; theorem `PendingIsExact` has
  `ENQ_LIMIT[k] < USHRT_MOD` for every task as its assumption;
- `callout_drain()` of a callout whose handler has rearmed itself takes it off the
  wheel and returns while the handler still runs (`kern_timeout.c:682`), although
  the comment says "just wait for the current invocation to finish" (700-703).
  `DrainWaited` claims only what holds: a drainer that has waited;
- the comment in `_rw_wunlock_hard()` says that readers are preferred and that
  RW_LOCK_WRITE_WAITERS is kept (`kern_rwlock.c:746-761`); the code wakes the
  writers when there are any and keeps RW_LOCK_READ_WAITERS (763-767). The model
  follows the code;
- `buf_ring` compares indices, which say nothing about how often they have gone
  round. A producer delayed between its test for a full ring and its
  compare-and-set while `br_prod_head` goes round exactly once succeeds with a
  stale answer and reserves a slot of a full ring. With `MayLap = TRUE` in
  `br_core.cfg` TLC reaches the panic "dangling value in enqueue" (`buf_ring.h:104`)
  and `ReservationsExact` fails; with `Size = 2` and `Modes = {"mc"}` it takes
  seconds. A consumer of `buf_ring_dequeue_mc()` delayed before
  its compare-and-set of `br_cons_head` (`buf_ring.h:146`) does the same with its
  test for an empty ring. Both laps are cut off by `MayLap` FALSE, a bound and not
  a condition of the code, in `br_core` and in the theorems, so that
  `ReservationsExact` and `ImplementsFifo` do not speak of executions with a lap.
  A consumer whose `br_cons_head` is a lap old when it reads `br_prod_tail` may
  also find the two equal and return NULL from a ring that has buffers (141); the
  model has this step, it harms no index, and no property says that NULL means
  empty. `critical_enter()` makes such delays improbable, not impossible;
- `cv_waiters` is an `int` that waits increment and that timeouts and signals do
  not decrement. With `MayWrap = TRUE` and `Apis = {"cv"}` in `slp_core.cfg`,
  `NoLostPost` fails: past `INT_MAX` it is negative and `cv_signal()` wakes nobody.

Bounds and why they are enough:

- three threads: an owner, a waiter that attaches its turnstile and a waiter that
  lends its turnstile (the free list is non-empty); with two mutexes, a chain of
  two blocked owners;
- `MaxHold` bounds what a thread may hold of each mutex: 2 where recursion is
  checked, so that the recursion bit is set and cleared; in `mutex_chain` it makes
  the one chain t1 - m1 - t2 - m2 - t3 possible and nothing else;
- `MaxRead`, `MaxWrite` 2: a recursing reader, a recursing writer; with three
  threads, a holder, a waiting reader and a waiting writer, so both queues of a
  turnstile are in use;
- two threads on a sleep channel: the queue of one is lent while the other's is
  on the free list, and a wakeup has a choice; `MaxValue` 2 posts outstanding;
  `INT_MAX` stands for 2^31 - 1 and is out of reach unless `MayWrap`;
- `Size` 4 (three usable slots) with four buffers: a full ring, an empty ring and
  every wrap of the indices, two overlapping reservations on each side;
- two entries in the table of `timeout()` and two requests: the free list is
  emptied, and an entry is handed to another request while its old handle is kept;
- three different base priorities, any of which may be raised to the best (`NewPri`);
- `ENQ_LIMIT` (2 for one task, 1 for the others) bounds requests for a task that has not started, `USHRT_MOD` stands
  for 2^16;
- `TICK_MOD` stands for 2^32 and starts at its last value in half of the initial
  states, so that every run wraps; `MAX_LAG` bounds how far softclock lags behind;
  `WHEEL` 1 or 2 puts callouts of different turns in one bucket; the assumption
  on `Delays` and `WHEEL` keeps differences within half of the range, as 2^31 ticks
  do, and `WHEEL` divides `TICK_MOD`, as powers of two do;
- the `tq_*` runs do not check deadlock: clients may drain a queue that nobody
  runs, or that stays blocked.

Fairness: strong fairness for the steps of a thread in a call, because they wait
for locks that others take and release again and again (spin locks and mutexes
are handed out to whoever keeps trying; the schedulers do not starve a runnable
thread); weak fairness for dispatching, the clock and clients' unlocks. In
`KernMutex` a client that keeps a mutex is assumed to unlock it in the end; since
a mutex is not handed to a waiter but competed for, `BlockedIsWoken` says that a
thread does not stay blocked unless from some time on the owner is itself waiting
for good. In `BufRing` the steps between `critical_enter()` and `critical_exit()`
are weakly fair, and nothing else is. Nothing
is assumed about a client starting a call, unblocking a queue or draining.
`RequestIsServed` is stated for tasks of the highest priority and for queues that
are not left blocked, since the code promises no more. `NoLostPost` is a safety
property for callers that test their condition again after an error, as
`_sema_timedwait()` does.

## 4. Proofs

All theorems hold for every value of the constants that the modules' named
assumptions allow: any number of threads, locks, chains, tasks, workers, buffers
and priorities. Where a theorem needs more than that, it says so in its statement.

| module | theorem | property | needs |
|---|---|---|---|
| `KernMutexProofs` | `WordsAreTyped` | `WordTypeOK` | |
| | `MutexIsExclusive` | `MutualExclusion` | |
| | `RecursionIsAccounted` | `RecursionAccounted` | |
| | `MutexRefinement` | `ImplementsMutex` | |
| | `WakeupsAreNotLost` | `NoLostWakeup` | |
| | `UnlockFindsItsTurnstile` | `UnlockFindsTurnstile` | |
| | `TurnstilesAreConserved` | `TurnstileConservation`, with the full `TypeOK` | |
| `KernRwlockProofs` | `HoldersAreAccounted` | `HoldersAccounted` | |
| | `ReadersNeverDeadlock` | `NoReaderDeadlock` | |
| | `RwlockRefinement` | `ImplementsRwlock` | |
| | `WaiterBitsAreExact` | `WaiterBitsExact` | |
| | `NoWaiterIsStranded` | `NoStrandedWaiter` | |
| `BufRingProofs` | `ReservationsAreExact` | `ReservationsExact` | `~MayLap` |
| | `PeekIsStable` | `PeekStaysFirst` | `~MayLap` |
| | `RingIsFifo` | `ImplementsFifo` | `~MayLap` |
| `TaskqueueProofs` | `PendingIsExact` | `PendingCountExact` | `ENQ_LIMIT[k] < USHRT_MOD` |
| | `QueuedTasksRun` | `QueuedTaskIsRun` | |
| | `FreeLeavesNothing` | `FreedIsUnused` | |
| | `SoloDrainWaits` | `SoloDrainIsDone` | |
| | `QueueIsWellFormed` | `QueueWellFormed` | `ENQ_LIMIT[k] < USHRT_MOD` |
| `KernSynchProofs` | `NothingLeftBehindHolds` | `NothingLeftBehind` | |
| | `SleepQueueConserved` | `SleepQueueConservation` | |
| | `SleepHasTimerHolds` | `SleepHasTimer` | |
| | `NoSleepOnSignalHolds` | `NoSleepOnSignal` | |
| | `NoLostPostHolds` | `NoLostPost` | `~MayWrap` |
| `CalloutProofs` | `WheelWellFormedHolds` | `WheelWellFormed` | |
| | `NoMissedCalloutHolds` | `NoMissedCallout` | |
| | `NotEarlyHolds` | `NotEarly` | |
| | `StoppedStaysStoppedHolds` | `StoppedStaysStopped` | |
| | `TableConservedHolds` | `TableConserved` | |
| | `DrainWaitedHolds` | `DrainWaited` | `Targets \subseteq {timeout_cpu}` |

Each inductive invariant was checked with TLC, on the constants of the runs,
before it was proved.

### The words of a mutex

`MutualExclusion` is not inductive: the plain store of `Release` frees the mutex
whoever owns it. The inductive invariant `MutexInv` adds that a call in progress
has a mutex (`CallHasMutex`), that a thread inside `_mtx_unlock_sleep()` is the
owner (`UnlockerOwns`), and that from `unlock_chain` on it has nothing left to
give back (`LastRelease`); together with `RecursionAccounted` these show that
the store ends the last acquisition. The proof has one lemma per kind of action
and needs nothing of the turnstile state: exclusion rests on the words alone,
whatever the turnstiles do. Assumptions: `TurnstileAssumption`,
`MutexAssumption`.

### The turnstiles of a mutex

None of the three properties is inductive. A blocked thread is safe because of
what the owner will find, which depends on what the last waiter did, which
depends on the word it saw under the chain lock. `TsInv` says all of it at once:

- `ControlInv`: a thread past `trywait` holds the lock of the chain of its mutex,
  so two threads inside the same chain are one (`OneInChain`);
- `MarkInv`: a contested word has a turnstile in the hash table, or a thread
  that is about to attach one or has just taken it off; a waiter never waits for
  itself or for a destroyed mutex, and `MTX_CONTESTED` does not go away while a
  thread with the chain lock relies on it;
- `AttachedInv`, `OneAttached`: a turnstile in the hash table belongs to one
  contested mutex of its chain, has that mutex's owner, and one waiter more than
  turnstiles on its free list, which is why `turnstile_broadcast()` has exactly
  one for everybody;
- `DetachedInv`: any other turnstile is empty, but for what the thread that wakes
  its waiters or prepares it has put there;
- `QueueInv`, `LockedInv`: the lists of a turnstile hold the threads that are
  blocked on it, each once, and a blocked thread is on the lists it points to;
- `PlaceInv`: no turnstile is in two places and none is lost.

The steps that leave the turnstiles alone are one lemma (`PlainInv`), those that
move threads within queues another (`ReorderStep`, which covers
`propagate_priority()` and `sched_prio()`), and the steps that attach, join,
block, broadcast and unpend have one each. What an insertion, a move by
`turnstile_adjust_thread()` and a broadcast do to a sequence is proved once in
`TurnstileProofs`. The lock order of the turnstile locks is not needed: the
theorems hold whatever `ts_lock` says, so the chain lock alone keeps waiters and
owners in step; `ts_lock` matters for the priority walk, which the theorems allow
to interleave at every step.

### The rwlock

`RwInv` joins `HoldersAccounted` with what a call knows about the word
(`CallInv`, `PathInv`): a thread on the release path holds what it is about to
give back, a thread that waits has no read lock on the same lock, and the word
that a release or a downgrade is about to store is that of a free lock or of a
lock with one reader. Every step is one
of ten kinds of effect on the holders of one lock (`HoldStep`) or changes no word
at all; each kind is shown to keep the account and to be a step of
`AbstractRwlock` or a stutter. Assumption: `RwlockAssumption`.

The waiters need a second invariant on top of it, `WaitInv`. `WaiterBitsExact` is
about moments at which nobody has the chain locked and says nothing of the moments
between, where the code does its work; so `WaitInv` adds

- the types of the turnstile state, and `StructInv`, the counterpart of `TsInv`
  above with two queues per turnstile: who has which chain lock, one turnstile per
  lock, one waiter more than free turnstiles in the two queues together, no
  turnstile in two places, and every blocked thread on the lists it points to;
- `WordOf`: the bits tell the truth except while a thread of that lock is at one of
  three points, `wait` (bit set, thread not yet queued), `wake` (the last reader has
  stored the word and not emptied the queue) and `release` (a writer has emptied
  the queue and not stored the word). A free lock has no waiting writer and no
  spinning one, and a free lock with waiters has a thread on its way;
- `KnowsOf`: what a thread in the middle of a call knows of a word it has read
  before. A compare-and-set that succeeds keeps the bits because the copy still is
  the word; a thread that found its bit set already and did not compare is safe
  because the bit cannot go away while it has the chain lock; a release stores a
  word whose bits are those of the queue it left asleep;
- `OwnedInv`: a turnstile outside the hash table has an owner only while its
  waiters are being woken.

Steps that keep every bit and every queue are `Calm`, one lemma per action and one
(`CalmStep`) for all of them; a step under the chain lock that changes the bits, a
queue or the owner is checked against what the other threads of that lock rely on
(`HeldStep`, with `JoinStep`, `WakesHeld` and `UnpendsHeld` for the turnstile
calls). `NoStrandedWaiter` follows because a blocked thread is on the lists of a
turnstile in the hash table, whose bit is then set, or on a pending list that a
thread with the chain lock is about to empty.

### The ring

`BrInv` places every index on the arc that starts at `br_cons_tail`
(`IndexInv`), gives each slot between a tail and its head to one thread
(`ReserveInv`, `CountInv`), says what the slots on each arc hold (`WindowInv`,
`RingInv`), that the consumer's lock has one owner (`LockInv`), that only
its owner has peeked and that what it saw is still the first (`PeekInv`), and that the panics are not reached. The
size is any number above 1 (`SizeAssumption`): `buf_ring_alloc()` asserts a power
of two so that `& mask` is the remainder, and the model takes the remainder.
`MayLap` FALSE says that neither head index comes round to the value that a thread
is about to compare it with; section 3 shows that the theorems need it. The refinement maps the
queue to the slots from `br_cons_head` to `br_prod_tail`.

### The task queue

`TqInv` is `QueuedTaskIsRun` together with who holds `tq_mutex` (`MutexInv`), the
life of the queue from `taskqueue_start_threads()` to `free` (`LifeInv`,
`EndInv`), who is going to look at the queue next (`ServerInv`), and, for a queue
with at most one thread, that `tq_running` is the task of that thread
(`SoloInv`). `CountInv` bounds the requests so that the 16-bit counter does not
wrap; `OrderInv` adds that the queue is sorted. `TaskqueueAssumption` has a
finite set of workers, which `tq_tcount` counts.

### Sleeping

`SynchInv` is `TypeOK`, `NoSleepOnSignal`, and

- `Conserved`: a queue of a channel holds the threads whose `td_wchan` it is, each
  once, and the channel has one sleep queue more than its free list when it has
  sleepers, so that every thread taken off a queue is given one back;
- `TInv`: for each thread, what its place in the call, its flags, its channel and
  the state of its callout may be together (`ThreadInv`). This is where the races
  of a wakeup with a timeout end: TDF_TIMOFAIL and TDF_TIMEOUT tell the one who
  comes second what the first has done, in whichever order they come;
- `SigInv`: a poster keeps the proc lock until it has looked at the thread, and a
  thread that found no signal keeps posters out with the proc lock, then with the
  proc spin lock, until it sleeps;
- `CountInv`: `cv_waiters` is never below the number of queued threads, and the
  count that is waited for is matched by threads that are on their way to test it.

A step changes the sleep state of one thread in one of a few ways (`Changes`); what
each operator of `SleepQueue` does is proved once as such a change, and the steps
of `KernSynch` are put together from them. `NoLostPost` needs `~MayWrap`: `cv_waiters`
is an `int` that only grows while timeouts end the waits, see section 3.
Assumptions: `SleepQueueAssumption`, `KernSynchAssumption` (finitely many threads,
because the waiters are counted).

### Callouts

`Core` says where everything is: the walk of each softclock() (`WalkInv`), that
every pending callout is on one wheel, in the bucket of its time, and that the
bookmark `cc_next` points into the bucket being walked (`WheelInv`, `ScanInv`), and
how far the walks lag (`LagInv`). Three more invariants rest on it:

- `StopInv`: from the moment a stop, a reset or a migration hits a callout that
  softclock() has taken off the wheel, `cc_cancel` is set, and it stays set until
  softclock() has the callout's lock and looks;
- `TimeInv`: a pending callout whose time is behind `cc_softticks` is in the bucket
  that is being walked, after the bookmark. It needs the order within a bucket:
  removing keeps it and insertion is at the end. It also needs that
  `callout_tick()` does not move `cc_softticks` past a bucket that is not empty, so
  an unfinished walk is never more than one turn of the wheel behind (`SpanInv`),
  and differences of ticks keep their sign when `ticks` wraps;
- `TableInv`: an entry of the table of `timeout()` is on the free list exactly when
  it is neither pending nor current. A stale handle is harmless because
  `untimeout()` compares function and argument, which `callout_free()` clears.

`DrainWaited` is proved for resets that name no other CPU (`StayInv`): a drain
that meets a callout on the move locks the wrong chain, as `co_drain_migrate` shows.
Assumption: `CalloutAssumption`.

### Only model-checked

- `PriorityLent` and `WriterPriorityLent`: an inductive invariant has to say, for a
  walk of `propagate_priority()` that is anywhere on a chain of owners, what the
  priorities of the threads it has passed are while others are lent and unlent
  there; no such invariant has been found;
- every liveness property and whatever needs `ENABLED`, which the prover does not
  support.

### Not modelled

- sleep queues: `sleepq_remove()` for a thread that sleeps inside a sleep; more
  than one queue per channel (only sx locks and lockmgr use it); SIGSTOP and thread
  suspension; `msleep_spin()`, `pause()`, `cv_wait_unlock()` and the destruction of
  semaphores and condition variables, which add no state of their own;
- `turnstile_signal()`, `turnstile_head()`, `turnstile_empty()`: no modelled lock
  calls them; callouts with shared locks;
- sx locks and lockmgr: see the plan; rmlocks rest on inter-processor rendezvous;
- spin mutexes and `thread_lock()`: used here as correct locks;
- the non-debug build of `buf_ring`: the same indices without the panics;
- schedulers, interrupt threads and witness beyond what the modelled code calls;
- virtual memory, file systems, the network stack, device drivers and
  machine-dependent code: systems of their own, or hardware behaviour that the
  repository does not describe.

## 5. Plan

1. (done) `Turnstile`, `KernMutex`, `AbstractMutex`; `Taskqueue`; `Callout`;
   first theorems.
2. (done) `KernRwlock` with `AbstractRwlock`; `SleepQueue` and `KernSynch`;
   `BufRing` with `AbstractFifo`; `timeout`/`untimeout` in `Callout`; software
   interrupt and threads in one run of `Taskqueue`.
3. (done) Proofs: the contested path of `KernMutex` with its full `TypeOK`;
   `KernRwlock`, its words and its waiters; `BufRing`; `Taskqueue`; `KernSynch`
   with `SleepQueue`; `Callout`. Open: `PriorityLent` and `WriterPriorityLent`.
4. More of the system, if it is taken up again: sx locks on `SleepQueue` with two
   queues per channel; `thread_lock()` while `td_lock` changes.
