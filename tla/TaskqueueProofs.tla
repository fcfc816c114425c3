--------------------------- MODULE TaskqueueProofs ---------------------------
(***************************************************************************)
(* Proofs about module Taskqueue, for any number of tasks, threads and     *)
(* clients.  First come lemmas about the priority queue: what the          *)
(* insertion of taskqueue_enqueue() and the removal of taskqueue_run() do  *)
(* to a list of tasks that is linked once and in order.                    *)
(***************************************************************************)
EXTENDS Taskqueue, SequenceLemmas

\* A queue as a function: every task is linked once, in the order of the
\* priorities.
Ordered(q, N) ==
  /\ \A i, j \in 1..N : q[i] = q[j] => i = j
  /\ \A i \in 1..(N - 1) : ta_priority[q[i]] >= ta_priority[q[i + 1]]

\* r is q with k put in at n.
PutAt(q, r, N, n, k) ==
  \A i \in 1..(N + 1) : r[i] = IF i < n THEN q[i] ELSE IF i = n THEN k ELSE q[i - 1]

\* n is the place of the new task k in q: behind every task of its priority.
PlaceOf(q, N, n, k) ==
  /\ \A i \in 1..N : q[i] # k
  /\ \A i \in 1..(n - 1) : ta_priority[q[i]] >= ta_priority[k]
  /\ n <= N => ta_priority[q[n]] < ta_priority[k]

\* The tasks of q.
Elems(q, N) == {q[i] : i \in 1..N}

\* A new task put in at its place leaves the queue linked once and in order.
LEMMA PutInKeepsOrder ==
  ASSUME NEW N \in Nat, NEW n \in 1..(N + 1), NEW k \in Task,
         NEW q \in [1..N -> Task], NEW r \in [1..(N + 1) -> Task],
         PutAt(q, r, N, n, k), Ordered(q, N), PlaceOf(q, N, n, k)
  PROVE  Ordered(r, N + 1) /\ Elems(r, N + 1) = Elems(q, N) \cup {k}
<1>0. /\ \A i \in 1..N : q[i] # k
      /\ \A i \in 1..(n - 1) : ta_priority[q[i]] >= ta_priority[k]
      /\ n <= N => ta_priority[q[n]] < ta_priority[k]
  BY DEF PlaceOf
<1>1. \A i \in 1..(n - 1) : r[i] = q[i]
  BY DEF PutAt
<1>2. r[n] = k
  BY DEF PutAt
<1>3. \A i \in (n + 1)..(N + 1) : r[i] = q[i - 1]
  BY DEF PutAt
<1>4. \A i, j \in 1..(N + 1) : r[i] = r[j] => i = j
  BY <1>0 DEF PutAt, Ordered
<1>5. ASSUME NEW i \in 1..N PROVE ta_priority[r[i]] >= ta_priority[r[i + 1]]
  <2>0. ta_priority \in [Task -> Nat]
    BY TaskqueueAssumption
  <2>1. CASE i + 1 < n
    BY <1>1, <2>1 DEF Ordered
  <2>2. CASE i + 1 = n
    BY <1>0, <1>1, <1>2, <2>2
  <2>3. CASE i = n
    BY <1>0, <1>2, <1>3, <2>0, <2>3
  <2>4. CASE i > n
    <3>1. r[i] = q[i - 1] /\ r[i + 1] = q[i] /\ i - 1 \in 1..(N - 1)
      BY <1>3, <2>4
    <3>2. \A j \in 1..(N - 1) : ta_priority[q[j]] >= ta_priority[q[j + 1]]
      BY DEF Ordered
    <3> QED
      BY <3>1, <3>2
  <2> QED
    BY <2>1, <2>2, <2>3, <2>4
<1>6. ASSUME NEW x \in Task
      PROVE  (\E i \in 1..(N + 1) : r[i] = x) <=> (x = k \/ \E i \in 1..N : q[i] = x)
  <2>1. ASSUME NEW i \in 1..N PROVE \E j \in 1..(N + 1) : r[j] = q[i]
    <3>1. CASE i < n
      BY <3>1, <1>1
    <3>2. CASE ~(i < n)
      <4>1. i + 1 \in (n + 1)..(N + 1) /\ (i + 1) - 1 = i
        BY <3>2
      <4>2. r[i + 1] = q[i]
        BY <1>3, <4>1
      <4> QED
        BY <4>1, <4>2
    <3> QED
      BY <3>1, <3>2
  <2>2. ASSUME NEW i \in 1..(N + 1)
        PROVE  r[i] = k \/ \E j \in 1..N : r[i] = q[j]
    BY DEF PutAt
  <2> QED
    BY <1>2, <2>1, <2>2
<1>7. Elems(r, N + 1) = Elems(q, N) \cup {k}
  BY <1>6 DEF Elems
<1> QED
  BY <1>4, <1>5, <1>7 DEF Ordered

\* InsertByPriority finds the place of a new task, also when the shortcut of
\* taskqueue_enqueue() for the tail of the list is taken.
LEMMA InsertKeepsOrder ==
  ASSUME NEW q \in Seq(Task), NEW k \in Task, Ordered(q, Len(q)), k \notin ToSet(q)
  PROVE  LET r == InsertByPriority(q, k)
         IN  /\ r \in Seq(Task) /\ r # <<>>
             /\ Ordered(r, Len(r))
             /\ ToSet(r) = ToSet(q) \cup {k}
<1> DEFINE N == Len(q)
           lower == {i \in DOMAIN q : ta_priority[q[i]] < ta_priority[k]}
           r == InsertByPriority(q, k)
<1>1. N \in Nat /\ DOMAIN q = 1..N /\ q \in [1..N -> Task] /\ \A i \in 1..N : q[i] # k
  BY LenProperties DEF ToSet
<1>2. ta_priority \in [Task -> Nat]
  BY TaskqueueAssumption
<1>3. \E n \in 1..(N + 1) :
         /\ r \in Seq(Task) /\ Len(r) = N + 1
         /\ PutAt(q, r, N, n, k)
         /\ \A i \in 1..(n - 1) : ta_priority[q[i]] >= ta_priority[k]
         /\ n <= N => ta_priority[q[n]] < ta_priority[k]
  <2>1. CASE lower = {}
    <3>1. r = Append(q, k)
      <4>1. q = <<>> \/ ta_priority[Last(q)] >= ta_priority[k]
        <5>1. SUFFICES ASSUME q # <<>> PROVE ta_priority[Last(q)] >= ta_priority[k]
          OBVIOUS
        <5>2. N \in 1..N
          BY <1>1, <5>1, EmptySeq
        <5> QED
          BY <1>1, <1>2, <2>1, <5>2 DEF Last
      <4> QED
        BY <4>1 DEF InsertByPriority
    <3>2. /\ r \in Seq(Task) /\ Len(r) = N + 1
          /\ \A i \in 1..N : r[i] = q[i]
          /\ r[N + 1] = k
      BY <3>1, AppendProperties
    <3> HIDE DEF r
    <3>3. PutAt(q, r, N, N + 1, k)
      BY <1>1, <3>2 DEF PutAt
    <3>4. \A i \in 1..N : ta_priority[q[i]] >= ta_priority[k]
      BY <1>1, <1>2, <2>1
    <3> HIDE DEF N
    <3>5. N + 1 \in 1..(N + 1) /\ (N + 1) - 1 = N /\ ~(N + 1 <= N)
      BY <1>1
    <3> QED
      BY <3>2, <3>3, <3>4, <3>5
  <2>2. CASE lower # {}
    <3>1. lower \in SUBSET Nat
      BY <1>1
    <3>2. Min(lower) \in lower /\ \A y \in lower : Min(lower) <= y
      BY <2>2, <3>1, MinExists
    <3> DEFINE n == Min(lower)
    <3>3. n \in 1..N /\ ta_priority[q[n]] < ta_priority[k]
      BY <1>1, <3>2
    <3>4. \A i \in 1..(n - 1) : ta_priority[q[i]] >= ta_priority[k]
      <4> SUFFICES ASSUME NEW i \in 1..(n - 1) PROVE ta_priority[q[i]] >= ta_priority[k]
        OBVIOUS
      <4>1. i \in 1..N /\ ~(n <= i)
        BY <1>1, <3>3
      <4>2. i \notin lower
        BY <3>2, <4>1
      <4> QED
        BY <1>1, <1>2, <4>1, <4>2
    <3>5. CASE q = <<>> \/ ta_priority[Last(q)] >= ta_priority[k]
      <4> DEFINE back == {N - i : i \in lower}
      <4>1. back \in SUBSET Nat /\ back # {}
        BY <1>1, <2>2
      <4>2. Min(back) \in back /\ \A y \in back : Min(back) <= y
        BY <4>1, MinExists
      <4>3. PICK m \in lower : Min(back) = N - m
        BY <4>2
      <4>4. m \in 1..N /\ ta_priority[q[m]] < ta_priority[k]
        BY <1>1
      <4>5. N \notin lower
        BY <1>1, <1>2, <3>5, <4>4 DEF Last
      <4>6. m \in 1..(N - 1) /\ m + 1 \in 1..N
        BY <1>1, <4>4, <4>5
      <4>7. ta_priority[q[m]] >= ta_priority[q[m + 1]]
        BY <4>6 DEF Ordered
      <4>8. m + 1 \in lower
        BY <1>1, <1>2, <4>4, <4>6, <4>7
      <4>9. N - (m + 1) \in back /\ ~(N - m <= N - (m + 1))
        BY <1>1, <4>4, <4>8
      <4> QED
        BY <4>2, <4>3, <4>9
    <3>6. CASE ~(q = <<>> \/ ta_priority[Last(q)] >= ta_priority[k])
      <4>1. r = InsertAt(q, n, k)
        BY <3>6 DEF InsertByPriority
      <4>0. n \in 1..(Len(q) + 1)
        BY <1>1, <3>3
      <4>2. r \in Seq(Task) /\ Len(r) = N + 1 /\ PutIn(q, r, n, k)
        BY <4>0, <4>1, InsertAtPutsIn
      <4>4. PutAt(q, r, N, n, k)
        BY <4>2 DEF PutIn, PutAt
      <4> HIDE DEF r, n, N
      <4>3. n \in 1..(N + 1)
        BY <1>1, <3>3
      <4> QED
        BY <3>3, <3>4, <4>2, <4>3, <4>4
    <3> QED
      BY <3>5, <3>6
  <2> QED
    BY <2>1, <2>2
<1> HIDE DEF r, N, lower
<1>4. r \in [1..(N + 1) -> Task] /\ DOMAIN r = 1..(N + 1) /\ Len(r) = N + 1 /\ r \in Seq(Task)
  BY <1>1, <1>3, LenProperties
<1>8. Ordered(q, N)
  BY DEF N
<1>9. PICK n \in 1..(N + 1) : PutAt(q, r, N, n, k) /\ PlaceOf(q, N, n, k)
  BY <1>1, <1>3 DEF PlaceOf
<1>10. N \in Nat /\ q \in [1..N -> Task] /\ r \in [1..(N + 1) -> Task]
  BY <1>1, <1>4
<1>11. Ordered(r, N + 1) /\ Elems(r, N + 1) = Elems(q, N) \cup {k}
  BY <1>8, <1>9, <1>10, PutInKeepsOrder
<1>5. ToSet(r) = Elems(r, N + 1) /\ ToSet(q) = Elems(q, N)
  BY <1>1, <1>4 DEF ToSet, Elems
<1>6. ToSet(r) = ToSet(q) \cup {k}
  BY <1>5, <1>11
<1>7. r # <<>>
  BY <1>1, <1>4
<1> QED
  BY <1>4, <1>11, <1>6, <1>7 DEF r

\* InsertByPriority returns a queue of tasks.
LEMMA InsertIsSeq ==
  ASSUME NEW q \in Seq(Task), NEW k \in Task
  PROVE  InsertByPriority(q, k) \in Seq(Task)
<1> DEFINE lower == {i \in DOMAIN q : ta_priority[q[i]] < ta_priority[k]}
<1>1. CASE q = <<>> \/ ta_priority[Last(q)] >= ta_priority[k]
  BY <1>1 DEF InsertByPriority
<1>2. CASE ~(q = <<>> \/ ta_priority[Last(q)] >= ta_priority[k])
  <2>1. Len(q) \in 1..Len(q) /\ DOMAIN q = 1..Len(q) /\ \A i \in 1..Len(q) : q[i] \in Task
    BY <1>2, LenProperties, EmptySeq
  <2>2. ~(ta_priority[q[Len(q)]] >= ta_priority[k])
    BY <1>2 DEF Last
  <2>3. Len(q) \in lower
    BY <2>1, <2>2, TaskqueueAssumption
  <2>4. lower \in SUBSET Nat /\ lower \subseteq 1..Len(q)
    BY <2>1
  <2>5. InsertByPriority(q, k) = InsertAt(q, Min(lower), k)
    BY <1>2 DEF InsertByPriority
  <2> HIDE DEF lower
  <2>6. Min(lower) \in 1..Len(q)
    BY <2>3, <2>4, MinExists
  <2> QED
    BY <2>1, <2>5, <2>6, InsertAtPutsIn
<1> QED
  BY <1>1, <1>2

\* Taking the first task keeps the rest in order and removes that task only.
LEMMA TailKeepsOrder ==
  ASSUME NEW q \in Seq(Task), q # <<>>, Ordered(q, Len(q))
  PROVE  /\ Ordered(Tail(q), Len(Tail(q)))
         /\ Head(q) \in Task
         /\ ToSet(Tail(q)) = ToSet(q) \ {Head(q)}
<1> DEFINE N == Len(q)  r == Tail(q)  M == Len(Tail(q))
<1>1. N \in Nat /\ N > 0 /\ DOMAIN q = 1..N /\ q \in [1..N -> Task]
  BY LenProperties, EmptySeq
<1>2. /\ r \in Seq(Task) /\ M = N - 1 /\ DOMAIN r = 1..M /\ M \in Nat
      /\ \A i \in 1..M : r[i] = q[i + 1]
      /\ Head(q) \in Task
  BY HeadTailProperties, LenProperties
<1>3. Head(q) = q[1]
  OBVIOUS
<1>7. Ordered(q, N)
  OBVIOUS
<1> HIDE DEF N, r, M
<1>4. Ordered(r, M)
  <2>1. \A i, j \in 1..M : r[i] = r[j] => i = j
    <3> SUFFICES ASSUME NEW i \in 1..M, NEW j \in 1..M, r[i] = r[j] PROVE i = j
      OBVIOUS
    <3>1. i + 1 \in 1..N /\ j + 1 \in 1..N /\ q[i + 1] = q[j + 1]
      BY <1>1, <1>2
    <3>2. i + 1 = j + 1
      BY <1>7, <3>1 DEF Ordered
    <3> QED
      BY <3>2
  <2>2. ASSUME NEW i \in 1..(M - 1)
        PROVE  ta_priority[r[i]] >= ta_priority[r[i + 1]]
    <3>1. i + 1 \in 1..(N - 1) /\ r[i] = q[i + 1] /\ r[i + 1] = q[(i + 1) + 1]
      BY <1>1, <1>2
    <3> QED
      BY <1>7, <3>1 DEF Ordered
  <2> QED
    BY <2>1, <2>2 DEF Ordered
<1>5. ToSet(r) = ToSet(q) \ {q[1]}
  <2>1. ASSUME NEW i \in 1..M PROVE r[i] \in ToSet(q) /\ r[i] # q[1]
    <3>1. i + 1 \in 1..N /\ r[i] = q[i + 1] /\ 1 \in 1..N /\ i + 1 # 1
      BY <1>1, <1>2
    <3> QED
      BY <1>1, <1>7, <3>1 DEF ToSet, Ordered
  <2>2. ASSUME NEW i \in 1..N, q[i] # q[1] PROVE q[i] \in ToSet(r)
    <3>1. i - 1 \in 1..M /\ (i - 1) + 1 = i
      BY <1>1, <1>2, <2>2
    <3>2. r[i - 1] = q[i]
      BY <1>2, <3>1
    <3> QED
      BY <1>2, <3>1, <3>2 DEF ToSet
  <2> QED
    BY <1>1, <1>2, <2>1, <2>2 DEF ToSet
<1> QED
  BY <1>2, <1>3, <1>4, <1>5 DEF r, M

-----------------------------------------------------------------------------
USE DEF At, Thread

\* TypeOK without the bound on tq_tcount, which rests on LifeInv.
TypeInv ==
  /\ tq_mutex \in Thread \cup {NULL}
  /\ tq_queue \in Seq(Task)
  /\ tq_running \in Task \cup {NULL}
  /\ tq_tcount \in Int
  /\ tq_active \in BOOLEAN /\ tq_blocked \in BOOLEAN /\ tq_pending \in BOOLEAN
  /\ ta_pending \in [Task -> 0..(USHRT_MOD - 1)]
  /\ list_mutex \in Client \cup {NULL}
  /\ listed \in BOOLEAN /\ freed \in BOOLEAN /\ ih_need \in BOOLEAN \cup {NULL}
  /\ pc \in [Thread -> WorkerPoints \cup ClientPoints]
  /\ \A t \in Worker : pc[t] \in WorkerPoints
  /\ \A t \in Client : pc[t] \in ClientPoints
  /\ task \in [Thread -> Task \cup {NULL}]
  /\ owed \in [Task -> Nat]

\* The code between free and its end.
Freeing == {"free", "run", "func", "terminate", "terminate_asleep"}

\* The threads counted by tq_tcount.
Live == {w \in Worker : pc[w] \in {"loop", "run", "func", "asleep"}}

\* taskqueue_run() holds the mutex between two tasks, and so does the caller of
\* taskqueue_find().
MutexInv ==
  \A t \in Thread : pc[t] \in {"run", "found"} => tq_mutex = t

\* A queue is listed, then inactive, then freed, by one client; a thread ends
\* only once the queue is inactive.
LifeInv ==
  /\ listed => tq_active /\ ~freed
  /\ TQ_SWI => listed
  /\ \A u \in Client : /\ pc[u] \in Freeing => ~listed
                       /\ pc[u] \in Freeing \ {"free"} => ~tq_active
                       /\ pc[u] = "find" => list_mutex = u
                       /\ ~listed => pc[u] \in Freeing \cup {"idle", "found"}
  /\ \A u, v \in Client : pc[u] \in Freeing /\ pc[v] \in Freeing => u = v
  /\ \A w \in Worker : pc[w] = "exit" => ~tq_active

\* The threads of the queue, or the software interrupt.
ServerInv ==
  /\ TQ_SWI => /\ tq_tcount = 0
               /\ \A w \in Worker : pc[w] \in {"new", "swi_idle", "swi_run", "run", "func"}
               /\ \A u, w \in Worker : pc[u] # "new" /\ pc[w] # "new" => u = w
  /\ ~TQ_SWI => /\ tq_tcount = Cardinality(Live)
                /\ \A w \in Worker : pc[w] \in {"new", "loop", "run", "func", "asleep", "exit"}

\* An inactive queue is run until it is empty.
EndInv ==
  /\ ~tq_active /\ tq_queue # <<>> => \E t \in Thread : pc[t] \in {"run", "func"}
  /\ FreedIsUnused
  /\ freed => ~listed

\* A queue with one server is executing the task tq_running.
SoloInv ==
  listed /\ tq_tcount <= 1 =>
     \A w \in Worker : pc[w] = "func" => tq_running = task[w]

\* QueueWellFormed without the types.
OrderInv ==
  /\ Ordered(tq_queue, Len(tq_queue))
  /\ \A k \in Task : k \in ToSet(tq_queue) <=> ta_pending[k] # 0

\* Every step keeps the types.
LEMMA TypeInvNext ==
  ASSUME TypeInv, [Next]_vars
  PROVE  TypeInv'
<1> USE TaskqueueAssumption DEF TypeInv, WorkerPoints, ClientPoints
<1>1. ASSUME NEW t \in Worker, ThreadLoop(t) PROVE TypeInv'
  <2>1. CASE tq_active
    BY <1>1, <2>1 DEF ThreadLoop, TQ_LOCK, Goto, flagVars, listVars
  <2>2. CASE ~tq_active
    <3>1. /\ pc' \in [Thread -> WorkerPoints \cup ClientPoints]
          /\ \A u \in Worker : pc'[u] \in WorkerPoints
          /\ \A u \in Client : pc'[u] \in ClientPoints
      BY <1>1, <2>2, ZenonT(40) DEF ThreadLoop, WakeAndGoto
    <3>2. tq_tcount' \in Int /\ tq_mutex' = tq_mutex
      BY <1>1, <2>2 DEF ThreadLoop, TQ_LOCK_UNLOCK
    <3> QED
      BY <1>1, <3>1, <3>2 DEF ThreadLoop, flagVars, listVars
  <2> QED
    BY <2>1, <2>2
<1>2. ASSUME NEW t \in Worker, SwiStart(t) PROVE TypeInv'
  BY <1>2 DEF SwiStart, Goto, flagVars, listVars
<1>3. ASSUME NEW t \in Worker, SwiRun(t) PROVE TypeInv'
  BY <1>3 DEF SwiRun, Goto, TQ_LOCK, flagVars, listVars
<1>4. ASSUME NEW t \in Client, DrainLoop(t) PROVE TypeInv'
  BY <1>4, ZenonT(40) DEF DrainLoop, Goto, TQ_LOCK_UNLOCK, flagVars, listVars
<1>5. ASSUME NEW t \in Client, FindLock(t) PROVE TypeInv'
  BY <1>5 DEF FindLock, Goto, TQ_LOCK, flagVars, listVars
<1>6. ASSUME NEW t \in Client, FoundUnlock(t) PROVE TypeInv'
  BY <1>6 DEF FoundUnlock, Goto, TQ_UNLOCK, flagVars, listVars
<1>7. ASSUME NEW t \in Client, FreeDeactivate(t) PROVE TypeInv'
  BY <1>7 DEF FreeDeactivate, Goto, TQ_LOCK, flagVars, listVars
<1>8. ASSUME NEW t \in Client, Terminate(t) PROVE TypeInv'
  <2>1. /\ pc' \in [Thread -> WorkerPoints \cup ClientPoints]
        /\ \A u \in Worker : pc'[u] \in WorkerPoints
        /\ \A u \in Client : pc'[u] \in ClientPoints
    <3>1. CASE WakeAndGoto(Asleep, "loop", t, "terminate_asleep")
      BY <3>1 DEF WakeAndGoto, Asleep
    <3>2. CASE Goto(t, "idle")
      BY <3>2 DEF Goto
    <3> QED
      BY <1>8, <3>1, <3>2 DEF Terminate
  <2>2. tq_mutex' = NULL /\ freed' \in BOOLEAN
    BY <1>8 DEF Terminate, TQ_UNLOCK
  <2> QED
    BY <1>8, <2>1, <2>2 DEF Terminate, flagVars
<1>9. ASSUME NEW t \in Thread, Run(t) PROVE TypeInv'
  <2>1. tq_queue # <<>> => Head(tq_queue) \in Task /\ Tail(tq_queue) \in Seq(Task)
    BY HeadTailProperties
  <2>2. /\ tq_queue' \in Seq(Task) /\ tq_running' \in Task \cup {NULL}
        /\ ta_pending' \in [Task -> 0..(USHRT_MOD - 1)] /\ owed' \in [Task -> Nat]
        /\ task' \in [Thread -> Task \cup {NULL}]
    <3>1. CASE tq_queue # <<>>
      <4> DEFINE h == Head(tq_queue)
      <4>1. /\ h \in Task /\ tq_queue' \in Seq(Task) /\ tq_running' = h
            /\ ta_pending' = [ta_pending EXCEPT ![h] = 0]
            /\ owed' = [owed EXCEPT ![h] = 0] /\ task' = [task EXCEPT ![t] = h]
        BY <1>9, <2>1, <3>1 DEF Run
      <4> HIDE DEF h
      <4>2. 0 \in 0..(USHRT_MOD - 1)
        OBVIOUS
      <4> QED
        BY <4>1, <4>2
    <3>2. CASE tq_queue = <<>>
      BY <1>9, <3>2 DEF Run
    <3> QED
      BY <3>1, <3>2
  <2>3. /\ pc' \in [Thread -> WorkerPoints \cup ClientPoints]
        /\ \A u \in Worker : pc'[u] \in WorkerPoints
        /\ \A u \in Client : pc'[u] \in ClientPoints
        /\ tq_mutex' \in Thread \cup {NULL}
    BY <1>9, ZenonT(40) DEF Run, Goto, TQ_UNLOCK
  <2> QED
    BY <1>9, <2>2, <2>3 DEF Run, flagVars, listVars
<1>10. ASSUME NEW t \in Thread, FuncDone(t) PROVE TypeInv'
  BY <1>10 DEF FuncDone, TQ_LOCK, WakeAndGoto, flagVars, listVars
<1>11. ASSUME NEW t \in Client, Call(t) PROVE TypeInv'
  <2>1. CASE \E k \in Task : Drain(t, k)
    BY <2>1 DEF Drain, Goto, flagVars, listVars
  <2>2. CASE \E S \in SUBSET Worker : StartThreads(t, S)
    <3>1. PICK S \in SUBSET Worker : StartThreads(t, S)
      BY <2>2
    <3>2. tq_tcount' \in Int
      BY <3>1, FS_Subset, FS_CardinalityType DEF StartThreads
    <3> QED
      BY <3>1, <3>2 DEF StartThreads, flagVars, listVars
  <2>3. CASE Block(t)
    BY <2>3 DEF Block, TQ_LOCK_UNLOCK, flagVars, listVars
  <2>4. CASE Unblock(t)
    BY <2>4, ZenonT(40) DEF Unblock, TQ_LOCK_UNLOCK, tq_enqueue, Goto, Asleep, flagVars,
                listVars
  <2>5. CASE Find(t) \/ Free(t)
    BY <2>5, ZenonT(40) DEF Find, Free, Goto, flagVars, listVars
  <2> QED
    BY <1>11, <2>1, <2>2, <2>3, <2>4, <2>5 DEF Call
<1>12. ASSUME NEW t \in Thread, NEW k \in Task, Enqueue(t, k) PROVE TypeInv'
  <2>1. /\ tq_queue' \in Seq(Task)
        /\ ta_pending' \in [Task -> 0..(USHRT_MOD - 1)]
        /\ owed' \in [Task -> Nat]
    <3>1. CountUp(ta_pending[k]) \in 0..(USHRT_MOD - 1)
      BY DEF CountUp
    <3>4. 1 \in 0..(USHRT_MOD - 1)
      OBVIOUS
    <3>5. \/ ta_pending' = [ta_pending EXCEPT ![k] = CountUp(ta_pending[k])]
          \/ ta_pending' = [ta_pending EXCEPT ![k] = 1]
      BY <1>12 DEF Enqueue
    <3>2. ta_pending' \in [Task -> 0..(USHRT_MOD - 1)]
      BY <3>1, <3>4, <3>5
    <3>3. InsertByPriority(tq_queue, k) \in Seq(Task)
      BY InsertIsSeq
    <3> QED
      BY <1>12, <3>2, <3>3 DEF Enqueue
  <2>2. /\ tq_pending' \in BOOLEAN /\ ih_need' \in BOOLEAN \cup {NULL}
        /\ pc' \in [Thread -> WorkerPoints \cup ClientPoints]
        /\ \A u \in Worker : pc'[u] \in WorkerPoints
        /\ \A u \in Client : pc'[u] \in ClientPoints
    BY <1>12 DEF Enqueue, tq_enqueue, Goto, Asleep
  <2> QED
    BY <1>12, <2>1, <2>2 DEF Enqueue, TQ_LOCK_UNLOCK, listVars
<1>13. CASE Finished \/ UNCHANGED vars
  BY <1>13 DEF Finished, vars, flagVars, listVars
<1> QED
  BY <1>1, <1>2, <1>3, <1>4, <1>5, <1>6, <1>7, <1>8, <1>9, <1>10, <1>11, <1>12,
     <1>13
     DEF Next, Step

\* The control points.
Points == WorkerPoints \cup ClientPoints

\* What most steps need to know of threads and control points.
ThreadFacts ==
  /\ pc \in [Thread -> Points] /\ tq_mutex \in Thread \cup {NULL}
  /\ NULL \notin Thread /\ Worker \cap Client = {}
  /\ NULL # TRUE /\ NULL # FALSE

\* They hold in every state of the right types.
LEMMA ThreadFactsHold == TypeInv => ThreadFacts
BY TaskqueueAssumption DEF TypeInv, ThreadFacts, Points

\* Every step keeps the owner of tq_mutex.
LEMMA MutexInvNext ==
  ASSUME TypeInv, MutexInv, [Next]_vars
  PROVE  MutexInv'
<1> USE DEF MutexInv
<1>0. ThreadFacts
  BY ThreadFactsHold
<1> USE <1>0 DEF ThreadFacts
<1>1. ASSUME NEW t \in Worker, ThreadLoop(t) PROVE MutexInv'
  BY <1>1 DEF ThreadLoop, TQ_LOCK, TQ_LOCK_UNLOCK, Goto, WakeAndGoto
<1>2. ASSUME NEW t \in Worker, SwiStart(t) PROVE MutexInv'
  BY <1>2 DEF SwiStart, Goto
<1>3. ASSUME NEW t \in Worker, SwiRun(t) PROVE MutexInv'
  BY <1>3 DEF SwiRun, TQ_LOCK, Goto
<1>4. ASSUME NEW t \in Client, DrainLoop(t) PROVE MutexInv'
  BY <1>4 DEF DrainLoop, TQ_LOCK_UNLOCK, Goto
<1>5. ASSUME NEW t \in Client, FindLock(t) PROVE MutexInv'
  BY <1>5 DEF FindLock, TQ_LOCK, Goto
<1>6. ASSUME NEW t \in Client, FoundUnlock(t) PROVE MutexInv'
  BY <1>6 DEF FoundUnlock, TQ_UNLOCK, Goto
<1>7. ASSUME NEW t \in Client, FreeDeactivate(t) PROVE MutexInv'
  BY <1>7 DEF FreeDeactivate, TQ_LOCK, Goto
<1>8. ASSUME NEW t \in Client, Terminate(t) PROVE MutexInv'
  BY <1>8 DEF Terminate, TQ_UNLOCK, Goto, WakeAndGoto, Asleep
<1>9. ASSUME NEW t \in Thread, Run(t) PROVE MutexInv'
  BY <1>9 DEF Run, TQ_UNLOCK, Goto
<1>10. ASSUME NEW t \in Thread, FuncDone(t) PROVE MutexInv'
  BY <1>10 DEF FuncDone, TQ_LOCK, WakeAndGoto
<1>11. ASSUME NEW t \in Client, NEW k \in Task, Drain(t, k) PROVE MutexInv'
  BY <1>11 DEF Drain, Goto
<1>12. ASSUME NEW t \in Client, NEW S \in SUBSET Worker, StartThreads(t, S)
       PROVE  MutexInv'
  BY <1>12 DEF StartThreads
<1>13. ASSUME NEW t \in Client, Block(t) PROVE MutexInv'
  BY <1>13 DEF Block, TQ_LOCK_UNLOCK
<1>14. ASSUME NEW t \in Client, Unblock(t) PROVE MutexInv'
  BY <1>14 DEF Unblock, TQ_LOCK_UNLOCK, tq_enqueue, Goto, Asleep
<1>15. ASSUME NEW t \in Client, Find(t) PROVE MutexInv'
  BY <1>15 DEF Find, Goto
<1>16. ASSUME NEW t \in Client, Free(t) PROVE MutexInv'
  BY <1>16 DEF Free, Goto
<1>17. ASSUME NEW t \in Thread, NEW k \in Task, Enqueue(t, k) PROVE MutexInv'
  BY <1>17 DEF Enqueue, TQ_LOCK_UNLOCK, tq_enqueue, Goto, Asleep
<1>18. CASE Finished \/ UNCHANGED vars
  BY <1>18 DEF Finished, vars, flagVars, listVars
<1> QED
  BY <1>1, <1>2, <1>3, <1>4, <1>5, <1>6, <1>7, <1>8, <1>9, <1>10, <1>11, <1>12,
     <1>13, <1>14, <1>15, <1>16, <1>17, <1>18
     DEF Next, Step, Call

\* Every step keeps the order of the queue's life.
LEMMA LifeInvNext ==
  ASSUME TypeInv, MutexInv, LifeInv, [Next]_vars
  PROVE  LifeInv'
<1> USE DEF MutexInv, LifeInv, TQ_SWI, Freeing
<1>0. ThreadFacts
  BY ThreadFactsHold
<1> USE <1>0 DEF ThreadFacts
<1>1. ASSUME NEW t \in Worker, ThreadLoop(t) PROVE LifeInv'
  BY <1>1 DEF ThreadLoop, TQ_LOCK, TQ_LOCK_UNLOCK, Goto, WakeAndGoto, listVars,
              flagVars
<1>2. ASSUME NEW t \in Worker, SwiStart(t) PROVE LifeInv'
  BY <1>2 DEF SwiStart, Goto, listVars, flagVars
<1>3. ASSUME NEW t \in Worker, SwiRun(t) PROVE LifeInv'
  BY <1>3 DEF SwiRun, TQ_LOCK, Goto, listVars, flagVars
<1>4. ASSUME NEW t \in Client, DrainLoop(t) PROVE LifeInv'
  BY <1>4 DEF DrainLoop, TQ_LOCK_UNLOCK, Goto, listVars, flagVars
<1>5. ASSUME NEW t \in Client, FindLock(t) PROVE LifeInv'
  BY <1>5 DEF FindLock, TQ_LOCK, Goto, listVars, flagVars
<1>6. ASSUME NEW t \in Client, FoundUnlock(t) PROVE LifeInv'
  BY <1>6 DEF FoundUnlock, TQ_UNLOCK, Goto, listVars, flagVars
<1>7. ASSUME NEW t \in Client, FreeDeactivate(t) PROVE LifeInv'
  BY <1>7 DEF FreeDeactivate, TQ_LOCK, Goto, listVars, flagVars
<1>8. ASSUME NEW t \in Client, Terminate(t) PROVE LifeInv'
  BY <1>8 DEF Terminate, TQ_UNLOCK, Goto, WakeAndGoto, Asleep, listVars,
              flagVars
<1>9. ASSUME NEW t \in Thread, Run(t) PROVE LifeInv'
  BY <1>9 DEF Run, TQ_UNLOCK, Goto, listVars, flagVars
<1>10. ASSUME NEW t \in Thread, FuncDone(t) PROVE LifeInv'
  BY <1>10 DEF FuncDone, TQ_LOCK, WakeAndGoto, listVars, flagVars
<1>11. ASSUME NEW t \in Client, NEW k \in Task, Drain(t, k) PROVE LifeInv'
  BY <1>11 DEF Drain, Goto, listVars, flagVars
<1>12. ASSUME NEW t \in Client, NEW S \in SUBSET Worker, StartThreads(t, S)
       PROVE  LifeInv'
  BY <1>12 DEF StartThreads, listVars, flagVars
<1>13. ASSUME NEW t \in Client, Block(t) PROVE LifeInv'
  BY <1>13 DEF Block, TQ_LOCK_UNLOCK, listVars, flagVars
<1>14. ASSUME NEW t \in Client, Unblock(t) PROVE LifeInv'
  BY <1>14 DEF Unblock, TQ_LOCK_UNLOCK, tq_enqueue, Goto, Asleep, listVars,
               flagVars
<1>15. ASSUME NEW t \in Client, Find(t) PROVE LifeInv'
  BY <1>15 DEF Find, Goto, listVars, flagVars
<1>16. ASSUME NEW t \in Client, Free(t) PROVE LifeInv'
  BY <1>16 DEF Free, Goto, listVars, flagVars
<1>17. ASSUME NEW t \in Thread, NEW k \in Task, Enqueue(t, k) PROVE LifeInv'
  BY <1>17 DEF Enqueue, TQ_LOCK_UNLOCK, tq_enqueue, Goto, Asleep, listVars,
               flagVars
<1>18. CASE Finished \/ UNCHANGED vars
  BY <1>18 DEF Finished, vars, flagVars, listVars
<1> QED
  BY <1>1, <1>2, <1>3, <1>4, <1>5, <1>6, <1>7, <1>8, <1>9, <1>10, <1>11, <1>12,
     <1>13, <1>14, <1>15, <1>16, <1>17, <1>18
     DEF Next, Step, Call

\* Every step keeps tq_tcount equal to the number of threads of the queue.
LEMMA ServerInvNext ==
  ASSUME TypeInv, ServerInv, LifeInv, [Next]_vars
  PROVE  ServerInv'
<1>0. ThreadFacts
  BY ThreadFactsHold
<1> USE <1>0 DEF ThreadFacts
<1>1. ASSUME NEW t \in Worker, ThreadLoop(t) PROVE ServerInv'
  <2>1. CASE tq_active
    <3>1. Live' = Live
      BY <1>1, <2>1 DEF ThreadLoop, Live, Goto
    <3> QED
      BY <1>1, <2>1, <3>1 DEF ThreadLoop, ServerInv, TQ_SWI, Goto
  <2>2. CASE ~tq_active
    <3>1. Live' = Live \ {t} /\ t \in Live
      BY <1>1, <2>2 DEF ThreadLoop, Live, WakeAndGoto
    <3>2. IsFiniteSet(Live)
      BY TaskqueueAssumption, FS_Subset DEF Live
    <3>3. Cardinality(Live') = Cardinality(Live) - 1
      BY <3>1, <3>2, FS_RemoveElement
    <3>4. ~TQ_SWI /\ ~TQ_SWI'
      BY <1>1 DEF ThreadLoop, ServerInv, TQ_SWI
    <3>5. tq_tcount' = Cardinality(Live')
      BY <1>1, <2>2, <3>3, <3>4 DEF ThreadLoop, ServerInv
    <3>6. \A w \in Worker : pc'[w] \in {"new", "loop", "run", "func", "asleep", "exit"}
      BY <1>1, <2>2, <3>4 DEF ThreadLoop, ServerInv, WakeAndGoto
    <3> QED
      BY <3>4, <3>5, <3>6 DEF ServerInv
  <2> QED
    BY <2>1, <2>2
<1>2. ASSUME NEW t \in Worker, SwiStart(t) PROVE ServerInv'
  <2>1. Live' = Live
    BY <1>2 DEF Live, SwiStart, Goto, ServerInv, TQ_SWI
  <2> QED
    BY <1>2, <2>1 DEF ServerInv, TQ_SWI, SwiStart, Goto
<1>3. ASSUME NEW t \in Worker, SwiRun(t) PROVE ServerInv'
  <2>1. TQ_SWI /\ TQ_SWI'
    BY <1>3 DEF SwiRun, ServerInv, TQ_SWI
  <2> QED
    BY <1>3, <2>1 DEF SwiRun, ServerInv, Goto
<1>4. ASSUME NEW t \in Client, DrainLoop(t) PROVE ServerInv'
  <2>1. Live' = Live
    BY <1>4 DEF Live, DrainLoop, TQ_LOCK_UNLOCK, Goto, ServerInv, TQ_SWI
  <2> QED
    BY <1>4, <2>1 DEF ServerInv, TQ_SWI, DrainLoop, TQ_LOCK_UNLOCK, Goto
<1>5. ASSUME NEW t \in Client, FindLock(t) PROVE ServerInv'
  <2>1. Live' = Live
    BY <1>5 DEF Live, FindLock, TQ_LOCK, Goto, ServerInv, TQ_SWI
  <2> QED
    BY <1>5, <2>1 DEF ServerInv, TQ_SWI, FindLock, TQ_LOCK, Goto
<1>6. ASSUME NEW t \in Client, FoundUnlock(t) PROVE ServerInv'
  <2>1. Live' = Live
    BY <1>6 DEF Live, FoundUnlock, TQ_UNLOCK, Goto, ServerInv, TQ_SWI
  <2> QED
    BY <1>6, <2>1 DEF ServerInv, TQ_SWI, FoundUnlock, TQ_UNLOCK, Goto
<1>7. ASSUME NEW t \in Client, FreeDeactivate(t) PROVE ServerInv'
  <2>1. Live' = Live
    BY <1>7 DEF Live, FreeDeactivate, TQ_LOCK, Goto, ServerInv, TQ_SWI
  <2> QED
    BY <1>7, <2>1 DEF ServerInv, TQ_SWI, FreeDeactivate, TQ_LOCK, Goto
<1>8. ASSUME NEW t \in Client, Terminate(t) PROVE ServerInv'
  <2>1. Live' = Live
    BY <1>8 DEF Live, Terminate, TQ_UNLOCK, Goto, WakeAndGoto, Asleep,
                ServerInv, TQ_SWI
  <2> QED
    BY <1>8, <2>1 DEF ServerInv, TQ_SWI, Terminate, TQ_UNLOCK, Goto,
                      WakeAndGoto, Asleep
<1>9. ASSUME NEW t \in Thread, Run(t) PROVE ServerInv'
  <2>1. CASE TQ_SWI
    BY <1>9, <2>1 DEF Run, ServerInv, Goto, TQ_SWI
  <2>2. CASE ~TQ_SWI
    <3>1. Live' = Live
      BY <1>9, <2>2 DEF Run, Live, Goto, TQ_SWI
    <3> QED
      BY <1>9, <2>2, <3>1 DEF Run, ServerInv, Goto, TQ_SWI
  <2> QED
    BY <2>1, <2>2
<1>10. ASSUME NEW t \in Thread, FuncDone(t) PROVE ServerInv'
  <2>1. Live' = Live
    BY <1>10 DEF Live, FuncDone, TQ_LOCK, WakeAndGoto, ServerInv, TQ_SWI
  <2> QED
    BY <1>10, <2>1 DEF ServerInv, TQ_SWI, FuncDone, TQ_LOCK, WakeAndGoto
<1>11. ASSUME NEW t \in Client, NEW k \in Task, Drain(t, k) PROVE ServerInv'
  <2>1. Live' = Live
    BY <1>11 DEF Live, Drain, Goto, ServerInv, TQ_SWI
  <2> QED
    BY <1>11, <2>1 DEF ServerInv, TQ_SWI, Drain, Goto
<1>12. ASSUME NEW t \in Client, NEW S \in SUBSET Worker, StartThreads(t, S)
       PROVE  ServerInv'
  <2>1. Live' = S
    BY <1>12 DEF StartThreads, Live
  <2>2. tq_tcount' = Cardinality(Live')
    BY <1>12, <2>1 DEF StartThreads
  <2> QED
    BY <1>12, <2>2 DEF StartThreads, ServerInv, TQ_SWI
<1>13. ASSUME NEW t \in Client, Block(t) PROVE ServerInv'
  <2>1. Live' = Live
    BY <1>13 DEF Live, Block, TQ_LOCK_UNLOCK, ServerInv, TQ_SWI
  <2> QED
    BY <1>13, <2>1 DEF ServerInv, TQ_SWI, Block, TQ_LOCK_UNLOCK
<1>14. ASSUME NEW t \in Client, Unblock(t) PROVE ServerInv'
  <2>1. Live' = Live
    BY <1>14 DEF Live, Unblock, TQ_LOCK_UNLOCK, tq_enqueue, Goto, Asleep,
                 ServerInv, TQ_SWI
  <2> QED
    BY <1>14, <2>1 DEF ServerInv, TQ_SWI, Unblock, TQ_LOCK_UNLOCK, tq_enqueue,
                       Goto, Asleep
<1>15. ASSUME NEW t \in Client, Find(t) PROVE ServerInv'
  <2>1. Live' = Live
    BY <1>15 DEF Live, Find, Goto, ServerInv, TQ_SWI
  <2> QED
    BY <1>15, <2>1 DEF ServerInv, TQ_SWI, Find, Goto
<1>16. ASSUME NEW t \in Client, Free(t) PROVE ServerInv'
  <2>1. Live' = Live
    BY <1>16 DEF Live, Free, Goto, ServerInv, TQ_SWI
  <2> QED
    BY <1>16, <2>1 DEF ServerInv, TQ_SWI, Free, Goto
<1>17. ASSUME NEW t \in Thread, NEW k \in Task, Enqueue(t, k) PROVE ServerInv'
  <2>1. Live' = Live
    BY <1>17 DEF Live, Enqueue, TQ_LOCK_UNLOCK, tq_enqueue, Goto, Asleep,
                 ServerInv, TQ_SWI
  <2> QED
    BY <1>17, <2>1 DEF ServerInv, TQ_SWI, Enqueue, TQ_LOCK_UNLOCK, tq_enqueue,
                       Goto, Asleep
<1>18. CASE Finished \/ UNCHANGED vars
  BY <1>18 DEF Finished, vars, flagVars, listVars, ServerInv, Live, TQ_SWI
<1> QED
  BY <1>1, <1>2, <1>3, <1>4, <1>5, <1>6, <1>7, <1>8, <1>9, <1>10, <1>11, <1>12,
     <1>13, <1>14, <1>15, <1>16, <1>17, <1>18
     DEF Next, Step, Call

\* A queue with one thread has one thread inside taskqueue_run().
LEMMA OneRunner ==
  ASSUME TypeInv, ServerInv, tq_tcount <= 1, NEW u \in Worker, NEW v \in Worker,
         pc[u] \in {"run", "func"}, pc[v] \in {"run", "func"}
  PROVE  u = v
<1>1. CASE TQ_SWI
  BY <1>1 DEF ServerInv
<1>2. CASE ~TQ_SWI
  <2>1. u \in Live /\ v \in Live /\ tq_tcount = Cardinality(Live)
    BY <1>2 DEF Live, ServerInv
  <2>2. IsFiniteSet(Live)
    BY TaskqueueAssumption, FS_Subset DEF Live
  <2>3. Cardinality(Live) = 0 \/ Cardinality(Live) = 1
    BY <2>1, <2>2, FS_CardinalityType
  <2>4. Live # {}
    BY <2>1
  <2>5. \E x : Live = {x}
    BY <2>2, <2>3, <2>4, FS_EmptySet, FS_Singleton
  <2> QED
    BY <2>1, <2>5
<1> QED
  BY <1>1, <1>2

\* Every step keeps an inactive queue served, and a freed one unused.
LEMMA EndInvNext ==
  ASSUME TypeInv, MutexInv, LifeInv, ServerInv, EndInv, [Next]_vars
  PROVE  EndInv'
<1>0. ThreadFacts
  BY ThreadFactsHold
<1> USE <1>0 DEF ThreadFacts
<1>1. ASSUME NEW t \in Worker, ThreadLoop(t) PROVE EndInv'
  BY <1>1 DEF ThreadLoop, TQ_LOCK, TQ_LOCK_UNLOCK, Goto, WakeAndGoto, listVars,
              flagVars, EndInv, FreedIsUnused, LifeInv, Freeing
<1>2. ASSUME NEW t \in Worker, SwiStart(t) PROVE EndInv'
  BY <1>2 DEF SwiStart, Goto, listVars, flagVars, EndInv, FreedIsUnused,
              LifeInv, Freeing
<1>3. ASSUME NEW t \in Worker, SwiRun(t) PROVE EndInv'
  BY <1>3 DEF SwiRun, TQ_LOCK, Goto, listVars, flagVars, EndInv, FreedIsUnused,
              LifeInv, Freeing
<1>4. ASSUME NEW t \in Client, DrainLoop(t) PROVE EndInv'
  BY <1>4 DEF DrainLoop, TQ_LOCK_UNLOCK, Goto, listVars, flagVars, EndInv,
              FreedIsUnused, LifeInv, Freeing
<1>5. ASSUME NEW t \in Client, FindLock(t) PROVE EndInv'
  BY <1>5 DEF FindLock, TQ_LOCK, Goto, listVars, flagVars, EndInv,
              FreedIsUnused, LifeInv, Freeing
<1>6. ASSUME NEW t \in Client, FoundUnlock(t) PROVE EndInv'
  BY <1>6 DEF FoundUnlock, TQ_UNLOCK, Goto, listVars, flagVars, EndInv,
              FreedIsUnused, LifeInv, Freeing
<1>7. ASSUME NEW t \in Client, FreeDeactivate(t) PROVE EndInv'
  BY <1>7 DEF FreeDeactivate, TQ_LOCK, Goto, listVars, flagVars, EndInv,
              FreedIsUnused, LifeInv, Freeing
<1>8. ASSUME NEW t \in Client, Terminate(t) PROVE EndInv'
  <2>1. CASE tq_tcount > 0
    <3>1. freed' = freed /\ ~freed
      BY <1>8, <2>1 DEF Terminate, EndInv, FreedIsUnused
    <3> QED
      BY <1>8, <2>1, <3>1 DEF Terminate, EndInv, FreedIsUnused, WakeAndGoto,
                              Asleep, flagVars
  <2>2. CASE tq_tcount = 0
    <3>1. ~listed /\ ~tq_active /\ ~TQ_SWI
      BY <1>8 DEF Terminate, LifeInv, Freeing
    <3>2. \A w \in Worker : pc[w] \in {"new", "exit"}
      <4>1. IsFiniteSet(Live)
        BY TaskqueueAssumption, FS_Subset DEF Live
      <4>2. Live = {}
        BY <2>2, <3>1, <4>1, FS_EmptySet DEF ServerInv
      <4> QED
        BY <3>1, <4>2 DEF ServerInv, Live
    <3>3. \A u \in Client \ {t} : pc[u] = "idle"
      BY <1>8, <3>1 DEF Terminate, LifeInv, Freeing, MutexInv
    <3>4. tq_queue = <<>>
      BY <1>8, <3>1, <3>2, <3>3 DEF Terminate, EndInv
    <3>5. pc' = [pc EXCEPT ![t] = "idle"] /\ tq_queue' = tq_queue /\ listed' = listed /\ tq_mutex' = NULL
      BY <1>8, <2>2 DEF Terminate, Goto, TQ_UNLOCK
    <3> QED
      BY <3>1, <3>2, <3>3, <3>4, <3>5 DEF EndInv, FreedIsUnused
  <2> QED
    BY <1>8, <2>1, <2>2 DEF Terminate
<1>9. ASSUME NEW t \in Thread, Run(t) PROVE EndInv'
  BY <1>9 DEF Run, TQ_UNLOCK, Goto, listVars, flagVars, EndInv, FreedIsUnused,
              LifeInv, Freeing
<1>10. ASSUME NEW t \in Thread, FuncDone(t) PROVE EndInv'
  BY <1>10 DEF FuncDone, TQ_LOCK, WakeAndGoto, listVars, flagVars, EndInv,
               FreedIsUnused, LifeInv, Freeing
<1>11. ASSUME NEW t \in Client, NEW k \in Task, Drain(t, k) PROVE EndInv'
  BY <1>11 DEF Drain, Goto, listVars, flagVars, EndInv, FreedIsUnused, LifeInv,
               Freeing
<1>12. ASSUME NEW t \in Client, NEW S \in SUBSET Worker, StartThreads(t, S)
       PROVE  EndInv'
  BY <1>12 DEF StartThreads, listVars, flagVars, EndInv, FreedIsUnused,
               LifeInv, Freeing
<1>13. ASSUME NEW t \in Client, Block(t) PROVE EndInv'
  BY <1>13 DEF Block, TQ_LOCK_UNLOCK, listVars, flagVars, EndInv,
               FreedIsUnused, LifeInv, Freeing
<1>14. ASSUME NEW t \in Client, Unblock(t) PROVE EndInv'
  BY <1>14 DEF Unblock, TQ_LOCK_UNLOCK, tq_enqueue, Goto, Asleep, listVars,
               flagVars, EndInv, FreedIsUnused, LifeInv, Freeing
<1>15. ASSUME NEW t \in Client, Find(t) PROVE EndInv'
  BY <1>15 DEF Find, Goto, listVars, flagVars, EndInv, FreedIsUnused, LifeInv,
               Freeing
<1>16. ASSUME NEW t \in Client, Free(t) PROVE EndInv'
  BY <1>16 DEF Free, Goto, listVars, flagVars, EndInv, FreedIsUnused, LifeInv,
               Freeing
<1>17. ASSUME NEW t \in Thread, NEW k \in Task, Enqueue(t, k) PROVE EndInv'
  BY <1>17 DEF Enqueue, TQ_LOCK_UNLOCK, tq_enqueue, Goto, Asleep, listVars,
               flagVars, EndInv, FreedIsUnused, LifeInv, Freeing
<1>18. CASE Finished \/ UNCHANGED vars
  BY <1>18 DEF Finished, vars, flagVars, listVars, EndInv, FreedIsUnused
<1> QED
  BY <1>1, <1>2, <1>3, <1>4, <1>5, <1>6, <1>7, <1>8, <1>9, <1>10, <1>11, <1>12,
     <1>13, <1>14, <1>15, <1>16, <1>17, <1>18
     DEF Next, Step, Call

\* Every step keeps tq_running the task of the only thread.
LEMMA SoloInvNext ==
  ASSUME TypeInv, LifeInv, ServerInv, SoloInv, [Next]_vars
  PROVE  SoloInv'
<1>0. ThreadFacts
  BY ThreadFactsHold
<1> USE <1>0 DEF ThreadFacts
<1>1. ASSUME NEW t \in Worker, ThreadLoop(t) PROVE SoloInv'
  BY <1>1 DEF ThreadLoop, TQ_LOCK, TQ_LOCK_UNLOCK, Goto, WakeAndGoto, listVars,
              flagVars, SoloInv, LifeInv
<1>2. ASSUME NEW t \in Worker, SwiStart(t) PROVE SoloInv'
  BY <1>2 DEF SwiStart, Goto, listVars, flagVars, SoloInv, LifeInv
<1>3. ASSUME NEW t \in Worker, SwiRun(t) PROVE SoloInv'
  BY <1>3 DEF SwiRun, TQ_LOCK, Goto, listVars, flagVars, SoloInv, LifeInv
<1>4. ASSUME NEW t \in Client, DrainLoop(t) PROVE SoloInv'
  <2>1. \A w \in Worker : pc'[w] = pc[w] /\ task'[w] = task[w]
    BY <1>4 DEF DrainLoop, Goto, TypeInv
  <2> QED
    BY <1>4, <2>1 DEF DrainLoop, listVars, SoloInv
<1>5. ASSUME NEW t \in Client, FindLock(t) PROVE SoloInv'
  BY <1>5 DEF FindLock, TQ_LOCK, Goto, listVars, flagVars, SoloInv, LifeInv
<1>6. ASSUME NEW t \in Client, FoundUnlock(t) PROVE SoloInv'
  BY <1>6 DEF FoundUnlock, TQ_UNLOCK, Goto, listVars, flagVars, SoloInv,
              LifeInv
<1>7. ASSUME NEW t \in Client, FreeDeactivate(t) PROVE SoloInv'
  BY <1>7 DEF FreeDeactivate, TQ_LOCK, Goto, listVars, flagVars, SoloInv,
              LifeInv
<1>8. ASSUME NEW t \in Client, Terminate(t) PROVE SoloInv'
  BY <1>8 DEF Terminate, TQ_UNLOCK, Goto, WakeAndGoto, Asleep, listVars,
              flagVars, SoloInv, LifeInv
<1>9. ASSUME NEW t \in Thread, Run(t) PROVE SoloInv'
  <2>1. SUFFICES ASSUME listed', tq_tcount' <= 1, NEW w \in Worker, pc'[w] = "func"
                 PROVE  tq_running' = task'[w]
    BY DEF SoloInv
  <2>2. listed /\ tq_tcount <= 1 /\ t \in Worker
    BY <1>9, <2>1 DEF Run, LifeInv, Freeing, listVars
  <2>3. w = t
    BY <1>9, <2>1, <2>2, OneRunner DEF Run, Goto
  <2>4. task \in [Thread -> Task \cup {NULL}]
    BY DEF TypeInv
  <2> QED
    BY <1>9, <2>1, <2>3, <2>4 DEF Run, Goto
<1>10. ASSUME NEW t \in Thread, FuncDone(t) PROVE SoloInv'
  <2>1. SUFFICES ASSUME listed', tq_tcount' <= 1, NEW w \in Worker, pc'[w] = "func"
                 PROVE  FALSE
    BY DEF SoloInv
  <2>2. listed /\ tq_tcount <= 1 /\ t \in Worker
    BY <1>10, <2>1 DEF FuncDone, LifeInv, Freeing, listVars
  <2>3. w # t /\ pc[w] = "func" /\ pc[t] = "func"
    BY <1>10, <2>1 DEF FuncDone, WakeAndGoto
  <2> QED
    BY <2>2, <2>3, OneRunner
<1>11. ASSUME NEW t \in Client, NEW k \in Task, Drain(t, k) PROVE SoloInv'
  BY <1>11 DEF Drain, Goto, listVars, flagVars, SoloInv, LifeInv
<1>12. ASSUME NEW t \in Client, NEW S \in SUBSET Worker, StartThreads(t, S)
       PROVE  SoloInv'
  BY <1>12 DEF StartThreads, listVars, flagVars, SoloInv, LifeInv
<1>13. ASSUME NEW t \in Client, Block(t) PROVE SoloInv'
  BY <1>13 DEF Block, TQ_LOCK_UNLOCK, listVars, flagVars, SoloInv, LifeInv
<1>14. ASSUME NEW t \in Client, Unblock(t) PROVE SoloInv'
  BY <1>14 DEF Unblock, TQ_LOCK_UNLOCK, tq_enqueue, Goto, Asleep, listVars,
               flagVars, SoloInv, LifeInv
<1>15. ASSUME NEW t \in Client, Find(t) PROVE SoloInv'
  BY <1>15 DEF Find, Goto, listVars, flagVars, SoloInv, LifeInv
<1>16. ASSUME NEW t \in Client, Free(t) PROVE SoloInv'
  BY <1>16 DEF Free, Goto, listVars, flagVars, SoloInv, LifeInv
<1>17. ASSUME NEW t \in Thread, NEW k \in Task, Enqueue(t, k) PROVE SoloInv'
  BY <1>17 DEF Enqueue, TQ_LOCK_UNLOCK, tq_enqueue, Goto, Asleep, listVars,
               flagVars, SoloInv, LifeInv
<1>18. CASE Finished \/ UNCHANGED vars
  BY <1>18 DEF Finished, vars, flagVars, listVars, SoloInv
<1> QED
  BY <1>1, <1>2, <1>3, <1>4, <1>5, <1>6, <1>7, <1>8, <1>9, <1>10, <1>11, <1>12,
     <1>13, <1>14, <1>15, <1>16, <1>17, <1>18
     DEF Next, Step, Call

\* tq_enqueue leaves somebody awake: an active queue has no thread that has ended.
LEMMA EnqueueWakes ==
  ASSUME TypeInv, LifeInv, ServerInv, tq_enqueue, Started',
         tq_active \/ \E t \in Thread : pc[t] = "func"
  PROVE  ih_need' = TRUE \/ \E t \in Thread : pc'[t] \in {"loop", "run", "func"}
<1>0. pc \in [Worker \cup Client -> Points]
  BY DEF TypeInv, Points
<1>1. CASE TQ_SWI
  BY <1>1 DEF tq_enqueue
<1>2. CASE ~TQ_SWI /\ Asleep # {}
  BY <1>0, <1>2 DEF tq_enqueue, Asleep, Goto
<1>3. CASE ~TQ_SWI /\ Asleep = {}
  <2>1. pc' = pc
    BY <1>3 DEF tq_enqueue
  <2>2. PICK w \in Worker : pc[w] # "new"
    BY <2>1 DEF Started
  <2>3. pc[w] \in {"loop", "run", "func", "exit"}
    BY <1>3, <2>2 DEF ServerInv, Asleep
  <2> QED
    BY <2>1, <2>3 DEF LifeInv
<1> QED
  BY <1>1, <1>2, <1>3

\* No step loses a wakeup.
LEMMA QueuedTaskIsRunNext ==
  ASSUME TypeInv, LifeInv, ServerInv, EndInv, QueuedTaskIsRun, [Next]_vars
  PROVE  QueuedTaskIsRun'
<1>0. ThreadFacts
  BY ThreadFactsHold
<1> USE <1>0 DEF ThreadFacts
<1>1. ASSUME NEW t \in Worker, ThreadLoop(t) PROVE QueuedTaskIsRun'
  <2>1. CASE tq_active
    BY <1>1, <2>1 DEF ThreadLoop, Goto, QueuedTaskIsRun
  <2>2. CASE ~tq_active
    <3>1. SUFFICES ASSUME tq_queue # <<>>
                   PROVE  \E u \in Thread : pc'[u] \in {"run", "func"}
      BY <1>1 DEF ThreadLoop, QueuedTaskIsRun
    <3>2. PICK u \in Thread : pc[u] \in {"run", "func"}
      BY <2>2, <3>1 DEF EndInv
    <3>3. pc'[u] = pc[u]
      BY <1>1, <2>2, <3>2 DEF ThreadLoop, WakeAndGoto
    <3> QED
      BY <3>2, <3>3
  <2> QED
    BY <2>1, <2>2
<1>2. ASSUME NEW t \in Worker, SwiStart(t) PROVE QueuedTaskIsRun'
  BY <1>2 DEF SwiStart, Goto, listVars, flagVars, QueuedTaskIsRun, Started,
              LifeInv, TQ_SWI
<1>3. ASSUME NEW t \in Worker, SwiRun(t) PROVE QueuedTaskIsRun'
  BY <1>3 DEF SwiRun, TQ_LOCK, Goto, listVars, flagVars, QueuedTaskIsRun,
              Started, LifeInv, TQ_SWI
<1>4. ASSUME NEW t \in Client, DrainLoop(t) PROVE QueuedTaskIsRun'
  BY <1>4 DEF DrainLoop, TQ_LOCK_UNLOCK, Goto, listVars, flagVars,
              QueuedTaskIsRun, Started, LifeInv, TQ_SWI
<1>5. ASSUME NEW t \in Client, FindLock(t) PROVE QueuedTaskIsRun'
  BY <1>5 DEF FindLock, TQ_LOCK, Goto, listVars, flagVars, QueuedTaskIsRun,
              Started, LifeInv, TQ_SWI
<1>6. ASSUME NEW t \in Client, FoundUnlock(t) PROVE QueuedTaskIsRun'
  BY <1>6 DEF FoundUnlock, TQ_UNLOCK, Goto, listVars, flagVars,
              QueuedTaskIsRun, Started, LifeInv, TQ_SWI
<1>7. ASSUME NEW t \in Client, FreeDeactivate(t) PROVE QueuedTaskIsRun'
  BY <1>7 DEF FreeDeactivate, TQ_LOCK, Goto, listVars, flagVars,
              QueuedTaskIsRun, Started, LifeInv, TQ_SWI
<1>8. ASSUME NEW t \in Client, Terminate(t) PROVE QueuedTaskIsRun'
  BY <1>8 DEF Terminate, TQ_UNLOCK, Goto, WakeAndGoto, Asleep, listVars,
              flagVars, QueuedTaskIsRun, Started, LifeInv, TQ_SWI
<1>9. ASSUME NEW t \in Thread, Run(t) PROVE QueuedTaskIsRun'
  BY <1>9 DEF Run, TQ_UNLOCK, Goto, listVars, flagVars, QueuedTaskIsRun,
              Started, LifeInv, TQ_SWI
<1>10. ASSUME NEW t \in Thread, FuncDone(t) PROVE QueuedTaskIsRun'
  BY <1>10 DEF FuncDone, TQ_LOCK, WakeAndGoto, listVars, flagVars,
               QueuedTaskIsRun, Started, LifeInv, TQ_SWI
<1>11. ASSUME NEW t \in Client, NEW k \in Task, Drain(t, k)
       PROVE  QueuedTaskIsRun'
  BY <1>11 DEF Drain, Goto, listVars, flagVars, QueuedTaskIsRun, Started,
               LifeInv, TQ_SWI
<1>12. ASSUME NEW t \in Client, NEW S \in SUBSET Worker, StartThreads(t, S)
       PROVE  QueuedTaskIsRun'
  BY <1>12 DEF StartThreads, listVars, flagVars, QueuedTaskIsRun, Started,
               LifeInv, TQ_SWI
<1>13. ASSUME NEW t \in Client, Block(t) PROVE QueuedTaskIsRun'
  BY <1>13 DEF Block, TQ_LOCK_UNLOCK, listVars, flagVars, QueuedTaskIsRun,
               Started, LifeInv, TQ_SWI
<1>14. ASSUME NEW t \in Client, Unblock(t) PROVE QueuedTaskIsRun'
  <2>1. CASE tq_pending
    <3>1. tq_enqueue /\ tq_active
      BY <1>14, <2>1 DEF Unblock, LifeInv
    <3> QED
      BY <3>1, EnqueueWakes DEF QueuedTaskIsRun
  <2>2. CASE ~tq_pending
    BY <1>14, <2>2 DEF Unblock, QueuedTaskIsRun, Started
  <2> QED
    BY <2>1, <2>2
<1>15. ASSUME NEW t \in Client, Find(t) PROVE QueuedTaskIsRun'
  BY <1>15 DEF Find, Goto, listVars, flagVars, QueuedTaskIsRun, Started,
               LifeInv, TQ_SWI
<1>16. ASSUME NEW t \in Client, Free(t) PROVE QueuedTaskIsRun'
  BY <1>16 DEF Free, Goto, listVars, flagVars, QueuedTaskIsRun, Started,
               LifeInv, TQ_SWI
<1>17. ASSUME NEW t \in Thread, NEW k \in Task, Enqueue(t, k)
       PROVE  QueuedTaskIsRun'
  <2>1. CASE ta_pending[k] # 0
    BY <1>17, <2>1 DEF Enqueue, QueuedTaskIsRun, Started
  <2>2. CASE ta_pending[k] = 0 /\ tq_blocked
    BY <1>17, <2>2 DEF Enqueue, QueuedTaskIsRun
  <2>3. CASE ta_pending[k] = 0 /\ ~tq_blocked
    <3>1. tq_enqueue /\ (tq_active \/ pc[t] = "func")
      BY <1>17, <2>3 DEF Enqueue, LifeInv
    <3> QED
      BY <3>1, EnqueueWakes DEF QueuedTaskIsRun
  <2> QED
    BY <2>1, <2>2, <2>3
<1>18. CASE Finished \/ UNCHANGED vars
  BY <1>18 DEF Finished, vars, flagVars, listVars, QueuedTaskIsRun, Started
<1> QED
  BY <1>1, <1>2, <1>3, <1>4, <1>5, <1>6, <1>7, <1>8, <1>9, <1>10, <1>11, <1>12,
     <1>13, <1>14, <1>15, <1>16, <1>17, <1>18
     DEF Next, Step, Call

\* The counter is exact, and the clients keep to their limit.
CountInv ==
  /\ ta_pending \in [Task -> Nat]
  /\ owed \in [Task -> Nat]
  /\ \A k \in Task : owed[k] <= ENQ_LIMIT[k]
  /\ PendingCountExact

\* A u_short does not wrap below its modulus.
LEMMA NoWrap ==
  ASSUME NEW M \in Nat, NEW n \in Nat, n < M
  PROVE  n % M = n
OBVIOUS

\* Enqueue counts the request in both places.
LEMMA EnqueueCounts ==
  ASSUME \A j \in Task : ENQ_LIMIT[j] < USHRT_MOD, CountInv,
         NEW t \in Thread, NEW k \in Task, Enqueue(t, k)
  PROVE  CountInv'
<1> USE TaskqueueAssumption
<1>1. /\ owed[k] \in Nat /\ owed[k] < ENQ_LIMIT[k]
      /\ owed' = [owed EXCEPT ![k] = owed[k] + 1]
      /\ ta_pending[k] = owed[k]
  BY DEF Enqueue, CountInv, PendingCountExact
<1>2. owed[k] + 1 <= ENQ_LIMIT[k] /\ owed[k] + 1 \in Nat /\ owed[k] + 1 < USHRT_MOD
  BY <1>1
<1>3. (owed[k] + 1) % USHRT_MOD = owed[k] + 1
  BY <1>2, NoWrap
<1>4. ta_pending' = [ta_pending EXCEPT ![k] = owed[k] + 1]
  <2>1. CASE ta_pending[k] # 0
    BY <1>1, <1>3, <2>1 DEF Enqueue, CountUp
  <2>2. CASE ta_pending[k] = 0
    BY <1>1, <2>2 DEF Enqueue
  <2> QED
    BY <2>1, <2>2
<1>5. /\ owed' \in [Task -> Nat] /\ ta_pending' \in [Task -> Nat]
      /\ \A j \in Task : owed'[j] <= ENQ_LIMIT[j]
  BY <1>1, <1>2, <1>4 DEF CountInv
<1>6. PendingCountExact'
  BY <1>1, <1>4 DEF CountInv, PendingCountExact
<1> QED
  BY <1>5, <1>6 DEF CountInv

\* Running a task answers all of its requests; other steps touch neither count.
LEMMA CountInvNext ==
  ASSUME \A j \in Task : ENQ_LIMIT[j] < USHRT_MOD, CountInv, [Next]_vars
  PROVE  CountInv'
<1> DEFINE Same == UNCHANGED <<ta_pending, owed>>
<1>1. CASE Same
  BY <1>1 DEF CountInv, PendingCountExact
<1>2. ASSUME NEW t \in Thread, Run(t) PROVE CountInv'
  <2>1. CASE /\ ta_pending' = [ta_pending EXCEPT ![Head(tq_queue)] = 0]
             /\ owed' = [owed EXCEPT ![Head(tq_queue)] = 0]
    <3>1. /\ owed' \in [Task -> Nat] /\ ta_pending' \in [Task -> Nat]
          /\ \A j \in Task : owed'[j] <= ENQ_LIMIT[j]
      <4>1. ASSUME NEW j \in Task PROVE owed'[j] \in {0, owed[j]}
        BY <2>1 DEF CountInv
      <4>2. ASSUME NEW j \in Task
            PROVE  owed'[j] \in Nat /\ owed'[j] <= ENQ_LIMIT[j]
        BY <4>1, TaskqueueAssumption DEF CountInv
      <4>3. ta_pending' \in [Task -> Nat]
        BY <2>1 DEF CountInv
      <4>4. owed' = [j \in Task |-> owed'[j]]
        BY <2>1 DEF CountInv
      <4> QED
        BY <4>2, <4>3, <4>4
    <3>2. PendingCountExact'
      BY <2>1 DEF CountInv, PendingCountExact
    <3> QED
      BY <3>1, <3>2 DEF CountInv
  <2> QED
    BY <1>1, <1>2, <2>1 DEF Run
<1>3. ASSUME NEW t \in Thread, Step(t) PROVE CountInv'
  <2>1. CASE Run(t)
    BY <2>1, <1>2
  <2>2. CASE \/ ThreadLoop(t) \/ SwiStart(t) \/ SwiRun(t) \/ DrainLoop(t)
             \/ FindLock(t) \/ FoundUnlock(t) \/ FreeDeactivate(t)
             \/ Terminate(t) \/ FuncDone(t)
    <3>1. Same
      BY <2>2 DEF ThreadLoop, SwiStart, SwiRun, DrainLoop, FindLock,
                  FoundUnlock,
                  FreeDeactivate, Terminate, FuncDone
    <3> QED
      BY <1>1, <3>1
  <2> QED
    BY <1>3, <2>1, <2>2 DEF Step
<1>4. ASSUME NEW t \in Client, Call(t) PROVE Same
  BY <1>4 DEF Call, Drain, StartThreads, Block, Unblock, Find, Free
<1>5. CASE Finished \/ UNCHANGED vars
  <2>1. Same
    BY <1>5 DEF Finished, vars
  <2> QED
    BY <1>1, <2>1
<1> QED
  BY <1>1, <1>3, <1>4, <1>5, EnqueueCounts DEF Next

\* As long as no task is enqueued 2^16 times before it runs, the count passed to
\* a handler is the number of requests it answers, for any number of tasks,
\* threads and clients.  At the modulus the count wraps to zero.
THEOREM PendingIsExact ==
  ASSUME \A j \in Task : ENQ_LIMIT[j] < USHRT_MOD
  PROVE  Spec => []PendingCountExact
<1>1. Init => CountInv
  BY TaskqueueAssumption DEF Init, CountInv, PendingCountExact
<1>2. CountInv /\ [Next]_vars => CountInv'
  BY CountInvNext
<1>3. CountInv => PendingCountExact
  BY DEF CountInv
<1> QED
  BY <1>1, <1>2, <1>3, PTL DEF Spec

\* The queue stays well formed as long as ta_pending does not wrap.
LEMMA OrderInvNext ==
  ASSUME \A j \in Task : ENQ_LIMIT[j] < USHRT_MOD,
         TypeInv, CountInv, OrderInv, [Next]_vars
  PROVE  OrderInv'
<1>0. tq_queue \in Seq(Task) /\ ta_pending \in [Task -> 0..(USHRT_MOD - 1)]
  BY DEF TypeInv
<1> DEFINE Same == UNCHANGED <<tq_queue, ta_pending>>
<1>1. CASE Same
  BY <1>1 DEF OrderInv, Ordered
<1>2. ASSUME NEW t \in Thread, Run(t) PROVE OrderInv'
  <2>1. CASE tq_queue = <<>>
    <3>1. Same
      BY <1>2, <2>1 DEF Run
    <3> QED
      BY <1>1, <3>1
  <2>2. CASE tq_queue # <<>>
    <3> DEFINE h == Head(tq_queue)
    <3>1. tq_queue' = Tail(tq_queue) /\ ta_pending' = [ta_pending EXCEPT ![h] = 0]
      BY <1>2, <2>2 DEF Run
    <3>2. /\ Ordered(tq_queue', Len(tq_queue'))
          /\ h \in Task
          /\ ToSet(tq_queue') = ToSet(tq_queue) \ {h}
      BY <1>0, <2>2, <3>1, TailKeepsOrder DEF OrderInv
    <3> HIDE DEF h
    <3>3. \A k \in Task : k \in ToSet(tq_queue)' <=> ta_pending'[k] # 0
      BY <1>0, <3>1, <3>2 DEF OrderInv, ToSet
    <3> QED
      BY <3>2, <3>3 DEF OrderInv, Ordered
  <2> QED
    BY <2>1, <2>2
<1>3. ASSUME NEW t \in Thread, NEW k \in Task, Enqueue(t, k) PROVE OrderInv'
  <2>1. CASE ta_pending[k] # 0
    <3>1. CountInv'
      BY <1>3, EnqueueCounts
    <3>2. owed'[k] # 0
      BY <1>3 DEF Enqueue, CountInv
    <3>3. ta_pending'[k] # 0
      BY <3>1, <3>2 DEF CountInv, PendingCountExact
    <3>4. tq_queue' = tq_queue /\ \A j \in Task \ {k} : ta_pending'[j] = ta_pending[j]
      BY <1>0, <1>3, <2>1 DEF Enqueue
    <3> QED
      BY <2>1, <3>3, <3>4 DEF OrderInv, Ordered
  <2>2. CASE ta_pending[k] = 0
    <3>1. tq_queue' = InsertByPriority(tq_queue, k) /\ ta_pending' = [ta_pending EXCEPT ![k] = 1]
      BY <1>3, <2>2 DEF Enqueue
    <3>2. k \notin ToSet(tq_queue)
      BY <2>2 DEF OrderInv
    <3>3. Ordered(tq_queue', Len(tq_queue')) /\ ToSet(tq_queue') = ToSet(tq_queue) \cup {k}
      BY <1>0, <3>1, <3>2, InsertKeepsOrder DEF OrderInv
    <3>4. \A j \in Task : j \in ToSet(tq_queue)' <=> ta_pending'[j] # 0
      <4>1. ToSet(tq_queue)' = ToSet(tq_queue) \cup {k}
        BY <3>3 DEF ToSet
      <4>2. \A j \in Task \ {k} : ta_pending'[j] = ta_pending[j]
        BY <1>0, <3>1
      <4>3. ta_pending'[k] = 1
        BY <1>0, <3>1
      <4> QED
        BY <4>1, <4>2, <4>3 DEF OrderInv
    <3> QED
      BY <3>3, <3>4 DEF OrderInv, Ordered
  <2> QED
    BY <2>1, <2>2
<1>4. ASSUME NEW t \in Thread, Step(t), ~Run(t) PROVE Same
  BY <1>4 DEF Step, ThreadLoop, SwiStart, SwiRun, DrainLoop, FindLock,
              FoundUnlock,
              FreeDeactivate, Terminate, FuncDone
<1>5. ASSUME NEW t \in Client, Call(t) PROVE Same
  BY <1>5 DEF Call, Drain, StartThreads, Block, Unblock, Find, Free
<1>6. CASE Finished \/ UNCHANGED vars
  <2>1. Same
    BY <1>6 DEF Finished, vars
  <2> QED
    BY <1>1, <2>1
<1> QED
  BY <1>1, <1>2, <1>3, <1>4, <1>5, <1>6 DEF Next

\* The inductive invariant of a task queue, whatever the clients' limits.
TqInv ==
  TypeInv /\ MutexInv /\ LifeInv /\ ServerInv /\ EndInv /\ SoloInv /\ QueuedTaskIsRun

\* A queue that has just been created satisfies the invariant.
LEMMA TqInvInit == Init => TqInv
<1> SUFFICES ASSUME Init PROVE TqInv
  OBVIOUS
<1> USE TaskqueueAssumption DEF Init
<1>1. \A t \in Worker : pc[t] \in {"new", "swi_idle"}
  OBVIOUS
<1>2. \A t \in Client : pc[t] = "idle"
  OBVIOUS
<1>3. TypeInv
  <2>1. tq_queue \in Seq(Task)
    BY EmptySeq
  <2>2. ta_pending \in [Task -> 0..(USHRT_MOD - 1)] /\ owed \in [Task -> Nat]
    OBVIOUS
  <2>3. /\ pc \in [Thread -> WorkerPoints \cup ClientPoints]
        /\ \A t \in Worker : pc[t] \in WorkerPoints
        /\ \A t \in Client : pc[t] \in ClientPoints
    BY DEF WorkerPoints, ClientPoints
  <2>4. task \in [Thread -> Task \cup {NULL}] /\ ih_need \in BOOLEAN \cup {NULL}
    OBVIOUS
  <2>5. /\ tq_mutex = NULL /\ tq_running = NULL /\ tq_tcount = 0 /\ list_mutex = NULL
        /\ tq_active = TRUE /\ tq_blocked = FALSE /\ tq_pending = FALSE
        /\ listed = TRUE /\ freed = FALSE
    OBVIOUS
  <2> HIDE TaskqueueAssumption DEF Init
  <2>6. tq_tcount \in Int
    BY <2>5
  <2>7. /\ tq_active \in BOOLEAN /\ tq_blocked \in BOOLEAN /\ tq_pending \in BOOLEAN
        /\ listed \in BOOLEAN /\ freed \in BOOLEAN
    BY <2>5
  <2> QED
    BY <2>1, <2>2, <2>3, <2>4, <2>5, <2>6, <2>7, Zenon DEF TypeInv
<1>4. MutexInv
  BY <1>1, <1>2 DEF MutexInv
<1>5. LifeInv
  BY <1>1, <1>2 DEF LifeInv, Freeing
<1>6. ServerInv
  <2>1. Live = {}
    BY <1>1 DEF Live
  <2>2. Cardinality(Live) = 0
    BY <2>1, FS_EmptySet
  <2>3. ih_need # NULL => \A u, w \in Worker : pc[u] # "new" /\ pc[w] # "new" => u = w
    OBVIOUS
  <2>4. ih_need = NULL => \A w \in Worker : pc[w] = "new"
    OBVIOUS
  <2> QED
    BY <1>1, <2>2, <2>3, <2>4 DEF ServerInv, TQ_SWI
<1>7. EndInv /\ SoloInv
  BY <1>1 DEF EndInv, FreedIsUnused, SoloInv
<1>8. QueuedTaskIsRun
  BY DEF QueuedTaskIsRun
<1> QED
  BY <1>3, <1>4, <1>5, <1>6, <1>7, <1>8 DEF TqInv

\* The invariant is inductive.
LEMMA TqInvNext == TqInv /\ [Next]_vars => TqInv'
BY TypeInvNext, MutexInvNext, LifeInvNext, ServerInvNext, EndInvNext,
   SoloInvNext,
   QueuedTaskIsRunNext DEF TqInv

\* No wakeup is lost, for any number of tasks, threads and clients: a task that
\* is queued on a queue with a thread has somebody awake to run it, also across
\* block and unblock, and while taskqueue_free() stops the threads.
THEOREM QueuedTasksRun == Spec => []QueuedTaskIsRun
<1>1. TqInv => QueuedTaskIsRun
  BY DEF TqInv
<1> QED
  BY <1>1, TqInvInit, TqInvNext, PTL DEF Spec

\* taskqueue_free() frees the queue only after every thread has left it, with no
\* task queued and nobody holding the mutex, against any number of lookups and
\* of handlers that enqueue.
THEOREM FreeLeavesNothing == Spec => []FreedIsUnused
<1>1. TqInv => FreedIsUnused
  BY DEF TqInv, EndInv
<1> QED
  BY <1>1, TqInvInit, TqInvNext, PTL DEF Spec

\* A drain returns only through the loop condition of taskqueue_drain(), which
\* sees the task of the only thread in tq_running.
LEMMA SoloDrainStep ==
  ASSUME TqInv, [Next]_vars, NEW t \in Client, pc[t] = "drain", pc'[t] = "idle",
         tq_tcount <= 1
  PROVE  Running(task[t]) = {}
<1>0. /\ pc \in [Worker \cup Client -> Points] /\ Worker \cap Client = {}
      /\ TypeInv /\ LifeInv /\ SoloInv
  BY TaskqueueAssumption DEF TqInv, TypeInv, Points
<1>1. listed /\ \A u \in Client : pc[u] # "func"
  BY <1>0 DEF LifeInv, Freeing
<1>2. task[t] # tq_running
  <2> USE <1>0
  <2>1. ASSUME NEW u \in Client, DrainLoop(u), u # t PROVE FALSE
    BY <2>1 DEF DrainLoop, Goto
  <2>2. ASSUME DrainLoop(t) PROVE ~Busy(task[t])
    BY <2>2 DEF DrainLoop, Goto
  <2>3. ASSUME NEW u \in Thread, Step(u), ~(u \in Client /\ DrainLoop(u))
        PROVE  FALSE
    BY <2>3 DEF Step, ThreadLoop, SwiStart, SwiRun, FindLock, FoundUnlock,
                FreeDeactivate,
         Terminate, FuncDone, Run, Goto, WakeAndGoto, Asleep
  <2>4. ASSUME NEW u \in Client, Call(u) PROVE FALSE
    BY <2>4 DEF Call, Drain, StartThreads, Block, Unblock, Find, Free, Goto,
                tq_enqueue, Asleep
  <2>5. ASSUME NEW u \in Thread, NEW k \in Task, Enqueue(u, k) PROVE FALSE
    BY <2>5 DEF Enqueue, Goto, tq_enqueue, Asleep
  <2>6. CASE Finished \/ UNCHANGED vars
    BY <2>6 DEF Finished, vars
  <2> QED
    BY <2>1, <2>2, <2>3, <2>4, <2>5, <2>6 DEF Next, Busy
<1> QED
  BY <1>0, <1>1, <1>2 DEF Running, SoloInv

\* taskqueue_drain() is sound on a queue with at most one thread: when it
\* returns, no handler of its task is being executed.
THEOREM SoloDrainWaits == Spec => SoloDrainIsDone
<1>1. TqInv /\ [Next]_vars =>
        [\A t \in Client : (At(t, "drain") /\ pc'[t] = "idle" /\ tq_tcount <= 1) =>
           Running(task[t]) = {}]_vars
  BY SoloDrainStep
<1> QED
  BY <1>1, TqInvInit, TqInvNext, PTL DEF Spec, SoloDrainIsDone

\* As long as no task is enqueued 2^16 times before it runs, a task is linked
\* exactly while requests for it are pending, once, and in the order of the
\* priorities.
THEOREM QueueIsWellFormed ==
  ASSUME \A j \in Task : ENQ_LIMIT[j] < USHRT_MOD
  PROVE  Spec => []QueueWellFormed
<1>1. Init => OrderInv
  <2> SUFFICES ASSUME Init PROVE OrderInv
    OBVIOUS
  <2>1. tq_queue = <<>> /\ Len(tq_queue) = 0 /\ DOMAIN tq_queue = {}
    BY DEF Init
  <2> QED
    BY <2>1 DEF Init, OrderInv, Ordered, ToSet
<1>2. TqInv /\ CountInv /\ OrderInv /\ [Next]_vars => OrderInv'
  BY OrderInvNext DEF TqInv
<1>3. Init => CountInv
  BY TaskqueueAssumption DEF Init, CountInv, PendingCountExact
<1>4. CountInv /\ [Next]_vars => CountInv'
  BY CountInvNext
<1>5. TqInv /\ OrderInv => QueueWellFormed
  <2> SUFFICES ASSUME TqInv, OrderInv PROVE QueueWellFormed
    OBVIOUS
  <2>1. tq_tcount \in 0..Cardinality(Worker)
    <3>1. Live \subseteq Worker /\ IsFiniteSet(Worker)
      BY TaskqueueAssumption DEF Live
    <3>2. Cardinality(Live) \in Nat /\ Cardinality(Worker) \in Nat /\ Cardinality(Live) <= Cardinality(Worker)
      BY <3>1, FS_Subset, FS_CardinalityType
    <3>3. tq_tcount = 0 \/ tq_tcount = Cardinality(Live)
      BY DEF TqInv, ServerInv
    <3> QED
      BY <3>2, <3>3
  <2>2. TypeOK
    BY <2>1, TaskqueueAssumption DEF TqInv, TypeInv, TypeOK
  <2>3. DOMAIN tq_queue = 1..Len(tq_queue)
    BY LenProperties DEF TqInv, TypeInv
  <2> QED
    BY <2>2, <2>3 DEF QueueWellFormed, OrderInv, Ordered, IsInjective
<1> QED
  BY <1>1, <1>2, <1>3, <1>4, <1>5, TqInvInit, TqInvNext, PTL DEF Spec
=============================================================================
