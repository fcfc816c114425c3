--------------------------- MODULE TurnstileProofs ---------------------------
(***************************************************************************)
(* Lemmas about the operators of module Turnstile: what joining a queue,   *)
(* moving in it, and handing turnstiles back do to the threads of a queue. *)
(***************************************************************************)
EXTENDS Turnstile, SequenceLemmas

\* A thread that joins a queue in the order of the priorities.
LEMMA InsertJoins ==
  ASSUME NEW q \in Seq(Thread), NEW td \in Thread, NEW pri \in [Thread -> Priority]
  PROVE  LET r == InsertByPriority(q, td, pri)
         IN  /\ r \in Seq(Thread) /\ Len(r) = Len(q) + 1
             /\ ToSet(r) = ToSet(q) \cup {td}
             /\ Injective(q) /\ td \notin ToSet(q) => Injective(r)
<1> DEFINE later == {i \in DOMAIN q : pri[q[i]] > pri[td]}
           n == IF later = {} THEN Len(q) + 1 ELSE Min(later)
           r == InsertAt(q, n, td)
<1>1. later \in SUBSET (1..Len(q)) /\ Len(q) \in Nat
  BY LenProperties
<1> HIDE DEF later
<1>2. n \in 1..(Len(q) + 1)
  <2>1. CASE later = {}
    BY <1>1, <2>1
  <2>2. CASE later # {}
    <3>1. Min(later) \in later
      BY <1>1, <2>2, MinExists
    <3>2. Min(later) \in 1..Len(q)
      BY <1>1, <3>1
    <3> QED
      BY <1>1, <2>2, <3>2
  <2> QED
    BY <2>1, <2>2
<1>3. InsertByPriority(q, td, pri) = r
  BY DEF InsertByPriority, later
<1> HIDE DEF n
<1>4. r \in Seq(Thread) /\ Len(r) = Len(q) + 1 /\ PutIn(q, r, n, td)
  BY <1>2, InsertAtPutsIn
<1> HIDE DEF r
<1> QED
  BY <1>2, <1>3, <1>4, PutInJoins

\* A thread whose priority changed stays in its queue, and so do the others.
LEMMA AdjustReorders ==
  ASSUME NEW q \in Seq(Thread), NEW td \in Thread, NEW pri \in [Thread -> Priority],
         Injective(q), td \in ToSet(q)
  PROVE  LET r == turnstile_adjust_thread(q, td, pri)
         IN  /\ r \in Seq(Thread) /\ Len(r) = Len(q)
             /\ ToSet(r) = ToSet(q) /\ Injective(r)
<1> DEFINE i == CHOOSE j \in DOMAIN q : q[j] = td
           s == RemoveAt(q, i)
           r == InsertByPriority(s, td, pri)
<1>1. i \in 1..Len(q) /\ q[i] = td /\ Len(q) \in Nat
  BY SetOfSeq
<1>2. turnstile_adjust_thread(q, td, pri) \in {q, r}
  BY DEF turnstile_adjust_thread
<1> HIDE DEF i
<1>3. s \in Seq(Thread) /\ Len(s) = Len(q) - 1 /\ TakenOut(q, s, i)
  BY <1>1, RemoveAtTakesOut
<1> HIDE DEF s
<1>4. ToSet(s) = ToSet(q) \ {td} /\ Injective(s)
  BY <1>1, <1>3, TakenOutLeaves
<1>5. /\ r \in Seq(Thread) /\ Len(r) = Len(s) + 1
      /\ ToSet(r) = ToSet(s) \cup {td} /\ Injective(r)
  BY <1>3, <1>4, InsertJoins
<1> HIDE DEF r
<1>6. Len(r) = Len(q) /\ ToSet(r) = ToSet(q)
  BY <1>1, <1>3, <1>4, <1>5
<1> QED
  BY <1>2, <1>5, <1>6

-----------------------------------------------------------------------------
\* The queue that mutexes use.
EX == TS_EXCLUSIVE_QUEUE

\* No thread is twice in a queue.
QueuesInjective ==
  \A x \in Turnstiles, q \in Queue : Injective(ts_blocked[x][q])

\* A step that moves threads within their queues.
Reordered ==
  /\ ts_blocked' \in [Turnstiles -> [Queue -> Seq(Thread)]]
  /\ \A x \in Turnstiles, q \in Queue :
       /\ Len(ts_blocked'[x][q]) = Len(ts_blocked[x][q])
       /\ ToSet(ts_blocked'[x][q]) = ToSet(ts_blocked[x][q])
       /\ Injective(ts_blocked'[x][q])

\* A step that leaves the queues alone moves nobody.
LEMMA SameQueues ==
  ASSUME TurnstileTypeOK, QueuesInjective, UNCHANGED ts_blocked
  PROVE  Reordered
BY DEF TurnstileTypeOK, QueuesInjective, Reordered

\* turnstile_adjust() moves a thread within the queues of its turnstile.
LEMMA ResortedReorders ==
  ASSUME TurnstileTypeOK, QueuesInjective, NEW td \in Thread,
         NEW pri \in [Thread -> Priority], ts_blocked' = Resorted(td, pri)
  PROVE  Reordered
<1> DEFINE Moved(q) == IF td \in ToSet(q) THEN turnstile_adjust_thread(q, td, pri) ELSE q
<1>0. ts_blocked \in [Turnstiles -> [Queue -> Seq(Thread)]]
  BY DEF TurnstileTypeOK
<1>1. ts_blocked' = [ts_blocked EXCEPT ![td_blocked[td]] = [q \in Queue |-> Moved(@[q])]]
  BY DEF Resorted
<1>2. ASSUME NEW q \in Seq(Thread), Injective(q)
      PROVE  /\ Moved(q) \in Seq(Thread) /\ Len(Moved(q)) = Len(q)
             /\ ToSet(Moved(q)) = ToSet(q) /\ Injective(Moved(q))
  BY <1>2, AdjustReorders
<1> HIDE DEF Moved
<1>3. ASSUME NEW x \in Turnstiles, NEW q \in Queue
      PROVE  ts_blocked'[x][q] \in {ts_blocked[x][q], Moved(ts_blocked[x][q])}
  BY <1>0, <1>1
<1>4. ASSUME NEW x \in Turnstiles, NEW q \in Queue
      PROVE  /\ ts_blocked'[x][q] \in Seq(Thread)
             /\ Len(ts_blocked'[x][q]) = Len(ts_blocked[x][q])
             /\ ToSet(ts_blocked'[x][q]) = ToSet(ts_blocked[x][q])
             /\ Injective(ts_blocked'[x][q])
  <2>1. ts_blocked[x][q] \in Seq(Thread) /\ Injective(ts_blocked[x][q])
    BY <1>0 DEF QueuesInjective
  <2> QED
    BY <2>1, <1>2, <1>3
<1>5. ts_blocked' \in [Turnstiles -> [Queue -> Seq(Thread)]]
  <2>1. ts_blocked' = [x \in Turnstiles |-> [q \in Queue |-> ts_blocked'[x][q]]]
    <3>1. ASSUME NEW x \in Turnstiles
          PROVE  ts_blocked'[x] = [q \in Queue |-> ts_blocked'[x][q]]
      BY <1>0, <1>1
    <3>2. ts_blocked' = [x \in Turnstiles |-> ts_blocked'[x]]
      BY <1>0, <1>1
    <3> QED
      BY <3>1, <3>2
  <2> QED
    BY <2>1, <1>4
<1> QED
  BY <1>4, <1>5 DEF Reordered

\* Every thread that is blocked is blocked on a turnstile.
BlockedOnOne == \A u \in Thread : TD_ON_LOCK(u) => td_blocked[u] \in Turnstiles

\* One iteration of propagate_priority() keeps the types and the queues.
LEMMA PropagateEffect ==
  ASSUME TurnstileTypeOK, QueuesInjective, BlockedOnOne, NEW t \in Thread,
         propagate_priority(t)
  PROVE  TurnstileTypeOK' /\ Reordered
<1> DEFINE P == [orig : Turnstiles, cur : Turnstiles, pri : Priority]
<1>0. /\ prop[t] \in P /\ prop[t].orig \in Turnstiles /\ prop[t].cur \in Turnstiles
      /\ prop[t].pri \in Priority
  BY DEF TurnstileTypeOK, propagate_priority
<1>a. /\ ts_lock \in [Turnstiles -> Thread \cup {NULL}]
      /\ prop \in [Thread -> P \cup {NULL}]
      /\ td_priority \in [Thread -> Priority]
      /\ td_borrowing \in [Thread -> BOOLEAN]
      /\ ts_owner \in [Turnstiles -> Thread \cup {NULL}]
  BY DEF TurnstileTypeOK
<1>b. ASSUME PropagateEnd(t)
      PROVE  /\ ts_lock' \in [Turnstiles -> Thread \cup {NULL}]
             /\ prop' \in [Thread -> P \cup {NULL}]
  BY <1>b, <1>a, <1>0 DEF PropagateEnd
<1>1. ASSUME PropagateStop(t)
      PROVE  /\ ts_lock' \in [Turnstiles -> Thread \cup {NULL}]
             /\ prop' \in [Thread -> P \cup {NULL}]
             /\ td_priority' \in [Thread -> Priority]
             /\ td_borrowing' \in [Thread -> BOOLEAN]
             /\ Reordered
  <2>1. PropagateEnd(t) /\ UNCHANGED <<td_priority, td_borrowing, ts_blocked>>
    BY <1>1 DEF PropagateStop
  <2> QED
    BY <2>1, <1>a, <1>b, SameQueues
<1>2. ASSUME PropagateLend(t)
      PROVE  /\ ts_lock' \in [Turnstiles -> Thread \cup {NULL}]
             /\ prop' \in [Thread -> P \cup {NULL}]
             /\ td_priority' \in [Thread -> Priority]
             /\ td_borrowing' \in [Thread -> BOOLEAN]
             /\ Reordered
  <2> DEFINE ts == prop[t].cur
             td == ts_owner[ts]
             pri == [td_priority EXCEPT ![td] = prop[t].pri]
  <2>1. /\ td # NULL
        /\ td_priority' = pri
        /\ td_borrowing' = [td_borrowing EXCEPT ![td] = TRUE]
        /\ IF TD_ON_LOCK(td) /\ td_turnstile[td] = NULL
           THEN /\ ts_blocked' = Resorted(td, pri)
                /\ ts_lock' = [x \in Turnstiles |->
                     IF x \in {td_blocked[td], prop[t].orig} THEN t
                     ELSE IF x = ts THEN NULL ELSE ts_lock[x]]
                /\ prop' = [prop EXCEPT ![t].cur = td_blocked[td]]
           ELSE PropagateEnd(t) /\ UNCHANGED ts_blocked
    BY <1>2 DEF PropagateLend
  <2>2. td \in Thread
    BY <2>1, <1>0, <1>a
  <2> HIDE DEF td
  <2>3. pri \in [Thread -> Priority] /\ td_borrowing' \in [Thread -> BOOLEAN]
    BY <2>1, <2>2, <1>0, <1>a
  <2> HIDE DEF pri
  <2>4. CASE TD_ON_LOCK(td) /\ td_turnstile[td] = NULL
    <3>1. td_blocked[td] \in Turnstiles
      BY <2>2, <2>4 DEF BlockedOnOne
    <3>2. Reordered
      BY <2>1, <2>2, <2>3, <2>4, ResortedReorders
    <3>3. ts_lock' \in [Turnstiles -> Thread \cup {NULL}]
      BY <2>1, <2>4, <1>a
    <3>4. prop' \in [Thread -> P \cup {NULL}]
      BY <2>1, <2>4, <3>1, <1>0, <1>a
    <3> QED
      BY <2>1, <2>3, <3>2, <3>3, <3>4
  <2>5. CASE ~(TD_ON_LOCK(td) /\ td_turnstile[td] = NULL)
    BY <2>1, <2>3, <2>5, <1>b, SameQueues
  <2> QED
    BY <2>4, <2>5
<1>3. /\ PropagateStop(t) \/ PropagateLend(t)
      /\ UNCHANGED <<chainVars, ts_lockobj, ts_owner, ts_pending, ts_free,
                     td_turnstile, td_blocked, td_state, td_base_pri>>
  BY DEF propagate_priority
<1>4. /\ ts_lock' \in [Turnstiles -> Thread \cup {NULL}]
      /\ prop' \in [Thread -> P \cup {NULL}]
      /\ td_priority' \in [Thread -> Priority]
      /\ td_borrowing' \in [Thread -> BOOLEAN]
      /\ Reordered
  BY <1>1, <1>2, <1>3
<1> QED
  BY <1>3, <1>4 DEF TurnstileTypeOK, Reordered, chainVars

\* sched_prio() keeps the types and the queues.
LEMMA SchedPrioEffect ==
  ASSUME TurnstileTypeOK, QueuesInjective, BlockedOnOne, NEW u \in Thread,
         NEW td \in Thread, NEW prio \in Priority, sched_prio(u, td, prio)
  PROVE  TurnstileTypeOK' /\ Reordered
<1> DEFINE P == [orig : Turnstiles, cur : Turnstiles, pri : Priority]
           pri == [td_priority EXCEPT ![td] = prio]
           ts == td_blocked[td]
<1>0. /\ ts_lock \in [Turnstiles -> Thread \cup {NULL}]
      /\ prop \in [Thread -> P \cup {NULL}]
      /\ td_priority \in [Thread -> Priority]
      /\ td_base_pri \in [Thread -> Priority]
  BY DEF TurnstileTypeOK
<1>1. pri \in [Thread -> Priority]
  BY <1>0
<1>2. /\ td_base_pri' = [td_base_pri EXCEPT ![td] = prio]
      /\ td_priority' \in {td_priority, pri}
      /\ \/ /\ TD_ON_LOCK(td)
            /\ ts_blocked' = Resorted(td, pri)
            /\ \/ /\ prop' = [prop EXCEPT ![u] =
                                [orig |-> ts, cur |-> ts, pri |-> prio]]
                  /\ ts_lock' = [ts_lock EXCEPT ![ts] = u]
               \/ UNCHANGED <<prop, ts_lock>>
         \/ UNCHANGED <<ts_blocked, prop, ts_lock>>
      /\ UNCHANGED <<chainVars, ts_lockobj, ts_owner, ts_pending, ts_free,
                     td_turnstile, td_blocked, td_state, td_borrowing>>
  BY DEF sched_prio
<1> HIDE DEF pri
<1>3. Reordered
  <2>1. CASE ts_blocked' = Resorted(td, pri)
    BY <1>1, <2>1, ResortedReorders
  <2>2. CASE UNCHANGED ts_blocked
    BY <2>2, SameQueues
  <2> QED
    BY <1>2, <2>1, <2>2
<1>4. TD_ON_LOCK(td) => ts \in Turnstiles
  BY DEF BlockedOnOne
<1>5. prop' \in [Thread -> P \cup {NULL}]
  BY <1>0, <1>2, <1>4
<1>6. ts_lock' \in [Turnstiles -> Thread \cup {NULL}]
  BY <1>0, <1>2, <1>4
<1>7. /\ td_priority' \in [Thread -> Priority]
      /\ td_base_pri' \in [Thread -> Priority]
  BY <1>0, <1>1, <1>2
<1> QED
  BY <1>2, <1>3, <1>5, <1>6, <1>7 DEF TurnstileTypeOK, Reordered, chainVars

-----------------------------------------------------------------------------
\* What turnstile_broadcast() does to a turnstile that has one waiter more than
\* turnstiles on its free list: the waiters become pending, each but the last is
\* given the turnstile of its number, and the last takes ts off the chain.
HandsBack(l, ts) ==
  LET q == ts_blocked[ts][EX]
  IN  /\ ts_pending' = [ts_pending EXCEPT ![ts] = q]
      /\ ts_blocked' = [ts_blocked EXCEPT ![ts][EX] = <<>>]
      /\ ts_free' = [ts_free EXCEPT ![ts] = <<>>]
      /\ tc_turnstiles' = [tc_turnstiles EXCEPT ![TC_HASH[l]] = @ \ {ts}]
      /\ td_turnstile' \in [Thread -> Turnstiles \cup {NULL}]
      /\ \A i \in 1..Len(q) :
           td_turnstile'[q[i]] = IF i <= Len(ts_free[ts]) THEN ts_free[ts][i] ELSE ts
      /\ \A u \in Thread \ ToSet(q) : td_turnstile'[u] = td_turnstile[u]

\* turnstile_broadcast() hands every waiter a turnstile of its own.
LEMMA BroadcastEffect ==
  ASSUME TurnstileTypeOK, NEW l, NEW ts \in Turnstiles,
         turnstile_broadcast(l, ts, EX), ts_pending[ts] = <<>>,
         Injective(ts_blocked[ts][EX]),
         Len(ts_blocked[ts][EX]) = Len(ts_free[ts]) + 1
  PROVE  HandsBack(l, ts)
<1> DEFINE q == ts_blocked[ts][EX]
           free == ts_free[ts]
           pend == ts_pending[ts] \o q
           Place(td) == CHOOSE j \in DOMAIN pend : pend[j] = td
<1>0. q \in Seq(Thread) /\ free \in Seq(Turnstiles) /\ Len(free) \in Nat
  BY LenProperties DEF TurnstileTypeOK, Queue, EX
<1>1. pend = q
  BY <1>0, ConcatEmptySeq
<1>2. /\ ts_pending' = [ts_pending EXCEPT ![ts] = pend]
      /\ ts_blocked' = [ts_blocked EXCEPT ![ts][EX] = <<>>]
      /\ ts_free' = [ts_free EXCEPT ![ts] = SubSeq(free, Len(pend) + 1, Len(free))]
      /\ td_turnstile' = [td \in Thread |->
                            IF td \in ToSet(pend) THEN Given(free, Place(td), ts)
                            ELSE td_turnstile[td]]
      /\ tc_turnstiles' = [tc_turnstiles EXCEPT ![TC_HASH[l]] =
                             IF Len(pend) > Len(free) THEN @ \ {ts} ELSE @]
  BY DEF turnstile_broadcast
<1> HIDE DEF pend
<1>3. SubSeq(free, Len(pend) + 1, Len(free)) = <<>>
  <2>1. Len(pend) + 1 \in Int /\ Len(free) \in Int /\ Len(free) < Len(pend) + 1
    BY <1>0, <1>1
  <2> HIDE DEF free
  <2> QED
    BY <2>1, SubSeqEmpty
<1>4. Len(pend) > Len(free)
  BY <1>0, <1>1
<1>5. DOMAIN q = 1..Len(q) /\ \A i \in 1..Len(q) : q[i] \in Thread /\ q[i] \in ToSet(q)
  BY <1>0, LenProperties, ElementOfSeq DEF ToSet
<1>6. ASSUME NEW i \in 1..Len(q) PROVE Place(q[i]) = i
  BY <1>1, <1>5 DEF Injective
<1> HIDE DEF Place
<1>7. ASSUME NEW i \in 1..Len(q)
      PROVE  td_turnstile'[q[i]] = IF i <= Len(free) THEN free[i] ELSE ts
  BY <1>1, <1>2, <1>5, <1>6 DEF Given
<1>8. \A u \in Thread \ ToSet(q) : td_turnstile'[u] = td_turnstile[u]
  BY <1>1, <1>2
<1>9. ASSUME NEW u \in Thread PROVE td_turnstile'[u] \in Turnstiles \cup {NULL}
  <2>1. CASE u \in ToSet(q)
    <3>1. PICK i \in 1..Len(q) : q[i] = u
      BY <2>1, <1>5 DEF ToSet
    <3>2. i <= Len(free) => free[i] \in Turnstiles
      BY <1>0, ElementOfSeq
    <3> QED
      BY <3>1, <3>2, <1>7
  <2>2. CASE u \notin ToSet(q)
    BY <2>2, <1>8 DEF TurnstileTypeOK
  <2> QED
    BY <2>1, <2>2
<1>10. td_turnstile' \in [Thread -> Turnstiles \cup {NULL}]
  BY <1>2, <1>9
<1> QED
  BY <1>1, <1>2, <1>3, <1>4, <1>7, <1>8, <1>10 DEF HandsBack

\* turnstile_broadcast() gives every waiter one turnstile, no two of them the
\* same, and gives out all turnstiles of the free list and ts itself.
LEMMA EachIsGivenOne ==
  ASSUME TurnstileTypeOK, NEW l, NEW ts \in Turnstiles, HandsBack(l, ts),
         Injective(ts_free[ts]), ts \notin ToSet(ts_free[ts]),
         Len(ts_blocked[ts][EX]) = Len(ts_free[ts]) + 1
  PROVE  LET all == ToSet(ts_free[ts]) \cup {ts}
             woken == ToSet(ts_blocked[ts][EX])
         IN  /\ \A u \in woken : u \in Thread /\ td_turnstile'[u] \in all
             /\ \A u, w \in woken : td_turnstile'[u] = td_turnstile'[w] => u = w
             /\ \A x \in all : \E u \in woken : td_turnstile'[u] = x
<1> DEFINE q == ts_blocked[ts][EX]
           f == ts_free[ts]
<1>1. q \in Seq(Thread) /\ f \in Seq(Thread)
  BY DEF TurnstileTypeOK, Queue, EX, Turnstiles
<1>2. \A i \in 1..Len(q) : td_turnstile'[q[i]] = IF i <= Len(f) THEN f[i] ELSE ts
  BY DEF HandsBack
<1>3. Len(q) = Len(f) + 1 /\ Injective(f) /\ ts \notin ToSet(f)
  OBVIOUS
<1> HIDE DEF q, f
<1>4. /\ Len(f) \in Nat /\ DOMAIN f = 1..Len(f)
      /\ \A i \in 1..Len(f) : f[i] \in Thread /\ f[i] \in ToSet(f)
      /\ \A x \in ToSet(f) : x \in Thread /\ \E i \in 1..Len(f) : f[i] = x
  BY <1>1, SetOfSeq, Zenon
<1>5. /\ Len(q) \in Nat /\ DOMAIN q = 1..Len(q)
      /\ \A i \in 1..Len(q) : q[i] \in Thread /\ q[i] \in ToSet(q)
      /\ \A u \in ToSet(q) : u \in Thread /\ \E i \in 1..Len(q) : q[i] = u
  BY <1>1, SetOfSeq, Zenon
<1>6. \A i \in 1..Len(q) :
        \/ i \in 1..Len(f) /\ td_turnstile'[q[i]] = f[i]
        \/ i = Len(q) /\ td_turnstile'[q[i]] = ts
  BY <1>2, <1>3, <1>4, <1>5
<1>7. ASSUME NEW u \in ToSet(q)
      PROVE  u \in Thread /\ td_turnstile'[u] \in ToSet(f) \cup {ts}
  <2>1. u \in Thread /\ \E i \in 1..Len(q) : q[i] = u
    BY <1>5
  <2>2. PICK i \in 1..Len(q) : q[i] = u
    BY <2>1
  <2>3. CASE i \in 1..Len(f) /\ td_turnstile'[q[i]] = f[i]
    <3>1. f[i] \in ToSet(f)
      BY <1>4, <2>3
    <3> QED
      BY <2>1, <2>2, <2>3, <3>1
  <2>4. CASE i = Len(q) /\ td_turnstile'[q[i]] = ts
    BY <2>1, <2>2, <2>4
  <2> QED
    BY <1>6, <2>2, <2>3, <2>4
<1>8. ASSUME NEW u \in ToSet(q), NEW w \in ToSet(q), td_turnstile'[u] = td_turnstile'[w]
      PROVE  u = w
  <2>1. PICK i \in 1..Len(q) : q[i] = u
    BY <1>5
  <2>2. PICK j \in 1..Len(q) : q[j] = w
    BY <1>5
  <2>3. i = j
    <3>1. CASE i \in 1..Len(f) /\ td_turnstile'[u] = f[i]
      <4>1. td_turnstile'[w] # ts
        BY <3>1, <1>3, <1>4, <1>8
      <4>2. j \in 1..Len(f) /\ td_turnstile'[w] = f[j]
        BY <4>1, <2>2, <1>6
      <4> QED
        BY <3>1, <4>2, <1>3, <1>4, <1>8 DEF Injective
    <3>2. CASE i = Len(q) /\ td_turnstile'[u] = ts
      <4>1. \A k \in 1..Len(f) : td_turnstile'[w] # f[k]
        BY <3>2, <1>3, <1>4, <1>8
      <4>2. j = Len(q)
        BY <4>1, <2>2, <1>6
      <4> QED
        BY <3>2, <4>2
    <3> QED
      BY <2>1, <3>1, <3>2, <1>6
  <2> QED
    BY <2>1, <2>2, <2>3
<1>9. ASSUME NEW x \in ToSet(f) \cup {ts}
      PROVE  \E u \in ToSet(q) : td_turnstile'[u] = x
  <2>1. CASE x \in ToSet(f)
    <3>1. PICK i \in 1..Len(f) : f[i] = x
      BY <2>1, <1>4
    <3>2. i \in 1..Len(q) /\ td_turnstile'[q[i]] = x
      BY <3>1, <1>2, <1>3, <1>4
    <3> QED
      BY <3>2, <1>5
  <2>2. CASE x = ts
    <3>1. Len(q) \in 1..Len(q) /\ td_turnstile'[q[Len(q)]] = ts
      BY <1>2, <1>3, <1>4
    <3> QED
      BY <2>2, <3>1, <1>5
  <2> QED
    BY <2>1, <2>2
<1> QED
  BY <1>7, <1>8, <1>9 DEF q, f

\* The first waiter of a turnstile that has one is a thread.
LEMMA FirstWaiterIsThread ==
  ASSUME TurnstileTypeOK, NEW ts \in Turnstiles, ts_blocked[ts][EX] # <<>>
  PROVE  turnstile_first_waiter(ts) \in Thread
<1> DEFINE std == ts_blocked[ts][TS_SHARED_QUEUE]
           xtd == ts_blocked[ts][TS_EXCLUSIVE_QUEUE]
<1>1. std \in Seq(Thread) /\ xtd \in Seq(Thread) /\ xtd # <<>>
  BY DEF TurnstileTypeOK, Queue, EX
<1>2. xtd[1] \in Thread /\ (std # <<>> => std[1] \in Thread)
  BY <1>1, EmptySeq, LenProperties, ElementOfSeq
<1>3. /\ turnstile_first_waiter(ts) \in {xtd[1], std[1]}
      /\ (turnstile_first_waiter(ts) = std[1] => std # <<>> \/ std[1] = xtd[1])
  BY <1>1 DEF turnstile_first_waiter
<1> QED
  BY <1>2, <1>3

\* The priority t keeps when it disowns ts, when every other turnstile that it
\* owns has waiters.
LEMMA UnlendEffect ==
  ASSUME TurnstileTypeOK, NEW t \in Thread, NEW S \in SUBSET Thread,
         sched_unlend_prio(t, Min({PRI_MAX} \cup {td_priority[w] : w \in S}))
  PROVE  /\ td_priority' \in [Thread -> Priority]
         /\ td_borrowing' \in [Thread -> BOOLEAN]
<1> DEFINE M == {PRI_MAX} \cup {td_priority[w] : w \in S}
<1>0. /\ td_priority \in [Thread -> Priority]
      /\ td_base_pri \in [Thread -> Priority]
      /\ td_borrowing \in [Thread -> BOOLEAN]
  BY DEF TurnstileTypeOK
<1>1. M \subseteq Priority /\ M # {} /\ Priority \subseteq Nat
  BY <1>0, TurnstileAssumption DEF Priority
<1> HIDE DEF M
<1>2. Min(M) \in Priority
  BY <1>1, MinExists
<1> DEFINE p == Min(M)
<1>3. sched_unlend_prio(t, p)
  BY DEF M
<1> HIDE DEF p
<1>4. {p, td_base_pri[t]} \subseteq Priority
  BY <1>0, <1>2 DEF p
<1>5. Min({p, td_base_pri[t]}) \in {p, td_base_pri[t]}
  BY <1>1, <1>4, MinExists
<1> DEFINE m == Min({p, td_base_pri[t]})
<1>6. /\ td_priority' = [td_priority EXCEPT ![t] = m]
      /\ td_borrowing' = [td_borrowing EXCEPT ![t] = p < td_base_pri[t]]
  BY <1>3 DEF sched_unlend_prio
<1> HIDE DEF m
<1>7. m \in Priority
  BY <1>4, <1>5 DEF m
<1>8. (p < td_base_pri[t]) \in BOOLEAN
  OBVIOUS
<1> QED
  BY <1>0, <1>6, <1>7, <1>8
=============================================================================
