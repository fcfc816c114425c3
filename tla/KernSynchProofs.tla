--------------------------- MODULE KernSynchProofs ---------------------------
(***************************************************************************)
(* Proofs about modules SleepQueue and KernSynch, for any number of        *)
(* threads, wait channels and posts.  The functions of the sleep queues    *)
(* are taken first: what each does to the queues, and to the thread it is  *)
(* about.                                                                  *)
(***************************************************************************)
EXTENDS KernSynch, SequenceLemmas

\* SleepQueueConservation, of a state of the sleep queues; and a channel without a
\* queue has none on its free list.
Conserved(s) ==
  /\ \A w \in Wchan :
       /\ w \in s.attached <=> s.blocked[w] # <<>>
       /\ s.free[w] = IF w \in s.attached THEN Len(s.blocked[w]) - 1 ELSE 0
       /\ Injective(s.blocked[w])
  /\ \A t \in Thread :
       /\ s.td[t].sq <=> s.td[t].wchan = NULL
       /\ \A w \in Wchan : s.td[t].wchan = w <=> t \in ToSet(s.blocked[w])

\* A state of the right types in which no queue is lost.
Sound(s) == s \in SleepQueueState /\ Conserved(s)

\* r is a sound state that differs from s in thread t, which is d in it, and in
\* the queues.
Changes(s, r, t, d) == Sound(r) /\ d \in ThreadState /\ r.td = [s.td EXCEPT ![t] = d]

\* Thread d with other flags, callout and state.
Upd(d, flags, callout, sleeping) ==
  [d EXCEPT !.flags = flags, !.callout = callout, !.sleeping = sleeping]

\* What the fields of a state and of a thread are.
LEMMA StateFields ==
  ASSUME NEW s \in SleepQueueState
  PROVE  /\ s.blocked \in [Wchan -> Seq(Thread)] /\ s.free \in [Wchan -> Nat]
         /\ s.attached \in SUBSET Wchan /\ s.td \in [Thread -> ThreadState]
         /\ s = [blocked |-> s.blocked, free |-> s.free, attached |-> s.attached,
                 td |-> s.td]
         /\ \A t \in Thread : s.td[t] \in ThreadState
BY DEF SleepQueueState

LEMMA ThreadFields ==
  ASSUME NEW d \in ThreadState
  PROVE  /\ d.sq \in BOOLEAN /\ d.wchan \in Wchan \cup {NULL} /\ d.flags \in SUBSET Flag
         /\ d.sleeping \in BOOLEAN /\ d.callout \in {"idle", "pending", "running"}
BY DEF ThreadState

LEMMA UpdFields ==
  ASSUME NEW d \in ThreadState, NEW flags \in SUBSET Flag, NEW sleeping \in BOOLEAN,
         NEW callout \in {"idle", "pending", "running"}
  PROVE  LET e == Upd(d, flags, callout, sleeping)
         IN  /\ e \in ThreadState
             /\ e.sq = d.sq /\ e.wchan = d.wchan
             /\ e.flags = flags /\ e.callout = callout /\ e.sleeping = sleeping
BY DEF ThreadState, Upd

\* A thread that is made runnable.
LEMMA AwakeFields ==
  ASSUME NEW d \in ThreadState
  PROVE  /\ Awake(d) \in ThreadState
         /\ Awake(d).sq = TRUE /\ Awake(d).wchan = NULL /\ Awake(d).sleeping = FALSE
         /\ Awake(d).flags = d.flags \ {SINTR} /\ Awake(d).callout = d.callout
BY DEF ThreadState, Awake

-----------------------------------------------------------------------------
\* A change of flags, callout and state leaves the queues alone.
LEMMA LocalChange ==
  ASSUME NEW s, Sound(s), NEW t \in Thread, NEW d \in ThreadState,
         d.sq = s.td[t].sq, d.wchan = s.td[t].wchan
  PROVE  LET r == [s EXCEPT !.td = [s.td EXCEPT ![t] = d]]
         IN  Changes(s, r, t, d) /\ r.blocked = s.blocked
<1> DEFINE r == [s EXCEPT !.td = [s.td EXCEPT ![t] = d]]
<1>1. s \in SleepQueueState /\ s.td \in [Thread -> ThreadState]
  BY StateFields DEF Sound
<1>2. /\ r \in SleepQueueState /\ r.blocked = s.blocked /\ r.free = s.free
      /\ r.attached = s.attached /\ r.td = [s.td EXCEPT ![t] = d]
  BY <1>1 DEF SleepQueueState
<1> HIDE DEF r
<1>3. \A u \in Thread : r.td[u].sq = s.td[u].sq /\ r.td[u].wchan = s.td[u].wchan
  BY <1>1, <1>2
<1>4. Conserved(r)
  BY <1>2, <1>3 DEF Conserved, Sound
<1> QED
  BY <1>2, <1>4 DEF Changes, Sound, r

\* The operators that change flags, callout and state.
LEMMA LocalForms ==
  ASSUME NEW s \in SleepQueueState, NEW t \in Thread, NEW f
  PROVE  LET d == s.td[t]
             Put(e) == [s EXCEPT !.td = [s.td EXCEPT ![t] = e]]
         IN  /\ SetFlags(s, t, f) = Put(Upd(d, d.flags \cup f, d.callout, d.sleeping))
             /\ ClearFlags(s, t, f) = Put(Upd(d, d.flags \ f, d.callout, d.sleeping))
             /\ \A b : [s EXCEPT !.td[t].sleeping = b] = Put(Upd(d, d.flags, d.callout, b))
             /\ \A x : [s EXCEPT !.td[t].callout = x] = Put(Upd(d, d.flags, x, d.sleeping))
<1>1. s.td[t] \in ThreadState
  BY StateFields
<1>2. \A d \in ThreadState : \A x : [d EXCEPT !.flags = x] = Upd(d, x, d.callout, d.sleeping)
  BY DEF ThreadState, Upd
<1>3. \A d \in ThreadState : \A x : [d EXCEPT !.sleeping = x] = Upd(d, d.flags, d.callout, x)
  BY DEF ThreadState, Upd
<1>4. \A d \in ThreadState : \A x : [d EXCEPT !.callout = x] = Upd(d, d.flags, x, d.sleeping)
  BY DEF ThreadState, Upd
<1> QED
  BY <1>1, <1>2, <1>3, <1>4 DEF SetFlags, ClearFlags

\* Each of them is such a change.
LEMMA LocalSteps ==
  ASSUME NEW s, Sound(s), NEW t \in Thread
  PROVE  LET d == s.td[t]
         IN  /\ \A f \in SUBSET Flag :
                  /\ Changes(s, SetFlags(s, t, f), t, Upd(d, d.flags \cup f, d.callout, d.sleeping))
                  /\ Changes(s, ClearFlags(s, t, f), t, Upd(d, d.flags \ f, d.callout, d.sleeping))
             /\ \A b \in BOOLEAN : Changes(s, [s EXCEPT !.td[t].sleeping = b], t,
                                           Upd(d, d.flags, d.callout, b))
             /\ \A x \in {"idle", "pending", "running"} :
                  Changes(s, [s EXCEPT !.td[t].callout = x], t, Upd(d, d.flags, x, d.sleeping))
<1> DEFINE d == s.td[t]
           Put(e) == [s EXCEPT !.td = [s.td EXCEPT ![t] = e]]
<1>1. s \in SleepQueueState /\ d \in ThreadState
  BY StateFields DEF Sound
<1>2. d.flags \in SUBSET Flag /\ d.sleeping \in BOOLEAN /\ d.callout \in {"idle", "pending", "running"}
  BY <1>1, ThreadFields
<1>3. ASSUME NEW flags \in SUBSET Flag, NEW b \in BOOLEAN, NEW x \in {"idle", "pending", "running"}
      PROVE  Changes(s, Put(Upd(d, flags, x, b)), t, Upd(d, flags, x, b))
  <2>1. /\ Upd(d, flags, x, b) \in ThreadState
        /\ Upd(d, flags, x, b).sq = d.sq /\ Upd(d, flags, x, b).wchan = d.wchan
    BY <1>1, UpdFields
  <2> HIDE DEF d
  <2> QED
    BY <2>1, LocalChange DEF d
<1>4. \A f :
        /\ SetFlags(s, t, f) = Put(Upd(d, d.flags \cup f, d.callout, d.sleeping))
        /\ ClearFlags(s, t, f) = Put(Upd(d, d.flags \ f, d.callout, d.sleeping))
        /\ \A b : [s EXCEPT !.td[t].sleeping = b] = Put(Upd(d, d.flags, d.callout, b))
        /\ \A x : [s EXCEPT !.td[t].callout = x] = Put(Upd(d, d.flags, x, d.sleeping))
  BY <1>1, LocalForms
<1> HIDE DEF Put, d
<1>5. \A f \in SUBSET Flag : d.flags \cup f \in SUBSET Flag /\ d.flags \ f \in SUBSET Flag
  BY <1>2
<1>6. ASSUME NEW f \in SUBSET Flag
      PROVE  /\ Changes(s, SetFlags(s, t, f), t, Upd(d, d.flags \cup f, d.callout, d.sleeping))
             /\ Changes(s, ClearFlags(s, t, f), t, Upd(d, d.flags \ f, d.callout, d.sleeping))
  BY <1>2, <1>3, <1>4, <1>5
<1>7. ASSUME NEW b \in BOOLEAN
      PROVE  Changes(s, [s EXCEPT !.td[t].sleeping = b], t, Upd(d, d.flags, d.callout, b))
  <2>1. [s EXCEPT !.td[t].sleeping = b] = Put(Upd(d, d.flags, d.callout, b))
    BY <1>4, Zenon
  <2> QED
    BY <1>2, <1>3, <2>1, ZenonT(60)
<1>8. ASSUME NEW x \in {"idle", "pending", "running"}
      PROVE  Changes(s, [s EXCEPT !.td[t].callout = x], t, Upd(d, d.flags, x, d.sleeping))
  <2>1. [s EXCEPT !.td[t].callout = x] = Put(Upd(d, d.flags, x, d.sleeping))
    BY <1>4, Zenon
  <2> QED
    BY <1>2, <1>3, <2>1, ZenonT(60)
<1> QED
  BY <1>6, <1>7, <1>8, Zenon DEF d

-----------------------------------------------------------------------------
\* What a sound state says of a thread on a queue.
LEMMA OnQueue ==
  ASSUME NEW s, Sound(s), NEW t \in Thread, s.td[t].wchan # NULL
  PROVE  LET w == s.td[t].wchan
         IN  /\ w \in Wchan /\ t \in ToSet(s.blocked[w]) /\ w \in s.attached
             /\ s.free[w] = Len(s.blocked[w]) - 1 /\ Injective(s.blocked[w])
             /\ s.blocked[w] \in Seq(Thread)
<1> DEFINE w == s.td[t].wchan
<1>1. s \in SleepQueueState /\ s.td[t] \in ThreadState
  BY StateFields DEF Sound
<1>2. w \in Wchan
  BY <1>1, ThreadFields
<1>3. s.blocked[w] \in Seq(Thread)
  BY <1>1, <1>2, StateFields
<1>4. t \in ToSet(s.blocked[w])
  BY <1>2 DEF Sound, Conserved
<1>5. s.blocked[w] # <<>>
  BY <1>3, <1>4, EmptySeqIs
<1> QED
  BY <1>2, <1>3, <1>4, <1>5 DEF Sound, Conserved

\* Waking a thread: it leaves its queue, with a spare one.
LEMMA ResumeEffect ==
  ASSUME NEW s, Sound(s), NEW t \in Thread, s.td[t].wchan # NULL
  PROVE  Changes(s, sleepq_resume_thread(s, t), t, Awake(s.td[t]))
<1> DEFINE w == s.td[t].wchan
           last == s.free[w] = 0
           b == RemoveFirst(s.blocked[w], t)
           r == sleepq_resume_thread(s, t)
<1>1. s \in SleepQueueState /\ s.td[t] \in ThreadState
  BY StateFields DEF Sound
<1>2. /\ w \in Wchan /\ t \in ToSet(s.blocked[w]) /\ w \in s.attached
      /\ s.free[w] = Len(s.blocked[w]) - 1 /\ Injective(s.blocked[w])
      /\ s.blocked[w] \in Seq(Thread)
  BY OnQueue
<1>3. /\ b \in Seq(Thread) /\ Len(b) = Len(s.blocked[w]) - 1
      /\ ToSet(b) = ToSet(s.blocked[w]) \ {t} /\ Injective(b)
  BY <1>2, RemoveFirstLeaves
<1>4. /\ Awake(s.td[t]) \in ThreadState /\ Awake(s.td[t]).sq = TRUE
      /\ Awake(s.td[t]).wchan = NULL
  BY <1>1, AwakeFields
<1>5. /\ s.free \in [Wchan -> Nat] /\ s.blocked \in [Wchan -> Seq(Thread)]
      /\ s.td \in [Thread -> ThreadState] /\ s.attached \in SUBSET Wchan
  BY <1>1, StateFields
<1>6. /\ r.blocked = [s.blocked EXCEPT ![w] = b]
      /\ r.free = [s.free EXCEPT ![w] = IF last THEN s.free[w] ELSE s.free[w] - 1]
      /\ r.attached = IF last THEN s.attached \ {w} ELSE s.attached
      /\ r.td = [s.td EXCEPT ![t] = Awake(s.td[t])]
      /\ r = [blocked |-> r.blocked, free |-> r.free, attached |-> r.attached, td |-> r.td]
  <2>1. s = [blocked |-> s.blocked, free |-> s.free, attached |-> s.attached, td |-> s.td]
    BY <1>1, StateFields
  <2>2. r = [s EXCEPT !.blocked[w] = b,
                      !.attached = IF last THEN @ \ {w} ELSE @,
                      !.free[w] = IF last THEN @ ELSE @ - 1,
                      !.td[t] = Awake(@)]
    BY DEF sleepq_resume_thread
  <2> HIDE DEF r, b, w, last
  <2> QED
    BY <2>1, <2>2
<1> HIDE DEF r, b, w
<1>7. r.free \in [Wchan -> Nat]
  <2>0. s.free[w] \in Nat /\ \A n \in Nat : n # 0 => n - 1 \in Nat
    BY <1>2, <1>5
  <2>1. s.free[w] \in Nat /\ (s.free[w] # 0 => s.free[w] - 1 \in Nat)
    BY <2>0
  <2> QED
    BY <1>5, <1>6, <2>1
<1>8. r \in SleepQueueState
  <2>1. r.blocked \in [Wchan -> Seq(Thread)] /\ r.td \in [Thread -> ThreadState]
    BY <1>2, <1>3, <1>4, <1>5, <1>6
  <2>2. r.attached \in SUBSET Wchan
    BY <1>5, <1>6
  <2> QED
    BY <1>6, <1>7, <2>1, <2>2 DEF SleepQueueState
<1>9. ASSUME NEW v \in Wchan
      PROVE  /\ v \in r.attached <=> r.blocked[v] # <<>>
             /\ r.free[v] = IF v \in r.attached THEN Len(r.blocked[v]) - 1 ELSE 0
             /\ Injective(r.blocked[v])
  <2>1. CASE v = w
    <3>1. b = <<>> <=> Len(b) = 0
      BY <1>3, EmptySeqIs
    <3>2. Len(s.blocked[w]) \in Nat /\ s.free[w] \in Nat
      BY <1>2, <1>5, LenProperties
    <3>3. r.blocked[v] = b /\ (last <=> Len(b) = 0) /\ (v \in r.attached <=> ~last)
      BY <1>2, <1>3, <1>5, <1>6, <2>1, <3>2
    <3>4. r.free[v] = IF s.free[w] = 0 THEN 0 ELSE s.free[w] - 1
      BY <1>2, <1>5, <1>6, <2>1
    <3>5. s.free[w] = Len(b) /\ (last <=> s.free[w] = 0)
      BY <1>2, <1>3, <3>2
    <3> QED
      BY <1>3, <3>1, <3>3, <3>4, <3>5
  <2>2. CASE v # w
    <3>1. r.blocked[v] = s.blocked[v] /\ r.free[v] = s.free[v] /\ (v \in r.attached <=> v \in s.attached)
      BY <1>5, <1>6, <2>2
    <3> QED
      BY <3>1 DEF Sound, Conserved
  <2> QED
    BY <2>1, <2>2
<1>10. ASSUME NEW u \in Thread
       PROVE  /\ r.td[u].sq <=> r.td[u].wchan = NULL
              /\ \A v \in Wchan : r.td[u].wchan = v <=> u \in ToSet(r.blocked[v])
  <2>1. \A v \in Wchan : ToSet(r.blocked[v]) = ToSet(s.blocked[v]) \ {t}
    <3> SUFFICES ASSUME NEW v \in Wchan PROVE ToSet(r.blocked[v]) = ToSet(s.blocked[v]) \ {t}
      OBVIOUS
    <3>1. CASE v = w
      BY <1>3, <1>5, <1>6, <3>1
    <3>2. CASE v # w
      <4>1. r.blocked[v] = s.blocked[v] /\ t \notin ToSet(s.blocked[v])
        BY <1>5, <1>6, <3>2 DEF Sound, Conserved, w
      <4> QED
        BY <4>1
    <3> QED
      BY <3>1, <3>2
  <2>2. CASE u = t
    <3>1. r.td[u].sq = TRUE /\ r.td[u].wchan = NULL
      BY <1>4, <1>5, <1>6, <2>2
    <3>2. \A v \in Wchan : v # NULL /\ u \notin ToSet(r.blocked[v])
      BY <2>1, <2>2, SleepQueueAssumption
    <3> QED
      BY <3>1, <3>2
  <2>3. CASE u # t
    <3>1. r.td[u] = s.td[u]
      BY <1>5, <1>6, <2>3
    <3> QED
      BY <2>1, <2>3, <3>1 DEF Sound, Conserved
  <2> QED
    BY <2>2, <2>3
<1> QED
  BY <1>4, <1>6, <1>8, <1>9, <1>10 DEF Changes, Sound, Conserved, r

\* A thread that has been put on the queue of channel w.
Added(d, w, catch) ==
  [d EXCEPT !.sq = FALSE, !.wchan = w,
            !.flags = IF catch THEN (@ \cup {SINTR}) \ {SLEEPABORT} ELSE @]

LEMMA AddedFields ==
  ASSUME NEW d \in ThreadState, NEW w \in Wchan, NEW catch \in BOOLEAN
  PROVE  /\ Added(d, w, catch) \in ThreadState
         /\ Added(d, w, catch).sq = FALSE /\ Added(d, w, catch).wchan = w
         /\ Added(d, w, catch).flags =
              IF catch THEN (d.flags \cup {SINTR}) \ {SLEEPABORT} ELSE d.flags
         /\ Added(d, w, catch).callout = d.callout
         /\ Added(d, w, catch).sleeping = d.sleeping
<1>1. SINTR \in Flag /\ SLEEPABORT \in Flag
  BY DEF Flag
<1> QED
  BY <1>1 DEF ThreadState, Added

\* Putting a thread on a queue: its spare queue becomes the channel's, or is lent.
LEMMA AddEffect ==
  ASSUME NEW s, Sound(s), NEW t \in Thread, s.td[t].wchan = NULL, NEW w \in Wchan,
         NEW catch \in BOOLEAN
  PROVE  Changes(s, sleepq_add(s, t, w, catch), t, Added(s.td[t], w, catch))
<1> DEFINE d == s.td[t]
           b == Append(s.blocked[w], t)
           e == [d EXCEPT !.sq = FALSE, !.wchan = w]
           n == IF w \in s.attached THEN s.free[w] + 1 ELSE s.free[w]
           q == [s EXCEPT !.blocked[w] = b, !.free[w] = n,
                          !.attached = @ \cup {w},
                          !.td[t] = [@ EXCEPT !.sq = FALSE, !.wchan = w]]
<1>1. s \in SleepQueueState /\ d \in ThreadState
  BY StateFields DEF Sound
<1>2. /\ s.free \in [Wchan -> Nat] /\ s.blocked \in [Wchan -> Seq(Thread)]
      /\ s.td \in [Thread -> ThreadState] /\ s.attached \in SUBSET Wchan
      /\ s = [blocked |-> s.blocked, free |-> s.free, attached |-> s.attached, td |-> s.td]
  BY <1>1, StateFields
<1>3. \A v \in Wchan : t \notin ToSet(s.blocked[v])
  BY SleepQueueAssumption DEF Sound, Conserved
<1>4. /\ b \in Seq(Thread) /\ Len(b) = Len(s.blocked[w]) + 1
      /\ ToSet(b) = ToSet(s.blocked[w]) \cup {t} /\ b # <<>> /\ Injective(b)
  <2>1. s.blocked[w] \in Seq(Thread) /\ Injective(s.blocked[w])
    BY <1>2 DEF Sound, Conserved
  <2> QED
    BY <1>3, <2>1, AppendJoins
<1>5. /\ e \in ThreadState /\ e.sq = FALSE /\ e.wchan = w
      /\ e.flags = d.flags /\ e.callout = d.callout /\ e.sleeping = d.sleeping
  BY <1>1 DEF ThreadState
<1>6. /\ q.blocked = [s.blocked EXCEPT ![w] = b] /\ q.free = [s.free EXCEPT ![w] = n]
      /\ q.attached = s.attached \cup {w} /\ q.td = [s.td EXCEPT ![t] = e]
      /\ q = [blocked |-> q.blocked, free |-> q.free, attached |-> q.attached, td |-> q.td]
  <2>1. q = [s EXCEPT !.blocked[w] = b, !.free[w] = n, !.attached = @ \cup {w}, !.td[t] = e]
    OBVIOUS
  <2> HIDE DEF b, n, e, q
  <2> QED
    BY <1>2, <2>1
<1>7. sleepq_add(s, t, w, catch) =
        IF catch THEN ClearFlags(SetFlags(q, t, {SINTR}), t, {SLEEPABORT}) ELSE q
  BY DEF sleepq_add
<1> HIDE DEF b, n, q, e, d
<1>8. n \in Nat
  BY <1>2 DEF n
<1>9. q \in SleepQueueState
  <2>1. /\ q.blocked \in [Wchan -> Seq(Thread)] /\ q.td \in [Thread -> ThreadState]
        /\ q.free \in [Wchan -> Nat] /\ q.attached \in SUBSET Wchan
    BY <1>2, <1>4, <1>5, <1>6, <1>8
  <2> QED
    BY <1>6, <2>1 DEF SleepQueueState
<1>10. ASSUME NEW v \in Wchan
       PROVE  /\ v \in q.attached <=> q.blocked[v] # <<>>
              /\ q.free[v] = IF v \in q.attached THEN Len(q.blocked[v]) - 1 ELSE 0
              /\ Injective(q.blocked[v])
  <2>1. CASE v = w
    <3>1. q.blocked[v] = b /\ v \in q.attached /\ q.free[v] = n
      BY <1>2, <1>6, <2>1
    <3>2. n = Len(b) - 1
      <4>1. Len(s.blocked[w]) \in Nat /\ (s.blocked[w] = <<>> <=> Len(s.blocked[w]) = 0)
        BY <1>2, LenProperties, EmptySeqIs
      <4>2. CASE w \in s.attached
        <5>1. s.free[w] = Len(s.blocked[w]) - 1
          BY <4>2 DEF Sound, Conserved
        <5> QED
          BY <1>4, <4>1, <4>2, <5>1 DEF n
      <4>3. CASE w \notin s.attached
        <5>1. s.blocked[w] = <<>> /\ s.free[w] = 0
          BY <4>3 DEF Sound, Conserved
        <5> QED
          BY <1>4, <4>1, <4>3, <5>1 DEF n
      <4> QED
        BY <4>2, <4>3
    <3> QED
      BY <1>4, <3>1, <3>2
  <2>2. CASE v # w
    <3>1. q.blocked[v] = s.blocked[v] /\ q.free[v] = s.free[v] /\ (v \in q.attached <=> v \in s.attached)
      BY <1>2, <1>6, <2>2
    <3> QED
      BY <3>1 DEF Sound, Conserved
  <2> QED
    BY <2>1, <2>2
<1>11. ASSUME NEW u \in Thread
       PROVE  /\ q.td[u].sq <=> q.td[u].wchan = NULL
              /\ \A v \in Wchan : q.td[u].wchan = v <=> u \in ToSet(q.blocked[v])
  <2>1. \A v \in Wchan : ToSet(q.blocked[v]) = IF v = w THEN ToSet(s.blocked[v]) \cup {t} ELSE ToSet(s.blocked[v])
    BY <1>2, <1>4, <1>6
  <2>2. CASE u = t
    <3>1. q.td[u].sq = FALSE /\ q.td[u].wchan = w
      BY <1>2, <1>5, <1>6, <2>2
    <3>2. w # NULL /\ \A v \in Wchan : u \in ToSet(q.blocked[v]) <=> v = w
      BY <1>3, <2>1, <2>2, SleepQueueAssumption
    <3> QED
      BY <3>1, <3>2
  <2>3. CASE u # t
    <3>1. q.td[u] = s.td[u]
      BY <1>2, <1>6, <2>3
    <3>2. \A v \in Wchan : u \in ToSet(q.blocked[v]) <=> u \in ToSet(s.blocked[v])
      BY <2>1, <2>3
    <3> QED
      BY <3>1, <3>2 DEF Sound, Conserved
  <2> QED
    BY <2>2, <2>3
<1>12. Sound(q)
  BY <1>9, <1>10, <1>11 DEF Sound, Conserved
<1>13. q.td[t] = e
  BY <1>2, <1>6
<1>14. CASE ~catch
  <2>1. Added(d, w, catch) = e
    BY <1>14 DEF Added, e
  <2> QED
    BY <1>5, <1>6, <1>7, <1>12, <1>14, <2>1 DEF Changes, d
<1>15. CASE catch
  <2> DEFINE q1 == SetFlags(q, t, {SINTR})
             q2 == ClearFlags(q1, t, {SLEEPABORT})
             e1 == Upd(e, e.flags \cup {SINTR}, e.callout, e.sleeping)
             e2 == Upd(e1, e1.flags \ {SLEEPABORT}, e1.callout, e1.sleeping)
  <2>0. {SINTR} \in SUBSET Flag /\ {SLEEPABORT} \in SUBSET Flag
    BY DEF Flag
  <2>1. Changes(q, q1, t, e1)
    BY <1>12, <1>13, <2>0, LocalSteps
  <2>2. q1.td[t] = e1 /\ Sound(q1) /\ e1 \in ThreadState
    BY <1>2, <1>6, <2>1 DEF Changes
  <2> HIDE DEF q1
  <2>3. Changes(q1, q2, t, e2)
    BY <2>0, <2>2, LocalSteps
  <2>4. q2.td = [s.td EXCEPT ![t] = e2]
    BY <1>2, <1>6, <2>1, <2>3 DEF Changes
  <2>5. Added(d, w, catch) = e2
    <3>1. e1.flags = e.flags \cup {SINTR} /\ e1.callout = e.callout /\ e1.sleeping = e.sleeping
      BY <1>5 DEF ThreadState, Upd
    <3>2. e2 = [e1 EXCEPT !.flags = (d.flags \cup {SINTR}) \ {SLEEPABORT}]
      BY <1>5, <2>2, <3>1 DEF ThreadState, Upd
    <3>3. e1 = [e EXCEPT !.flags = d.flags \cup {SINTR}]
      BY <1>5 DEF ThreadState, Upd
    <3> HIDE DEF e1, e2
    <3> QED
      BY <1>1, <1>5, <1>15, <2>2, <3>2, <3>3 DEF ThreadState, Added, e
  <2> QED
    BY <1>7, <1>15, <2>3, <2>4, <2>5 DEF Changes, d, q1
<1> QED
  BY <1>14, <1>15

\* Waking all: every thread of the channel leaves its queue.
LEMMA BroadcastEffect ==
  ASSUME NEW s, Sound(s), NEW w \in Wchan
  PROVE  LET r == sleepq_broadcast(s, w)
         IN  /\ Sound(r)
             /\ \A u \in Thread : r.td[u] = IF s.td[u].wchan = w THEN Awake(s.td[u]) ELSE s.td[u]
<1> DEFINE r == sleepq_broadcast(s, w)
           td1 == [u \in Thread |-> IF u \in ToSet(s.blocked[w]) THEN Awake(s.td[u]) ELSE s.td[u]]
<1>1. s \in SleepQueueState
  BY DEF Sound
<1>2. /\ s.free \in [Wchan -> Nat] /\ s.blocked \in [Wchan -> Seq(Thread)]
      /\ s.td \in [Thread -> ThreadState] /\ s.attached \in SUBSET Wchan
      /\ s = [blocked |-> s.blocked, free |-> s.free, attached |-> s.attached, td |-> s.td]
  BY <1>1, StateFields
<1>3. \A u \in Thread : s.td[u].wchan = w <=> u \in ToSet(s.blocked[w])
  BY DEF Sound, Conserved
<1>4. CASE w \notin s.attached
  <2>1. r = s /\ s.blocked[w] = <<>>
    BY <1>4 DEF sleepq_broadcast, Sound, Conserved
  <2>2. ToSet(s.blocked[w]) = {}
    BY <1>2, <2>1, EmptySeqIs
  <2>3. \A u \in Thread : s.td[u].wchan # w
    BY <1>3, <2>2
  <2> HIDE DEF r
  <2> QED
    BY <2>1, <2>3 DEF r
<1>5. CASE w \in s.attached
  <2>1. /\ r.blocked = [s.blocked EXCEPT ![w] = <<>>] /\ r.free = [s.free EXCEPT ![w] = 0]
        /\ r.attached = s.attached \ {w} /\ r.td = td1
        /\ r = [blocked |-> r.blocked, free |-> r.free, attached |-> r.attached, td |-> r.td]
    <3>1. r = [s EXCEPT !.blocked[w] = <<>>, !.free[w] = 0, !.attached = @ \ {w}, !.td = td1]
      BY <1>5 DEF sleepq_broadcast
    <3> HIDE DEF r, td1
    <3> QED
      BY <1>2, <3>1
  <2> HIDE DEF r
  <2>2. \A u \in Thread : td1[u] = IF s.td[u].wchan = w THEN Awake(s.td[u]) ELSE s.td[u]
    BY <1>3
  <2>3. td1 \in [Thread -> ThreadState]
    BY <1>2, AwakeFields
  <2> HIDE DEF td1
  <2>4. <<>> \in Seq(Thread) /\ ToSet(<<>>) = {} /\ Injective(<<>>)
    BY <1>2, EmptySeqIs
  <2>5. r \in SleepQueueState
    <3>1. /\ r.blocked \in [Wchan -> Seq(Thread)] /\ r.free \in [Wchan -> Nat]
          /\ r.attached \in SUBSET Wchan /\ r.td \in [Thread -> ThreadState]
      BY <1>2, <2>1, <2>3, <2>4
    <3> QED
      BY <2>1, <3>1 DEF SleepQueueState
  <2>6. ASSUME NEW v \in Wchan
        PROVE  /\ v \in r.attached <=> r.blocked[v] # <<>>
               /\ r.free[v] = IF v \in r.attached THEN Len(r.blocked[v]) - 1 ELSE 0
               /\ Injective(r.blocked[v])
    <3>1. CASE v = w
      BY <1>2, <2>1, <2>4, <3>1
    <3>2. CASE v # w
      <4>1. r.blocked[v] = s.blocked[v] /\ r.free[v] = s.free[v] /\ (v \in r.attached <=> v \in s.attached)
        BY <1>2, <2>1, <3>2
      <4> QED
        BY <4>1 DEF Sound, Conserved
    <3> QED
      BY <3>1, <3>2
  <2>7. ASSUME NEW u \in Thread
        PROVE  /\ r.td[u].sq <=> r.td[u].wchan = NULL
               /\ \A v \in Wchan : r.td[u].wchan = v <=> u \in ToSet(r.blocked[v])
    <3>0. \A v \in Wchan : s.td[u].wchan = v <=> u \in ToSet(s.blocked[v])
      BY DEF Sound, Conserved
    <3>1. \A v \in Wchan : u \in ToSet(r.blocked[v]) <=> v # w /\ u \in ToSet(s.blocked[v])
      BY <1>2, <2>1, <2>4
    <3>2. CASE s.td[u].wchan = w
      <4>1. r.td[u].sq = TRUE /\ r.td[u].wchan = NULL
        <5>1. s.td[u] \in ThreadState /\ r.td[u] = Awake(s.td[u])
          BY <1>2, <2>1, <2>2, <3>2
        <5> QED
          BY <5>1, AwakeFields
      <4> QED
        BY <3>0, <3>1, <3>2, <4>1, SleepQueueAssumption
    <3>3. CASE s.td[u].wchan # w
      <4>1. r.td[u] = s.td[u]
        BY <2>1, <2>2, <3>3
      <4>2. s.td[u].sq <=> s.td[u].wchan = NULL
        BY DEF Sound, Conserved
      <4> QED
        BY <3>0, <3>1, <3>3, <4>1, <4>2
    <3> QED
      BY <3>2, <3>3
  <2>8. Sound(r)
    BY <2>5, <2>6, <2>7 DEF Sound, Conserved
  <2> QED
    BY <2>1, <2>2, <2>8 DEF r
<1> QED
  BY <1>4, <1>5

\* The thread that sleepq_signal() picks is one of the queue.
LEMMA BestIsQueued ==
  ASSUME NEW q \in Seq(Thread), q # <<>>
  PROVE  Best(q) \in ToSet(q)
<1> DEFINE pri == {td_priority[q[i]] : i \in 1..Len(q)}
           I == {i \in DOMAIN q : \A j \in DOMAIN q : td_priority[q[i]] <= td_priority[q[j]]}
<1>1. Len(q) \in Nat /\ Len(q) # 0 /\ DOMAIN q = 1..Len(q) /\ \A i \in 1..Len(q) : q[i] \in Thread /\ q[i] \in ToSet(q)
  BY SetOfSeq, EmptySeqIs
<1>2. pri \in SUBSET Nat /\ pri # {}
  BY <1>1, SleepQueueAssumption
<1>3. Min(pri) \in pri /\ \A y \in pri : Min(pri) <= y
  <2> HIDE DEF pri
  <2> QED
    BY <1>2, MinExists
<1>4. PICK i \in 1..Len(q) : td_priority[q[i]] = Min(pri)
  BY <1>3
<1>5. i \in I
  BY <1>1, <1>3, <1>4
<1>6. I \in SUBSET Nat /\ I # {}
  BY <1>1, <1>5
<1>7. Min(I) \in I
  <2> HIDE DEF I
  <2> QED
    BY <1>6, MinExists
<1> QED
  BY <1>1, <1>7 DEF Best

\* Waking one: a thread of the channel leaves its queue, if there is one.
LEMMA SignalEffect ==
  ASSUME NEW s, Sound(s), NEW w \in Wchan
  PROVE  LET r == sleepq_signal(s, w)
         IN  \/ r = s /\ \A u \in Thread : s.td[u].wchan # w
             \/ \E u \in Thread : s.td[u].wchan = w /\ Changes(s, r, u, Awake(s.td[u]))
<1>1. s.blocked[w] \in Seq(Thread)
  BY StateFields DEF Sound
<1>2. \A u \in Thread : s.td[u].wchan = w <=> u \in ToSet(s.blocked[w])
  BY DEF Sound, Conserved
<1>3. CASE w \notin s.attached
  <2>1. sleepq_signal(s, w) = s /\ s.blocked[w] = <<>>
    BY <1>3 DEF sleepq_signal, Sound, Conserved
  <2>2. ToSet(s.blocked[w]) = {}
    BY <1>1, <2>1, EmptySeqIs
  <2> QED
    BY <1>2, <2>1, <2>2
<1>4. CASE w \in s.attached
  <2>1. s.blocked[w] # <<>>
    BY <1>4 DEF Sound, Conserved
  <2>2. Best(s.blocked[w]) \in ToSet(s.blocked[w])
    BY <1>1, <2>1, BestIsQueued
  <2>3. PICK u \in Thread : u = Best(s.blocked[w])
    BY <1>1, <2>2, SetOfSeq
  <2>4. s.td[u].wchan = w /\ w # NULL
    BY <1>2, <2>2, <2>3, SleepQueueAssumption
  <2>5. Changes(s, sleepq_resume_thread(s, u), u, Awake(s.td[u]))
    BY <2>4, ResumeEffect
  <2> QED
    BY <1>4, <2>3, <2>4, <2>5 DEF sleepq_signal
<1> QED
  BY <1>3, <1>4

-----------------------------------------------------------------------------
\* Two changes of the same thread are one.
LEMMA TwoChanges ==
  ASSUME NEW s, Sound(s), NEW t \in Thread, NEW r, NEW d, Changes(s, r, t, d)
  PROVE  /\ Sound(r) /\ r.td[t] = d /\ d \in ThreadState
         /\ \A q, e : Changes(r, q, t, e) => Changes(s, q, t, e)
<1>1. s.td \in [Thread -> ThreadState]
  BY StateFields DEF Sound
<1> QED
  BY <1>1 DEF Changes

\* Thread e is thread d with other flags, callout and state.
Same(d, e, flags, callout, sleeping) ==
  /\ e \in ThreadState /\ e.sq = d.sq /\ e.wchan = d.wchan
  /\ e.flags = flags /\ e.callout = callout /\ e.sleeping = sleeping

\* Thread e is thread d, off its queue and runnable.
Off(d, e, flags, callout) ==
  /\ e \in ThreadState /\ e.sq = TRUE /\ e.wchan = NULL
  /\ e.flags = flags /\ e.callout = callout /\ e.sleeping = FALSE

\* The local changes, by their fields.
LEMMA LocalFields ==
  ASSUME NEW s, Sound(s), NEW t \in Thread
  PROVE  LET d == s.td[t]
         IN  /\ \A f \in SUBSET Flag :
                  /\ \E e : /\ Changes(s, SetFlags(s, t, f), t, e)
                            /\ Same(d, e, d.flags \cup f, d.callout, d.sleeping)
                  /\ \E e : /\ Changes(s, ClearFlags(s, t, f), t, e)
                            /\ Same(d, e, d.flags \ f, d.callout, d.sleeping)
             /\ \A b \in BOOLEAN :
                  \E e : /\ Changes(s, [s EXCEPT !.td[t].sleeping = b], t, e)
                         /\ Same(d, e, d.flags, d.callout, b)
             /\ \A x \in {"idle", "pending", "running"} :
                  \E e : /\ Changes(s, [s EXCEPT !.td[t].callout = x], t, e)
                         /\ Same(d, e, d.flags, x, d.sleeping)
<1> DEFINE d == s.td[t]
<1>1. d \in ThreadState
  BY StateFields DEF Sound
<1>2. d.flags \in SUBSET Flag /\ d.sleeping \in BOOLEAN /\ d.callout \in {"idle", "pending", "running"}
  BY <1>1, ThreadFields
<1>3. \A flags \in SUBSET Flag, x \in {"idle", "pending", "running"}, b \in BOOLEAN :
        Same(d, Upd(d, flags, x, b), flags, x, b)
  BY <1>1, UpdFields DEF Same
<1>4. \A f \in SUBSET Flag : d.flags \cup f \in SUBSET Flag /\ d.flags \ f \in SUBSET Flag
  BY <1>2
<1>5. /\ \A f \in SUBSET Flag :
           /\ Changes(s, SetFlags(s, t, f), t, Upd(d, d.flags \cup f, d.callout, d.sleeping))
           /\ Changes(s, ClearFlags(s, t, f), t, Upd(d, d.flags \ f, d.callout, d.sleeping))
      /\ \A b \in BOOLEAN : Changes(s, [s EXCEPT !.td[t].sleeping = b], t,
                                    Upd(d, d.flags, d.callout, b))
      /\ \A x \in {"idle", "pending", "running"} :
           Changes(s, [s EXCEPT !.td[t].callout = x], t, Upd(d, d.flags, x, d.sleeping))
  BY LocalSteps
<1> HIDE DEF d
<1>6. \A f \in SUBSET Flag :
        /\ \E e : /\ Changes(s, SetFlags(s, t, f), t, e)
                  /\ Same(d, e, d.flags \cup f, d.callout, d.sleeping)
        /\ \E e : /\ Changes(s, ClearFlags(s, t, f), t, e)
                  /\ Same(d, e, d.flags \ f, d.callout, d.sleeping)
  BY <1>2, <1>3, <1>4, <1>5, Zenon
<1>7. \A b \in BOOLEAN :
        \E e : /\ Changes(s, [s EXCEPT !.td[t].sleeping = b], t, e)
               /\ Same(d, e, d.flags, d.callout, b)
  BY <1>2, <1>3, <1>5, Zenon
<1>8. \A x \in {"idle", "pending", "running"} :
        \E e : /\ Changes(s, [s EXCEPT !.td[t].callout = x], t, e)
               /\ Same(d, e, d.flags, x, d.sleeping)
  BY <1>2, <1>3, <1>5, Zenon
<1> QED
  BY <1>6, <1>7, <1>8, Zenon DEF d

LEMMA ResumeFields ==
  ASSUME NEW s, Sound(s), NEW t \in Thread, s.td[t].wchan # NULL
  PROVE  LET d == s.td[t]
         IN  \E e : /\ Changes(s, sleepq_resume_thread(s, t), t, e)
                    /\ Off(d, e, d.flags \ {SINTR}, d.callout)
<1>1. s.td[t] \in ThreadState
  BY StateFields DEF Sound
<1>2. Off(s.td[t], Awake(s.td[t]), s.td[t].flags \ {SINTR}, s.td[t].callout)
  BY <1>1, AwakeFields DEF Off
<1> QED
  BY <1>2, ResumeEffect

\* A state that stays is a change of any thread to itself.
LEMMA NoChange ==
  ASSUME NEW s, Sound(s), NEW t \in Thread
  PROVE  Changes(s, s, t, s.td[t]) /\ s.td[t] \in ThreadState
<1>1. s.td \in [Thread -> ThreadState]
  BY StateFields DEF Sound
<1> QED
  BY <1>1 DEF Changes

\* sleepq_switch(): the thread was woken before, has timed out, or sleeps.
LEMMA SwitchFields ==
  ASSUME NEW s, Sound(s), NEW t \in Thread
  PROVE  LET d == s.td[t]
         IN  \E e : /\ Changes(s, sleepq_switch(s, t), t, e)
                    /\ IF d.wchan = NULL THEN e = d
                       ELSE IF TIMEOUT \in d.flags
                       THEN Off(d, e, d.flags \ {SINTR}, d.callout)
                       ELSE Same(d, e, d.flags, d.callout, TRUE)
<1>1. s.td[t].sq <=> s.td[t].wchan = NULL
  BY DEF Sound, Conserved
<1>2. CASE s.td[t].wchan = NULL
  <2>1. sleepq_switch(s, t) = s
    BY <1>1, <1>2 DEF sleepq_switch
  <2> QED
    BY <1>2, <2>1, NoChange
<1>3. CASE s.td[t].wchan # NULL /\ TIMEOUT \in s.td[t].flags
  <2>1. sleepq_switch(s, t) = sleepq_resume_thread(s, t)
    BY <1>1, <1>3 DEF sleepq_switch, HasFlag
  <2> QED
    BY <1>3, <2>1, ResumeFields
<1>4. CASE s.td[t].wchan # NULL /\ TIMEOUT \notin s.td[t].flags
  <2>1. sleepq_switch(s, t) = [s EXCEPT !.td[t].sleeping = TRUE]
    BY <1>1, <1>4 DEF sleepq_switch, HasFlag
  <2> QED
    BY <1>4, <2>1, LocalFields
<1> QED
  BY <1>2, <1>3, <1>4

\* sleepq_check_timeout().
LEMMA CheckTimeoutFields ==
  ASSUME NEW s, Sound(s), NEW t \in Thread
  PROVE  LET d == s.td[t]
         IN  \E e : /\ Changes(s, sleepq_check_timeout(s, t), t, e)
                    /\ IF TIMEOUT \in d.flags
                       THEN Same(d, e, d.flags \ {TIMEOUT}, d.callout, d.sleeping)
                       ELSE IF TIMOFAIL \in d.flags
                       THEN Same(d, e, d.flags \ {TIMOFAIL}, d.callout, d.sleeping)
                       ELSE IF d.callout = "pending"
                       THEN Same(d, e, d.flags, "idle", d.sleeping)
                       ELSE Same(d, e, d.flags \cup {TIMEOUT}, d.callout, TRUE)
<1>0. {TIMEOUT} \in SUBSET Flag /\ {TIMOFAIL} \in SUBSET Flag
  BY DEF Flag
<1>1. CASE TIMEOUT \in s.td[t].flags
  <2>1. sleepq_check_timeout(s, t) = ClearFlags(s, t, {TIMEOUT})
    BY <1>1 DEF sleepq_check_timeout, HasFlag
  <2> QED
    BY <1>0, <1>1, <2>1, LocalFields
<1>2. CASE TIMEOUT \notin s.td[t].flags /\ TIMOFAIL \in s.td[t].flags
  <2>1. sleepq_check_timeout(s, t) = ClearFlags(s, t, {TIMOFAIL})
    BY <1>2 DEF sleepq_check_timeout, HasFlag
  <2> QED
    BY <1>0, <1>2, <2>1, LocalFields
<1>3. CASE /\ TIMEOUT \notin s.td[t].flags /\ TIMOFAIL \notin s.td[t].flags
           /\ s.td[t].callout = "pending"
  <2>1. sleepq_check_timeout(s, t) = [s EXCEPT !.td[t].callout = "idle"]
    BY <1>3 DEF sleepq_check_timeout, HasFlag
  <2> QED
    BY <1>3, <2>1, LocalFields
<1>4. CASE /\ TIMEOUT \notin s.td[t].flags /\ TIMOFAIL \notin s.td[t].flags
           /\ s.td[t].callout # "pending"
  <2> DEFINE r == SetFlags(s, t, {TIMEOUT})
  <2>1. sleepq_check_timeout(s, t) = [r EXCEPT !.td[t].sleeping = TRUE]
    BY <1>4 DEF sleepq_check_timeout, HasFlag
  <2>2. PICK d1 : /\ Changes(s, r, t, d1)
                  /\ Same(s.td[t], d1, s.td[t].flags \cup {TIMEOUT}, s.td[t].callout, s.td[t].sleeping)
    BY <1>0, LocalFields
  <2> HIDE DEF r
  <2>3. /\ Sound(r) /\ r.td[t] = d1
        /\ \A q, e : Changes(r, q, t, e) => Changes(s, q, t, e)
    BY <2>2, TwoChanges
  <2>4. PICK e : /\ Changes(r, [r EXCEPT !.td[t].sleeping = TRUE], t, e)
                 /\ Same(d1, e, d1.flags, d1.callout, TRUE)
    BY <2>3, LocalFields
  <2>5. Same(s.td[t], e, s.td[t].flags \cup {TIMEOUT}, s.td[t].callout, TRUE)
    BY <2>2, <2>4 DEF Same
  <2>6. Changes(s, sleepq_check_timeout(s, t), t, e)
    BY <2>1, <2>3, <2>4
  <2> QED
    BY <1>4, <2>5, <2>6
<1> QED
  BY <1>1, <1>2, <1>3, <1>4

\* sleepq_timeout(), the handler of the callout.
LEMMA TimeoutFields ==
  ASSUME NEW s, Sound(s), NEW t \in Thread
  PROVE  LET d == s.td[t]
         IN  \E e : /\ Changes(s, sleepq_timeout(s, t), t, e)
                    /\ IF d.wchan # NULL
                       THEN IF d.sleeping
                            THEN Off(d, e, (d.flags \cup {TIMEOUT}) \ {SINTR}, "idle")
                            ELSE Same(d, e, d.flags \cup {TIMEOUT}, "idle", d.sleeping)
                       ELSE IF TIMEOUT \in d.flags
                       THEN Same(d, e, d.flags \ {TIMEOUT}, "idle", FALSE)
                       ELSE Same(d, e, d.flags \cup {TIMOFAIL}, "idle", d.sleeping)
<1> DEFINE d == s.td[t]
           done == [s EXCEPT !.td[t].callout = "idle"]
<1>0. {TIMEOUT} \in SUBSET Flag /\ {TIMOFAIL} \in SUBSET Flag
  BY DEF Flag
<1>1. PICK d1 : Changes(s, done, t, d1) /\ Same(d, d1, d.flags, "idle", d.sleeping)
  BY LocalFields
<1>2. /\ d.wchan # NULL /\ d.sleeping =>
           sleepq_timeout(s, t) = sleepq_resume_thread(SetFlags(done, t, {TIMEOUT}), t)
      /\ d.wchan # NULL /\ ~ d.sleeping => sleepq_timeout(s, t) = SetFlags(done, t, {TIMEOUT})
      /\ d.wchan = NULL /\ TIMEOUT \in d.flags =>
           sleepq_timeout(s, t) = [ClearFlags(done, t, {TIMEOUT}) EXCEPT !.td[t].sleeping = FALSE]
      /\ d.wchan = NULL /\ TIMEOUT \notin d.flags =>
           sleepq_timeout(s, t) = SetFlags(done, t, {TIMOFAIL})
  BY DEF sleepq_timeout, TD_ON_SLEEPQ, TD_IS_SLEEPING, HasFlag
<1> HIDE DEF done
<1>3. /\ Sound(done) /\ done.td[t] = d1 /\ d1 \in ThreadState
      /\ \A q, e : Changes(done, q, t, e) => Changes(s, q, t, e)
  BY <1>1, TwoChanges
<1> HIDE DEF d
<1>4. PICK d2 : /\ Changes(done, SetFlags(done, t, {TIMEOUT}), t, d2)
                /\ Same(d1, d2, d1.flags \cup {TIMEOUT}, d1.callout, d1.sleeping)
  BY <1>0, <1>3, LocalFields
<1>5. Same(d, d2, d.flags \cup {TIMEOUT}, "idle", d.sleeping)
  BY <1>1, <1>4 DEF Same
<1>6. CASE d.wchan # NULL /\ d.sleeping
  <2> DEFINE r == SetFlags(done, t, {TIMEOUT})
  <2>1. Changes(done, r, t, d2) /\ sleepq_timeout(s, t) = sleepq_resume_thread(r, t)
    BY <1>2, <1>4, <1>6
  <2> HIDE DEF r
  <2>2. /\ Sound(r) /\ r.td[t] = d2
        /\ \A q, e : Changes(r, q, t, e) => Changes(done, q, t, e)
    BY <1>3, <2>1, TwoChanges
  <2>3. d2.wchan # NULL
    BY <1>5, <1>6 DEF Same
  <2>4. PICK e : /\ Changes(r, sleepq_resume_thread(r, t), t, e)
                 /\ Off(d2, e, d2.flags \ {SINTR}, d2.callout)
    BY <2>2, <2>3, ResumeFields
  <2>5. Off(d, e, (d.flags \cup {TIMEOUT}) \ {SINTR}, "idle")
    BY <1>5, <2>4 DEF Same, Off
  <2>6. Changes(s, sleepq_timeout(s, t), t, e)
    BY <1>3, <2>1, <2>2, <2>4
  <2> QED
    BY <1>6, <2>5, <2>6 DEF d
<1>7. CASE d.wchan # NULL /\ ~ d.sleeping
  <2>1. Changes(s, sleepq_timeout(s, t), t, d2)
    BY <1>2, <1>3, <1>4, <1>7
  <2> QED
    BY <1>5, <1>7, <2>1 DEF d
<1>8. CASE d.wchan = NULL /\ TIMEOUT \in d.flags
  <2> DEFINE r == ClearFlags(done, t, {TIMEOUT})
  <2>1. PICK d3 : /\ Changes(done, r, t, d3)
                  /\ Same(d1, d3, d1.flags \ {TIMEOUT}, d1.callout, d1.sleeping)
    BY <1>0, <1>3, LocalFields
  <2>2. sleepq_timeout(s, t) = [r EXCEPT !.td[t].sleeping = FALSE]
    BY <1>2, <1>8
  <2> HIDE DEF r
  <2>3. /\ Sound(r) /\ r.td[t] = d3
        /\ \A q, e : Changes(r, q, t, e) => Changes(done, q, t, e)
    BY <1>3, <2>1, TwoChanges
  <2>4. PICK e : /\ Changes(r, [r EXCEPT !.td[t].sleeping = FALSE], t, e)
                 /\ Same(d3, e, d3.flags, d3.callout, FALSE)
    BY <2>3, LocalFields
  <2>5. Same(d, e, d.flags \ {TIMEOUT}, "idle", FALSE)
    BY <1>1, <2>1, <2>4 DEF Same
  <2>6. Changes(s, sleepq_timeout(s, t), t, e)
    BY <1>3, <2>2, <2>3, <2>4
  <2> QED
    BY <1>8, <2>5, <2>6 DEF d
<1>9. CASE d.wchan = NULL /\ TIMEOUT \notin d.flags
  <2>1. PICK e : /\ Changes(done, SetFlags(done, t, {TIMOFAIL}), t, e)
                 /\ Same(d1, e, d1.flags \cup {TIMOFAIL}, d1.callout, d1.sleeping)
    BY <1>0, <1>3, LocalFields
  <2>2. Same(d, e, d.flags \cup {TIMOFAIL}, "idle", d.sleeping)
    BY <1>1, <2>1 DEF Same
  <2>3. Changes(s, sleepq_timeout(s, t), t, e)
    BY <1>2, <1>3, <1>9, <2>1
  <2> QED
    BY <1>9, <2>2, <2>3 DEF d
<1>10. d.sleeping \in BOOLEAN
  <2>1. d \in ThreadState
    BY StateFields DEF Sound, d
  <2> QED
    BY <2>1, ThreadFields
<1> QED
  BY <1>6, <1>7, <1>8, <1>9, <1>10

\* sleepq_abort(), of a thread that sleeps or is about to.
LEMMA AbortFields ==
  ASSUME NEW s, Sound(s), NEW t \in Thread, s.td[t].wchan # NULL
  PROVE  LET d == s.td[t]
         IN  \E e : /\ Changes(s, sleepq_abort(s, t), t, e)
                    /\ IF TIMEOUT \in d.flags THEN e = d
                       ELSE IF d.sleeping
                       THEN Off(d, e, (d.flags \cup {SLEEPABORT}) \ {SINTR}, d.callout)
                       ELSE Same(d, e, d.flags \cup {SLEEPABORT}, d.callout, d.sleeping)
<1> DEFINE d == s.td[t]
           r == SetFlags(s, t, {SLEEPABORT})
<1>0. {SLEEPABORT} \in SUBSET Flag
  BY DEF Flag
<1>1. PICK d1 : Changes(s, r, t, d1) /\ Same(d, d1, d.flags \cup {SLEEPABORT}, d.callout, d.sleeping)
  BY <1>0, LocalFields
<1>2. /\ TIMEOUT \in d.flags => sleepq_abort(s, t) = s
      /\ TIMEOUT \notin d.flags /\ d.sleeping => sleepq_abort(s, t) = sleepq_resume_thread(r, t)
      /\ TIMEOUT \notin d.flags /\ ~ d.sleeping => sleepq_abort(s, t) = r
  BY DEF sleepq_abort, TD_IS_SLEEPING, HasFlag
<1> HIDE DEF r
<1>3. /\ Sound(r) /\ r.td[t] = d1
      /\ \A q, e : Changes(r, q, t, e) => Changes(s, q, t, e)
  BY <1>1, TwoChanges
<1>4. Changes(s, s, t, d)
  BY NoChange
<1>5. d.wchan # NULL
  OBVIOUS
<1> HIDE DEF d
<1>6. CASE TIMEOUT \in d.flags
  BY <1>2, <1>4, <1>6 DEF d
<1>7. CASE TIMEOUT \notin d.flags /\ d.sleeping
  <2>1. d1.wchan # NULL
    BY <1>1, <1>5 DEF Same
  <2>2. PICK e : /\ Changes(r, sleepq_resume_thread(r, t), t, e)
                 /\ Off(d1, e, d1.flags \ {SINTR}, d1.callout)
    BY <1>3, <2>1, ResumeFields
  <2>3. Off(d, e, (d.flags \cup {SLEEPABORT}) \ {SINTR}, d.callout)
    BY <1>1, <2>2 DEF Same, Off
  <2>4. Changes(s, sleepq_abort(s, t), t, e)
    BY <1>2, <1>3, <1>7, <2>2
  <2> QED
    BY <1>7, <2>3, <2>4 DEF d
<1>8. CASE TIMEOUT \notin d.flags /\ ~ d.sleeping
  <2>1. Changes(s, sleepq_abort(s, t), t, d1)
    BY <1>1, <1>2, <1>8
  <2> QED
    BY <1>1, <1>8, <2>1 DEF d
<1> QED
  BY <1>6, <1>7, <1>8

-----------------------------------------------------------------------------
(***************************************************************************)
(* A thread and its sleep.                                                 *)
(***************************************************************************)
\* From the moment a thread is on the queue until it has switched away.
Before == {"unlocking", "relock", "added", "catch", "cursig", "recheck"}

\* The timeout of the sleep has come, or came too late.
Timed(d) == TIMEOUT \in d.flags \/ TIMOFAIL \in d.flags

\* The callout of a sleep is armed exactly until its handler has left its mark,
\* and an untimed sleep has neither.
TimerInv(d, k) ==
  /\ d.callout = "idle" <=> ~ k.timo \/ Timed(d)
  /\ ~ k.timo => ~ Timed(d)

\* What holds of thread d at place p in the sleep it asked for with call k.
ThreadInv(d, p, k) ==
  /\ p \in {"idle", "return"} =>
       d.callout = "idle" /\ d.flags \subseteq {NEEDSIGCHK} /\ d.wchan = NULL /\ ~ d.sleeping
  /\ p \in Before => ~ d.sleeping
  /\ p = "asleep" => (d.sleeping <=> d.wchan # NULL)
  /\ p \in Before \cup {"asleep"} =>
       TimerInv(d, k) /\ (d.sleeping => TIMEOUT \notin d.flags)
  /\ p = "sync" =>
       /\ k.timo /\ d.wchan = NULL
       /\ IF d.sleeping THEN d.callout = "running" /\ TIMEOUT \in d.flags
                        ELSE d.callout = "idle" /\ ~ Timed(d)
  /\ ~ (TIMEOUT \in d.flags /\ TIMOFAIL \in d.flags)
  /\ TIMOFAIL \in d.flags => d.wchan = NULL
  /\ SINTR \in d.flags => d.wchan # NULL /\ k.catch
  /\ SLEEPABORT \in d.flags => k.catch
  /\ d.wchan \in {wchan, NULL}

\* A thread that has switched back, or did not switch, before the checks.
Back(d, k) ==
  /\ d.wchan = NULL /\ ~ d.sleeping /\ TimerInv(d, k)
  /\ ~ (TIMEOUT \in d.flags /\ TIMOFAIL \in d.flags)
  /\ SINTR \notin d.flags
  /\ SLEEPABORT \in d.flags => k.catch

Result == {"0", "EINTR", "EWOULDBLOCK"}
CallSet == [catch : BOOLEAN, timo : BOOLEAN]

\* Thread t, which was d, is e and goes on at p, with value v so far.
Goes(s, t, d, e, p, v) ==
  /\ Changes(s, slp', t, e)
  /\ pc' = [pc EXCEPT ![t] = p]
  /\ rval' = [rval EXCEPT ![t] = v]
  /\ v \in Result
  /\ ThreadInv(e, p, call[t])
  /\ NEEDSIGCHK \in e.flags <=> NEEDSIGCHK \in d.flags

\* After the timeout check the thread either waits for its callout or is done
\* with it.
LEMMA TimeoutChecked ==
  ASSUME NEW s, Sound(s), NEW t \in Thread, call[t] \in CallSet, Back(s.td[t], call[t])
  PROVE  LET d == s.td[t]
             s1 == IF call[t].timo THEN sleepq_check_timeout(s, t) ELSE s
         IN  \E e : /\ Changes(s, s1, t, e) /\ e.wchan = NULL
                    /\ SINTR \notin e.flags
                    /\ SLEEPABORT \in e.flags => call[t].catch
                    /\ NEEDSIGCHK \in e.flags <=> NEEDSIGCHK \in d.flags
                    /\ IF e.sleeping
                       THEN /\ call[t].timo /\ e.callout = "running" /\ TIMEOUT \in e.flags
                            /\ TIMOFAIL \notin e.flags
                       ELSE e.callout = "idle" /\ ~ Timed(e)
<1> DEFINE d == s.td[t]  k == call[t]
<1>1. k.catch \in BOOLEAN /\ k.timo \in BOOLEAN
  BY DEF CallSet
<1>2. d \in ThreadState
  BY StateFields DEF Sound
<1>3. CASE ~ k.timo
  <2>1. Changes(s, s, t, d)
    BY NoChange
  <2> QED
    BY <1>3, <2>1 DEF Back, TimerInv
<1>4. CASE k.timo
  <2>1. PICK e : /\ Changes(s, sleepq_check_timeout(s, t), t, e)
                 /\ IF TIMEOUT \in d.flags
                    THEN Same(d, e, d.flags \ {TIMEOUT}, d.callout, d.sleeping)
                    ELSE IF TIMOFAIL \in d.flags
                    THEN Same(d, e, d.flags \ {TIMOFAIL}, d.callout, d.sleeping)
                    ELSE IF d.callout = "pending"
                    THEN Same(d, e, d.flags, "idle", d.sleeping)
                    ELSE Same(d, e, d.flags \cup {TIMEOUT}, d.callout, TRUE)
    BY CheckTimeoutFields
  <2>2. d.callout \in {"idle", "pending", "running"} /\ d.flags \in SUBSET Flag
    BY <1>2, ThreadFields
  <2>3. Back(d, k)
    OBVIOUS
  <2> HIDE DEF d, k
  <2>4. /\ e.wchan = NULL /\ SINTR \notin e.flags /\ (SLEEPABORT \in e.flags => k.catch)
        /\ NEEDSIGCHK \in e.flags <=> NEEDSIGCHK \in d.flags
        /\ IF e.sleeping
           THEN k.timo /\ e.callout = "running" /\ TIMEOUT \in e.flags /\ TIMOFAIL \notin e.flags
           ELSE e.callout = "idle" /\ ~ Timed(e)
    BY <1>4, <2>1, <2>2, <2>3
    DEF Back, TimerInv, Timed, Same, TIMEOUT, TIMOFAIL, SINTR, SLEEPABORT, NEEDSIGCHK
  <2> QED
    BY <1>4, <2>1, <2>4 DEF d, k
<1> QED
  BY <1>1, <1>3, <1>4

LEMMA FinishEffect ==
  ASSUME NEW s, Sound(s), NEW t \in Thread, call[t] \in CallSet, Back(s.td[t], call[t]),
         NEW rcatch \in Result, Finish(s, t, rcatch)
  PROVE  \E e, p, v : /\ Goes(s, t, s.td[t], e, p, v)
                      /\ p \in {"sync", "return"} /\ e.wchan = NULL /\ SINTR \notin e.flags
<1> DEFINE d == s.td[t]  k == call[t]
           s1 == IF k.timo THEN sleepq_check_timeout(s, t) ELSE s
           s2 == IF k.catch THEN sleepq_check_signals(s1, t) ELSE s1
           rvals == IF k.catch THEN SignalValue(s1, t) ELSE "0"
           rvalt == IF k.timo THEN TimeoutValue(s, t) ELSE "0"
<1>1. PICK e : /\ Changes(s, s1, t, e) /\ e.wchan = NULL /\ SINTR \notin e.flags
               /\ SLEEPABORT \in e.flags => k.catch
               /\ NEEDSIGCHK \in e.flags <=> NEEDSIGCHK \in d.flags
               /\ IF e.sleeping
                  THEN k.timo /\ e.callout = "running" /\ TIMEOUT \in e.flags /\ TIMOFAIL \notin e.flags
                  ELSE e.callout = "idle" /\ ~ Timed(e)
  BY TimeoutChecked
<1>2. IF TD_IS_SLEEPING(s1, t)
      THEN /\ slp' = s1
           /\ rval' = [rval EXCEPT ![t] = rcatch]
           /\ pc' = [pc EXCEPT ![t] = "sync"]
      ELSE /\ slp' = s2
           /\ rval' = [rval EXCEPT ![t] = CASE rcatch # "0" -> rcatch
                                           [] rcatch = "0" /\ rvals # "0" -> rvals
                                           [] OTHER -> rvalt]
           /\ pc' = [pc EXCEPT ![t] = "return"]
  BY DEF Finish, Goto
<1>3. s2 = IF k.catch THEN ClearFlags(s1, t, {SINTR, SLEEPABORT}) ELSE s1
  BY DEF sleepq_check_signals
<1>4. rvals \in {"0", "EINTR"} /\ rvalt \in {"0", "EWOULDBLOCK"}
  BY DEF SignalValue, TimeoutValue
<1>5. k.catch \in BOOLEAN
  BY DEF CallSet
<1> HIDE DEF s1, s2, rvals, rvalt, k, d
<1>6. /\ Sound(s1) /\ s1.td[t] = e /\ e \in ThreadState
      /\ \A q, f : Changes(s1, q, t, f) => Changes(s, q, t, f)
  BY <1>1, TwoChanges
<1>7. e.flags \in SUBSET Flag /\ e.sleeping \in BOOLEAN
  BY <1>6, ThreadFields
<1>8. CASE e.sleeping
  <2>1. /\ slp' = s1 /\ rval' = [rval EXCEPT ![t] = rcatch] /\ pc' = [pc EXCEPT ![t] = "sync"]
    BY <1>2, <1>6, <1>8 DEF TD_IS_SLEEPING
  <2>2. ThreadInv(e, "sync", k)
    BY <1>1, <1>8 DEF ThreadInv, Before
  <2>3. Goes(s, t, d, e, "sync", rcatch)
    BY <1>1, <2>1, <2>2 DEF Goes, k
  <2> QED
    BY <1>1, <2>3 DEF d
<1>9. CASE ~ e.sleeping
  <2> DEFINE v == CASE rcatch # "0" -> rcatch
                    [] rcatch = "0" /\ rvals # "0" -> rvals
                    [] OTHER -> rvalt
  <2>1. /\ slp' = s2 /\ rval' = [rval EXCEPT ![t] = v] /\ pc' = [pc EXCEPT ![t] = "return"]
    BY <1>2, <1>6, <1>9 DEF TD_IS_SLEEPING
  <2>2. v \in Result
    BY <1>4 DEF Result
  <2> HIDE DEF v
  <2>3. {SINTR, SLEEPABORT} \in SUBSET Flag
    BY DEF Flag
  <2>4. PICK f : Changes(s1, s2, t, f) /\ Same(e, f, f.flags, e.callout, e.sleeping)
                 /\ f.flags = IF k.catch THEN e.flags \ {SINTR, SLEEPABORT} ELSE e.flags
    <3>1. CASE k.catch
      <4>1. PICK f : /\ Changes(s1, ClearFlags(s1, t, {SINTR, SLEEPABORT}), t, f)
                     /\ Same(e, f, e.flags \ {SINTR, SLEEPABORT}, e.callout, e.sleeping)
        BY <1>6, <2>3, LocalFields
      <4> QED
        BY <1>3, <3>1, <4>1 DEF Same
    <3>2. CASE ~ k.catch
      <4>1. Changes(s1, s1, t, e)
        BY <1>6, NoChange
      <4> QED
        BY <1>3, <1>6, <3>2, <4>1 DEF Same
    <3> QED
      BY <1>5, <3>1, <3>2
  <2>5. f.flags \subseteq {NEEDSIGCHK} /\ (NEEDSIGCHK \in f.flags <=> NEEDSIGCHK \in d.flags)
    BY <1>1, <1>7, <1>9, <2>4 DEF Timed, Flag, TIMEOUT, TIMOFAIL, SINTR, SLEEPABORT, NEEDSIGCHK
  <2>6. f.wchan = NULL /\ ~ f.sleeping /\ f.callout = "idle"
    BY <1>1, <1>9, <2>4 DEF Same
  <2>7. SINTR \notin f.flags /\ SLEEPABORT \notin f.flags /\ TIMEOUT \notin f.flags /\ TIMOFAIL \notin f.flags
    BY <2>5 DEF TIMEOUT, TIMOFAIL, SINTR, SLEEPABORT, NEEDSIGCHK
  <2>8. ThreadInv(f, "return", k)
    BY <2>5, <2>6, <2>7 DEF ThreadInv, Before
  <2>9. Changes(s, slp', t, f)
    BY <1>6, <2>1, <2>4
  <2>10. Goes(s, t, d, f, "return", v)
    BY <2>1, <2>2, <2>5, <2>8, <2>9 DEF Goes, k
  <2> QED
    BY <2>6, <2>7, <2>10 DEF d
<1> QED
  BY <1>7, <1>8, <1>9

\* A thread that is switched away sleeps, unless it was woken or has timed out.
LEMMA SwitchEffect ==
  ASSUME Sound(slp), NEW t \in Thread, call[t] \in CallSet, Switch(t),
         rval \in [Thread -> Result], NEW p0 \in Before, ThreadInv(slp.td[t], p0, call[t])
  PROVE  \E e, p, v : /\ Goes(slp, t, slp.td[t], e, p, v)
                      /\ p \in {"asleep", "sync", "return"}
                      /\ e.wchan \in {slp.td[t].wchan, NULL}
                      /\ SINTR \in e.flags => SINTR \in slp.td[t].flags
<1> DEFINE d == slp.td[t]  k == call[t]  s == sleepq_switch(slp, t)
<1>1. PICK e : /\ Changes(slp, s, t, e)
               /\ IF d.wchan = NULL THEN e = d
                  ELSE IF TIMEOUT \in d.flags
                  THEN Off(d, e, d.flags \ {SINTR}, d.callout)
                  ELSE Same(d, e, d.flags, d.callout, TRUE)
  BY SwitchFields
<1>2. /\ Sound(s) /\ s.td[t] = e /\ e \in ThreadState
      /\ \A q, f : Changes(s, q, t, f) => Changes(slp, q, t, f)
  BY <1>1, TwoChanges
<1>3. IF TD_IS_SLEEPING(s, t)
      THEN slp' = s /\ pc' = [pc EXCEPT ![t] = "asleep"] /\ rval' = rval
      ELSE Finish(s, t, "0")
  BY DEF Switch, Goto
<1>4. ThreadInv(d, p0, k) /\ d \in ThreadState
  BY StateFields DEF Sound
<1> HIDE DEF d, s
<1>5. d.flags \in SUBSET Flag /\ d.sleeping \in BOOLEAN
  BY <1>4, ThreadFields
<1>6. NEEDSIGCHK \in e.flags <=> NEEDSIGCHK \in d.flags
  BY <1>1 DEF Off, Same, NEEDSIGCHK, SINTR
<1>7. CASE d.wchan # NULL /\ TIMEOUT \notin d.flags
  <2>1. Same(d, e, d.flags, d.callout, TRUE)
    BY <1>1, <1>7
  <2>2. slp' = s /\ pc' = [pc EXCEPT ![t] = "asleep"] /\ rval' = rval
    BY <1>2, <1>3, <2>1 DEF TD_IS_SLEEPING, Same
  <2>3. ThreadInv(e, "asleep", k)
    BY <1>4, <1>7, <2>1 DEF ThreadInv, Same, Before, TimerInv, Timed
  <2>4. rval' = [rval EXCEPT ![t] = rval[t]] /\ rval[t] \in Result
    BY <2>2
  <2>5. Goes(slp, t, d, e, "asleep", rval[t])
    BY <1>1, <1>6, <2>2, <2>3, <2>4 DEF Goes, k
  <2> QED
    BY <2>1, <2>5 DEF Same, d
<1>8. CASE d.wchan = NULL \/ TIMEOUT \in d.flags
  <2>1. Back(e, k)
    <3>1. CASE d.wchan = NULL
      BY <1>1, <1>4, <3>1 DEF ThreadInv, Back, Before, TimerInv, Timed
    <3>2. CASE d.wchan # NULL /\ TIMEOUT \in d.flags
      <4>1. Off(d, e, d.flags \ {SINTR}, d.callout)
        BY <1>1, <3>2
      <4> QED
        BY <1>4, <4>1 DEF Off, ThreadInv, Back, Before, TimerInv, Timed, SINTR, TIMEOUT, TIMOFAIL, SLEEPABORT
    <3> QED
      BY <1>8, <3>1, <3>2
  <2>2. Finish(s, t, "0")
    BY <1>2, <1>3, <2>1 DEF TD_IS_SLEEPING, Back
  <2>3. PICK f, p, v : /\ Goes(s, t, e, f, p, v)
                       /\ p \in {"sync", "return"} /\ f.wchan = NULL /\ SINTR \notin f.flags
    BY <1>2, <2>1, <2>2, FinishEffect DEF Result
  <2>4. Goes(slp, t, d, f, p, v)
    BY <1>2, <1>6, <2>3 DEF Goes
  <2> QED
    BY <2>3, <2>4 DEF d
<1> QED
  BY <1>7, <1>8

-----------------------------------------------------------------------------
(***************************************************************************)
(* The inductive invariant.                                                *)
(***************************************************************************)
TInv == \A t \in Thread : ThreadInv(slp.td[t], pc[t], call[t])

\* Whoever posts a signal holds the proc lock until it has looked at the thread.
\* A thread that found none keeps posters out with the proc lock, and those that
\* have begun from looking with the proc spin lock, until it sleeps.
SigInv ==
  /\ sigto # NULL <=> p_lock = "signal"
  /\ \A t \in Thread :
       /\ pc[t] = "cursig" => p_lock = t /\ (rval[t] = "0" => td_sig[t] = "none")
       /\ pc[t] = "recheck" =>
            p_slock = t /\ (rval[t] = "0" /\ td_sig[t] # "none" => sigto # NULL /\ sigto.td = t)
       /\ td_sig[t] # "none" => NEEDSIGCHK \in slp.td[t].flags

Queued   == {t \in Thread : slp.td[t].wchan # NULL}
Awaiting == {t \in Thread : pc[t] # "idle" /\ slp.td[t].wchan = NULL}
Busy     == {t \in Thread : pc[t] # "idle"}

\* cv_waiters counts what cv_signal must know of: it never falls behind the queue.
CountInv ==
  /\ ~ MayWrap /\ Queued # {} => value <= Cardinality(Awaiting)
  /\ ~ MayWrap /\ api # "sleep" => Cardinality(Queued) <= cv_waiters
  /\ sema_waiters = IF api = "sema" THEN Cardinality(Busy) ELSE 0

SynchInv ==
  TypeOK /\ Conserved(slp) /\ TInv /\ SigInv /\ NoSleepOnSignal /\ CountInv

Places == InSleep \cup {"idle", "return"}

\* A step of thread t, which is e after it.
Step(t, e) ==
  /\ Changes(slp, slp', t, e)
  /\ \E p \in Places : pc' = [pc EXCEPT ![t] = p] /\ ThreadInv(e, p, call'[t])
  /\ \E c \in CallSet : call' = [call EXCEPT ![t] = c]
  /\ \E v \in Result : rval' = [rval EXCEPT ![t] = v]

\* The parts of the invariant that are about the threads and their calls.
ThreadPart ==
  /\ Sound(slp) /\ TInv
  /\ pc \in [Thread -> Places] /\ call \in [Thread -> CallSet] /\ rval \in [Thread -> Result]

LEMMA InvGivesThreadPart ==
  ASSUME SynchInv PROVE ThreadPart /\ Sound(slp) /\ slp.td \in [Thread -> ThreadState]
<1>1. slp \in SleepQueueState
  BY DEF SynchInv, TypeOK, SleepQueueTypeOK
<1> QED
  BY <1>1, StateFields
  DEF SynchInv, TypeOK, ThreadPart, Sound, Places, CallSet, Result

LEMMA StepFields ==
  ASSUME ThreadPart, NEW t \in Thread, NEW e, Step(t, e)
  PROVE  /\ slp'.td[t] = e /\ e \in ThreadState
         /\ \A u \in Thread : u # t => /\ slp'.td[u] = slp.td[u] /\ pc'[u] = pc[u]
                                       /\ call'[u] = call[u] /\ rval'[u] = rval[u]
         /\ ThreadInv(e, pc'[t], call'[t])
<1>1. slp.td \in [Thread -> ThreadState]
  BY StateFields DEF ThreadPart, Sound
<1> QED
  BY <1>1 DEF ThreadPart, Step, Changes

LEMMA StepKeepsThreads ==
  ASSUME ThreadPart, NEW t \in Thread, NEW e, Step(t, e)
  PROVE  ThreadPart'
<1>1. /\ slp'.td[t] = e
      /\ \A u \in Thread : u # t => slp'.td[u] = slp.td[u] /\ pc'[u] = pc[u] /\ call'[u] = call[u]
      /\ ThreadInv(e, pc'[t], call'[t])
  BY StepFields
<1>2. \A u \in Thread : ThreadInv(slp'.td[u], pc'[u], call'[u])
  BY <1>1 DEF ThreadPart, TInv
<1>3. /\ pc' \in [Thread -> Places] /\ call' \in [Thread -> CallSet]
      /\ rval' \in [Thread -> Result] /\ Sound(slp')
  BY DEF ThreadPart, Step, Changes
<1> QED
  BY <1>2, <1>3 DEF ThreadPart, TInv

-----------------------------------------------------------------------------
\* Sets of threads can be counted.
LEMMA ThreadsFinite ==
  ASSUME NEW S, S \subseteq Thread
  PROVE  IsFiniteSet(S) /\ Cardinality(S) \in Nat
<1>1. IsFiniteSet(S)
  BY KernSynchAssumption, FS_Subset
<1> QED
  BY <1>1, FS_CardinalityType

LEMMA CountsAreNat ==
  /\ IsFiniteSet(Queued) /\ IsFiniteSet(Busy) /\ IsFiniteSet(Awaiting)
  /\ Cardinality(Queued) \in Nat /\ Cardinality(Busy) \in Nat /\ Cardinality(Awaiting) \in Nat
  /\ IsFiniteSet(Queued') /\ IsFiniteSet(Busy') /\ IsFiniteSet(Awaiting')
  /\ Cardinality(Queued') \in Nat /\ Cardinality(Busy') \in Nat /\ Cardinality(Awaiting') \in Nat
<1>1. /\ Queued \subseteq Thread /\ Busy \subseteq Thread /\ Awaiting \subseteq Thread
      /\ Queued' \subseteq Thread /\ Busy' \subseteq Thread /\ Awaiting' \subseteq Thread
  BY DEF Queued, Busy, Awaiting
<1> QED
  BY <1>1, ThreadsFinite

\* A thread on the queue is in a sleep.
LEMMA QueuedBusy ==
  ASSUME ThreadPart
  PROVE  Queued \subseteq Busy /\ Awaiting = Busy \ Queued
<1>1. Queued \subseteq Busy
  BY DEF Queued, Busy, ThreadPart, TInv, ThreadInv
<1> QED
  BY <1>1 DEF Awaiting, Queued, Busy

\* A step that puts no thread on the queue and begins or ends no wait.
Neutral(t, e) ==
  /\ Step(t, e)
  /\ e.wchan \in {slp.td[t].wchan, NULL}
  /\ pc'[t] = "idle" <=> pc[t] = "idle"
  /\ UNCHANGED <<api, kind, value, cv_waiters, sema_waiters>>

LEMMA NeutralKeepsCounts ==
  ASSUME ThreadPart, CountInv, cv_waiters \in Int, value \in Int,
         NEW t \in Thread, NEW e, Neutral(t, e)
  PROVE  CountInv'
<1>1. /\ slp'.td[t] = e
      /\ \A u \in Thread : u # t => slp'.td[u] = slp.td[u] /\ pc'[u] = pc[u]
  BY StepFields DEF Neutral
<1>2. Queued' \subseteq Queued
  BY <1>1 DEF Neutral, Queued
<1>3. Busy' = Busy
  BY <1>1 DEF Neutral, Busy
<1>4. Awaiting \subseteq Awaiting'
  BY <1>1 DEF Neutral, Awaiting
<1>6. /\ IsFiniteSet(Queued) /\ Cardinality(Queued) \in Nat /\ Cardinality(Awaiting) \in Nat
  BY CountsAreNat
<1>7. IsFiniteSet(Awaiting') /\ Cardinality(Awaiting') \in Nat /\ Cardinality(Queued') \in Nat
  BY CountsAreNat
<1>8. Cardinality(Queued') <= Cardinality(Queued) /\ Cardinality(Awaiting) <= Cardinality(Awaiting')
  BY <1>2, <1>4, <1>6, <1>7, FS_Subset
<1>9. ASSUME ~ MayWrap, Queued' # {} PROVE value' <= Cardinality(Awaiting')
  <2>1. value <= Cardinality(Awaiting)
    BY <1>2, <1>9 DEF CountInv
  <2>2. value' = value
    BY DEF Neutral
  <2> QED
    BY <1>6, <1>7, <1>8, <2>1, <2>2
<1>10. ASSUME ~ MayWrap, api' # "sleep" PROVE Cardinality(Queued') <= cv_waiters'
  <2>1. Cardinality(Queued) <= cv_waiters /\ cv_waiters' = cv_waiters
    BY <1>10 DEF CountInv, Neutral
  <2> QED
    BY <1>6, <1>7, <1>8, <2>1
<1>11. sema_waiters' = IF api' = "sema" THEN Cardinality(Busy') ELSE 0
  BY <1>3 DEF CountInv, Neutral
<1> QED
  BY <1>9, <1>10, <1>11 DEF CountInv

-----------------------------------------------------------------------------
\* What the signal part of the invariant needs of a step that takes or drops
\* neither proc lock.
LEMMA SignalsKept ==
  ASSUME SigInv, NoSleepOnSignal, UNCHANGED <<p_lock, p_slock, td_sig, sigto>>,
         \A u \in Thread :
           /\ pc'[u] \in {"cursig", "recheck"} => pc'[u] = pc[u] /\ rval'[u] = rval[u]
           /\ NEEDSIGCHK \in slp.td[u].flags => NEEDSIGCHK \in slp'.td[u].flags
           /\ slp'.td[u].sleeping /\ SINTR \in slp'.td[u].flags =>
                (slp.td[u].sleeping /\ SINTR \in slp.td[u].flags) \/ td_sig[u] = "none"
  PROVE  SigInv' /\ NoSleepOnSignal'
<1>1. SigInv'
  BY DEF SigInv
<1>2. NoSleepOnSignal'
  BY DEF NoSleepOnSignal, TD_IS_SLEEPING, HasFlag
<1> QED
  BY <1>1, <1>2

-----------------------------------------------------------------------------
(***************************************************************************)
(* The steps that begin and end no wait.                                   *)
(***************************************************************************)
OtherTypes ==
  /\ api \in Apis /\ kind \in Kinds
  /\ lock \in Thread \cup {NULL} /\ sc_lock \in Thread \cup {NULL}
  /\ p_slock \in Thread \cup {NULL} /\ p_lock \in Thread \cup {NULL, "signal"}
  /\ td_sig \in [Thread -> {"none", "cont", "caught"}]
  /\ sigto \in [td : Thread, cont : BOOLEAN] \cup {NULL}
  /\ value \in 0 .. MaxValue
  /\ cv_waiters \in (- INT_MAX - 1) .. INT_MAX

SigPart == SigInv /\ NoSleepOnSignal

\* The invariant, by its parts.
LEMMA InvParts ==
  SynchInv <=> ThreadPart /\ OtherTypes /\ SigPart /\ CountInv
<1>1. SynchInv => ThreadPart /\ OtherTypes /\ SigPart /\ CountInv
  BY InvGivesThreadPart DEF SynchInv, TypeOK, OtherTypes, SigPart
<1>2. CountInv => sema_waiters \in 0 .. Cardinality(Thread)
  <2>1. IsFiniteSet(Thread) /\ Busy \subseteq Thread /\ Thread \subseteq Thread
    BY KernSynchAssumption DEF Busy
  <2>2. Cardinality(Busy) <= Cardinality(Thread) /\ Cardinality(Busy) \in Nat /\ Cardinality(Thread) \in Nat
    BY <2>1, FS_Subset, ThreadsFinite
  <2>3. CASE api = "sema"
    BY <2>2, <2>3 DEF CountInv
  <2>4. CASE api # "sema"
    BY <2>2, <2>4 DEF CountInv
  <2> QED
    BY <2>3, <2>4
<1>3. ThreadPart /\ OtherTypes /\ SigPart /\ CountInv => SynchInv
  BY <1>2 DEF SynchInv, TypeOK, OtherTypes, SigPart, ThreadPart, Sound, SleepQueueTypeOK,
              Places, CallSet, Result
<1> QED
  BY <1>1, <1>3

\* A neutral step, and what else it has to keep.
Keeps == (\E t \in Thread : \E e : Neutral(t, e)) /\ OtherTypes' /\ SigPart'

LEMMA UnlockSleepableKeeps ==
  ASSUME SynchInv, NEW t \in Thread, UnlockSleepable(t)
  PROVE  Keeps
<1> DEFINE d == slp.td[t]
<1>1. ThreadPart /\ OtherTypes /\ SigPart /\ Sound(slp)
  BY InvParts, InvGivesThreadPart
<1>2. Changes(slp, slp, t, d)
  BY <1>1, NoChange
<1>3. ThreadInv(d, "relock", call[t])
  BY <1>1 DEF ThreadPart, TInv, ThreadInv, Before, UnlockSleepable
<1>4. Neutral(t, d)
  BY <1>1, <1>2, <1>3
  DEF Neutral, Step, UnlockSleepable, Goto, ThreadPart, Places, InSleep, counts
<1>5. SigInv' /\ NoSleepOnSignal'
  BY <1>1, SignalsKept DEF UnlockSleepable, Goto, SigPart, ThreadPart, sigVars
<1>6. OtherTypes'
  BY <1>1 DEF OtherTypes, UnlockSleepable, sigVars, counts
<1> QED
  BY <1>4, <1>5, <1>6 DEF Keeps, SigPart

LEMMA RelockChainKeeps ==
  ASSUME SynchInv, NEW t \in Thread, RelockChain(t)
  PROVE  Keeps
<1> DEFINE d == slp.td[t]
<1>1. ThreadPart /\ OtherTypes /\ SigPart /\ Sound(slp)
  BY InvParts, InvGivesThreadPart
<1>2. Changes(slp, slp, t, d)
  BY <1>1, NoChange
<1>3. ThreadInv(d, "added", call[t])
  BY <1>1 DEF ThreadPart, TInv, ThreadInv, Before, RelockChain
<1>4. Neutral(t, d)
  BY <1>1, <1>2, <1>3
  DEF Neutral, Step, RelockChain, Goto, ThreadPart, Places, InSleep, counts
<1>5. SigInv' /\ NoSleepOnSignal'
  BY <1>1, SignalsKept DEF RelockChain, Goto, SigPart, ThreadPart, sigVars
<1>6. OtherTypes'
  BY <1>1 DEF OtherTypes, RelockChain, sigVars, counts
<1> QED
  BY <1>4, <1>5, <1>6 DEF Keeps, SigPart

\* What Goes says of a step that changes no call.
LEMMA GoesIsNeutral ==
  ASSUME ThreadPart, NEW t \in Thread, NEW e, NEW p, NEW v, Goes(slp, t, slp.td[t], e, p, v),
         p \in {"asleep", "sync", "return"}, e.wchan \in {slp.td[t].wchan, NULL},
         pc[t] # "idle", UNCHANGED <<api, kind, call, counts>>
  PROVE  /\ Neutral(t, e) /\ pc'[t] = p /\ slp'.td[t] = e
         /\ NEEDSIGCHK \in e.flags <=> NEEDSIGCHK \in slp.td[t].flags
         /\ \A u \in Thread : u # t => slp'.td[u] = slp.td[u] /\ pc'[u] = pc[u] /\ rval'[u] = rval[u]
<1>1. Step(t, e)
  BY DEF Goes, Step, ThreadPart, Places, InSleep
<1>2. pc'[t] = p
  BY DEF Goes, ThreadPart
<1> QED
  BY <1>1, <1>2, StepFields DEF Neutral, Goes, counts

LEMMA WaitKeeps ==
  ASSUME SynchInv, NEW t \in Thread, Wait(t)
  PROVE  Keeps
<1> DEFINE d == slp.td[t]
<1>1. ThreadPart /\ OtherTypes /\ SigPart /\ Sound(slp)
  BY InvParts, InvGivesThreadPart
<1>2. /\ pc[t] = "added" /\ ThreadInv(d, "added", call[t]) /\ call[t] \in CallSet
      /\ UNCHANGED <<api, kind, call, counts>>
      /\ UNCHANGED <<p_lock, p_slock, td_sig, sigto>>
  BY <1>1 DEF Wait, ThreadPart, TInv, sigVars
<1>3. OtherTypes'
  BY <1>1 DEF OtherTypes, Wait, sigVars, counts
<1>4. CASE call[t].catch /\ HasFlag(slp, t, NEEDSIGCHK)
  <2>1. pc' = [pc EXCEPT ![t] = "catch"] /\ slp' = slp /\ rval' = rval
    BY <1>4 DEF Wait, Goto
  <2>2. Changes(slp, slp, t, d)
    BY <1>1, NoChange
  <2>3. ThreadInv(d, "catch", call[t])
    BY <1>2 DEF ThreadInv, Before
  <2>4. Neutral(t, d)
    BY <1>1, <1>2, <2>1, <2>2, <2>3 DEF Neutral, Step, ThreadPart, Places, InSleep, counts
  <2>5. SigInv' /\ NoSleepOnSignal'
    BY <1>1, <1>2, <2>1, SignalsKept DEF SigPart, ThreadPart
  <2> QED
    BY <1>3, <2>4, <2>5 DEF Keeps, SigPart
<1>5. CASE ~ (call[t].catch /\ HasFlag(slp, t, NEEDSIGCHK))
  <2>1. Switch(t)
    BY <1>5 DEF Wait
  <2>2. PICK e, p, v : /\ Goes(slp, t, d, e, p, v)
                       /\ p \in {"asleep", "sync", "return"}
                       /\ e.wchan \in {d.wchan, NULL}
                       /\ SINTR \in e.flags => SINTR \in d.flags
    BY <1>1, <1>2, <2>1, SwitchEffect DEF ThreadPart, Before
  <2>3. /\ Neutral(t, e) /\ pc'[t] = p /\ slp'.td[t] = e
        /\ NEEDSIGCHK \in e.flags <=> NEEDSIGCHK \in slp.td[t].flags
        /\ \A u \in Thread : u # t => slp'.td[u] = slp.td[u] /\ pc'[u] = pc[u] /\ rval'[u] = rval[u]
    BY <1>1, <1>2, <2>2, GoesIsNeutral
  <2>4. SINTR \in e.flags => td_sig[t] = "none"
    BY <1>1, <1>2, <1>5, <2>2 DEF ThreadInv, SigPart, SigInv, HasFlag
  <2>5. SigInv' /\ NoSleepOnSignal'
    BY <1>1, <1>2, <2>2, <2>3, <2>4, SignalsKept DEF SigPart
  <2> QED
    BY <1>3, <2>3, <2>5 DEF Keeps, SigPart
<1> QED
  BY <1>4, <1>5

LEMMA CatchSignalsKeeps ==
  ASSUME SynchInv, NEW t \in Thread, CatchSignals(t)
  PROVE  Keeps
<1> DEFINE d == slp.td[t]
<1>1. ThreadPart /\ OtherTypes /\ SigPart /\ Sound(slp)
  BY InvParts, InvGivesThreadPart
<1>2. Changes(slp, slp, t, d)
  BY <1>1, NoChange
<1>3. ThreadInv(d, "cursig", call[t])
  BY <1>1 DEF ThreadPart, TInv, ThreadInv, Before, CatchSignals
<1>4. Neutral(t, d)
  BY <1>1, <1>2, <1>3
  DEF Neutral, Step, CatchSignals, Goto, ThreadPart, Places, InSleep, counts, Result
<1>5. /\ p_lock = NULL /\ p_lock' = t /\ t # "signal" /\ NULL # "signal" /\ slp' = slp
      /\ UNCHANGED <<p_slock, sigto>>
      /\ pc'[t] = "cursig" /\ rval'[t] = IF td_sig[t] = "caught" THEN "EINTR" ELSE "0"
      /\ \A u \in Thread : u # t => pc'[u] = pc[u] /\ rval'[u] = rval[u]
  BY <1>1, KernSynchAssumption DEF CatchSignals, Goto, ThreadPart
<1>5a. /\ \A u \in Thread : td_sig'[u] # "none" => td_sig[u] # "none"
       /\ td_sig[t] # "caught" => td_sig'[t] = "none"
       /\ td_sig' \in [Thread -> {"none", "cont", "caught"}]
  BY <1>1 DEF CatchSignals, OtherTypes
<1>6. \A u \in Thread : pc[u] # "cursig"
  BY <1>1, <1>5, SleepQueueAssumption DEF SigPart, SigInv
<1>7. SigInv'
  BY <1>1, <1>5, <1>5a, <1>6 DEF SigPart, SigInv
<1>8. NoSleepOnSignal'
  BY <1>1, <1>5, <1>5a DEF SigPart, NoSleepOnSignal
<1>9. OtherTypes'
  BY <1>1, <1>5, <1>5a DEF OtherTypes, CatchSignals, counts
<1> QED
  BY <1>4, <1>7, <1>8, <1>9 DEF Keeps, SigPart

LEMMA CatchRelockKeeps ==
  ASSUME SynchInv, NEW t \in Thread, CatchRelock(t)
  PROVE  Keeps
<1> DEFINE d == slp.td[t]
<1>1. ThreadPart /\ OtherTypes /\ SigPart /\ Sound(slp)
  BY InvParts, InvGivesThreadPart
<1>2. Changes(slp, slp, t, d)
  BY <1>1, NoChange
<1>3. ThreadInv(d, "recheck", call[t])
  BY <1>1 DEF ThreadPart, TInv, ThreadInv, Before, CatchRelock
<1>4. Neutral(t, d)
  BY <1>1, <1>2, <1>3
  DEF Neutral, Step, CatchRelock, Goto, ThreadPart, Places, InSleep, counts
<1>5. /\ p_slock = NULL /\ p_slock' = t /\ p_lock' = NULL /\ NULL # "signal" /\ t # "signal"
      /\ slp' = slp /\ rval' = rval /\ UNCHANGED <<td_sig, sigto>>
      /\ pc[t] = "cursig" /\ pc'[t] = "recheck"
      /\ \A u \in Thread : u # t => pc'[u] = pc[u]
  BY <1>1, KernSynchAssumption DEF CatchRelock, Interlocked, Goto, ThreadPart, sigVars
<1>6. p_lock = t /\ (rval[t] = "0" => td_sig[t] = "none") /\ sigto = NULL
  BY <1>1, <1>5 DEF SigPart, SigInv
<1>7. \A u \in Thread : u # t => pc[u] # "cursig" /\ pc[u] # "recheck"
  BY <1>1, <1>5, <1>6, SleepQueueAssumption DEF SigPart, SigInv
<1>8. SigInv'
  BY <1>1, <1>5, <1>6, <1>7 DEF SigPart, SigInv
<1>9. NoSleepOnSignal'
  BY <1>1, <1>5 DEF SigPart, NoSleepOnSignal
<1>10. OtherTypes'
  BY <1>1, <1>5 DEF OtherTypes, CatchRelock, Interlocked, sigVars, counts
<1> QED
  BY <1>4, <1>8, <1>9, <1>10 DEF Keeps, SigPart

LEMMA CatchRecheckKeeps ==
  ASSUME SynchInv, NEW t \in Thread, CatchRecheck(t)
  PROVE  Keeps
<1> DEFINE d == slp.td[t]
<1>1. ThreadPart /\ OtherTypes /\ SigPart /\ Sound(slp)
  BY InvParts, InvGivesThreadPart
<1>2. /\ pc[t] = "recheck" /\ ThreadInv(d, "recheck", call[t]) /\ call[t] \in CallSet
      /\ rval[t] \in Result /\ UNCHANGED <<api, kind, call, counts>> /\ UNCHANGED <<p_lock, td_sig, sigto>>
  BY <1>1 DEF CatchRecheck, ThreadPart, TInv, sigVars
<1>3. OtherTypes'
  BY <1>1 DEF OtherTypes, CatchRecheck, sigVars, counts
<1>4. \E e, p, v : /\ Goes(slp, t, d, e, p, v)
                   /\ p \in {"asleep", "sync", "return"}
                   /\ e.wchan \in {d.wchan, NULL}
                   /\ e.sleeping /\ SINTR \in e.flags => rval[t] = "0"
  <2>1. CASE rval[t] = "0"
    <3>1. Switch(t)
      BY <2>1 DEF CatchRecheck
    <3> QED
      BY <1>1, <1>2, <2>1, <3>1, SwitchEffect DEF ThreadPart, Before
  <2>2. CASE rval[t] # "0"
    <3> DEFINE s == IF TD_ON_SLEEPQ(slp, t) THEN sleepq_resume_thread(slp, t) ELSE slp
    <3>1. Finish(s, t, rval[t])
      BY <2>2 DEF CatchRecheck
    <3>2. PICK e : /\ Changes(slp, s, t, e) /\ Back(e, call[t])
                   /\ NEEDSIGCHK \in e.flags <=> NEEDSIGCHK \in d.flags
      <4>1. CASE d.wchan = NULL
        <5>1. Changes(slp, s, t, d)
          BY <1>1, <4>1, NoChange DEF TD_ON_SLEEPQ
        <5>2. Back(d, call[t])
          BY <1>2, <4>1 DEF ThreadInv, Back, Before
        <5> QED
          BY <5>1, <5>2
      <4>2. CASE d.wchan # NULL
        <5>1. PICK e : /\ Changes(slp, sleepq_resume_thread(slp, t), t, e)
                       /\ Off(d, e, d.flags \ {SINTR}, d.callout)
          BY <1>1, <4>2, ResumeFields
        <5>2. Back(e, call[t]) /\ (NEEDSIGCHK \in e.flags <=> NEEDSIGCHK \in d.flags)
          <6> HIDE DEF d
          <6> QED
            BY <1>2, <5>1
            DEF ThreadInv, Back, Before, Off, TimerInv, Timed, SINTR, TIMEOUT, TIMOFAIL, SLEEPABORT, NEEDSIGCHK
        <5>3. s = sleepq_resume_thread(slp, t)
          BY <4>2 DEF TD_ON_SLEEPQ
        <5> QED
          BY <5>1, <5>2, <5>3
      <4> QED
        BY <4>1, <4>2
    <3> HIDE DEF s
    <3>3. /\ Sound(s) /\ s.td[t] = e
          /\ \A q, f : Changes(s, q, t, f) => Changes(slp, q, t, f)
      BY <1>1, <3>2, TwoChanges
    <3>4. PICK f, p, v : /\ Goes(s, t, e, f, p, v)
                         /\ p \in {"sync", "return"} /\ f.wchan = NULL /\ SINTR \notin f.flags
      BY <1>2, <3>1, <3>2, <3>3, FinishEffect
    <3>5. Goes(slp, t, d, f, p, v)
      BY <3>2, <3>3, <3>4 DEF Goes
    <3> QED
      BY <3>4, <3>5
  <2> QED
    BY <2>1, <2>2
<1>5. PICK e, p, v : /\ Goes(slp, t, d, e, p, v)
                     /\ p \in {"asleep", "sync", "return"}
                     /\ e.wchan \in {d.wchan, NULL}
                     /\ e.sleeping /\ SINTR \in e.flags => rval[t] = "0"
  BY <1>4
<1>6. /\ Neutral(t, e) /\ pc'[t] = p /\ slp'.td[t] = e
      /\ NEEDSIGCHK \in e.flags <=> NEEDSIGCHK \in slp.td[t].flags
      /\ \A u \in Thread : u # t => slp'.td[u] = slp.td[u] /\ pc'[u] = pc[u] /\ rval'[u] = rval[u]
  BY <1>1, <1>2, <1>5, GoesIsNeutral
<1>7. p_slock = t /\ (rval[t] = "0" /\ td_sig[t] # "none" => sigto # NULL /\ sigto.td = t)
  BY <1>1, <1>2 DEF SigPart, SigInv
<1>8. \A u \in Thread : u # t => pc[u] # "recheck"
  BY <1>1, <1>7 DEF SigPart, SigInv
<1>9. SigInv'
  BY <1>1, <1>2, <1>5, <1>6, <1>8 DEF SigPart, SigInv
<1>10. NoSleepOnSignal'
  BY <1>1, <1>2, <1>5, <1>6, <1>7 DEF SigPart, NoSleepOnSignal, TD_IS_SLEEPING, HasFlag
<1> QED
  BY <1>3, <1>6, <1>9, <1>10 DEF Keeps, SigPart

LEMMA ResumedKeeps ==
  ASSUME SynchInv, NEW t \in Thread, Resumed(t)
  PROVE  Keeps
<1> DEFINE d == slp.td[t]
<1>1. ThreadPart /\ OtherTypes /\ SigPart /\ Sound(slp)
  BY InvParts, InvGivesThreadPart
<1>2. /\ pc[t] = "asleep" /\ ThreadInv(d, "asleep", call[t]) /\ call[t] \in CallSet
      /\ ~ d.sleeping /\ Finish(slp, t, "0")
      /\ UNCHANGED <<api, kind, call, counts>> /\ UNCHANGED <<p_lock, p_slock, td_sig, sigto>>
  BY <1>1 DEF Resumed, ThreadPart, TInv, sigVars, locks, TD_IS_SLEEPING
<1>3. OtherTypes'
  BY <1>1 DEF OtherTypes, Resumed, sigVars, counts, locks
<1>4. Back(d, call[t])
  BY <1>2 DEF ThreadInv, Back, Before
<1>5. PICK e, p, v : /\ Goes(slp, t, d, e, p, v)
                     /\ p \in {"sync", "return"} /\ e.wchan = NULL /\ SINTR \notin e.flags
  BY <1>1, <1>2, <1>4, FinishEffect DEF Result
<1>6. /\ Neutral(t, e) /\ pc'[t] = p /\ slp'.td[t] = e
      /\ NEEDSIGCHK \in e.flags <=> NEEDSIGCHK \in slp.td[t].flags
      /\ \A u \in Thread : u # t => slp'.td[u] = slp.td[u] /\ pc'[u] = pc[u] /\ rval'[u] = rval[u]
  BY <1>1, <1>2, <1>5, GoesIsNeutral
<1>7. SigInv' /\ NoSleepOnSignal'
  BY <1>1, <1>2, <1>5, <1>6, SignalsKept DEF SigPart
<1> QED
  BY <1>3, <1>6, <1>7 DEF Keeps, SigPart

LEMMA SyncedKeeps ==
  ASSUME SynchInv, NEW t \in Thread, Synced(t)
  PROVE  Keeps
<1> DEFINE d == slp.td[t]  k == call[t]
           v == IF rval[t] = "0" /\ call[t].catch THEN SignalValue(slp, t) ELSE rval[t]
<1>1. ThreadPart /\ OtherTypes /\ SigPart /\ Sound(slp)
  BY InvParts, InvGivesThreadPart
<1>2. /\ pc[t] = "sync" /\ ThreadInv(d, "sync", k) /\ k \in CallSet /\ ~ d.sleeping
      /\ UNCHANGED <<api, kind, call, counts>> /\ UNCHANGED <<p_lock, p_slock, td_sig, sigto>>
      /\ pc' = [pc EXCEPT ![t] = "return"]
      /\ slp' = IF k.catch THEN ClearFlags(slp, t, {SINTR, SLEEPABORT}) ELSE slp
      /\ rval' = [rval EXCEPT ![t] = v]
  BY <1>1 DEF Synced, ThreadPart, TInv, sigVars, locks, TD_IS_SLEEPING, sleepq_check_signals, Goto
<1>3. OtherTypes'
  BY <1>1 DEF OtherTypes, Synced, sigVars, counts, locks
<1>4. v \in Result
  BY <1>1 DEF ThreadPart, Result, SignalValue
<1>5. d \in ThreadState
  BY <1>1, NoChange
<1> HIDE DEF d, k, v
<1>6. d.flags \in SUBSET Flag
  BY <1>5, ThreadFields
<1>7. PICK e : /\ Changes(slp, slp', t, e)
               /\ Same(d, e, IF k.catch THEN d.flags \ {SINTR, SLEEPABORT} ELSE d.flags,
                       d.callout, d.sleeping)
  <2>1. CASE k.catch
    <3>1. {SINTR, SLEEPABORT} \in SUBSET Flag
      BY DEF Flag
    <3>2. PICK e : /\ Changes(slp, ClearFlags(slp, t, {SINTR, SLEEPABORT}), t, e)
                   /\ Same(d, e, d.flags \ {SINTR, SLEEPABORT}, d.callout, d.sleeping)
      BY <1>1, <3>1, LocalFields DEF d
    <3> QED
      BY <1>2, <2>1, <3>2
  <2>2. CASE ~ k.catch
    <3>1. Changes(slp, slp, t, d)
      BY <1>1, NoChange DEF d
    <3>2. Same(d, d, d.flags, d.callout, d.sleeping)
      BY <1>5 DEF Same
    <3> QED
      BY <1>2, <2>2, <3>1, <3>2
  <2> QED
    BY <2>1, <2>2
<1>8. e.flags \subseteq {NEEDSIGCHK} /\ (NEEDSIGCHK \in e.flags <=> NEEDSIGCHK \in d.flags)
  BY <1>2, <1>6, <1>7
  DEF Same, ThreadInv, Timed, Flag, Before, TIMEOUT, TIMOFAIL, SINTR, SLEEPABORT, NEEDSIGCHK
<1>9. e.wchan = NULL /\ ~ e.sleeping /\ e.callout = "idle"
  BY <1>2, <1>7 DEF Same, ThreadInv
<1>10. SINTR \notin e.flags /\ SLEEPABORT \notin e.flags /\ TIMEOUT \notin e.flags /\ TIMOFAIL \notin e.flags
  BY <1>8 DEF TIMEOUT, TIMOFAIL, SINTR, SLEEPABORT, NEEDSIGCHK
<1>11. ThreadInv(e, "return", k)
  BY <1>8, <1>9, <1>10 DEF ThreadInv, Before
<1>12. Goes(slp, t, slp.td[t], e, "return", v)
  BY <1>2, <1>4, <1>7, <1>8, <1>11 DEF Goes, k, d
<1>13. /\ Neutral(t, e) /\ pc'[t] = "return" /\ slp'.td[t] = e
       /\ NEEDSIGCHK \in e.flags <=> NEEDSIGCHK \in slp.td[t].flags
       /\ \A u \in Thread : u # t => slp'.td[u] = slp.td[u] /\ pc'[u] = pc[u] /\ rval'[u] = rval[u]
  BY <1>1, <1>2, <1>9, <1>12, GoesIsNeutral
<1>14. SigInv' /\ NoSleepOnSignal'
  BY <1>1, <1>2, <1>9, <1>13, SignalsKept DEF SigPart
<1> QED
  BY <1>3, <1>13, <1>14 DEF Keeps, SigPart

-----------------------------------------------------------------------------
(***************************************************************************)
(* The callout and the signals.                                            *)
(***************************************************************************)
\* A change that others make to thread t, which does not run.
LEMMA ChangeIsNeutral ==
  ASSUME ThreadPart, NEW t \in Thread, NEW e, Changes(slp, slp', t, e),
         e.wchan \in {slp.td[t].wchan, NULL}, ThreadInv(e, pc[t], call[t]),
         UNCHANGED <<api, kind, pc, call, rval, counts>>
  PROVE  /\ Neutral(t, e) /\ slp'.td[t] = e
         /\ \A u \in Thread : u # t => slp'.td[u] = slp.td[u]
<1>1. Step(t, e)
  <2>1. pc' = [pc EXCEPT ![t] = pc[t]] /\ pc[t] \in Places
    BY DEF ThreadPart
  <2>2. call' = [call EXCEPT ![t] = call[t]] /\ call[t] \in CallSet /\ call'[t] = call[t]
    BY DEF ThreadPart
  <2>3. rval' = [rval EXCEPT ![t] = rval[t]] /\ rval[t] \in Result
    BY DEF ThreadPart
  <2> QED
    BY <2>1, <2>2, <2>3 DEF Step
<1> QED
  BY <1>1, StepFields DEF Neutral, counts

LEMMA CalloutFiresKeeps ==
  ASSUME SynchInv, NEW t \in Thread, CalloutFires(t)
  PROVE  Keeps
<1> DEFINE d == slp.td[t]
<1>1. ThreadPart /\ OtherTypes /\ SigPart /\ Sound(slp)
  BY InvParts, InvGivesThreadPart
<1>2. /\ d.callout = "pending" /\ slp' = [slp EXCEPT !.td[t].callout = "running"]
      /\ UNCHANGED <<api, kind, pc, call, rval, counts>>
      /\ UNCHANGED <<p_lock, p_slock, td_sig, sigto>>
  BY DEF CalloutFires, locks, sigVars
<1>3. PICK e : Changes(slp, slp', t, e) /\ Same(d, e, d.flags, "running", d.sleeping)
  BY <1>1, <1>2, LocalFields
<1>4. ThreadInv(d, pc[t], call[t]) /\ pc[t] \in Places
  BY <1>1 DEF ThreadPart, TInv
<1>5. ThreadInv(e, pc[t], call[t])
  BY <1>2, <1>3, <1>4 DEF ThreadInv, Same, TimerInv, Timed, Before, Places, InSleep
<1>6. /\ Neutral(t, e) /\ slp'.td[t] = e
      /\ \A u \in Thread : u # t => slp'.td[u] = slp.td[u]
  BY <1>1, <1>2, <1>3, <1>5, ChangeIsNeutral DEF Same
<1>7. SigInv' /\ NoSleepOnSignal'
  BY <1>1, <1>2, <1>3, <1>6, SignalsKept DEF SigPart, Same
<1>8. OtherTypes'
  BY <1>1 DEF OtherTypes, CalloutFires, sigVars, counts, locks
<1> QED
  BY <1>6, <1>7, <1>8 DEF Keeps, SigPart

LEMMA CalloutRunsKeeps ==
  ASSUME SynchInv, NEW t \in Thread, CalloutRuns(t)
  PROVE  Keeps
<1> DEFINE d == slp.td[t]
<1>1. ThreadPart /\ OtherTypes /\ SigPart /\ Sound(slp)
  BY InvParts, InvGivesThreadPart
<1>2. /\ d.callout = "running" /\ slp' = sleepq_timeout(slp, t)
      /\ UNCHANGED <<api, kind, pc, call, rval, counts>>
      /\ UNCHANGED <<p_lock, p_slock, td_sig, sigto>>
  BY DEF CalloutRuns, locks, sigVars
<1>3. PICK e : /\ Changes(slp, slp', t, e)
               /\ IF d.wchan # NULL
                  THEN IF d.sleeping
                       THEN Off(d, e, (d.flags \cup {TIMEOUT}) \ {SINTR}, "idle")
                       ELSE Same(d, e, d.flags \cup {TIMEOUT}, "idle", d.sleeping)
                  ELSE IF TIMEOUT \in d.flags
                  THEN Same(d, e, d.flags \ {TIMEOUT}, "idle", FALSE)
                  ELSE Same(d, e, d.flags \cup {TIMOFAIL}, "idle", d.sleeping)
  BY <1>1, <1>2, TimeoutFields
<1>4. ThreadInv(d, pc[t], call[t]) /\ pc[t] \in Places
  BY <1>1 DEF ThreadPart, TInv
<1>5. call[t] \in CallSet /\ d \in ThreadState
  BY <1>1, NoChange DEF ThreadPart
<1>6. call[t].timo \in BOOLEAN /\ call[t].catch \in BOOLEAN /\ d.sleeping \in BOOLEAN
  BY <1>5, ThreadFields DEF CallSet
<1> DEFINE k == call[t]  p == pc[t]
<1>7. ThreadInv(d, p, k) /\ p \in Places /\ k.timo \in BOOLEAN
  BY <1>4, <1>6
<1> HIDE DEF d, k, p
<1>8. ThreadInv(e, p, k)
  <2>1. CASE d.wchan # NULL /\ d.sleeping
    BY <1>2, <1>3, <1>7, <2>1
    DEF ThreadInv, Off, TimerInv, Timed, Before, Places, InSleep, TIMEOUT, TIMOFAIL, SINTR, SLEEPABORT
  <2>2. CASE d.wchan # NULL /\ ~ d.sleeping
    BY <1>2, <1>3, <1>7, <2>2
    DEF ThreadInv, Same, TimerInv, Timed, Before, Places, InSleep, TIMEOUT, TIMOFAIL, SINTR, SLEEPABORT
  <2>3. CASE d.wchan = NULL /\ TIMEOUT \in d.flags
    BY <1>2, <1>3, <1>7, <2>3
    DEF ThreadInv, Same, TimerInv, Timed, Before, Places, InSleep, TIMEOUT, TIMOFAIL, SINTR, SLEEPABORT
  <2>4. CASE d.wchan = NULL /\ TIMEOUT \notin d.flags
    BY <1>2, <1>3, <1>7, <2>4
    DEF ThreadInv, Same, TimerInv, Timed, Before, Places, InSleep, TIMEOUT, TIMOFAIL, SINTR, SLEEPABORT
  <2> QED
    BY <1>6, <2>1, <2>2, <2>3, <2>4 DEF d
<1>9. /\ e.wchan \in {d.wchan, NULL}
      /\ NEEDSIGCHK \in d.flags => NEEDSIGCHK \in e.flags
      /\ e.sleeping /\ SINTR \in e.flags => d.sleeping /\ SINTR \in d.flags
  BY <1>3 DEF Off, Same, NEEDSIGCHK, SINTR, TIMEOUT, TIMOFAIL
<1>10. /\ Neutral(t, e) /\ slp'.td[t] = e
       /\ \A u \in Thread : u # t => slp'.td[u] = slp.td[u]
  BY <1>1, <1>2, <1>3, <1>8, <1>9, ChangeIsNeutral DEF d, p, k
<1>11. SigInv' /\ NoSleepOnSignal'
  BY <1>1, <1>2, <1>9, <1>10, SignalsKept DEF SigPart, d
<1>12. OtherTypes'
  BY <1>1 DEF OtherTypes, CalloutRuns, sigVars, counts, locks
<1> QED
  BY <1>10, <1>11, <1>12 DEF Keeps, SigPart

LEMMA PostSignalKeeps ==
  ASSUME SynchInv, NEW t \in Thread, NEW cont \in BOOLEAN, PostSignal(t, cont)
  PROVE  Keeps
<1> DEFINE d == slp.td[t]
<1>1. ThreadPart /\ OtherTypes /\ SigPart /\ Sound(slp)
  BY InvParts, InvGivesThreadPart
<1>2. /\ sigto = NULL /\ p_lock = NULL /\ p_lock' = "signal"
      /\ sigto' = [td |-> t, cont |-> cont]
      /\ td_sig' = [td_sig EXCEPT ![t] = IF cont THEN "cont" ELSE "caught"]
      /\ slp' = SetFlags(slp, t, {NEEDSIGCHK})
      /\ UNCHANGED <<api, kind, pc, call, rval, counts>> /\ UNCHANGED p_slock
  BY DEF PostSignal
<1>3. {NEEDSIGCHK} \in SUBSET Flag
  BY DEF Flag
<1>4. PICK e : /\ Changes(slp, slp', t, e)
               /\ Same(d, e, d.flags \cup {NEEDSIGCHK}, d.callout, d.sleeping)
  BY <1>1, <1>2, <1>3, LocalFields
<1>5. ThreadInv(d, pc[t], call[t])
  BY <1>1 DEF ThreadPart, TInv
<1>6. ThreadInv(e, pc[t], call[t])
  BY <1>4, <1>5
  DEF ThreadInv, Same, TimerInv, Timed, NEEDSIGCHK, TIMEOUT, TIMOFAIL, SINTR, SLEEPABORT
<1>7. /\ Neutral(t, e) /\ slp'.td[t] = e
      /\ \A u \in Thread : u # t => slp'.td[u] = slp.td[u]
  BY <1>1, <1>2, <1>4, <1>6, ChangeIsNeutral DEF Same
<1>8. /\ sigto' \in [td : Thread, cont : BOOLEAN] /\ sigto'.td = t
      /\ td_sig'[t] # "none" /\ \A u \in Thread : u # t => td_sig'[u] = td_sig[u]
      /\ td_sig' \in [Thread -> {"none", "cont", "caught"}]
  BY <1>1, <1>2 DEF OtherTypes
<1>9. \A u \in Thread : pc[u] # "cursig" /\ (pc[u] = "recheck" => (rval[u] = "0" => td_sig[u] = "none"))
  BY <1>1, <1>2, SleepQueueAssumption DEF SigPart, SigInv
<1>10. NEEDSIGCHK \in e.flags
  BY <1>4 DEF Same
<1>11. sigto' # NULL
  BY <1>8, KernSynchAssumption
<1>12. SigInv'
  BY <1>1, <1>2, <1>7, <1>8, <1>9, <1>10, <1>11 DEF SigPart, SigInv
<1>13. \A u \in Thread : td_sig'[u] # "none" /\ slp'.td[u].sleeping /\ SINTR \in slp'.td[u].flags =>
          u = t
  BY <1>1, <1>2, <1>7, <1>8 DEF SigPart, NoSleepOnSignal, TD_IS_SLEEPING, HasFlag
<1>14. NoSleepOnSignal'
  BY <1>8, <1>11, <1>13 DEF NoSleepOnSignal, TD_IS_SLEEPING, HasFlag
<1>15. OtherTypes'
  BY <1>1, <1>8 DEF OtherTypes, PostSignal, counts
<1> QED
  BY <1>7, <1>12, <1>14, <1>15 DEF Keeps, SigPart

LEMMA tdsigwakeupKeeps ==
  ASSUME SynchInv, tdsigwakeup
  PROVE  Keeps
<1> DEFINE t == sigto.td  d == slp.td[t]
           interruptible == d.wchan # NULL /\ SINTR \in d.flags
<1>1. ThreadPart /\ OtherTypes /\ SigPart /\ Sound(slp)
  BY InvParts, InvGivesThreadPart
<1>2. /\ sigto # NULL /\ p_slock = NULL /\ p_lock' = NULL /\ sigto' = NULL
      /\ slp' = IF interruptible /\ ~ sigto.cont THEN sleepq_abort(slp, t) ELSE slp
      /\ td_sig' = [td_sig EXCEPT ![t] = IF interruptible /\ sigto.cont THEN "none" ELSE @]
      /\ UNCHANGED <<api, kind, pc, call, rval, counts>> /\ UNCHANGED p_slock
  BY DEF tdsigwakeup, TD_ON_SLEEPQ, HasFlag
<1>3. t \in Thread /\ sigto.cont \in BOOLEAN
  BY <1>1, <1>2 DEF OtherTypes
<1>4. PICK e : /\ Changes(slp, slp', t, e)
               /\ IF interruptible /\ ~ sigto.cont /\ TIMEOUT \notin d.flags
                  THEN IF d.sleeping
                       THEN Off(d, e, (d.flags \cup {SLEEPABORT}) \ {SINTR}, d.callout)
                       ELSE Same(d, e, d.flags \cup {SLEEPABORT}, d.callout, d.sleeping)
                  ELSE e = d
  <2>1. CASE interruptible /\ ~ sigto.cont
    <3>1. slp' = sleepq_abort(slp, t) /\ slp.td[t].wchan # NULL
      BY <1>2, <2>1
    <3>2. PICK e : /\ Changes(slp, sleepq_abort(slp, t), t, e)
                   /\ IF TIMEOUT \in d.flags THEN e = d
                      ELSE IF d.sleeping
                      THEN Off(d, e, (d.flags \cup {SLEEPABORT}) \ {SINTR}, d.callout)
                      ELSE Same(d, e, d.flags \cup {SLEEPABORT}, d.callout, d.sleeping)
      BY <1>1, <1>3, <3>1, AbortFields
    <3> QED
      BY <2>1, <3>1, <3>2
  <2>2. CASE ~ (interruptible /\ ~ sigto.cont)
    <3>1. Changes(slp, slp', t, d)
      BY <1>1, <1>2, <1>3, <2>2, NoChange
    <3> QED
      BY <2>2, <3>1
  <2> QED
    BY <2>1, <2>2
<1>5. ThreadInv(d, pc[t], call[t]) /\ pc[t] \in Places
  BY <1>1, <1>3 DEF ThreadPart, TInv
<1>6. d \in ThreadState /\ d.sleeping \in BOOLEAN
  BY <1>1, <1>3, NoChange, ThreadFields
<1>7. /\ \A u \in Thread : u # t => td_sig'[u] = td_sig[u]
      /\ td_sig'[t] = IF interruptible /\ sigto.cont THEN "none" ELSE td_sig[t]
      /\ td_sig' \in [Thread -> {"none", "cont", "caught"}]
  BY <1>1, <1>2, <1>3 DEF OtherTypes
<1> DEFINE k == call[t]  p == pc[t]
<1>8. ThreadInv(d, p, k) /\ p \in Places
  BY <1>5
<1> HIDE DEF d, t, k, p
<1>9. ThreadInv(e, p, k)
  <2>1. CASE interruptible /\ ~ sigto.cont /\ TIMEOUT \notin d.flags /\ d.sleeping
    BY <1>4, <1>8, <2>1
    DEF ThreadInv, Off, TimerInv, Timed, Before, Places, InSleep, TIMEOUT, TIMOFAIL, SINTR, SLEEPABORT
  <2>2. CASE interruptible /\ ~ sigto.cont /\ TIMEOUT \notin d.flags /\ ~ d.sleeping
    BY <1>4, <1>8, <2>2
    DEF ThreadInv, Same, TimerInv, Timed, Before, Places, InSleep, TIMEOUT, TIMOFAIL, SINTR, SLEEPABORT
  <2>3. CASE ~ (interruptible /\ ~ sigto.cont /\ TIMEOUT \notin d.flags)
    BY <1>4, <1>8, <2>3
  <2> QED
    BY <1>6, <2>1, <2>2, <2>3
<1>10. e.wchan \in {d.wchan, NULL} /\ (NEEDSIGCHK \in d.flags => NEEDSIGCHK \in e.flags)
  BY <1>4, <1>6 DEF Off, Same, NEEDSIGCHK, SINTR, SLEEPABORT
<1>11. e.sleeping /\ SINTR \in e.flags => td_sig'[t] = "none"
  <2>1. ASSUME e.sleeping, SINTR \in e.flags
        PROVE  interruptible /\ sigto.cont
    <3>1. d.sleeping /\ SINTR \in d.flags
      BY <1>4, <1>6, <2>1 DEF Off, Same, SINTR, SLEEPABORT
    <3>2. d.wchan # NULL
      BY <1>8, <3>1 DEF ThreadInv
    <3>3. p = "asleep"
      BY <1>8, <3>1, <3>2 DEF ThreadInv, Before, Places, InSleep
    <3>4. TIMEOUT \notin d.flags
      BY <1>8, <3>1, <3>3 DEF ThreadInv
    <3> QED
      BY <1>3, <1>4, <2>1, <3>1, <3>2, <3>4 DEF Off, SINTR, SLEEPABORT
  <2> QED
    BY <1>7, <2>1
<1>12. /\ Neutral(t, e) /\ slp'.td[t] = e
       /\ \A u \in Thread : u # t => slp'.td[u] = slp.td[u]
  BY <1>1, <1>2, <1>3, <1>4, <1>9, <1>10, ChangeIsNeutral DEF d, k, p
<1>13. \A u \in Thread : pc[u] # "recheck" /\ pc[u] # "cursig"
  BY <1>1, <1>2, SleepQueueAssumption, KernSynchAssumption DEF SigPart, SigInv
<1>14. SigInv'
  <2>1. NULL # "signal"
    BY KernSynchAssumption
  <2>2. \A u \in Thread : td_sig'[u] # "none" => NEEDSIGCHK \in slp'.td[u].flags
    BY <1>1, <1>7, <1>10, <1>12 DEF SigPart, SigInv, d
  <2> QED
    BY <1>2, <1>13, <2>1, <2>2 DEF SigInv
<1>15. NoSleepOnSignal'
  <2>1. \A u \in Thread : u # t => ~ (slp.td[u].sleeping /\ SINTR \in slp.td[u].flags /\ td_sig[u] # "none")
    BY <1>1 DEF SigPart, NoSleepOnSignal, TD_IS_SLEEPING, HasFlag, t
  <2> QED
    BY <1>7, <1>11, <1>12, <2>1 DEF NoSleepOnSignal, TD_IS_SLEEPING, HasFlag
<1>16. OtherTypes'
  BY <1>1, <1>7 DEF OtherTypes, tdsigwakeup, counts
<1> QED
  BY <1>3, <1>12, <1>14, <1>15, <1>16 DEF Keeps, SigPart

LEMMA astKeeps ==
  ASSUME SynchInv, NEW t \in Thread, ast(t)
  PROVE  Keeps
<1> DEFINE d == slp.td[t]
<1>1. ThreadPart /\ OtherTypes /\ SigPart /\ Sound(slp)
  BY InvParts, InvGivesThreadPart
<1>2. /\ pc[t] = "idle" /\ p_lock = NULL /\ td_sig' = [td_sig EXCEPT ![t] = "none"]
      /\ slp' = ClearFlags(slp, t, {NEEDSIGCHK})
      /\ UNCHANGED <<api, kind, pc, call, rval, counts>> /\ UNCHANGED <<p_lock, p_slock, sigto>>
  BY DEF ast, locks
<1>3. {NEEDSIGCHK} \in SUBSET Flag
  BY DEF Flag
<1>4. PICK e : /\ Changes(slp, slp', t, e)
               /\ Same(d, e, d.flags \ {NEEDSIGCHK}, d.callout, d.sleeping)
  BY <1>1, <1>2, <1>3, LocalFields
<1>5. ThreadInv(d, pc[t], call[t])
  BY <1>1 DEF ThreadPart, TInv
<1>6. ThreadInv(e, pc[t], call[t])
  BY <1>2, <1>4, <1>5
  DEF ThreadInv, Same, Before, NEEDSIGCHK, TIMEOUT, TIMOFAIL, SINTR, SLEEPABORT
<1>7. /\ Neutral(t, e) /\ slp'.td[t] = e
      /\ \A u \in Thread : u # t => slp'.td[u] = slp.td[u]
  BY <1>1, <1>2, <1>4, <1>6, ChangeIsNeutral DEF Same
<1>8. /\ td_sig'[t] = "none" /\ \A u \in Thread : u # t => td_sig'[u] = td_sig[u]
      /\ td_sig' \in [Thread -> {"none", "cont", "caught"}]
  BY <1>1, <1>2 DEF OtherTypes
<1>9. SigInv'
  BY <1>1, <1>2, <1>7, <1>8 DEF SigPart, SigInv
<1>10. NoSleepOnSignal'
  BY <1>1, <1>2, <1>7, <1>8 DEF SigPart, NoSleepOnSignal, TD_IS_SLEEPING, HasFlag
<1>11. OtherTypes'
  BY <1>1, <1>8 DEF OtherTypes, ast, counts, locks
<1> QED
  BY <1>7, <1>9, <1>10, <1>11 DEF Keeps, SigPart

\* A step that keeps these keeps the invariant.
LEMMA KeepsInv ==
  ASSUME SynchInv, Keeps
  PROVE  ThreadPart' /\ OtherTypes' /\ SigPart' /\ CountInv'
<1>1. ThreadPart /\ OtherTypes /\ CountInv
  BY InvParts
<1>2a. PICK t \in Thread : \E e : Neutral(t, e)
  BY DEF Keeps
<1>2. PICK e : Neutral(t, e)
  BY <1>2a
<1>3. ThreadPart'
  BY <1>1, <1>2, StepKeepsThreads DEF Neutral
<1>4. cv_waiters \in Int /\ value \in Int
  BY <1>1, KernSynchAssumption DEF OtherTypes
<1>5. CountInv'
  BY <1>1, <1>2, <1>4, NeutralKeepsCounts
<1> QED
  BY <1>3, <1>5 DEF Keeps

-----------------------------------------------------------------------------
(***************************************************************************)
(* The beginning and the end of a wait.                                    *)
(***************************************************************************)
LEMMA ChannelIs == wchan \in Wchan /\ wchan # NULL
BY KernSynchAssumption, SleepQueueAssumption DEF wchan

LEMMA EnterEffect ==
  ASSUME ThreadPart, NEW t \in Thread, NEW c \in CallSet, pc[t] \in {"idle", "return"}, Enter(t, c)
  PROVE  \E e, p : /\ Changes(slp, slp', t, e) /\ e.wchan = wchan
                   /\ pc' = [pc EXCEPT ![t] = p] /\ p \in {"added", "unlocking"}
                   /\ call' = [call EXCEPT ![t] = c]
                   /\ ThreadInv(e, p, c)
                   /\ NEEDSIGCHK \in e.flags <=> NEEDSIGCHK \in slp.td[t].flags
<1> DEFINE d == slp.td[t]
           s == sleepq_add(slp, t, wchan, c.catch)
           a == Added(d, wchan, c.catch)
<1>1. Sound(slp) /\ d \in ThreadState
  BY NoChange DEF ThreadPart
<1>2. d.callout = "idle" /\ d.flags \subseteq {NEEDSIGCHK} /\ d.wchan = NULL /\ ~ d.sleeping
  BY DEF ThreadPart, TInv, ThreadInv
<1>3. c.catch \in BOOLEAN /\ c.timo \in BOOLEAN
  BY DEF CallSet
<1>4. Changes(slp, s, t, a)
  BY <1>1, <1>2, <1>3, AddEffect, ChannelIs
<1>5. /\ a \in ThreadState /\ a.wchan = wchan
      /\ a.flags = IF c.catch THEN (d.flags \cup {SINTR}) \ {SLEEPABORT} ELSE d.flags
      /\ a.callout = d.callout /\ a.sleeping = d.sleeping
  <2>1. d \in ThreadState
    BY <1>1
  <2>2. c.catch \in BOOLEAN /\ wchan \in Wchan
    BY <1>3, ChannelIs
  <2> HIDE DEF d
  <2>3. \A w \in Wchan, b \in BOOLEAN :
          /\ Added(d, w, b) \in ThreadState
          /\ Added(d, w, b).sq = FALSE /\ Added(d, w, b).wchan = w
          /\ Added(d, w, b).flags = IF b THEN (d.flags \cup {SINTR}) \ {SLEEPABORT} ELSE d.flags
          /\ Added(d, w, b).callout = d.callout
          /\ Added(d, w, b).sleeping = d.sleeping
    BY <2>1, AddedFields, Zenon
  <2> QED
    BY <2>2, <2>3, Zenon
<1>6. slp' = IF c.timo THEN [s EXCEPT !.td[t].callout = "pending"] ELSE s
  BY DEF Enter, sleepq_set_timeout
<1>7. PICK p : pc' = [pc EXCEPT ![t] = p] /\ p \in {"added", "unlocking"}
  BY DEF Enter, Goto
<1>8. call' = [call EXCEPT ![t] = c]
  BY DEF Enter
<1> HIDE DEF s, a, d
<1>9. /\ Sound(s) /\ s.td[t] = a
      /\ \A q, e : Changes(s, q, t, e) => Changes(slp, q, t, e)
  BY <1>1, <1>4, TwoChanges
<1>10. PICK e : /\ Changes(slp, slp', t, e)
                /\ Same(a, e, a.flags, IF c.timo THEN "pending" ELSE a.callout, a.sleeping)
  <2>1. CASE c.timo
    <3>1. PICK e : /\ Changes(s, [s EXCEPT !.td[t].callout = "pending"], t, e)
                   /\ Same(a, e, a.flags, "pending", a.sleeping)
      BY <1>9, LocalFields
    <3> QED
      BY <1>6, <1>9, <2>1, <3>1
  <2>2. CASE ~ c.timo
    <3>1. Same(a, a, a.flags, a.callout, a.sleeping)
      BY <1>5 DEF Same
    <3> QED
      BY <1>4, <1>6, <2>2, <3>1
  <2> QED
    BY <1>3, <2>1, <2>2
<1>11. /\ e.wchan = wchan /\ ~ e.sleeping
       /\ e.callout = IF c.timo THEN "pending" ELSE "idle"
       /\ e.flags = a.flags
  BY <1>2, <1>5, <1>10 DEF Same
<1>12. /\ TIMEOUT \notin e.flags /\ TIMOFAIL \notin e.flags /\ SLEEPABORT \notin e.flags
       /\ SINTR \in e.flags => c.catch
       /\ NEEDSIGCHK \in e.flags <=> NEEDSIGCHK \in d.flags
  BY <1>2, <1>3, <1>5, <1>11 DEF TIMEOUT, TIMOFAIL, SLEEPABORT, SINTR, NEEDSIGCHK
<1>13. ThreadInv(e, p, c)
  BY <1>3, <1>7, <1>11, <1>12, ChannelIs DEF ThreadInv, TimerInv, Timed, Before
<1> QED
  BY <1>7, <1>8, <1>10, <1>11, <1>12, <1>13 DEF d

\* One thread more on the queue, with no unit to take.
LEMMA EnterCounts ==
  ASSUME ThreadPart, OtherTypes, CountInv, NEW t \in Thread, NEW c \in CallSet,
         pc[t] \in {"idle", "return"}, Enter(t, c), value = 0, value' = value, api' = api,
         NEW e, Step(t, e), e.wchan = wchan, pc'[t] # "idle",
         sema_waiters' = sema_waiters + (IF api = "sema" /\ pc[t] = "idle" THEN 1 ELSE 0)
  PROVE  CountInv' /\ cv_waiters' \in (- INT_MAX - 1) .. INT_MAX
<1>1. /\ slp'.td[t] = e
      /\ \A u \in Thread : u # t => slp'.td[u] = slp.td[u] /\ pc'[u] = pc[u]
  BY StepFields
<1>2. slp.td[t].wchan = NULL
  BY DEF ThreadPart, TInv, ThreadInv
<1>3. Queued' = Queued \cup {t} /\ t \notin Queued
  BY <1>1, <1>2, ChannelIs DEF Queued
<1>4. Busy' = Busy \cup {t} /\ (t \in Busy <=> pc[t] # "idle")
  BY <1>1 DEF Busy
<1>5. /\ IsFiniteSet(Queued) /\ IsFiniteSet(Busy) /\ Cardinality(Awaiting') \in Nat
      /\ Cardinality(Queued) \in Nat /\ Cardinality(Busy) \in Nat
  BY CountsAreNat
<1>6. Cardinality(Queued') = Cardinality(Queued) + 1
  BY <1>3, <1>5, FS_AddElement
<1>7. Cardinality(Busy') = Cardinality(Busy) + (IF pc[t] = "idle" THEN 1 ELSE 0)
  <2>1. CASE pc[t] = "idle"
    <3>1. Cardinality(Busy') = Cardinality(Busy) + 1
      BY <1>4, <1>5, <2>1, FS_AddElement
    <3> QED
      BY <2>1, <3>1
  <2>2. CASE pc[t] # "idle"
    <3>1. Busy' = Busy
      BY <1>4, <2>2
    <3> QED
      BY <1>5, <2>2, <3>1
  <2> QED
    BY <2>1, <2>2
<1>8. cv_waiters \in Int /\ INT_MAX \in Nat /\ cv_waiters \in (- INT_MAX - 1) .. INT_MAX
  BY KernSynchAssumption DEF OtherTypes
<1>9. IF api = "sleep" THEN cv_waiters' = cv_waiters
      ELSE (MayWrap \/ cv_waiters < INT_MAX) /\ cv_waiters' = Incremented(cv_waiters)
  BY DEF Enter
<1>10. cv_waiters' \in (- INT_MAX - 1) .. INT_MAX
  BY <1>8, <1>9 DEF Incremented
<1>11. ~ MayWrap /\ api # "sleep" => Cardinality(Queued') <= cv_waiters'
  <2> SUFFICES ASSUME ~ MayWrap, api # "sleep" PROVE Cardinality(Queued') <= cv_waiters'
    OBVIOUS
  <2>1. Cardinality(Queued) <= cv_waiters /\ cv_waiters < INT_MAX
    BY <1>9 DEF CountInv
  <2>2. cv_waiters' = cv_waiters + 1
    BY <1>8, <1>9, <2>1 DEF Incremented
  <2> QED
    BY <1>5, <1>6, <1>8, <2>1, <2>2
<1>12. sema_waiters' = IF api' = "sema" THEN Cardinality(Busy') ELSE 0
  <2>1. CASE api = "sema"
    BY <1>5, <1>7, <2>1 DEF CountInv
  <2>2. CASE api # "sema"
    BY <2>2 DEF CountInv
  <2> QED
    BY <2>1, <2>2
<1>13. value' <= Cardinality(Awaiting')
  BY <1>5
<1> QED
  BY <1>10, <1>11, <1>12, <1>13 DEF CountInv

\* What is shared by the two places that put a thread on the queue.
LEMMA EnterKeeps ==
  ASSUME SynchInv, NEW t \in Thread, NEW c \in CallSet,
         pc[t] \in {"idle", "return"}, Enter(t, c), value = 0, value' = value,
         UNCHANGED <<api, kind, p_lock, p_slock, sigVars>>,
         NEW v \in Result, rval' = [rval EXCEPT ![t] = v],
         sema_waiters' = sema_waiters + (IF api = "sema" /\ pc[t] = "idle" THEN 1 ELSE 0)
  PROVE  ThreadPart' /\ OtherTypes' /\ SigPart' /\ CountInv'
<1>1. ThreadPart /\ OtherTypes /\ SigPart /\ CountInv /\ Sound(slp)
  BY InvParts, InvGivesThreadPart
<1>2. PICK e, p : /\ Changes(slp, slp', t, e) /\ e.wchan = wchan
                  /\ pc' = [pc EXCEPT ![t] = p] /\ p \in {"added", "unlocking"}
                  /\ call' = [call EXCEPT ![t] = c]
                  /\ ThreadInv(e, p, c)
                  /\ NEEDSIGCHK \in e.flags <=> NEEDSIGCHK \in slp.td[t].flags
  BY <1>1, EnterEffect
<1>3. pc'[t] = p /\ call'[t] = c
  BY <1>1, <1>2 DEF ThreadPart
<1>4. Step(t, e)
  BY <1>2, <1>3 DEF Step, Places, InSleep
<1>5. ThreadPart'
  BY <1>1, <1>4, StepKeepsThreads
<1>6. CountInv' /\ cv_waiters' \in (- INT_MAX - 1) .. INT_MAX
  BY <1>1, <1>2, <1>3, <1>4, EnterCounts
<1>7. /\ slp'.td[t] = e
      /\ \A u \in Thread : u # t => slp'.td[u] = slp.td[u] /\ pc'[u] = pc[u] /\ rval'[u] = rval[u]
  BY <1>1, <1>4, StepFields
<1>8. ~ e.sleeping
  BY <1>2 DEF ThreadInv, Before
<1>9. SigInv' /\ NoSleepOnSignal'
  BY <1>1, <1>2, <1>3, <1>7, <1>8, SignalsKept DEF SigPart, sigVars
<1>10. /\ lock' \in Thread \cup {NULL} /\ sc_lock' \in Thread \cup {NULL}
  BY <1>1 DEF Enter, OtherTypes
<1>11. OtherTypes'
  BY <1>1, <1>6, <1>10 DEF OtherTypes, sigVars
<1> QED
  BY <1>5, <1>6, <1>9, <1>11 DEF SigPart

LEMMA StartWaitKeeps ==
  ASSUME SynchInv, NEW t \in Thread, NEW c \in Calls, StartWait(t, c)
  PROVE  ThreadPart' /\ OtherTypes' /\ SigPart' /\ CountInv'
<1>1. ThreadPart /\ OtherTypes /\ SigPart /\ CountInv /\ Sound(slp)
  BY InvParts, InvGivesThreadPart
<1>2. c \in CallSet
  BY DEF Calls, CallSet
<1>3. value \in Nat /\ value \in 0 .. MaxValue /\ MaxValue \in Nat
  BY <1>1, KernSynchAssumption DEF OtherTypes
<1>4. CASE value > 0
  <2>1. /\ value' = value - 1 /\ UNCHANGED <<slp, pc, call, rval, api, kind, cv_waiters, sema_waiters>>
        /\ UNCHANGED <<p_lock, p_slock, td_sig, sigto, lock, sc_lock>>
    BY <1>4 DEF StartWait, sigVars
  <2>2. ThreadPart'
    BY <1>1, <2>1 DEF ThreadPart, TInv
  <2>3. SigPart'
    BY <1>1, <2>1 DEF SigPart, SigInv, NoSleepOnSignal
  <2>4. OtherTypes'
    BY <1>1, <1>3, <1>4, <2>1 DEF OtherTypes
  <2>5. Queued' = Queued /\ Awaiting' = Awaiting /\ Busy' = Busy
    BY <2>1 DEF Queued, Awaiting, Busy
  <2>6. Cardinality(Awaiting) \in Nat
    BY CountsAreNat
  <2>7. CountInv'
    BY <1>1, <1>3, <2>1, <2>5, <2>6 DEF CountInv
  <2> QED
    BY <2>2, <2>3, <2>4, <2>7
<1>5. CASE ~ (value > 0)
  <2>1. /\ pc[t] = "idle" /\ Enter(t, c) /\ value' = value
        /\ sema_waiters' = sema_waiters + (IF api = "sema" THEN 1 ELSE 0)
        /\ UNCHANGED <<api, kind, p_lock, p_slock, rval, sigVars>>
    BY <1>5 DEF StartWait
  <2>2. value = 0
    BY <1>3, <1>5
  <2>3. rval[t] \in Result /\ rval' = [rval EXCEPT ![t] = rval[t]]
    BY <1>1, <2>1 DEF ThreadPart
  <2>4. sema_waiters' = sema_waiters + (IF api = "sema" /\ pc[t] = "idle" THEN 1 ELSE 0)
    BY <2>1
  <2> QED
    BY <1>2, <2>1, <2>2, <2>3, <2>4, EnterKeeps
<1> QED
  BY <1>4, <1>5

\* A wait that ends takes a unit, or there is none.
LEMMA LeaveKeeps ==
  ASSUME SynchInv, NEW t \in Thread, pc[t] = "return",
         IF value > 0 THEN value' = value - 1 ELSE value' = value,
         sema_waiters' = sema_waiters - (IF api = "sema" THEN 1 ELSE 0),
         pc' = [pc EXCEPT ![t] = "idle"], call' = [call EXCEPT ![t] = NoCall],
         rval' = [rval EXCEPT ![t] = "0"],
         UNCHANGED <<slp, lock, sc_lock, cv_waiters, api, kind, p_lock, p_slock, sigVars>>
  PROVE  ThreadPart' /\ OtherTypes' /\ SigPart' /\ CountInv'
<1> DEFINE d == slp.td[t]
<1>1. ThreadPart /\ OtherTypes /\ SigPart /\ CountInv /\ Sound(slp)
  BY InvParts, InvGivesThreadPart
<1>2. value \in Nat /\ value \in 0 .. MaxValue /\ MaxValue \in Nat
  BY <1>1, KernSynchAssumption DEF OtherTypes
<1>3. Changes(slp, slp', t, d)
  BY <1>1, NoChange
<1>4. ThreadInv(d, "return", call[t])
  BY <1>1 DEF ThreadPart, TInv
<1>5. d.callout = "idle" /\ d.flags \subseteq {NEEDSIGCHK} /\ d.wchan = NULL /\ ~ d.sleeping
  BY <1>4 DEF ThreadInv
<1>6. ThreadInv(d, "idle", NoCall)
  <2>1. SINTR \notin d.flags /\ SLEEPABORT \notin d.flags /\ TIMEOUT \notin d.flags
    BY <1>5 DEF SINTR, SLEEPABORT, TIMEOUT, NEEDSIGCHK
  <2> QED
    BY <1>5, <2>1 DEF ThreadInv, Before
<1>7. pc'[t] = "idle" /\ call'[t] = NoCall /\ NoCall \in CallSet
  BY <1>1 DEF ThreadPart, NoCall, CallSet
<1>8. Step(t, d)
  BY <1>3, <1>6, <1>7 DEF Step, Places, Result
<1>9. ThreadPart'
  BY <1>1, <1>8, StepKeepsThreads
<1>10. \A u \in Thread : u # t => pc'[u] = pc[u] /\ rval'[u] = rval[u]
  BY <1>1 DEF ThreadPart
<1>11. SigInv' /\ NoSleepOnSignal'
  BY <1>1, <1>7, <1>10, SignalsKept DEF SigPart, sigVars
<1>12. OtherTypes'
  BY <1>1, <1>2 DEF OtherTypes, sigVars
<1>13. Queued' = Queued
  BY DEF Queued
<1>14. Busy' = Busy \ {t} /\ t \in Busy /\ Awaiting' = Awaiting \ {t} /\ t \in Awaiting
  BY <1>5, <1>7, <1>10 DEF Busy, Awaiting
<1>15. /\ IsFiniteSet(Busy) /\ IsFiniteSet(Awaiting) /\ Cardinality(Busy) \in Nat
       /\ Cardinality(Awaiting) \in Nat /\ Cardinality(Awaiting') \in Nat
  BY CountsAreNat
<1>16. /\ Cardinality(Busy') = Cardinality(Busy) - 1
       /\ Cardinality(Awaiting') = Cardinality(Awaiting) - 1
  BY <1>14, <1>15, FS_RemoveElement
<1>17. ~ MayWrap /\ Queued' # {} => value' <= Cardinality(Awaiting')
  BY <1>1, <1>2, <1>13, <1>15, <1>16 DEF CountInv
<1>18. sema_waiters' = IF api' = "sema" THEN Cardinality(Busy') ELSE 0
  <2>1. CASE api = "sema"
    BY <1>1, <1>15, <1>16, <2>1 DEF CountInv
  <2>2. CASE api # "sema"
    BY <1>1, <2>2 DEF CountInv
  <2> QED
    BY <2>1, <2>2
<1>19. CountInv'
  BY <1>1, <1>13, <1>17, <1>18 DEF CountInv
<1> QED
  BY <1>9, <1>11, <1>12, <1>19 DEF SigPart

LEMMA ReturnFromSleepKeeps ==
  ASSUME SynchInv, NEW t \in Thread, ReturnFromSleep(t)
  PROVE  ThreadPart' /\ OtherTypes' /\ SigPart' /\ CountInv'
<1>1. ThreadPart /\ OtherTypes
  BY InvParts
<1>2. value \in Nat
  BY <1>1, KernSynchAssumption DEF OtherTypes
<1>3. /\ pc[t] = "return" /\ rval' = [rval EXCEPT ![t] = "0"]
      /\ UNCHANGED <<api, kind, p_lock, p_slock, sigVars>>
  BY DEF ReturnFromSleep
<1>4. CASE /\ ~ TakesUnit(t)
           /\ rval[t] = "0"
           /\ Enter(t, call[t])
           /\ UNCHANGED <<value, sema_waiters>>
  <2>1. value = 0
    BY <1>2, <1>4 DEF TakesUnit
  <2>2. call[t] \in CallSet /\ "0" \in Result
    BY <1>1 DEF ThreadPart, Result
  <2>3. sema_waiters' = sema_waiters + (IF api = "sema" /\ pc[t] = "idle" THEN 1 ELSE 0)
    <3>1. sema_waiters \in Int
      BY InvParts, CountsAreNat DEF CountInv
    <3> QED
      BY <1>3, <1>4, <3>1
  <2> QED
    BY <1>3, <1>4, <2>1, <2>2, <2>3, EnterKeeps
<1>5. CASE /\ TakesUnit(t)
           /\ value' = value - 1
           /\ sema_waiters' = sema_waiters - (IF api = "sema" THEN 1 ELSE 0)
           /\ Goto(t, "idle") /\ call' = [call EXCEPT ![t] = NoCall]
           /\ UNCHANGED <<slp, lock, sc_lock, cv_waiters>>
  BY <1>3, <1>5, LeaveKeeps DEF TakesUnit, Goto
<1>6. CASE /\ ~ TakesUnit(t)
           /\ rval[t] # "0"
           /\ sema_waiters' = sema_waiters - (IF api = "sema" THEN 1 ELSE 0)
           /\ Goto(t, "idle") /\ call' = [call EXCEPT ![t] = NoCall]
           /\ UNCHANGED <<slp, lock, sc_lock, value, cv_waiters>>
  BY <1>3, <1>6, LeaveKeeps DEF TakesUnit, Goto
<1> QED
  BY <1>4, <1>5, <1>6 DEF ReturnFromSleep

-----------------------------------------------------------------------------
(***************************************************************************)
(* A post.                                                                 *)
(***************************************************************************)
\* The threads of W are woken, the others stay as they are.
Wakes(W) ==
  /\ Sound(slp') /\ W \subseteq Queued
  /\ \A u \in Thread : slp'.td[u] = IF u \in W THEN Awake(slp.td[u]) ELSE slp.td[u]

\* Both ways of waking wake threads of the queue: one of them, or all.
LEMMA WakeupWakes ==
  ASSUME ThreadPart
  PROVE  /\ slp' = sleepq_broadcast(slp, wchan) => Wakes(Queued)
         /\ slp' = sleepq_signal(slp, wchan) =>
              \/ Queued = {} /\ Wakes({})
              \/ \E u \in Queued : Wakes({u})
         /\ slp' = slp => Wakes({})
<1>1. Sound(slp) /\ slp.td \in [Thread -> ThreadState]
  BY StateFields DEF ThreadPart, Sound
<1>2. wchan \in Wchan /\ wchan # NULL
  BY ChannelIs
<1>3. \A u \in Thread : slp.td[u].wchan # NULL <=> slp.td[u].wchan = wchan
  BY <1>2 DEF ThreadPart, TInv, ThreadInv
<1>4. ASSUME slp' = sleepq_broadcast(slp, wchan) PROVE Wakes(Queued)
  <2>1. /\ Sound(slp')
        /\ \A u \in Thread : slp'.td[u] = IF slp.td[u].wchan = wchan THEN Awake(slp.td[u]) ELSE slp.td[u]
    BY <1>1, <1>2, <1>4, BroadcastEffect
  <2> QED
    BY <1>3, <2>1 DEF Wakes, Queued
<1>5. slp' = slp => Wakes({})
  BY <1>1 DEF Wakes
<1>6. ASSUME slp' = sleepq_signal(slp, wchan)
      PROVE  \/ Queued = {} /\ Wakes({})
             \/ \E u \in Queued : Wakes({u})
  <2>1. \/ slp' = slp /\ \A u \in Thread : slp.td[u].wchan # wchan
        \/ \E u \in Thread : slp.td[u].wchan = wchan /\ Changes(slp, slp', u, Awake(slp.td[u]))
    BY <1>1, <1>2, <1>6, SignalEffect
  <2>2. CASE slp' = slp /\ \A u \in Thread : slp.td[u].wchan # wchan
    BY <1>3, <1>5, <2>2 DEF Queued
  <2>3. CASE \E u \in Thread : slp.td[u].wchan = wchan /\ Changes(slp, slp', u, Awake(slp.td[u]))
    <3>1. PICK u \in Thread : slp.td[u].wchan = wchan /\ Changes(slp, slp', u, Awake(slp.td[u]))
      BY <2>3
    <3>2. u \in Queued
      BY <1>2, <3>1 DEF Queued
    <3>3. \A x \in Thread : slp'.td[x] = IF x \in {u} THEN Awake(slp.td[x]) ELSE slp.td[x]
      BY <1>1, <3>1 DEF Changes
    <3>4. Wakes({u})
      BY <3>1, <3>2, <3>3 DEF Wakes, Changes
    <3> QED
      BY <3>2, <3>4
  <2> QED
    BY <2>1, <2>2, <2>3
<1> QED
  BY <1>4, <1>5, <1>6

\* A thread that is woken, before it slept or while it sleeps.
LEMMA AwakeKeeps ==
  ASSUME NEW d \in ThreadState, NEW p \in Places, NEW k, ThreadInv(d, p, k), d.wchan # NULL
  PROVE  /\ ThreadInv(Awake(d), p, k) /\ Awake(d).wchan = NULL /\ ~ Awake(d).sleeping
         /\ NEEDSIGCHK \in d.flags => NEEDSIGCHK \in Awake(d).flags
<1> DEFINE e == Awake(d)
<1>1. /\ e.wchan = NULL /\ e.sleeping = FALSE /\ e.flags = d.flags \ {SINTR} /\ e.callout = d.callout
  BY AwakeFields
<1> HIDE DEF e
<1>2. ThreadInv(e, p, k)
  BY <1>1 DEF ThreadInv, TimerInv, Timed, Before, Places, InSleep, SINTR, TIMEOUT, TIMOFAIL, SLEEPABORT
<1>3. NEEDSIGCHK \in d.flags => NEEDSIGCHK \in e.flags
  BY <1>1 DEF NEEDSIGCHK, SINTR
<1> QED
  BY <1>1, <1>2, <1>3 DEF e

LEMMA WakesKeeps ==
  ASSUME ThreadPart, SigPart, NEW W, Wakes(W),
         UNCHANGED <<pc, call, rval, p_lock, p_slock, td_sig, sigto>>
  PROVE  /\ ThreadPart' /\ SigPart'
         /\ Queued' = Queued \ W /\ Awaiting' = Awaiting \cup W /\ Busy' = Busy
         /\ W \subseteq Queued /\ Awaiting \cap W = {}
<1>1. slp.td \in [Thread -> ThreadState]
  BY StateFields DEF ThreadPart, Sound
<1>2. ASSUME NEW u \in Thread
      PROVE  /\ ThreadInv(slp'.td[u], pc[u], call[u])
             /\ slp'.td[u].wchan = IF u \in W THEN NULL ELSE slp.td[u].wchan
             /\ NEEDSIGCHK \in slp.td[u].flags => NEEDSIGCHK \in slp'.td[u].flags
             /\ slp'.td[u].sleeping => slp'.td[u] = slp.td[u]
  <2>1. slp.td[u] \in ThreadState /\ pc[u] \in Places /\ ThreadInv(slp.td[u], pc[u], call[u])
    BY <1>1 DEF ThreadPart, TInv
  <2>2. CASE u \in W
    <3>1. slp.td[u].wchan # NULL /\ slp'.td[u] = Awake(slp.td[u])
      BY <2>2 DEF Wakes, Queued
    <3> QED
      BY <2>1, <2>2, <3>1, AwakeKeeps
  <2>3. CASE u \notin W
    <3>1. slp'.td[u] = slp.td[u]
      BY <2>3 DEF Wakes
    <3> QED
      BY <2>1, <2>3, <3>1
  <2> QED
    BY <2>2, <2>3
<1>3. ThreadPart'
  BY <1>2 DEF ThreadPart, TInv, Wakes
<1>4. SigInv' /\ NoSleepOnSignal'
  BY <1>2, SignalsKept DEF SigPart
<1>5. W \subseteq Queued /\ W \subseteq Thread /\ \A u \in W : pc[u] # "idle" /\ slp.td[u].wchan # NULL
  BY QueuedBusy DEF Wakes, Queued, Busy
<1>6. Queued' = Queued \ W
  BY <1>2, <1>5 DEF Queued
<1>7. Awaiting' = Awaiting \cup W /\ Awaiting \cap W = {}
  BY <1>2, <1>5 DEF Awaiting
<1>8. Busy' = Busy
  BY DEF Busy
<1> QED
  BY <1>3, <1>4, <1>5, <1>6, <1>7, <1>8 DEF SigPart

\* Which threads a post wakes, and what it does to cv_waiters.
LEMMA PostWakes ==
  ASSUME ThreadPart, OtherTypes, CountInv, Post
  PROVE  \E W : /\ Wakes(W)
                /\ ~ MayWrap /\ Queued # {} => W = Queued \/ \E u \in Queued : W = {u}
                /\ ~ MayWrap /\ api # "sleep" => Cardinality(Queued \ W) <= cv_waiters'
                /\ cv_waiters' \in (- INT_MAX - 1) .. INT_MAX
<1>1. /\ IsFiniteSet(Queued) /\ Cardinality(Queued) \in Nat
      /\ Queued # {} => Cardinality(Queued) > 0
  BY CountsAreNat, FS_EmptySet
<1>2. /\ cv_waiters \in Int /\ INT_MAX \in Nat /\ cv_waiters \in (- INT_MAX - 1) .. INT_MAX
  BY KernSynchAssumption DEF OtherTypes
<1>3. /\ slp' = sleepq_broadcast(slp, wchan) => Wakes(Queued)
      /\ slp' = sleepq_signal(slp, wchan) =>
           \/ Queued = {} /\ Wakes({})
           \/ \E u \in Queued : Wakes({u})
      /\ slp' = slp => Wakes({})
  BY WakeupWakes
<1>4. /\ Cardinality(Queued \ Queued) = 0 /\ Cardinality(Queued \ {}) = Cardinality(Queued)
      /\ \A u \in Queued : Cardinality(Queued \ {u}) = Cardinality(Queued) - 1
  <2>1. Queued \ Queued = {} /\ Queued \ {} = Queued
    OBVIOUS
  <2> QED
    BY <1>1, <2>1, FS_EmptySet, FS_RemoveElement
<1>5. CASE api = "sleep" /\ UNCHANGED cv_waiters /\ (wakeup \/ wakeup_one)
  BY <1>2, <1>3, <1>5 DEF wakeup, wakeup_one
<1>6. CASE cv_signal /\ (~ MayWrap => Cardinality(Queued) <= cv_waiters)
  <2>1. CASE cv_waiters > 0
    <3>1. cv_waiters' = cv_waiters - 1 /\ slp' = sleepq_signal(slp, wchan)
      BY <1>6, <2>1 DEF cv_signal
    <3>2. cv_waiters' \in (- INT_MAX - 1) .. INT_MAX
      BY <1>2, <2>1, <3>1
    <3>3. CASE Queued = {} /\ Wakes({})
      <4>1. Cardinality(Queued) = 0
        BY <3>3, FS_EmptySet
      <4> QED
        BY <1>2, <1>4, <2>1, <3>1, <3>2, <3>3, <4>1
    <3>4. CASE \E u \in Queued : Wakes({u})
      <4>1. PICK u \in Queued : Wakes({u})
        BY <3>4
      <4>2. ~ MayWrap => Cardinality(Queued \ {u}) <= cv_waiters'
        BY <1>1, <1>2, <1>4, <1>6, <3>1
      <4> QED
        BY <3>2, <4>1, <4>2
    <3> QED
      BY <1>3, <3>1, <3>3, <3>4
  <2>2. CASE ~ (cv_waiters > 0)
    <3>1. cv_waiters' = cv_waiters /\ slp' = slp
      BY <1>6, <2>2 DEF cv_signal
    <3>2. ~ MayWrap => Queued = {}
      BY <1>1, <1>2, <1>6, <2>2
    <3> QED
      BY <1>1, <1>2, <1>3, <1>4, <1>6, <3>1, <3>2
  <2> QED
    BY <2>1, <2>2
<1>7. CASE cv_broadcastpri /\ (~ MayWrap => Cardinality(Queued) <= cv_waiters)
  <2>1. CASE cv_waiters > 0
    BY <1>2, <1>3, <1>4, <1>7, <2>1 DEF cv_broadcastpri
  <2>2. CASE ~ (cv_waiters > 0)
    <3>1. cv_waiters' = cv_waiters /\ slp' = slp
      BY <1>7, <2>2 DEF cv_broadcastpri
    <3>2. ~ MayWrap => Queued = {}
      BY <1>1, <1>2, <1>7, <2>2
    <3> QED
      BY <1>1, <1>2, <1>3, <1>4, <1>7, <3>1, <3>2
  <2> QED
    BY <2>1, <2>2
<1>8. CASE api = "cv" /\ (cv_signal \/ cv_broadcastpri)
  BY <1>6, <1>7, <1>8 DEF CountInv
<1>9. CASE api = "sema" /\ _sema_post
  <2>1. ~ MayWrap => Cardinality(Queued) <= cv_waiters
    BY <1>9 DEF CountInv
  <2>2. CASE sema_waiters > 0
    BY <1>6, <1>9, <2>1, <2>2 DEF _sema_post
  <2>3. CASE ~ (sema_waiters > 0)
    <3>1. cv_waiters' = cv_waiters /\ slp' = slp
      BY <1>9, <2>3 DEF _sema_post
    <3>2. Queued = {}
      <4>1. sema_waiters = Cardinality(Busy) /\ Cardinality(Busy) \in Nat /\ IsFiniteSet(Busy)
        BY <1>9, CountsAreNat DEF CountInv
      <4>2. Busy = {}
        <5>1. Cardinality(Busy) = 0
          BY <2>3, <4>1
        <5> QED
          BY <4>1, <5>1, FS_EmptySet
      <4> QED
        BY <4>2, QueuedBusy
    <3> QED
      BY <1>1, <1>2, <1>3, <1>4, <2>1, <3>1, <3>2
  <2> QED
    BY <2>2, <2>3
<1> QED
  BY <1>5, <1>8, <1>9 DEF Post

LEMMA PostKeeps ==
  ASSUME SynchInv, Post
  PROVE  ThreadPart' /\ OtherTypes' /\ SigPart' /\ CountInv'
<1>1. ThreadPart /\ OtherTypes /\ SigPart /\ CountInv
  BY InvParts
<1>2. PICK W : /\ Wakes(W)
               /\ ~ MayWrap /\ Queued # {} => W = Queued \/ \E u \in Queued : W = {u}
               /\ ~ MayWrap /\ api # "sleep" => Cardinality(Queued \ W) <= cv_waiters'
               /\ cv_waiters' \in (- INT_MAX - 1) .. INT_MAX
  BY <1>1, PostWakes
<1>3. /\ UNCHANGED <<pc, call, rval, p_lock, p_slock, td_sig, sigto>>
      /\ UNCHANGED <<api, kind, lock, sc_lock, sema_waiters>>
      /\ value' = value + 1 /\ value < MaxValue
  BY DEF Post, locks, sigVars
<1>4. /\ ThreadPart' /\ SigPart'
      /\ Queued' = Queued \ W /\ Awaiting' = Awaiting \cup W /\ Busy' = Busy
      /\ W \subseteq Queued /\ Awaiting \cap W = {}
  BY <1>1, <1>2, <1>3, WakesKeeps
<1>5. value \in Nat /\ value \in 0 .. MaxValue /\ MaxValue \in Nat
  BY <1>1, KernSynchAssumption DEF OtherTypes
<1>6. OtherTypes'
  BY <1>1, <1>2, <1>3, <1>5 DEF OtherTypes
<1>7. ASSUME ~ MayWrap, Queued' # {} PROVE value' <= Cardinality(Awaiting')
  <2>1. PICK u \in Queued : W = {u}
    BY <1>2, <1>4, <1>7
  <2>2. value <= Cardinality(Awaiting)
    BY <1>1, <1>7, <2>1 DEF CountInv
  <2>3. IsFiniteSet(Awaiting) /\ Cardinality(Awaiting) \in Nat
    BY CountsAreNat
  <2>4. Cardinality(Awaiting') = Cardinality(Awaiting) + 1
    BY <1>4, <2>1, <2>3, FS_AddElement
  <2> QED
    BY <1>3, <1>5, <2>2, <2>3, <2>4
<1>8. CountInv'
  BY <1>1, <1>2, <1>3, <1>4, <1>7 DEF CountInv
<1> QED
  BY <1>4, <1>6, <1>8

-----------------------------------------------------------------------------
(***************************************************************************)
(* The theorems.                                                           *)
(***************************************************************************)
LEMMA SynchInit ==
  ASSUME Init
  PROVE  ThreadPart /\ OtherTypes /\ SigPart /\ CountInv
<1> DEFINE d0 == [sq |-> TRUE, wchan |-> NULL, flags |-> {}, sleeping |-> FALSE, callout |-> "idle"]
<1>1. /\ slp.blocked = [w \in Wchan |-> <<>>] /\ slp.free = [w \in Wchan |-> 0]
      /\ slp.attached = {} /\ slp.td = [t \in Thread |-> d0]
      /\ slp = [blocked |-> slp.blocked, free |-> slp.free, attached |-> slp.attached, td |-> slp.td]
  BY DEF Init, SleepQueueInit
<1>2. d0 \in ThreadState
  BY DEF ThreadState
<1>3. <<>> \in Seq(Thread) /\ Injective(<<>>) /\ ToSet(<<>>) = {}
  <2>1. <<>> \in Seq(Thread)
    OBVIOUS
  <2> QED
    BY <2>1, EmptySeqIs
<1>4. slp \in SleepQueueState
  <2>1. /\ slp.blocked \in [Wchan -> Seq(Thread)] /\ slp.free \in [Wchan -> Nat]
        /\ slp.attached \in SUBSET Wchan /\ slp.td \in [Thread -> ThreadState]
    BY <1>1, <1>2, <1>3
  <2> QED
    BY <1>1, <2>1 DEF SleepQueueState
<1>5. Conserved(slp)
  <2>1. \A w \in Wchan : slp.blocked[w] = <<>> /\ slp.free[w] = 0 /\ w \notin slp.attached
    BY <1>1
  <2>2. \A t \in Thread : slp.td[t].sq = TRUE /\ slp.td[t].wchan = NULL
    BY <1>1
  <2> QED
    BY <1>3, <2>1, <2>2, SleepQueueAssumption DEF Conserved
<1>6. \A t \in Thread : /\ slp.td[t].wchan = NULL /\ slp.td[t].flags = {} /\ ~ slp.td[t].sleeping
                        /\ slp.td[t].callout = "idle" /\ pc[t] = "idle" /\ call[t] = NoCall
  BY <1>1 DEF Init
<1>7. TInv
  BY <1>6 DEF TInv, ThreadInv, Before
<1>8. ThreadPart
  BY <1>4, <1>5, <1>7 DEF Init, ThreadPart, Sound, Places, CallSet, NoCall, Result
<1>9. OtherTypes
  BY KernSynchAssumption DEF Init, OtherTypes
<1>10. SigPart
  <2>1. \A t \in Thread : td_sig[t] = "none" /\ pc[t] = "idle"
    BY DEF Init
  <2> QED
    BY <1>6, <2>1, KernSynchAssumption DEF Init, SigPart, SigInv, NoSleepOnSignal, TD_IS_SLEEPING
<1>11. Queued = {} /\ Busy = {} /\ Cardinality({}) = 0
  BY <1>6, FS_EmptySet DEF Queued, Busy
<1>12. CountInv
  BY <1>11 DEF Init, CountInv
<1> QED
  BY <1>8, <1>9, <1>10, <1>12

LEMMA SynchNext ==
  ASSUME SynchInv, [Next]_vars
  PROVE  ThreadPart' /\ OtherTypes' /\ SigPart' /\ CountInv'
<1>1. CASE UNCHANGED vars
  <2>1. ThreadPart /\ OtherTypes /\ SigPart /\ CountInv
    BY InvParts
  <2>2. /\ UNCHANGED <<slp, api, kind, lock, sc_lock, p_lock, p_slock, pc, call, rval>>
        /\ UNCHANGED <<td_sig, sigto, value, cv_waiters, sema_waiters>>
    BY <1>1 DEF vars, locks, counts, sigVars
  <2>3. ThreadPart' /\ OtherTypes'
    BY <2>1, <2>2 DEF ThreadPart, TInv, OtherTypes
  <2>4. SigPart'
    BY <2>1, <2>2 DEF SigPart, SigInv, NoSleepOnSignal
  <2>5. CountInv'
    BY <2>1, <2>2 DEF CountInv, Queued, Awaiting, Busy
  <2> QED
    BY <2>3, <2>4, <2>5
<1>2. ASSUME NEW t \in Thread, NEW c \in Calls, StartWait(t, c)
      PROVE  ThreadPart' /\ OtherTypes' /\ SigPart' /\ CountInv'
  BY <1>2, StartWaitKeeps
<1>3. ASSUME NEW t \in Thread, ThreadStep(t)
      PROVE  ThreadPart' /\ OtherTypes' /\ SigPart' /\ CountInv'
  <2>1. CASE ReturnFromSleep(t)
    BY <2>1, ReturnFromSleepKeeps
  <2>2. CASE ~ ReturnFromSleep(t)
    <3>1. Keeps
      BY <1>3, <2>2, UnlockSleepableKeeps, RelockChainKeeps, WaitKeeps, CatchSignalsKeeps,
         CatchRelockKeeps, CatchRecheckKeeps, ResumedKeeps, SyncedKeeps DEF ThreadStep
    <3> QED
      BY <3>1, KeepsInv
  <2> QED
    BY <2>1, <2>2
<1>4. ASSUME NEW t \in Thread, Timer(t)
      PROVE  ThreadPart' /\ OtherTypes' /\ SigPart' /\ CountInv'
  <2>1. Keeps
    BY <1>4, CalloutFiresKeeps, CalloutRunsKeeps DEF Timer
  <2> QED
    BY <2>1, KeepsInv
<1>5. ASSUME NEW t \in Thread, ast(t)
      PROVE  ThreadPart' /\ OtherTypes' /\ SigPart' /\ CountInv'
  BY <1>5, astKeeps, KeepsInv
<1>6. ASSUME NEW t \in Thread, NEW cont \in BOOLEAN, PostSignal(t, cont)
      PROVE  ThreadPart' /\ OtherTypes' /\ SigPart' /\ CountInv'
  BY <1>6, PostSignalKeeps, KeepsInv
<1>7. CASE Post
  BY <1>7, PostKeeps
<1>8. CASE tdsigwakeup
  BY <1>8, tdsigwakeupKeeps, KeepsInv
<1> QED
  BY <1>1, <1>2, <1>3, <1>4, <1>5, <1>6, <1>7, <1>8 DEF Next

\* The invariant holds in every behaviour of KernSynch.
THEOREM SynchInvHolds == Spec => []SynchInv
<1> DEFINE Parts == ThreadPart /\ OtherTypes /\ SigPart /\ CountInv
<1>1. Init => Parts
  BY SynchInit
<1>2. Parts /\ [Next]_vars => Parts'
  BY InvParts, SynchNext
<1>3. Parts => SynchInv
  BY InvParts
<1> HIDE DEF Parts
<1> QED
  BY <1>1, <1>2, <1>3, PTL DEF Spec

\* Types, and that a sleep leaves nothing behind: when it returns its callout is idle
\* and no flag of it is set, whatever raced with it.
THEOREM NothingLeftBehindHolds == Spec => []NothingLeftBehind
<1>1. SynchInv => NothingLeftBehind
  BY DEF SynchInv, TInv, ThreadInv, NothingLeftBehind, TD_ON_SLEEPQ, TD_IS_SLEEPING
<1> QED
  BY <1>1, SynchInvHolds, PTL

\* No sleep queue is lost or used twice, by any order of wakeups, timeouts and signals.
THEOREM SleepQueueConserved == Spec => []SleepQueueConservation
<1>1. SynchInv => SleepQueueConservation
  <2> SUFFICES ASSUME SynchInv PROVE SleepQueueConservation
    OBVIOUS
  <2>1. Conserved(slp)
    BY DEF SynchInv
  <2>2. \A w \in Wchan : slp.blocked[w] \in Seq(Thread)
    BY InvGivesThreadPart, StateFields DEF Sound
  <2>3. \A w \in Wchan : IsInjective(slp.blocked[w])
    BY <2>1, <2>2, LenProperties DEF Conserved, Injective, IsInjective
  <2> QED
    BY <2>1, <2>3 DEF Conserved, SleepQueueConservation, TD_ON_SLEEPQ
<1> QED
  BY <1>1, SynchInvHolds, PTL

\* A timed sleep has a callout to end it, and a thread that sleeps on no queue waits
\* for a callout that is running and has yet to see it.
THEOREM SleepHasTimerHolds == Spec => []SleepHasTimer
<1>1. SynchInv => SleepHasTimer
  <2> SUFFICES ASSUME SynchInv, NEW t \in Thread, slp.td[t].sleeping
               PROVE  IF slp.td[t].wchan # NULL
                      THEN call[t].timo => slp.td[t].callout # "idle"
                      ELSE slp.td[t].callout = "running" /\ TIMEOUT \in slp.td[t].flags
    BY DEF SleepHasTimer, TD_IS_SLEEPING, TD_ON_SLEEPQ, HasFlag
  <2>1. ThreadInv(slp.td[t], pc[t], call[t]) /\ pc[t] \in Places
    BY InvGivesThreadPart DEF ThreadPart, TInv
  <2>2. pc[t] \in {"asleep", "sync"}
    BY <2>1 DEF ThreadInv, Places, InSleep, Before
  <2>3. CASE pc[t] = "sync"
    BY <2>1, <2>3 DEF ThreadInv
  <2>4. CASE pc[t] = "asleep"
    BY <2>1, <2>4 DEF ThreadInv, TimerInv, Timed
  <2> QED
    BY <2>2, <2>3, <2>4
<1> QED
  BY <1>1, SynchInvHolds, PTL

\* No thread sleeps interruptibly on a signal that its poster has finished with.
THEOREM NoSleepOnSignalHolds == Spec => []NoSleepOnSignal
<1>1. SynchInv => NoSleepOnSignal
  BY DEF SynchInv
<1> QED
  BY <1>1, SynchInvHolds, PTL

\* No wakeup is lost: while a thread sleeps, every unit of the count is matched by a
\* thread that will test it, as long as cv_waiters does not wrap.
THEOREM NoLostPostHolds ==
  ASSUME ~ MayWrap
  PROVE  Spec => []NoLostPost
<1>1. SynchInv => NoLostPost
  <2> SUFFICES ASSUME SynchInv, NEW t \in Thread, slp.td[t].wchan # NULL
               PROVE  value <= Cardinality(Awaiting)
    BY DEF NoLostPost, TD_ON_SLEEPQ, Awaiting
  <2>1. Queued # {}
    BY DEF Queued
  <2> QED
    BY <2>1 DEF SynchInv, CountInv
<1> QED
  BY <1>1, SynchInvHolds, PTL
=============================================================================
