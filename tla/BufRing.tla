------------------------------- MODULE BufRing -------------------------------
(***************************************************************************)
(* The lock-free buffer ring of sys/sys/buf_ring.h and                     *)
(* sys/kern/subr_bufring.c, in the DEBUG_BUFRING build (the one INVARIANTS *)
(* selects).  Producers and consumers reserve a slot by moving a head      *)
(* index with compare-and-set, fill or empty the slot, and then wait for   *)
(* the reservations before theirs before they move the tail.               *)
(*                                                                         *)
(* One action is one access to a shared word, or several of which only one *)
(* can be told apart by another thread.  The code's barriers (wmb, mb)     *)
(* order those accesses, so the memory is sequentially consistent here.    *)
(***************************************************************************)
EXTENDS Naturals, Sequences, FiniteSets

CONSTANTS
  Thread,
  Producer,  \* the threads that call buf_ring_enqueue
  Consumer,  \* the threads that call buf_ring_dequeue_mc, or _sc and _peek
  Buf,
  NULL,
  Size,      \* br_prod_size and br_cons_size, a power of two
  Modes,     \* subset of {"mc", "sc"}: the kinds of consumers explored
  MayLap     \* bound: may a head index go round the ring once, back to where a
             \* thread read it, just before that thread's compare-and-set?

ASSUME SizeAssumption == Size \in Nat /\ Size > 1
ASSUME RoleAssumption == Producer \cup Consumer = Thread
ASSUME NULLAssumption == NULL \notin Buf \cup Thread

VARIABLES
  br_prod_head, br_prod_tail, br_cons_head, br_cons_tail,
  br_ring,   \* [Slot -> Buf or NULL]
  mode,      \* "sc": br_lock was given, consumers hold it; "mc": no br_lock
  br_owner,  \* owner of br_lock, NULL when it is free
  pc,        \* [Thread -> where the thread stands]
  head,      \* [Thread -> Slot], its local prod_head or cons_head
  buf,       \* [Thread -> Buf or NULL], the buffer it offers or was given
  peeked,    \* [Thread -> Buf or NULL], what buf_ring_peek told it
  panicked   \* has one of the panics of the debug build been reached?

indices == <<br_prod_head, br_prod_tail, br_cons_head, br_cons_tail>>
vars == <<indices, br_ring, mode, br_owner, pc, head, buf, peeked, panicked>>

Slot == 0 .. Size - 1

\* (i + 1) & br_prod_mask
Succ(i) == (i + 1) % Size

\* The number of slots from i up to, not including, j.
Distance(i, j) == (Size + j - i) % Size

----------------------------------------------------------------------------
(* Observers *)

buf_ring_full  == Succ(br_prod_head) = br_cons_tail
buf_ring_empty == br_cons_head = br_prod_tail
buf_ring_count == (Size + br_prod_tail - br_cons_tail) % Size

----------------------------------------------------------------------------
(* buf_ring_alloc *)

Init ==
  /\ br_prod_head = 0 /\ br_prod_tail = 0
  /\ br_cons_head = 0 /\ br_cons_tail = 0
  /\ br_ring = [i \in Slot |-> NULL]
  /\ mode \in Modes
  /\ br_owner = NULL
  /\ pc = [t \in Thread |-> "idle"]
  /\ head = [t \in Thread |-> 0]
  /\ buf = [t \in Thread |-> NULL]
  /\ peeked = [t \in Thread |-> NULL]
  /\ panicked = FALSE

Goto(t, label) == pc' = [pc EXCEPT ![t] = label]

\* critical_exit and return: the locals die, and a buffer is the caller's again.
Leave(t) ==
  /\ Goto(t, "idle")
  /\ head' = [head EXCEPT ![t] = 0]
  /\ buf' = [buf EXCEPT ![t] = NULL]

----------------------------------------------------------------------------
(* buf_ring_enqueue *)

\* A buffer is offered by whoever holds it: no thread offers it or has it, and it
\* is in no slot of the ring, which dequeues of the debug build clear.
Loose(b) ==
  /\ \A t \in Thread : buf[t] # b
  /\ \A i \in Slot : br_ring[i] # b

\* The scan for a buffer enqueued twice, from br_cons_head up to br_prod_head.
AlreadyEnqueued(b) ==
  \E k \in Slot : /\ k < Distance(br_cons_head, br_prod_head)
                  /\ br_ring[(br_cons_head + k) % Size] = b

Enqueue(t, b) ==
  /\ t \in Producer
  /\ pc[t] = "idle"
  /\ br_owner # t
  /\ Loose(b)
  /\ panicked' = (panicked \/ AlreadyEnqueued(b))
  /\ buf' = [buf EXCEPT ![t] = b]
  /\ head' = [head EXCEPT ![t] = br_prod_head]
  /\ Goto(t, "p_tail")
  /\ UNCHANGED <<indices, br_ring, mode, br_owner, peeked>>

\* Is the ring full, as far as the two indices read tell?
RingFull(t) == Succ(head[t]) = br_cons_tail

ReadConsTail(t) ==
  /\ pc[t] = "p_tail"
  /\ IF RingFull(t)
     THEN Leave(t)                       \* ENOBUFS
     ELSE /\ Goto(t, "p_cas")
          /\ UNCHANGED <<head, buf>>
  /\ UNCHANGED <<indices, br_ring, mode, br_owner, peeked, panicked>>

\* The bound MayLap, not a condition of the code: br_prod_head, or br_cons_head,
\* moves on to i only if no other thread is about to compare it, at label cas, with
\* the i it read one round ago.  The compare-and-set would succeed on the strength
\* of a test, for a full or an empty ring, that was made in that earlier round.
NoLap(t, cas, i) ==
  MayLap \/ \A u \in Thread \ {t} : pc[u] = cas => head[u] # i

\* A failed compare-and-set starts over with a new br_prod_head.
CasProdHead(t) ==
  /\ pc[t] = "p_cas"
  /\ IF br_prod_head = head[t]
     THEN /\ NoLap(t, "p_cas", Succ(head[t]))
          /\ br_prod_head' = Succ(head[t])
          /\ Goto(t, "p_store")
          /\ UNCHANGED head
     ELSE /\ head' = [head EXCEPT ![t] = br_prod_head]
          /\ Goto(t, "p_tail")
          /\ UNCHANGED br_prod_head
  /\ UNCHANGED <<br_prod_tail, br_cons_head, br_cons_tail, br_ring, mode,
                 br_owner, buf, peeked, panicked>>

StoreSlot(t) ==
  /\ pc[t] = "p_store"
  /\ panicked' = (panicked \/ br_ring[head[t]] # NULL)
  /\ br_ring' = [br_ring EXCEPT ![head[t]] = buf[t]]
  /\ Goto(t, "p_publish")
  /\ UNCHANGED <<indices, mode, br_owner, head, buf, peeked>>

\* Variants: nobody is waited for; the wait is for the wrong index.
ProducersDone_eager(t) == TRUE
ProducersDone_next(t) == br_prod_tail = Succ(head[t])

\* May t move br_prod_tail?  Only once the enqueues before its own have.
ProducersDone(t) == br_prod_tail = head[t]

PublishProd(t) ==
  /\ pc[t] = "p_publish"
  /\ ProducersDone(t)
  /\ br_prod_tail' = Succ(head[t])
  /\ Leave(t)
  /\ UNCHANGED <<br_prod_head, br_cons_head, br_cons_tail, br_ring, mode,
                 br_owner, peeked, panicked>>

----------------------------------------------------------------------------
(* buf_ring_dequeue_mc *)

ReadConsHead(t) ==
  /\ mode = "mc" /\ t \in Consumer
  /\ pc[t] = "idle"
  /\ head' = [head EXCEPT ![t] = br_cons_head]
  /\ Goto(t, "c_tail")
  /\ UNCHANGED <<indices, br_ring, mode, br_owner, buf, peeked, panicked>>

\* Is the ring empty, as far as the two indices read tell?  head[t] may be old by
\* now: if br_prod_tail has come round to it, a ring with buffers gives NULL.
RingEmpty(t) == head[t] = br_prod_tail

ReadProdTail(t) ==
  /\ pc[t] = "c_tail"
  /\ IF RingEmpty(t)
     THEN Leave(t)                       \* NULL
     ELSE /\ Goto(t, "c_cas")
          /\ UNCHANGED <<head, buf>>
  /\ UNCHANGED <<indices, br_ring, mode, br_owner, peeked, panicked>>

\* A failed compare-and-set starts over with a new br_cons_head.
CasConsHead(t) ==
  /\ pc[t] = "c_cas"
  /\ IF br_cons_head = head[t]
     THEN /\ NoLap(t, "c_cas", Succ(head[t]))
          /\ br_cons_head' = Succ(head[t])
          /\ Goto(t, "c_take")
          /\ UNCHANGED head
     ELSE /\ head' = [head EXCEPT ![t] = br_cons_head]
          /\ Goto(t, "c_tail")
          /\ UNCHANGED br_cons_head
  /\ UNCHANGED <<br_prod_head, br_prod_tail, br_cons_tail, br_ring, mode,
                 br_owner, buf, peeked, panicked>>

TakeSlot(t) ==
  /\ pc[t] = "c_take"
  /\ buf' = [buf EXCEPT ![t] = br_ring[head[t]]]
  /\ br_ring' = [br_ring EXCEPT ![head[t]] = NULL]
  /\ Goto(t, "c_publish")
  /\ UNCHANGED <<indices, mode, br_owner, head, peeked, panicked>>

\* Variant: nobody is waited for.
ConsumersDone_eager(t) == TRUE

\* May t move br_cons_tail?  Only once the dequeues before its own have.
ConsumersDone(t) == br_cons_tail = head[t]

PublishCons(t) ==
  /\ pc[t] = "c_publish"
  /\ ConsumersDone(t)
  /\ br_cons_tail' = Succ(head[t])
  /\ Leave(t)
  /\ UNCHANGED <<br_prod_head, br_prod_tail, br_cons_head, br_ring, mode,
                 br_owner, peeked, panicked>>

----------------------------------------------------------------------------
(* buf_ring_dequeue_sc and buf_ring_peek, under br_lock *)

LockRing(t) ==
  /\ mode = "sc" /\ t \in Consumer
  /\ pc[t] = "idle"
  /\ br_owner = NULL
  /\ br_owner' = t
  /\ UNCHANGED <<indices, br_ring, mode, pc, head, buf, peeked, panicked>>

UnlockRing(t) ==
  /\ pc[t] = "idle"
  /\ br_owner = t
  /\ br_owner' = NULL
  /\ peeked' = [peeked EXCEPT ![t] = NULL]
  /\ UNCHANGED <<indices, br_ring, mode, pc, head, buf, panicked>>

buf_ring_peek(t) ==
  /\ pc[t] = "idle"
  /\ br_owner = t
  /\ peeked' = [peeked EXCEPT ![t] = IF buf_ring_empty THEN NULL
                                     ELSE br_ring[br_cons_head]]
  /\ UNCHANGED <<indices, br_ring, mode, br_owner, pc, head, buf, panicked>>

\* Only the owner of br_lock moves br_cons_head, so the read of br_prod_tail and
\* the plain store of br_cons_head are one step.
SingleConsHead(t) ==
  /\ pc[t] = "idle"
  /\ br_owner = t
  /\ ~ buf_ring_empty                        \* else NULL
  /\ head' = [head EXCEPT ![t] = br_cons_head]
  /\ br_cons_head' = Succ(br_cons_head)
  /\ Goto(t, "s_take")
  /\ UNCHANGED <<br_prod_head, br_prod_tail, br_cons_tail, br_ring, mode,
                 br_owner, buf, peeked, panicked>>

\* Variant: the slot is read through br_cons_head, which has moved.
SingleTake_moved(t) ==
  /\ pc[t] = "s_take"
  /\ buf' = [buf EXCEPT ![t] = br_ring[br_cons_head]]
  /\ br_ring' = [br_ring EXCEPT ![br_cons_head] = NULL]
  /\ panicked' = (panicked \/ br_owner # t \/ br_cons_tail # head[t])
  /\ Goto(t, "s_publish")
  /\ UNCHANGED <<indices, mode, br_owner, head, peeked>>

SingleTake(t) ==
  /\ pc[t] = "s_take"
  /\ buf' = [buf EXCEPT ![t] = br_ring[head[t]]]
  /\ br_ring' = [br_ring EXCEPT ![head[t]] = NULL]
  /\ panicked' = (panicked \/ br_owner # t \/ br_cons_tail # head[t])
  /\ Goto(t, "s_publish")
  /\ UNCHANGED <<indices, mode, br_owner, head, peeked>>

SinglePublish(t) ==
  /\ pc[t] = "s_publish"
  /\ br_cons_tail' = Succ(head[t])
  /\ Leave(t)
  /\ peeked' = [peeked EXCEPT ![t] = NULL]
  /\ UNCHANGED <<br_prod_head, br_prod_tail, br_cons_head, br_ring, mode,
                 br_owner, panicked>>

----------------------------------------------------------------------------

\* The steps a thread takes once it is inside critical_enter.
Inside(t) ==
  \/ ReadConsTail(t) \/ CasProdHead(t) \/ StoreSlot(t)
  \/ PublishProd(t)
  \/ ReadProdTail(t) \/ CasConsHead(t) \/ TakeSlot(t) \/ PublishCons(t)
  \/ SingleTake(t) \/ SinglePublish(t)

Step(t) ==
  \/ \E b \in Buf : Enqueue(t, b)
  \/ Inside(t)
  \/ ReadConsHead(t)
  \/ LockRing(t) \/ UnlockRing(t) \/ buf_ring_peek(t) \/ SingleConsHead(t)

Next == \E t \in Thread : Step(t)

Spec == Init /\ [][Next]_vars

\* A thread in a critical section is not preempted, so it keeps taking steps.
FairSpec == Spec /\ \A t \in Thread : WF_vars(Inside(t))

----------------------------------------------------------------------------
(* Properties *)

Producing == {"p_tail", "p_cas", "p_store", "p_publish"}
Consuming == {"c_take", "c_publish", "s_take", "s_publish"}

TypeOK ==
  /\ {br_prod_head, br_prod_tail, br_cons_head, br_cons_tail} \subseteq Slot
  /\ br_ring \in [Slot -> Buf \cup {NULL}]
  /\ mode \in Modes
  /\ br_owner \in Thread \cup {NULL}
  /\ pc \in [Thread -> Producing \cup Consuming \cup {"idle", "c_tail", "c_cas"}]
  /\ head \in [Thread -> Slot]
  /\ buf \in [Thread -> Buf \cup {NULL}]
  /\ peeked \in [Thread -> Buf \cup {NULL}]
  /\ panicked \in BOOLEAN

\* The debug build asserts that it finds nothing wrong: its panics "already enqueue",
\* "dangling value in enqueue", "inconsistent list" and "lock not held" are not
\* reached.
NoPanic == ~ panicked

\* The four indices stand in the order cons_tail, cons_head, prod_tail, prod_head
\* going round the ring; the reservations between a tail and its head are exactly
\* those of the threads now between compare-and-set and publication, one slot
\* each; and buf_ring_count, which drivers use as the length of the queue, counts
\* the queued buffers and the dequeues in progress, never an unfinished enqueue.
\* No thread runs into a panic of the debug build.
ReservationsExact ==
  LET reserved(labels) == {head[t] : t \in {u \in Thread : pc[u] \in labels}}
      between(i, j) == {(i + k) % Size : k \in {n \in Slot : n < Distance(i, j)}}
  IN /\ TypeOK
     /\ NoPanic
     /\ Distance(br_cons_tail, br_cons_head) + Distance(br_cons_head, br_prod_tail)
        + Distance(br_prod_tail, br_prod_head) < Size
     /\ reserved({"p_store", "p_publish"}) = between(br_prod_tail, br_prod_head)
     /\ reserved(Consuming) = between(br_cons_tail, br_cons_head)
     /\ buf_ring_count = Distance(br_cons_head, br_prod_tail)
                         + Cardinality({t \in Thread : pc[t] \in Consuming})

\* Under br_lock, the buffer buf_ring_peek returned is still the one that the next
\* dequeue returns, whatever the producers do in the meantime.
PeekStaysFirst ==
  \A t \in Thread :
    peeked[t] # NULL =>
      \/ pc[t] = "idle"    /\ br_ring[br_cons_head] = peeked[t] /\ ~ buf_ring_empty
      \/ pc[t] = "s_take"  /\ br_ring[head[t]] = peeked[t]
      \/ pc[t] = "s_publish" /\ buf[t] = peeked[t]

\* The queue is what lies between br_cons_head and br_prod_tail; a buffer enters
\* it when br_prod_tail moves past it and leaves it when br_cons_head does.
Queue == [k \in 1 .. Distance(br_cons_head, br_prod_tail) |->
            br_ring[(br_cons_head + k - 1) % Size]]

Fifo == INSTANCE AbstractFifo WITH
  Capacity <- Size - 1,
  q   <- Queue,
  put <- [t \in Thread |-> IF pc[t] \in Producing THEN buf[t] ELSE NULL],
  got <- [t \in Thread |->
            CASE pc[t] \in {"c_take", "s_take"} -> br_ring[head[t]]
              [] pc[t] \in {"c_publish", "s_publish"} -> buf[t]
              [] OTHER -> NULL]

\* Seen at those two points, the enqueues and dequeues of several threads are those
\* of a bounded first-in first-out queue: nothing lost, duplicated or reordered, and
\* a consumer that has moved br_cons_head reads the buffer that was first at that
\* moment.  This holds of every interleaving in which no head index goes round the
\* ring under a thread about to compare and set it (MayLap).
ImplementsFifo == Fifo!Spec

\* A thread that has reserved a slot publishes it: the wait for the reservations
\* before its own ends.
ReservationEnds ==
  \A t \in Thread :
    pc[t] \in {"p_store", "p_publish", "c_take", "c_publish"} ~> pc[t] = "idle"
=============================================================================
