--------------------------- MODULE KernRwlockProofs ---------------------------
(* The safety of the reader/writer locks of sys/kern/kern_rwlock.c for every   *)
(* set of threads and locks.  First part: the lock word accounts for its       *)
(* holders, a thread that holds a read lock never waits for the same lock, and *)
(* the module implements AbstractRwlock.  Every action is shown to be of one of*)
(* ten kinds (HoldStep), by what it does to the locks held; the invariant and  *)
(* the refinement are then proved once for each kind.  Second part, from the   *)
(* definition of Bit on: the waiter bits of a word say which queues of the     *)
(* lock's turnstile have threads in them, and no waiter is left behind.        *)
EXTENDS KernRwlock, TurnstileProofs, FiniteSetTheorems, TLAPS

\* The read locks of thread t, of every rwlock, and the first k of one rwlock.
AllReads(t) == {p \in Rwlock \X (1..MaxRead) : <<t, p[2]>> \in rheld[p[1]]}
Upto(t, k)  == {t} \X (1..k)

\* Control points of a call that gives up a read lock or turns it into a write
\* lock, of one that gives up a write lock or turns it into a read lock, and of
\* one that waits for the lock.
ReadPath  == {"runlock", "runlock_chain", "upgrade", "up_check"}
WritePath == {"wunlock", "release", "downgrade", "down_store"}
WaitPath  == {"rlock", "wlock", "wspin", "chain", "check", "contest", "wait",
              "propagate", "blocked"}

\* A call in progress has a lock, and the words that are going to be stored are
\* those of a free lock or of one reader.
CallInv ==
  /\ td_state \in [Thread -> {"running", "runq", "lock"}]
  /\ \A t \in Thread :
    /\ pc[t] # "idle" => cur[t] \in Rwlock
    /\ pc[t] = "release" => v[t].owner = NULL /\ v[t].readers = 0
    /\ pc[t] = "down_store" => v[t].owner = NULL /\ v[t].readers = 1
    /\ TD_ON_LOCK(t) => pc[t] \in {"propagate", "blocked"}

\* What a thread in the middle of a call has and has not.
PathInv ==
  \A t \in Thread :
    /\ pc[t] \in ReadPath => ReadsOf(t, cur[t]) # {}
    /\ pc[t] \in WaitPath => ReadsOf(t, cur[t]) = {}
    /\ pc[t] \in WritePath => rw_wowner(cur[t]) = t /\ rw_recurse[cur[t]] = 0

\* The read lock that _rw_runlock() no longer counts and has not given up yet.
Pend(t) == IF pc[t] \in {"runlock", "runlock_chain"} THEN 1 ELSE 0

\* Read locks are numbered from 1, there are finitely many of them, and
\* td_rw_rlocks counts them, except for the one _rw_runlock() is about to drop.
ReadInv ==
  /\ \A l \in Rwlock : IsFiniteSet(rheld[l])
  /\ \A t \in Thread, l \in Rwlock : \E k \in 0..MaxRead : ReadsOf(t, l) = Upto(t, k)
  /\ \A t \in Thread :
       /\ IsFiniteSet(AllReads(t))
       /\ Cardinality(AllReads(t)) = td_rw_rlocks[t] + Pend(t)

\* Readers and a writer exclude each other, and only a writer recurses.
WordInv ==
  \A l \in Rwlock :
    /\ rw_wowner(l) # NULL => rw_lock[l].readers = 0
    /\ rw_wowner(l) \notin Thread => rw_recurse[l] = 0

\* The word accounts for the holders.
AccountInv ==
  \A l \in Rwlock :
    /\ rw_lock[l].readers = Cardinality(rheld[l])
    /\ \A t \in Thread :
         IF rw_wowner(l) = t THEN wheld[l][t] = rw_recurse[l] + 1
         ELSE wheld[l][t] = 0

\* The inductive invariant: types, control, what a call in progress has, the
\* read locks and their count, the words, and who they account for.
RwInv ==
  /\ TypeOK /\ CallInv /\ PathInv /\ ReadInv /\ WordInv /\ AccountInv

\* The part of RwInv about the words and the locks held, which the kinds of
\* step below keep, and the types of its variables.
HoldTypeOK ==
  /\ rw_lock \in [Rwlock -> Word]
  /\ rw_recurse \in [Rwlock -> Nat]
  /\ td_rw_rlocks \in [Thread -> Nat]
  /\ rheld \in [Rwlock -> SUBSET (Thread \X (1..MaxRead))]
  /\ wheld \in [Rwlock -> [Thread -> Nat]]

HoldInv == HoldTypeOK /\ ReadInv /\ WordInv /\ AccountInv

\* A store into the word of l leaves it with owner o and r readers; the flags
\* and the other words do not matter to who holds what.
Becomes(l, o, r) ==
  /\ rw_lock' \in [Rwlock -> Word]
  /\ rw_lock'[l].owner = o /\ rw_lock'[l].readers = r
  /\ \A m \in Rwlock \ {l} : /\ rw_lock'[m].owner = rw_lock[m].owner
                             /\ rw_lock'[m].readers = rw_lock[m].readers

\* A step of t changes its count of read locks by d, counting the one that
\* _rw_runlock() has uncounted already and not yet given up.
Tally(t, d) ==
  /\ td_rw_rlocks' \in [Thread -> Nat]
  /\ td_rw_rlocks'[t] + Pend(t)' = td_rw_rlocks[t] + Pend(t) + d
  /\ \A u \in Thread \ {t} : /\ td_rw_rlocks'[u] = td_rw_rlocks[u]
                             /\ pc'[u] = pc[u]

\* The kinds of step of thread t, by what they do to the locks held: none of
\* them changes, or t gets or gives up a read lock or a write lock of l, goes
\* one level deeper or back, turns one kind of lock into the other, or creates
\* or destroys l.
Keeps(t) ==
  /\ rw_lock' \in [Rwlock -> Word]
  /\ \A m \in Rwlock : /\ rw_lock'[m].owner = rw_lock[m].owner
                       /\ rw_lock'[m].readers = rw_lock[m].readers
  /\ UNCHANGED <<rw_recurse, rheld, wheld>>
  /\ Tally(t, 0)

GetsRead(t, l) ==
  /\ rw_wowner(l) = NULL
  /\ Cardinality(ReadsOf(t, l)) < MaxRead
  /\ Becomes(l, NULL, rw_lock[l].readers + 1)
  /\ AddRead(t, l)
  /\ UNCHANGED <<rw_recurse, wheld>>
  /\ Tally(t, 1)

LosesRead(t, l) ==
  /\ ReadsOf(t, l) # {}
  /\ Becomes(l, NULL, rw_lock[l].readers - 1)
  /\ DropRead(t, l)
  /\ UNCHANGED <<rw_recurse, wheld>>
  /\ Tally(t, -1)

GetsWrite(t, l) ==
  /\ rw_wowner(l) = NULL /\ rw_lock[l].readers = 0
  /\ Becomes(l, t, 0)
  /\ wheld' = [wheld EXCEPT ![l][t] = 1]
  /\ UNCHANGED <<rw_recurse, rheld>>
  /\ Tally(t, 0)

Recurses(t, l) ==
  /\ rw_wowner(l) = t /\ l \in Recursable
  /\ RecurseWrite(t, l)
  /\ Tally(t, 0)

Unrecurses(t, l) ==
  /\ rw_wowner(l) = t /\ rw_recurse[l] # 0
  /\ rw_recurse' = [rw_recurse EXCEPT ![l] = @ - 1]
  /\ wheld' = [wheld EXCEPT ![l][t] = @ - 1]
  /\ UNCHANGED <<rw_lock, rheld>>
  /\ Tally(t, 0)

LosesWrite(t, l) ==
  /\ rw_wowner(l) = t /\ rw_recurse[l] = 0
  /\ Becomes(l, NULL, 0)
  /\ wheld' = [wheld EXCEPT ![l][t] = 0]
  /\ UNCHANGED <<rw_recurse, rheld>>
  /\ Tally(t, 0)

Upgrades(t, l) ==
  /\ ReadsOf(t, l) # {} /\ rw_lock[l].readers = 1
  /\ Becomes(l, t, 0)
  /\ DropRead(t, l)
  /\ wheld' = [wheld EXCEPT ![l][t] = 1]
  /\ UNCHANGED rw_recurse
  /\ Tally(t, -1)

Downgrades(t, l) ==
  /\ rw_wowner(l) = t /\ rw_recurse[l] = 0
  /\ Becomes(l, NULL, 1)
  /\ AddRead(t, l)
  /\ wheld' = [wheld EXCEPT ![l][t] = 0]
  /\ UNCHANGED rw_recurse
  /\ Tally(t, 1)

Toggles(t, l) ==
  /\ rw_wowner(l) \notin Thread /\ rw_lock[l].readers = 0
  /\ \E o \in {NULL, DESTROYED} : Becomes(l, o, 0)
  /\ UNCHANGED <<rw_recurse, rheld, wheld>>
  /\ Tally(t, 0)

\* A step of thread t of one of those kinds.
HoldStep(t) ==
  \/ Keeps(t)
  \/ \E l \in Rwlock :
       \/ GetsRead(t, l) \/ LosesRead(t, l) \/ GetsWrite(t, l)
       \/ Recurses(t, l) \/ Unrecurses(t, l) \/ LosesWrite(t, l)
       \/ Upgrades(t, l) \/ Downgrades(t, l) \/ Toggles(t, l)

\* What other threads hold is not touched by a step of t.
Others(t) ==
  \A u \in Thread \ {t}, l \in Rwlock :
    /\ ReadsOf(u, l)' = ReadsOf(u, l)
    /\ rw_wowner(l) = u => rw_wowner(l)' = u /\ rw_recurse'[l] = rw_recurse[l]

-----------------------------------------------------------------------------
\* k read locks are k pairs.
LEMMA UptoCount ==
  ASSUME NEW t, NEW k \in Nat
  PROVE  IsFiniteSet(Upto(t, k)) /\ Cardinality(Upto(t, k)) = k
<1>1. IsFiniteSet(1..k) /\ Cardinality(1..k) = k
  BY FS_Interval
<1>2. IsFiniteSet({t}) /\ Cardinality({t}) = 1
  BY FS_Singleton
<1>3. IsFiniteSet({t} \X (1..k)) /\ Cardinality({t} \X (1..k)) = 1 * k
  BY <1>1, <1>2, FS_Product, ZenonT(40)
<1> QED
  BY <1>3 DEF Upto

\* The count of the read locks of a thread is the number of the newest.
LEMMA ReadsAre ==
  ASSUME HoldInv, NEW t \in Thread, NEW l \in Rwlock
  PROVE  \E k \in 0..MaxRead : /\ ReadsOf(t, l) = Upto(t, k)
                               /\ Cardinality(ReadsOf(t, l)) = k
BY UptoCount, RwlockAssumption DEF HoldInv, ReadInv

\* A finite set with a new element has one element more.
LEMMA AddCount ==
  ASSUME NEW S, IsFiniteSet(S), NEW x, x \notin S
  PROVE  IsFiniteSet(S \cup {x}) /\ Cardinality(S \cup {x}) = Cardinality(S) + 1
BY FS_AddElement

\* One more read lock.
LEMMA AddReadEffect ==
  ASSUME HoldInv, NEW t \in Thread, NEW l \in Rwlock, AddRead(t, l),
         Cardinality(ReadsOf(t, l)) < MaxRead
  PROVE  /\ rheld' \in [Rwlock -> SUBSET (Thread \X (1..MaxRead))]
         /\ \A m \in Rwlock : IsFiniteSet(rheld'[m])
         /\ Cardinality(rheld'[l]) = Cardinality(rheld[l]) + 1
         /\ \A m \in Rwlock \ {l} : rheld'[m] = rheld[m]
         /\ \A u \in Thread, m \in Rwlock : (u # t \/ m # l) => ReadsOf(u, m)' = ReadsOf(u, m)
         /\ \E k \in 0..MaxRead : ReadsOf(t, l)' = Upto(t, k)
         /\ ReadsOf(t, l)' # {}
         /\ \A u \in Thread \ {t} : AllReads(u)' = AllReads(u)
         /\ IsFiniteSet(AllReads(t)')
         /\ Cardinality(AllReads(t)') = Cardinality(AllReads(t)) + 1
<1> USE RwlockAssumption
<1>0. PICK k \in 0..MaxRead : /\ ReadsOf(t, l) = Upto(t, k)
                              /\ Cardinality(ReadsOf(t, l)) = k
  BY ReadsAre
<1>1. /\ k \in Nat /\ k + 1 \in 1..MaxRead
      /\ rheld \in [Rwlock -> SUBSET (Thread \X (1..MaxRead))]
      /\ rheld' = [rheld EXCEPT ![l] = @ \cup {<<t, k + 1>>}]
      /\ \A m \in Rwlock : IsFiniteSet(rheld[m])
  BY <1>0 DEF AddRead, HoldInv, HoldTypeOK, ReadInv
<1>2. /\ rheld'[l] = rheld[l] \cup {<<t, k + 1>>}
      /\ \A m \in Rwlock \ {l} : rheld'[m] = rheld[m]
      /\ rheld' \in [Rwlock -> SUBSET (Thread \X (1..MaxRead))]
  BY <1>1
<1>3. <<t, k + 1>> \notin rheld[l]
  BY <1>0, <1>1 DEF ReadsOf, Upto
<1>4. IsFiniteSet(rheld'[l]) /\ Cardinality(rheld'[l]) = Cardinality(rheld[l]) + 1
  <2>1. IsFiniteSet(rheld[l])
    BY <1>1
  <2> QED
    BY <2>1, <1>2, <1>3, AddCount
<1>5. \A u \in Thread, m \in Rwlock : (u # t \/ m # l) => ReadsOf(u, m)' = ReadsOf(u, m)
  BY <1>2 DEF ReadsOf
<1>6. ReadsOf(t, l)' = Upto(t, k + 1)
  <2>1. ReadsOf(t, l)' = ReadsOf(t, l) \cup {<<t, k + 1>>}
    BY <1>2 DEF ReadsOf
  <2>2. Upto(t, k + 1) = Upto(t, k) \cup {<<t, k + 1>>}
    BY <1>1 DEF Upto
  <2> QED
    BY <1>0, <2>1, <2>2
<1>7. ReadsOf(t, l)' # {}
  <2>1. <<t, k + 1>> \in ReadsOf(t, l)'
    BY <1>2 DEF ReadsOf
  <2> QED
    BY <2>1
<1>8. \A u \in Thread \ {t} : AllReads(u)' = AllReads(u)
  BY <1>2 DEF AllReads
<1>9. AllReads(t)' = AllReads(t) \cup {<<l, k + 1>>} /\ <<l, k + 1>> \notin AllReads(t)
  BY <1>1, <1>2, <1>3 DEF AllReads
<1>10. IsFiniteSet(AllReads(t))
  BY DEF HoldInv, ReadInv
<1>11. /\ IsFiniteSet(AllReads(t)')
       /\ Cardinality(AllReads(t)') = Cardinality(AllReads(t)) + 1
  BY <1>9, <1>10, AddCount
<1>12. \A m \in Rwlock : IsFiniteSet(rheld'[m])
  BY <1>1, <1>2, <1>4
<1>13. \E j \in 0..MaxRead : ReadsOf(t, l)' = Upto(t, j)
  BY <1>1, <1>6
<1> QED
  BY <1>2, <1>4, <1>5, <1>7, <1>8, <1>11, <1>12, <1>13

\* Taking a member out of a finite set.
LEMMA RemoveCount ==
  ASSUME NEW S, IsFiniteSet(S), NEW x \in S
  PROVE  IsFiniteSet(S \ {x}) /\ Cardinality(S \ {x}) = Cardinality(S) - 1
<1>1. /\ IsFiniteSet(S \ {x})
      /\ Cardinality(S \ {x}) = IF x \in S THEN Cardinality(S) - 1 ELSE Cardinality(S)
  BY FS_RemoveElement
<1> QED
  BY <1>1

\* One read lock less.
LEMMA DropReadEffect ==
  ASSUME HoldInv, NEW t \in Thread, NEW l \in Rwlock, DropRead(t, l),
         ReadsOf(t, l) # {}
  PROVE  /\ rheld' \in [Rwlock -> SUBSET (Thread \X (1..MaxRead))]
         /\ \A m \in Rwlock : IsFiniteSet(rheld'[m])
         /\ Cardinality(rheld'[l]) = Cardinality(rheld[l]) - 1
         /\ \A m \in Rwlock \ {l} : rheld'[m] = rheld[m]
         /\ \A u \in Thread, m \in Rwlock : (u # t \/ m # l) => ReadsOf(u, m)' = ReadsOf(u, m)
         /\ \E k \in 0..MaxRead : ReadsOf(t, l)' = Upto(t, k)
         /\ \A u \in Thread \ {t} : AllReads(u)' = AllReads(u)
         /\ IsFiniteSet(AllReads(t)')
         /\ Cardinality(AllReads(t)') = Cardinality(AllReads(t)) - 1
<1> USE RwlockAssumption
<1>0. PICK k \in 0..MaxRead : /\ ReadsOf(t, l) = Upto(t, k)
                              /\ Cardinality(ReadsOf(t, l)) = k
  BY ReadsAre
<1>1. /\ k \in 1..MaxRead /\ k - 1 \in 0..MaxRead
      /\ rheld \in [Rwlock -> SUBSET (Thread \X (1..MaxRead))]
      /\ rheld' = [rheld EXCEPT ![l] = @ \ {<<t, k>>}]
      /\ \A m \in Rwlock : IsFiniteSet(rheld[m])
  <2>1. k # 0
    <3>1. Upto(t, 0) = {}
      BY DEF Upto
    <3> QED
      BY <1>0, <3>1
  <2>2. k \in 1..MaxRead /\ k - 1 \in 0..MaxRead
    BY <2>1
  <2> QED
    BY <1>0, <2>2 DEF DropRead, Newest, HoldInv, HoldTypeOK, ReadInv
<1>2. /\ rheld'[l] = rheld[l] \ {<<t, k>>}
      /\ \A m \in Rwlock \ {l} : rheld'[m] = rheld[m]
      /\ rheld' \in [Rwlock -> SUBSET (Thread \X (1..MaxRead))]
  BY <1>1
<1>3. <<t, k>> \in rheld[l]
  BY <1>0, <1>1 DEF ReadsOf, Upto
<1>4. IsFiniteSet(rheld'[l]) /\ Cardinality(rheld'[l]) = Cardinality(rheld[l]) - 1
  BY <1>1, <1>2, <1>3, RemoveCount
<1>5. \A u \in Thread, m \in Rwlock : (u # t \/ m # l) => ReadsOf(u, m)' = ReadsOf(u, m)
  BY <1>2 DEF ReadsOf
<1>6. ReadsOf(t, l)' = Upto(t, k - 1)
  <2>1. ReadsOf(t, l)' = ReadsOf(t, l) \ {<<t, k>>}
    BY <1>2 DEF ReadsOf
  <2>2. Upto(t, k - 1) = Upto(t, k) \ {<<t, k>>}
    BY <1>1 DEF Upto
  <2> QED
    BY <1>0, <2>1, <2>2
<1>8. \A u \in Thread \ {t} : AllReads(u)' = AllReads(u)
  BY <1>2 DEF AllReads
<1>9. AllReads(t)' = AllReads(t) \ {<<l, k>>} /\ <<l, k>> \in AllReads(t)
  BY <1>1, <1>2, <1>3 DEF AllReads
<1>10. IsFiniteSet(AllReads(t))
  BY DEF HoldInv, ReadInv
<1>11. /\ IsFiniteSet(AllReads(t)')
       /\ Cardinality(AllReads(t)') = Cardinality(AllReads(t)) - 1
  BY <1>9, <1>10, RemoveCount
<1>12. \A m \in Rwlock : IsFiniteSet(rheld'[m])
  BY <1>1, <1>2, <1>4
<1>13. \E j \in 0..MaxRead : ReadsOf(t, l)' = Upto(t, j)
  BY <1>1, <1>6
<1> QED
  BY <1>2, <1>4, <1>5, <1>8, <1>11, <1>12, <1>13

\* td_rw_rlocks keeps counting when it moves with the read locks.
LEMMA TallyCounts ==
  ASSUME HoldInv, NEW t \in Thread, NEW d \in {-1, 0, 1}, Tally(t, d),
         \A u \in Thread \ {t} : AllReads(u)' = AllReads(u),
         IsFiniteSet(AllReads(t)'),
         Cardinality(AllReads(t)') = Cardinality(AllReads(t)) + d
  PROVE  \A u \in Thread : /\ IsFiniteSet(AllReads(u)')
                           /\ Cardinality(AllReads(u)') = td_rw_rlocks'[u] + Pend(u)'
<1>1. \A u \in Thread : /\ IsFiniteSet(AllReads(u))
                        /\ Cardinality(AllReads(u)) = td_rw_rlocks[u] + Pend(u)
  BY DEF HoldInv, ReadInv
<1>2. \A u \in Thread \ {t} : td_rw_rlocks'[u] + Pend(u)' = td_rw_rlocks[u] + Pend(u)
  BY DEF Tally, Pend
<1>3. /\ td_rw_rlocks'[t] + Pend(t)' = td_rw_rlocks[t] + Pend(t) + d
      /\ td_rw_rlocks[t] + Pend(t) = Cardinality(AllReads(t))
  BY <1>1 DEF Tally
<1>4. Cardinality(AllReads(t)') = td_rw_rlocks'[t] + Pend(t)'
  BY <1>3
<1> QED
  BY <1>1, <1>2, <1>4

\* When no read lock comes or goes.
LEMMA SameReads ==
  ASSUME HoldInv, NEW t \in Thread, Tally(t, 0), UNCHANGED rheld
  PROVE  ReadInv' /\ \A u \in Thread, l \in Rwlock : ReadsOf(u, l)' = ReadsOf(u, l)
<1>1. \A u \in Thread, l \in Rwlock : ReadsOf(u, l)' = ReadsOf(u, l)
  BY DEF ReadsOf
<1>2. \A u \in Thread : AllReads(u)' = AllReads(u)
  BY DEF AllReads
<1>3. IsFiniteSet(AllReads(t)) /\ Cardinality(AllReads(t)) \in Nat
  BY FS_CardinalityType DEF HoldInv, ReadInv
<1>4. Cardinality(AllReads(t)') = Cardinality(AllReads(t)) + 0
  BY <1>2, <1>3
<1>5. \A u \in Thread : /\ IsFiniteSet(AllReads(u)')
                        /\ Cardinality(AllReads(u)') = td_rw_rlocks'[u] + Pend(u)'
  BY <1>2, <1>3, <1>4, TallyCounts
<1> QED
  BY <1>1, <1>5 DEF HoldInv, ReadInv

\* Getting a read lock keeps the read locks numbered and counted.
LEMMA MoreReads ==
  ASSUME HoldInv, NEW t \in Thread, NEW l \in Rwlock, Tally(t, 1), AddRead(t, l),
         Cardinality(ReadsOf(t, l)) < MaxRead
  PROVE  ReadInv'
<1>1. \A u \in Thread : /\ IsFiniteSet(AllReads(u)')
                        /\ Cardinality(AllReads(u)') = td_rw_rlocks'[u] + Pend(u)'
  BY AddReadEffect, TallyCounts
<1>2. \A u \in Thread, m \in Rwlock : \E k \in 0..MaxRead : ReadsOf(u, m)' = Upto(u, k)
  BY AddReadEffect DEF HoldInv, ReadInv
<1>3. \A m \in Rwlock : IsFiniteSet(rheld'[m])
  BY AddReadEffect
<1> QED
  BY <1>1, <1>2, <1>3 DEF ReadInv

\* Giving up a read lock keeps the read locks numbered and counted.
LEMMA FewerReads ==
  ASSUME HoldInv, NEW t \in Thread, NEW l \in Rwlock, Tally(t, -1), DropRead(t, l),
         ReadsOf(t, l) # {}
  PROVE  ReadInv'
<1>0. Cardinality(AllReads(t)') = Cardinality(AllReads(t)) + (-1)
  BY DropReadEffect, FS_CardinalityType DEF HoldInv, ReadInv
<1>1. \A u \in Thread : /\ IsFiniteSet(AllReads(u)')
                        /\ Cardinality(AllReads(u)') = td_rw_rlocks'[u] + Pend(u)'
  BY <1>0, DropReadEffect, TallyCounts
<1>2. \A u \in Thread, m \in Rwlock : \E k \in 0..MaxRead : ReadsOf(u, m)' = Upto(u, k)
  BY DropReadEffect DEF HoldInv, ReadInv
<1>3. \A m \in Rwlock : IsFiniteSet(rheld'[m])
  BY DropReadEffect
<1> QED
  BY <1>1, <1>2, <1>3 DEF ReadInv

\* A read lock is counted by the word, which then has no writer, and by the thread.
LEMMA ReaderCounted ==
  ASSUME HoldInv, NEW t \in Thread, NEW l \in Rwlock, ReadsOf(t, l) # {}
  PROVE  /\ rw_lock[l].readers \in Nat /\ rw_lock[l].readers > 0
         /\ rw_wowner(l) = NULL
         /\ td_rw_rlocks[t] + Pend(t) > 0
<1>1. PICK r \in rheld[l] : r[1] = t
  BY DEF ReadsOf
<1>2. r \in Thread \X (1..MaxRead)
  BY DEF HoldInv, HoldTypeOK
<1>3. IsFiniteSet(rheld[l]) /\ IsFiniteSet(AllReads(t))
  BY DEF HoldInv, ReadInv
<1>4. Cardinality(rheld[l]) # 0 /\ Cardinality(rheld[l]) \in Nat
  BY <1>1, <1>3, FS_EmptySet, FS_CardinalityType
<1>5. <<l, r[2]>> \in AllReads(t)
  BY <1>1, <1>2 DEF AllReads
<1>6. Cardinality(AllReads(t)) # 0 /\ Cardinality(AllReads(t)) \in Nat
  BY <1>3, <1>5, FS_EmptySet, FS_CardinalityType
<1>7. rw_lock[l].readers = Cardinality(rheld[l])
  BY DEF HoldInv, AccountInv
<1>8. Cardinality(AllReads(t)) = td_rw_rlocks[t] + Pend(t)
  BY DEF HoldInv, ReadInv
<1>9. rw_wowner(l) = NULL
  BY <1>4, <1>7 DEF HoldInv, WordInv
<1> QED
  BY <1>4, <1>6, <1>7, <1>8, <1>9

\* A lone reader has the only read lock.
LEMMA LoneReader ==
  ASSUME HoldInv, NEW t \in Thread, NEW l \in Rwlock, ReadsOf(t, l) # {},
         rw_lock[l].readers <= 1
  PROVE  rw_lock[l].readers = 1
BY ReaderCounted

\* A thread without a read lock has room for one.
LEMMA RoomForOne ==
  ASSUME HoldInv, NEW t \in Thread, NEW l \in Rwlock, ReadsOf(t, l) = {}
  PROVE  Cardinality(ReadsOf(t, l)) < MaxRead
BY FS_EmptySet, RwlockAssumption

\* Every kind of step keeps the accounts, and what other threads have.
LEMMA KeepsStep ==
  ASSUME HoldInv, NEW t \in Thread, Keeps(t)
  PROVE  HoldInv' /\ Others(t)
<1>1. ReadInv' /\ \A u \in Thread, l \in Rwlock : ReadsOf(u, l)' = ReadsOf(u, l)
  BY SameReads DEF Keeps
<1>2. HoldTypeOK' /\ WordInv' /\ AccountInv'
  <2>1. HoldTypeOK'
    BY DEF Keeps, Tally, HoldInv, HoldTypeOK
  <2>2. WordInv'
    BY DEF Keeps, HoldInv, WordInv, rw_wowner
  <2>3. AccountInv'
    BY DEF Keeps, HoldInv, AccountInv, rw_wowner
  <2> QED
    BY <2>1, <2>2, <2>3
<1>3. Others(t)
  BY <1>1 DEF Others, Keeps, rw_wowner
<1> QED
  BY <1>1, <1>2, <1>3 DEF HoldInv

\* rw_rlock() that succeeds keeps the invariant of the locks held.
LEMMA GetsReadStep ==
  ASSUME HoldInv, NEW t \in Thread, NEW l \in Rwlock, GetsRead(t, l)
  PROVE  HoldInv' /\ Others(t)
<1> USE DEF GetsRead, Becomes, rw_wowner
<1>1. ReadInv'
  BY MoreReads
<1>2. HoldTypeOK'
  BY AddReadEffect DEF Tally, HoldInv, HoldTypeOK
<1>3. WordInv'
  BY TurnstileAssumption DEF HoldInv, WordInv
<1>4. AccountInv'
  BY AddReadEffect, TurnstileAssumption DEF HoldInv, AccountInv
<1>5. Others(t)
  BY AddReadEffect, TurnstileAssumption DEF Others
<1> QED
  BY <1>1, <1>2, <1>3, <1>4, <1>5 DEF HoldInv

\* _rw_runlock() that has stored the word keeps the invariant.
LEMMA LosesReadStep ==
  ASSUME HoldInv, NEW t \in Thread, NEW l \in Rwlock, LosesRead(t, l)
  PROVE  HoldInv' /\ Others(t)
<1> USE DEF LosesRead, Becomes, rw_wowner
<1>0. rw_lock[l].owner = NULL
  BY ReaderCounted
<1>1. ReadInv'
  BY FewerReads
<1>2. HoldTypeOK'
  BY DropReadEffect DEF Tally, HoldInv, HoldTypeOK
<1>3. WordInv'
  BY <1>0, TurnstileAssumption DEF HoldInv, WordInv
<1>4. AccountInv'
  BY <1>0, DropReadEffect, TurnstileAssumption DEF HoldInv, AccountInv
<1>5. Others(t)
  BY <1>0, DropReadEffect, TurnstileAssumption DEF Others
<1> QED
  BY <1>1, <1>2, <1>3, <1>4, <1>5 DEF HoldInv

\* _rw_wlock_hard() that takes a free lock keeps the invariant.
LEMMA GetsWriteStep ==
  ASSUME HoldInv, NEW t \in Thread, NEW l \in Rwlock, GetsWrite(t, l)
  PROVE  HoldInv' /\ Others(t)
<1> USE DEF GetsWrite, Becomes, rw_wowner
<1>0. t # NULL /\ rw_recurse[l] = 0
  BY TurnstileAssumption DEF HoldInv, WordInv
<1>1. ReadInv' /\ \A u \in Thread, m \in Rwlock : ReadsOf(u, m)' = ReadsOf(u, m)
  BY SameReads
<1>2. HoldTypeOK'
  BY DEF Tally, HoldInv, HoldTypeOK
<1>3. WordInv'
  BY <1>0 DEF HoldInv, WordInv
<1>4. AccountInv'
  BY <1>0, TurnstileAssumption DEF HoldInv, HoldTypeOK, AccountInv
<1>5. Others(t)
  BY <1>0, <1>1, TurnstileAssumption DEF Others
<1> QED
  BY <1>1, <1>2, <1>3, <1>4, <1>5 DEF HoldInv

\* A write lock taken again by its owner keeps the invariant.
LEMMA RecursesStep ==
  ASSUME HoldInv, NEW t \in Thread, NEW l \in Rwlock, Recurses(t, l)
  PROVE  HoldInv' /\ Others(t)
<1> USE DEF Recurses, RecurseWrite, rw_wowner
<1>1. ReadInv' /\ \A u \in Thread, m \in Rwlock : ReadsOf(u, m)' = ReadsOf(u, m)
  BY SameReads
<1>2. HoldTypeOK'
  BY DEF Tally, HoldInv, HoldTypeOK
<1>3. WordInv'
  BY DEF HoldInv, HoldTypeOK, WordInv
<1>4. AccountInv'
  BY DEF HoldInv, HoldTypeOK, AccountInv
<1>5. Others(t)
  BY <1>1 DEF Others, HoldInv, HoldTypeOK
<1> QED
  BY <1>1, <1>2, <1>3, <1>4, <1>5 DEF HoldInv

\* _rw_wunlock() of a recursed lock keeps the invariant.
LEMMA UnrecursesStep ==
  ASSUME HoldInv, NEW t \in Thread, NEW l \in Rwlock, Unrecurses(t, l)
  PROVE  HoldInv' /\ Others(t)
<1> USE DEF Unrecurses, rw_wowner
<1>0. wheld[l][t] = rw_recurse[l] + 1 /\ rw_recurse[l] - 1 \in Nat /\ wheld[l][t] - 1 \in Nat
  BY DEF HoldInv, HoldTypeOK, AccountInv
<1>1. ReadInv' /\ \A u \in Thread, m \in Rwlock : ReadsOf(u, m)' = ReadsOf(u, m)
  BY SameReads
<1>2. HoldTypeOK'
  <2>1. rw_recurse' \in [Rwlock -> Nat] /\ wheld' \in [Rwlock -> [Thread -> Nat]]
    BY <1>0 DEF HoldInv, HoldTypeOK
  <2> QED
    BY <2>1 DEF Tally, HoldInv, HoldTypeOK
<1>3. WordInv'
  BY DEF HoldInv, HoldTypeOK, WordInv
<1>4. AccountInv'
  BY <1>0 DEF HoldInv, HoldTypeOK, AccountInv
<1>5. Others(t)
  BY <1>1 DEF Others, HoldInv, HoldTypeOK
<1> QED
  BY <1>1, <1>2, <1>3, <1>4, <1>5 DEF HoldInv

\* _rw_wunlock() of a lock held once keeps the invariant.
LEMMA LosesWriteStep ==
  ASSUME HoldInv, NEW t \in Thread, NEW l \in Rwlock, LosesWrite(t, l)
  PROVE  HoldInv' /\ Others(t)
<1> USE DEF LosesWrite, Becomes, rw_wowner
<1>0. t # NULL /\ rw_lock[l].readers = 0
  BY TurnstileAssumption DEF HoldInv, WordInv
<1>1. ReadInv' /\ \A u \in Thread, m \in Rwlock : ReadsOf(u, m)' = ReadsOf(u, m)
  BY SameReads
<1>2. HoldTypeOK'
  BY DEF Tally, HoldInv, HoldTypeOK
<1>3. WordInv'
  BY <1>0, TurnstileAssumption DEF HoldInv, WordInv
<1>4. AccountInv'
  BY <1>0, TurnstileAssumption DEF HoldInv, HoldTypeOK, AccountInv
<1>5. Others(t)
  BY <1>0, <1>1, TurnstileAssumption DEF Others
<1> QED
  BY <1>1, <1>2, <1>3, <1>4, <1>5 DEF HoldInv

\* _rw_try_upgrade() by the only reader keeps the invariant.
LEMMA UpgradesStep ==
  ASSUME HoldInv, NEW t \in Thread, NEW l \in Rwlock, Upgrades(t, l)
  PROVE  HoldInv' /\ Others(t)
<1> USE DEF Upgrades, Becomes, rw_wowner
<1>0. t # NULL /\ rw_lock[l].owner = NULL /\ rw_recurse[l] = 0
  BY ReaderCounted, TurnstileAssumption DEF HoldInv, WordInv
<1>1. ReadInv'
  BY FewerReads
<1>2. HoldTypeOK'
  BY DropReadEffect DEF Tally, HoldInv, HoldTypeOK
<1>3. WordInv'
  BY <1>0 DEF HoldInv, WordInv
<1>4. AccountInv'
  <2>1. \A m \in Rwlock : rw_lock'[m].readers = Cardinality(rheld'[m])
    BY DropReadEffect DEF HoldInv, AccountInv
  <2> QED
    BY <1>0, <2>1, TurnstileAssumption DEF HoldInv, HoldTypeOK, AccountInv
<1>5. Others(t)
  BY <1>0, DropReadEffect, TurnstileAssumption DEF Others
<1> QED
  BY <1>1, <1>2, <1>3, <1>4, <1>5 DEF HoldInv

\* _rw_downgrade() keeps the invariant.
LEMMA DowngradesStep ==
  ASSUME HoldInv, NEW t \in Thread, NEW l \in Rwlock, Downgrades(t, l)
  PROVE  HoldInv' /\ Others(t)
<1> USE DEF Downgrades, Becomes, rw_wowner
<1>0. t # NULL /\ rw_lock[l].readers = 0 /\ ReadsOf(t, l) = {}
  BY ReaderCounted, TurnstileAssumption DEF HoldInv, WordInv
<1>00. Cardinality(ReadsOf(t, l)) < MaxRead
  BY <1>0, RoomForOne
<1>1. ReadInv'
  BY <1>00, MoreReads
<1>2. HoldTypeOK'
  BY <1>00, AddReadEffect DEF Tally, HoldInv, HoldTypeOK
<1>3. WordInv'
  BY <1>0, TurnstileAssumption DEF HoldInv, WordInv
<1>4. AccountInv'
  <2>1. /\ Cardinality(rheld[l]) = 0 /\ Cardinality(rheld'[l]) = Cardinality(rheld[l]) + 1
        /\ \A m \in Rwlock \ {l} : rheld'[m] = rheld[m]
    BY <1>0, <1>00, AddReadEffect DEF HoldInv, AccountInv
  <2>2. \A m \in Rwlock : rw_lock'[m].readers = Cardinality(rheld'[m])
    BY <2>1 DEF HoldInv, AccountInv
  <2>3. \A u \in Thread : wheld'[l][u] = 0 /\ u # NULL
    BY TurnstileAssumption DEF HoldInv, HoldTypeOK, AccountInv
  <2>4. ASSUME NEW m \in Rwlock, NEW u \in Thread
        PROVE  IF rw_lock'[m].owner = u THEN wheld'[m][u] = rw_recurse'[m] + 1
               ELSE wheld'[m][u] = 0
    BY <2>3 DEF HoldInv, HoldTypeOK, AccountInv
  <2> QED
    BY <2>2, <2>4 DEF AccountInv
<1>5. Others(t)
  BY <1>00, AddReadEffect, TurnstileAssumption DEF Others
<1> QED
  BY <1>1, <1>2, <1>3, <1>4, <1>5 DEF HoldInv

\* rw_destroy() and rw_init() of a lock nobody holds keep the invariant.
LEMMA TogglesStep ==
  ASSUME HoldInv, NEW t \in Thread, NEW l \in Rwlock, Toggles(t, l)
  PROVE  HoldInv' /\ Others(t)
<1> USE DEF Toggles, Becomes, rw_wowner
<1>1. ReadInv' /\ \A u \in Thread, m \in Rwlock : ReadsOf(u, m)' = ReadsOf(u, m)
  BY SameReads
<1>2. HoldTypeOK'
  BY DEF Tally, HoldInv, HoldTypeOK
<1>3. WordInv'
  BY DEF HoldInv, WordInv
<1>4. AccountInv'
  <2>1. \A m \in Rwlock : rw_lock'[m].readers = rw_lock[m].readers
    OBVIOUS
  <2>2. \A m \in Rwlock, u \in Thread : rw_lock'[m].owner = u <=> rw_lock[m].owner = u
    BY TurnstileAssumption, RwlockAssumption
  <2> QED
    BY <2>1, <2>2 DEF HoldInv, AccountInv
<1>5. Others(t)
  BY <1>1 DEF Others
<1> QED
  BY <1>1, <1>2, <1>3, <1>4, <1>5 DEF HoldInv

\* Every kind of step keeps the invariant of the locks held.
LEMMA HoldStepKeeps ==
  ASSUME HoldInv, NEW t \in Thread, HoldStep(t)
  PROVE  HoldInv' /\ Others(t)
BY KeepsStep, GetsReadStep, LosesReadStep, GetsWriteStep, RecursesStep,
   UnrecursesStep,
   LosesWriteStep, UpgradesStep, DowngradesStep, TogglesStep
DEF HoldStep

-----------------------------------------------------------------------------
\* The types of what a thread keeps about its call in progress.
LocalTypeOK ==
  /\ pc \in [Thread -> Points]
  /\ cur \in [Thread -> Rwlock \cup {NULL}]
  /\ queue \in [Thread -> Queue]
  /\ v \in [Thread -> Word]
  /\ lts \in [Thread -> Turnstiles \cup {NULL}]

\* The control and the local variables of t after a step of t.
OwnPath(t) ==
  /\ pc[t] # "idle" => cur[t] \in Rwlock
  /\ pc[t] = "release" => v[t].owner = NULL /\ v[t].readers = 0
  /\ pc[t] = "down_store" => v[t].owner = NULL /\ v[t].readers = 1
  /\ TD_ON_LOCK(t) => pc[t] \in {"propagate", "blocked"}
  /\ pc[t] \in ReadPath => ReadsOf(t, cur[t]) # {}
  /\ pc[t] \in WaitPath => ReadsOf(t, cur[t]) = {}
  /\ pc[t] \in WritePath => rw_wowner(cur[t]) = t /\ rw_recurse[cur[t]] = 0

\* A step of t moves only t along its path, and may wake other threads.
Moves(t) ==
  /\ LocalTypeOK'
  /\ td_state' \in [Thread -> {"running", "runq", "lock"}]
  /\ \A u \in Thread \ {t} :
       /\ pc'[u] = pc[u] /\ cur'[u] = cur[u] /\ v'[u] = v[u]
       /\ td_state'[u] = "lock" => td_state[u] = "lock"
  /\ OwnPath(t)'

\* RwInv is the part about the locks held and the part about each thread.
LEMMA InvParts ==
  RwInv <=> /\ HoldInv /\ LocalTypeOK
            /\ td_state \in [Thread -> {"running", "runq", "lock"}]
            /\ \A t \in Thread : OwnPath(t)
BY DEF RwInv, HoldInv, TypeOK, HoldTypeOK, LocalTypeOK, CallInv, PathInv,
       OwnPath

\* A step of t whose effect on the holders is one of the kinds above and which
\* moves t along its path keeps the invariant.
LEMMA StepKeeps ==
  ASSUME RwInv, NEW t \in Thread, HoldStep(t), Moves(t)
  PROVE  RwInv'
<1> USE InvParts
<1>1. HoldInv' /\ Others(t)
  BY HoldStepKeeps
<1>2. ASSUME NEW u \in Thread, u # t PROVE OwnPath(u)'
  <2>1. /\ pc'[u] = pc[u] /\ cur'[u] = cur[u] /\ v'[u] = v[u]
        /\ td_state'[u] = "lock" => td_state[u] = "lock"
        /\ OwnPath(u)
    BY <1>2 DEF Moves
  <2>2. CASE pc[u] = "idle"
    BY <2>1, <2>2 DEF OwnPath, ReadPath, WaitPath, WritePath, TD_ON_LOCK
  <2>3. CASE pc[u] # "idle"
    <3>1. PICK l \in Rwlock : l = cur[u]
      BY <2>1, <2>3 DEF OwnPath
    <3>2. ReadsOf(u, cur[u])' = ReadsOf(u, cur[u])
      <4>1. ReadsOf(u, cur[u])' = ReadsOf(u, l)' /\ ReadsOf(u, cur[u]) = ReadsOf(u, l)
        BY <2>1, <3>1 DEF ReadsOf
      <4> QED
        BY <1>1, <1>2, <4>1 DEF Others
    <3>3. /\ rw_wowner(l) = u => rw_wowner(l)' = u /\ rw_recurse'[l] = rw_recurse[l]
      BY <1>1, <1>2 DEF Others
    <3> QED
      BY <2>1, <2>3, <3>1, <3>2, <3>3 DEF OwnPath, TD_ON_LOCK, rw_wowner
  <2> QED
    BY <2>2, <2>3
<1>3. OwnPath(t)' /\ LocalTypeOK' /\ td_state' \in [Thread -> {"running", "runq", "lock"}]
  BY DEF Moves
<1>4. CallInv' /\ PathInv'
  BY <1>2, <1>3 DEF CallInv, PathInv, OwnPath
<1> QED
  BY <1>1, <1>3, <1>4 DEF RwInv, HoldInv, TypeOK, HoldTypeOK, LocalTypeOK

-----------------------------------------------------------------------------
\* A lock word with owner o and r readers, whatever its flags.
IsWord(w, o, r) == w \in Word /\ w.owner = o /\ w.readers = r

\* What the macros and the stores do to owner and count.
LEMMA WordFacts ==
  /\ IsWord(RW_UNLOCKED, NULL, 0)
  /\ IsWord(RW_READERS_LOCK(1), NULL, 1)
  /\ IsWord(RW_DESTROYED, DESTROYED, 0)
  /\ \A t \in Thread : IsWord(Owned(t), t, 0)
  /\ \A w \in Word : w.owner \in Thread \cup {NULL, DESTROYED} /\ w.readers \in Nat
BY DEF IsWord, Word, RW_UNLOCKED, RW_READERS_LOCK, RW_DESTROYED, Owned

\* What the updates of a word in kern_rwlock.c do to its owner and readers.
LEMMA WordUpdates ==
  ASSUME NEW w \in Word
  PROVE  /\ IsWord([w EXCEPT !.spinner = TRUE], w.owner, w.readers)
         /\ IsWord(Released(w), NULL, 0)
         /\ \A q \in Queue : IsWord(Announced(q, w), w.owner, w.readers)
         /\ \A t \in Thread :
              /\ IsWord([w EXCEPT !.owner = t, !.spinner = FALSE], t, w.readers)
              /\ IsWord([w EXCEPT !.owner = t, !.readers = 0, !.spinner = FALSE], t, 0)
         /\ IsWord([RW_READERS_LOCK(1) EXCEPT
                      !.write_waiters = w.write_waiters,
                      !.read_waiters = w.read_waiters /\ w.write_waiters], NULL, 1)
         /\ IsWord([w EXCEPT !.readers = @ + 1], w.owner, w.readers + 1)
         /\ w.readers > 1 => IsWord([w EXCEPT !.readers = @ - 1], w.owner, w.readers - 1)
<1>1. IsWord([w EXCEPT !.spinner = TRUE], w.owner, w.readers)
  BY DEF IsWord, Word
<1>2. IsWord(Released(w), NULL, 0)
  BY DEF IsWord, Word, Released, RW_UNLOCKED, RW_READERS_LOCK
<1>3. \A q \in Queue : IsWord(Announced(q, w), w.owner, w.readers)
  BY DEF IsWord, Word, Announced
<1>4. ASSUME NEW t \in Thread
      PROVE  /\ IsWord([w EXCEPT !.owner = t, !.spinner = FALSE], t, w.readers)
             /\ IsWord([w EXCEPT !.owner = t, !.readers = 0, !.spinner = FALSE], t, 0)
  BY DEF IsWord, Word
<1>5. IsWord([RW_READERS_LOCK(1) EXCEPT
                !.write_waiters = w.write_waiters,
                !.read_waiters = w.read_waiters /\ w.write_waiters], NULL, 1)
  BY DEF IsWord, Word, RW_READERS_LOCK
<1>6. IsWord([w EXCEPT !.readers = @ + 1], w.owner, w.readers + 1)
  BY DEF IsWord, Word
<1>7. ASSUME w.readers > 1
      PROVE  IsWord([w EXCEPT !.readers = @ - 1], w.owner, w.readers - 1)
  BY <1>7 DEF IsWord, Word
<1> QED
  BY <1>1, <1>2, <1>3, <1>4, <1>5, <1>6, <1>7

\* Storing a word is the change of owner and readers that the word says.
LEMMA StoreBecomes ==
  ASSUME HoldInv, NEW l \in Rwlock, NEW w, NEW o, NEW r, IsWord(w, o, r),
         rw_lock' = [rw_lock EXCEPT ![l] = w]
  PROVE  Becomes(l, o, r)
BY DEF HoldInv, HoldTypeOK, Becomes, IsWord

\* A store that keeps owner and count.
LEMMA FlagsKept ==
  ASSUME HoldInv, NEW l \in Rwlock, Becomes(l, rw_lock[l].owner, rw_lock[l].readers)
  PROVE  /\ rw_lock' \in [Rwlock -> Word]
         /\ \A m \in Rwlock : /\ rw_lock'[m].owner = rw_lock[m].owner
                              /\ rw_lock'[m].readers = rw_lock[m].readers
BY DEF Becomes

\* The count of a thread moves by d, and it is not between the two halves of
\* _rw_runlock() before or after.
LEMMA TallyIs ==
  ASSUME RwInv, NEW t \in Thread, NEW d \in {-1, 0, 1},
         td_rw_rlocks[t] + d \in Nat,
         td_rw_rlocks' = [td_rw_rlocks EXCEPT ![t] = @ + d],
         Pend(t)' = Pend(t),
         \A u \in Thread \ {t} : pc'[u] = pc[u]
  PROVE  Tally(t, d)
<1>1. td_rw_rlocks \in [Thread -> Nat] /\ Pend(t) \in {0, 1}
  BY InvParts DEF HoldInv, HoldTypeOK, Pend
<1> QED
  BY <1>1 DEF Tally

\* The count stays; a thread that leaves _rw_runlock() gives up what the count
\* has given up before.
LEMMA TallyStays ==
  ASSUME RwInv, NEW t \in Thread, UNCHANGED td_rw_rlocks,
         \A u \in Thread \ {t} : pc'[u] = pc[u]
  PROVE  /\ Pend(t)' = Pend(t) => Tally(t, 0)
         /\ Pend(t) = 1 /\ Pend(t)' = 0 => Tally(t, -1)
<1>1. td_rw_rlocks \in [Thread -> Nat] /\ Pend(t) \in {0, 1}
  BY InvParts DEF HoldInv, HoldTypeOK, Pend
<1> QED
  BY <1>1 DEF Tally

-----------------------------------------------------------------------------
\* What the local part of a step has to show.
LEMMA Unheld ==
  ASSUME RwInv, NEW t \in Thread, Pend(t)' = Pend(t),
         UNCHANGED <<rw_lock, rw_recurse, td_rw_rlocks, rheld, wheld>>,
         \A u \in Thread \ {t} : pc'[u] = pc[u]
  PROVE  HoldStep(t)
<1>1. Tally(t, 0)
  BY TallyStays
<1>2. Keeps(t)
  BY <1>1, InvParts DEF Keeps, HoldInv, HoldTypeOK
<1> QED
  BY <1>2 DEF HoldStep

\* The facts about t that steps of t rest on.
LEMMA OwnFacts ==
  ASSUME RwInv, NEW t \in Thread
  PROVE  HoldInv /\ LocalTypeOK /\ OwnPath(t)
BY InvParts

\* Steps that leave the holders alone.
LEMMA QuietSteps ==
  ASSUME RwInv, NEW t \in Thread,
         \/ WspinEnd(t) \/ Trywait(t) \/ Check(t) \/ ContestChanged(t) \/ Wait(t)
         \/ Propagate(t) \/ Woken(t) \/ Wake(t) \/ Unpend(t) \/ Wunlock(t)
         \/ Downgrade(t) \/ Preempt(t) \/ Dispatch(t)
  PROVE  HoldStep(t) /\ Moves(t)
<1>0. /\ HoldInv /\ LocalTypeOK /\ OwnPath(t)
      /\ td_state \in [Thread -> {"running", "runq", "lock"}]
  BY InvParts
<1>w. /\ IsWord(RW_UNLOCKED, NULL, 0)
      /\ \A w \in Word : /\ IsWord(Released(w), NULL, 0)
                         /\ IsWord([RW_READERS_LOCK(1) EXCEPT
                              !.write_waiters = w.write_waiters,
                              !.read_waiters = w.read_waiters /\ w.write_waiters], NULL, 1)
  BY WordFacts, WordUpdates
<1>r. rw_lock \in [Rwlock -> Word]
  BY <1>0 DEF HoldInv, HoldTypeOK
<1> DEFINE Same == UNCHANGED <<rw_lock, rw_recurse, td_rw_rlocks, rheld, wheld>>
<1>u. ASSUME Same, LocalTypeOK', td_state' \in [Thread -> {"running", "runq", "lock"}],
             Pend(t)' = Pend(t), OwnPath(t)',
             \A u \in Thread \ {t} :
               /\ pc'[u] = pc[u] /\ cur'[u] = cur[u] /\ v'[u] = v[u]
               /\ td_state'[u] = "lock" => td_state[u] = "lock"
      PROVE  HoldStep(t) /\ Moves(t)
  BY <1>u, Unheld DEF Moves
<1> USE DEF Goto, LocalTypeOK, OwnPath, ReadPath, WaitPath, WritePath, Pend,
            Points, Chained, TD_IS_RUNNING, TD_ON_LOCK, ReadsOf, rw_wowner,
            wordVars, localVars, heldVars, turnstileVars, queueVars, chainVars
<1>1. CASE WspinEnd(t)
  BY <1>0, <1>1, <1>u DEF WspinEnd
<1>2. CASE Trywait(t)
  BY <1>0, <1>2, <1>u DEF Trywait, Turnstiles
<1>3. ASSUME NEW from \in {"check", "contest"}, GiveUp(t, from)
      PROVE  HoldStep(t) /\ Moves(t)
  BY <1>0, <1>3, <1>u, <1>w DEF GiveUp, Loop, Cancel, IsWord
<1>4. CASE Check(t)
  <2>1. CASE GiveUp(t, "check")
    BY <1>3, <2>1
  <2>2. CASE /\ Goto(t, "check", "contest")
             /\ v' = [v EXCEPT ![t] = rw_lock[cur[t]]]
             /\ UNCHANGED <<turnstileVars, wordVars, cur, queue, lts, heldVars>>
    BY <1>0, <1>r, <1>u, <2>2
  <2> QED
    BY <1>4, <2>1, <2>2 DEF Check
<1>5. CASE ContestChanged(t)
  BY <1>3, <1>5 DEF ContestChanged
<1>6. CASE Wait(t)
  BY <1>0, <1>6, <1>u DEF Wait, turnstile_wait_block
<1>7. CASE Propagate(t)
  BY <1>0, <1>7, <1>u DEF Propagate, propagate_priority
<1>8. CASE Woken(t)
  BY <1>0, <1>8, <1>u DEF Woken, Loop
<1>9. CASE Wake(t)
  BY <1>0, <1>9, <1>u DEF Wake, LookupBroadcast, Turnstiles, priVars
<1>10. CASE Unpend(t)
  BY <1>0, <1>10, <1>u, <1>w DEF Unpend, UnpendReturn, Return,
                                 turnstile_unpend, IsWord, Queue
<1>11. CASE Wunlock(t)
  BY <1>0, <1>r, <1>11, <1>u, <1>w, ZenonT(40) DEF Wunlock, LookupBroadcast, Turnstiles,
                                       IsWord
<1>12. CASE Downgrade(t)
  BY <1>0, <1>r, <1>12, <1>u, <1>w, ZenonT(40) DEF Downgrade, Turnstiles, IsWord
<1>13. CASE Preempt(t)
  BY <1>0, <1>13, <1>u DEF Preempt
<1>14. CASE Dispatch(t)
  BY <1>0, <1>14, <1>u DEF Dispatch
<1> QED
  BY <1>1, <1>2, <1>4, <1>5, <1>6, <1>7, <1>8, <1>9, <1>10, <1>11, <1>12,
     <1>13, <1>14

\* A step that changes no thread's state but only where t is.
LEMMA MovesBy ==
  ASSUME RwInv, NEW t \in Thread, UNCHANGED td_state, LocalTypeOK', OwnPath(t)',
         \A u \in Thread \ {t} : pc'[u] = pc[u] /\ cur'[u] = cur[u] /\ v'[u] = v[u]
  PROVE  Moves(t)
BY InvParts DEF Moves

\* A thread that may not read a lock, outside of _rw_runlock(), does not read it.
LEMMA RefusedReadsNot ==
  ASSUME HoldInv, NEW t \in Thread, NEW l \in Rwlock, Pend(t) = 0,
         ~RW_CAN_READ(t, rw_lock[l])
  PROVE  ReadsOf(t, l) = {}
<1>1. ASSUME ReadsOf(t, l) # {} PROVE FALSE
  <2>1. rw_lock[l].owner = NULL /\ td_rw_rlocks[t] + 0 > 0
    BY <1>1, ReaderCounted DEF rw_wowner
  <2>2. td_rw_rlocks[t] > 0
    BY <2>1 DEF HoldInv, HoldTypeOK
  <2> QED
    BY <2>1, <2>2 DEF RW_CAN_READ
<1> QED
  BY <1>1

\* The common part of the steps that take a read lock.
LEMMA TakeReadStep ==
  ASSUME RwInv, NEW t \in Thread, NEW l \in Rwlock, TakeRead(t, l),
         rw_wowner(l) = NULL, Cardinality(ReadsOf(t, l)) < MaxRead,
         Pend(t) = 0, Pend(t)' = 0, \A u \in Thread \ {t} : pc'[u] = pc[u]
  PROVE  HoldStep(t)
<1>0. HoldInv
  BY InvParts
<1>1. rw_lock' = [rw_lock EXCEPT ![l] = [rw_lock[l] EXCEPT !.readers = @ + 1]]
  BY DEF TakeRead
<1>2. rw_lock[l] \in Word /\ rw_lock[l].owner = NULL /\ td_rw_rlocks[t] \in Nat
  BY <1>0 DEF HoldInv, HoldTypeOK, rw_wowner
<1>3. Becomes(l, NULL, rw_lock[l].readers + 1)
  BY <1>0, <1>1, <1>2, WordUpdates, StoreBecomes
<1>4. Tally(t, 1)
  BY <1>0, <1>2 DEF TakeRead, Tally, HoldInv, HoldTypeOK
<1>5. GetsRead(t, l)
  BY <1>3, <1>4 DEF GetsRead, TakeRead
<1> QED
  BY <1>5 DEF HoldStep

\* Taking a free lock for writing is of kind GetsWrite.
LEMMA TakeWriteStep ==
  ASSUME RwInv, NEW t \in Thread, NEW l \in Rwlock, NEW w, TakeWrite(t, l, w),
         IsWord(w, t, 0), IsFree(rw_lock[l]), Pend(t)' = Pend(t),
         \A u \in Thread \ {t} : pc'[u] = pc[u]
  PROVE  HoldStep(t)
<1>0. HoldInv
  BY InvParts
<1>1. Becomes(l, t, 0)
  BY <1>0, StoreBecomes DEF TakeWrite, SetWord
<1>2. Tally(t, 0)
  BY TallyStays DEF TakeWrite
<1>3. GetsWrite(t, l)
  BY <1>1, <1>2 DEF GetsWrite, TakeWrite, IsFree, rw_wowner
<1> QED
  BY <1>3 DEF HoldStep

\* Taking a write lock again is of kind Recurses.
LEMMA RecurseStep ==
  ASSUME RwInv, NEW t \in Thread, NEW l \in Rwlock, RecurseWrite(t, l),
         rw_wlocked(t, l), MayWrite(t, l), Pend(t)' = Pend(t),
         \A u \in Thread \ {t} : pc'[u] = pc[u]
  PROVE  HoldStep(t)
<1>0. HoldInv
  BY InvParts
<1>1. wheld[l][t] = rw_recurse[l] + 1 /\ rw_recurse[l] \in Nat
  BY <1>0 DEF HoldInv, HoldTypeOK, AccountInv, rw_wlocked
<1>2. l \in Recursable
  BY <1>1 DEF MayWrite
<1>3. Tally(t, 0)
  BY TallyStays DEF RecurseWrite
<1>4. Recurses(t, l)
  BY <1>2, <1>3 DEF Recurses, rw_wlocked
<1> QED
  BY <1>4 DEF HoldStep

\* A store that changes flags only.
LEMMA FlagsStep ==
  ASSUME RwInv, NEW t \in Thread, NEW l \in Rwlock, NEW w,
         IsWord(w, rw_lock[l].owner, rw_lock[l].readers), SetWord(l, w),
         UNCHANGED <<rw_recurse, td_rw_rlocks, rheld, wheld>>,
         Pend(t)' = Pend(t), \A u \in Thread \ {t} : pc'[u] = pc[u]
  PROVE  HoldStep(t)
<1>0. HoldInv
  BY InvParts
<1>1. Becomes(l, rw_lock[l].owner, rw_lock[l].readers)
  BY <1>0, StoreBecomes DEF SetWord
<1>2. Tally(t, 0)
  BY TallyStays
<1>3. Keeps(t)
  BY <1>0, <1>1, <1>2, FlagsKept DEF Keeps
<1> QED
  BY <1>3 DEF HoldStep

\* rw_rlock(), rw_wlock() and the slow paths that wait.
LEMMA WaitSteps ==
  ASSUME RwInv, NEW t \in Thread,
         \/ Rlock(t) \/ Wlock(t) \/ ContestFree(t) \/ ContestHeld(t)
  PROVE  HoldStep(t) /\ Moves(t)
<1>0. HoldInv /\ LocalTypeOK /\ OwnPath(t) /\ rw_lock \in [Rwlock -> Word]
  BY InvParts DEF HoldInv, HoldTypeOK
<1>l. ASSUME pc[t] \in {"rlock", "wlock", "contest"}
      PROVE  cur[t] \in Rwlock /\ ReadsOf(t, cur[t]) = {} /\ Pend(t) = 0
  BY <1>0, <1>l DEF OwnPath, WaitPath, Pend
<1>s. UNCHANGED td_state
  BY DEF Rlock, Wlock, ContestFree, ContestHeld, TakeRead, turnstileVars,
         Claim, Cancel
<1> USE DEF Goto, Pend
<1>m. ASSUME NEW p, pc[t] # "idle", pc' = [pc EXCEPT ![t] = p]
      PROVE  \A u \in Thread \ {t} : pc'[u] = pc[u]
  BY <1>0, <1>m DEF LocalTypeOK
<1>1. ASSUME pc[t] # "idle", pc[t] \notin {"propagate", "blocked"},
             pc' = [pc EXCEPT ![t] = "idle"], Return(t) PROVE Moves(t)
  BY <1>0, <1>1, <1>s, MovesBy, WordFacts
  DEF LocalTypeOK, OwnPath, ReadPath, WaitPath, WritePath, Points, Return, IsWord, TD_ON_LOCK, Queue
<1>2. ASSUME NEW p \in {"wspin", "chain", "wait"}, pc[t] \in {"rlock", "wlock", "contest"},
             pc' = [pc EXCEPT ![t] = p], UNCHANGED <<cur, queue, lts, rheld>>,
             v' = v \/ v' = [v EXCEPT ![t] = RW_UNLOCKED]
      PROVE  Moves(t)
  <2>1. cur[t] \in Rwlock /\ ReadsOf(t, cur[t])' = {}
    BY <1>2, <1>l DEF ReadsOf
  <2>2. /\ LocalTypeOK' /\ pc'[t] = p
        /\ \A u \in Thread \ {t} : pc'[u] = pc[u] /\ cur'[u] = cur[u] /\ v'[u] = v[u]
    BY <1>0, <1>2, WordFacts DEF LocalTypeOK, Points, Chained, IsWord
  <2>3. OwnPath(t)'
    BY <1>0, <1>2, <1>s, <2>1, <2>2 DEF OwnPath, ReadPath, WritePath,
                                        TD_ON_LOCK
  <2> QED
    BY <1>s, <2>2, <2>3, MovesBy
<1>3. CASE Rlock(t)
  <2>1. CASE /\ Goto(t, "rlock", "idle") /\ RW_CAN_READ(t, rw_lock[cur[t]])
             /\ TakeRead(t, cur[t]) /\ Return(t)
    <3>1. HoldStep(t)
      BY <1>0, <1>l, <1>m, <2>1, RoomForOne, TakeReadStep
         DEF RW_CAN_READ, rw_wowner, LocalTypeOK
    <3> QED
      BY <1>1, <2>1, <3>1
  <2>2. CASE /\ Goto(t, "rlock", "chain")
             /\ UNCHANGED <<turnstileVars, wordVars, localVars, heldVars>>
    BY <1>0, <1>l, <1>m, <1>2, <2>2, Unheld
       DEF wordVars, localVars, heldVars, LocalTypeOK
  <2> QED
    BY <1>3, <2>1, <2>2 DEF Rlock
<1>4. CASE Wlock(t)
  <2>1. CASE /\ Goto(t, "wlock", "idle") /\ rw_lock[cur[t]] = RW_UNLOCKED
             /\ TakeWrite(t, cur[t], Owned(t)) /\ Return(t)
    <3>1. HoldStep(t)
      BY <1>0, <1>l, <1>m, <2>1, WordFacts, TakeWriteStep
         DEF IsFree, IsWord, LocalTypeOK
    <3> QED
      BY <1>1, <2>1, <3>1
  <2>2. CASE /\ Goto(t, "wlock", "wspin")
             /\ SetWord(cur[t], [rw_lock[cur[t]] EXCEPT !.spinner = TRUE])
             /\ UNCHANGED <<rw_recurse, localVars, heldVars>>
    <3>1. HoldStep(t)
      BY <1>0, <1>l, <1>m, <2>2, WordUpdates, FlagsStep
         DEF heldVars, LocalTypeOK
    <3> QED
      BY <1>2, <2>2, <3>1 DEF localVars, heldVars
  <2>3. CASE /\ Goto(t, "wlock", "chain")
             /\ UNCHANGED <<wordVars, localVars, heldVars>>
    BY <1>0, <1>l, <1>m, <1>2, <2>3, Unheld
       DEF wordVars, localVars, heldVars, LocalTypeOK
  <2> QED
    BY <1>4, <2>1, <2>2, <2>3 DEF Wlock
<1>5. CASE ContestFree(t)
  <2>1. /\ pc[t] = "contest" /\ pc' = [pc EXCEPT ![t] = "idle"] /\ Return(t)
        /\ rw_lock[cur[t]] = v[t] /\ IsFree(v[t])
        /\ TakeWrite(t, cur[t], [v[t] EXCEPT !.owner = t, !.spinner = FALSE])
    BY <1>5 DEF ContestFree
  <2>2. IsWord([v[t] EXCEPT !.owner = t, !.spinner = FALSE], t, 0)
    BY <1>0, <2>1, WordUpdates DEF IsFree, LocalTypeOK
  <2>3. HoldStep(t)
    BY <1>0, <1>l, <1>m, <2>1, <2>2, TakeWriteStep DEF LocalTypeOK
  <2> QED
    BY <1>1, <2>1, <2>3
<1>6. CASE ContestHeld(t)
  <2>1. /\ pc[t] = "contest" /\ pc' = [pc EXCEPT ![t] = "wait"]
        /\ v' = [v EXCEPT ![t] = RW_UNLOCKED]
        /\ UNCHANGED <<rw_recurse, cur, queue, lts, td_rw_rlocks, rheld, wheld>>
    BY <1>6 DEF ContestHeld, heldVars
  <2>2. CASE rw_lock' = rw_lock
    BY <1>0, <1>l, <1>m, <1>2, <2>1, <2>2, Unheld DEF LocalTypeOK
  <2>3. CASE /\ rw_lock[cur[t]] = v[t]
             /\ rw_lock' = [rw_lock EXCEPT ![cur[t]] = Announced(queue[t], v[t])]
    <3>1. HoldStep(t)
      BY <1>0, <1>l, <1>m, <2>1, <2>3, WordUpdates, FlagsStep
         DEF LocalTypeOK, SetWord
    <3> QED
      BY <1>2, <2>1, <3>1
  <2> QED
    BY <1>6, <2>2, <2>3 DEF ContestHeld
<1> QED
  BY <1>3, <1>4, <1>5, <1>6

\* A call that returns.
LEMMA ReturnMoves ==
  ASSUME RwInv, NEW t \in Thread, TD_IS_RUNNING(t),
         pc' = [pc EXCEPT ![t] = "idle"], Return(t) \/ UNCHANGED localVars,
         \/ UNCHANGED td_state
         \/ td_state' = [td \in Thread |->
                           IF td \in ToSet(ts_pending[lts[t]]) THEN "runq" ELSE td_state[td]]
  PROVE  Moves(t)
<1>0. /\ LocalTypeOK /\ OwnPath(t)
      /\ td_state \in [Thread -> {"running", "runq", "lock"}]
  BY InvParts
<1>1. /\ LocalTypeOK' /\ pc'[t] = "idle"
      /\ \A u \in Thread \ {t} : pc'[u] = pc[u] /\ cur'[u] = cur[u] /\ v'[u] = v[u]
  <2>1. CASE Return(t)
    BY <1>0, <2>1, WordFacts DEF LocalTypeOK, Points, Return, IsWord, Queue
  <2>2. CASE UNCHANGED localVars
    BY <1>0, <2>2 DEF LocalTypeOK, Points, localVars
  <2> QED
    BY <2>1, <2>2
<1>2. /\ td_state' \in [Thread -> {"running", "runq", "lock"}]
      /\ \A u \in Thread : td_state'[u] = "lock" => td_state[u] = "lock"
  BY <1>0
<1>3. OwnPath(t)'
  BY <1>1, <1>2 DEF OwnPath, ReadPath, WaitPath, WritePath, TD_ON_LOCK,
                    TD_IS_RUNNING
<1> QED
  BY <1>1, <1>2, <1>3 DEF Moves

\* A call that goes on from p, with the lock l.
LEMMA CallMoves ==
  ASSUME RwInv, NEW t \in Thread, TD_IS_RUNNING(t), NEW l \in Rwlock, NEW p \in Points,
         p \notin {"release", "down_store", "idle"},
         pc' = [pc EXCEPT ![t] = p], UNCHANGED <<td_state, v, lts>>,
         cur' = [cur EXCEPT ![t] = l], queue' \in [Thread -> Queue],
         p \in ReadPath => ReadsOf(t, l)' # {},
         p \in WaitPath => ReadsOf(t, l)' = {},
         p \in WritePath => rw_lock'[l].owner = t /\ rw_recurse'[l] = 0
  PROVE  Moves(t)
<1>0. /\ LocalTypeOK /\ OwnPath(t)
      /\ td_state \in [Thread -> {"running", "runq", "lock"}]
  BY InvParts
<1>1. /\ LocalTypeOK' /\ pc'[t] = p /\ cur'[t] = l
      /\ \A u \in Thread \ {t} : pc'[u] = pc[u] /\ cur'[u] = cur[u] /\ v'[u] = v[u]
  BY <1>0 DEF LocalTypeOK
<1>2. ReadsOf(t, cur[t])' = ReadsOf(t, l)'
  BY <1>1 DEF ReadsOf
<1>3. OwnPath(t)'
  BY <1>0, <1>1, <1>2 DEF OwnPath, TD_ON_LOCK, TD_IS_RUNNING, rw_wowner
<1> QED
  BY <1>0, <1>1, <1>3 DEF Moves

\* Goto moves one thread.
LEMMA OtherPcs ==
  ASSUME RwInv, NEW t \in Thread, NEW from, NEW to, Goto(t, from, to)
  PROVE  /\ \A u \in Thread \ {t} : pc'[u] = pc[u]
         /\ pc[t] = from /\ pc'[t] = to /\ pc' = [pc EXCEPT ![t] = to]
         /\ TD_IS_RUNNING(t)
         /\ Pend(t) = IF from \in {"runlock", "runlock_chain"} THEN 1 ELSE 0
         /\ Pend(t)' = IF to \in {"runlock", "runlock_chain"} THEN 1 ELSE 0
<1>1. pc \in [Thread -> Points]
  BY InvParts DEF LocalTypeOK
<1> QED
  BY <1>1 DEF Goto, Pend

\* rw_rlock() and rw_try_rlock().
LEMMA ClientReads ==
  ASSUME RwInv, NEW t \in Thread, NEW l \in Rwlock, RwRlock(t, l) \/ RwTryRlock(t, l)
  PROVE  HoldStep(t) /\ Moves(t)
<1>0. HoldInv /\ LocalTypeOK
  BY InvParts
<1>1. ASSUME MayRead(t, l), rw_lock[l].owner = NULL, Goto(t, "idle", "idle"), TakeRead(t, l),
             UNCHANGED localVars
      PROVE  HoldStep(t) /\ Moves(t)
  <2>1. HoldStep(t)
    BY <1>1, OtherPcs, TakeReadStep DEF MayRead, rw_wowner
  <2>2. Moves(t)
    BY <1>1, OtherPcs, ReturnMoves DEF TakeRead, turnstileVars
  <2> QED
    BY <2>1, <2>2
<1>2. ASSUME ~RW_CAN_READ(t, rw_lock[l]), Goto(t, "idle", "rlock"), Call(t, l, TS_SHARED_QUEUE),
             UNCHANGED <<turnstileVars, wordVars, heldVars>>
      PROVE  HoldStep(t) /\ Moves(t)
  <2>1. HoldStep(t)
    BY <1>2, OtherPcs, Unheld DEF wordVars, heldVars
  <2>2. ReadsOf(t, l) = {}
    BY <1>0, <1>2, OtherPcs, RefusedReadsNot
  <2>3. ReadsOf(t, l)' = {}
    BY <1>2, <2>2 DEF ReadsOf, heldVars
  <2>4. queue' \in [Thread -> Queue]
    BY <1>0, <1>2 DEF Call, LocalTypeOK, Queue
  <2>5. Moves(t)
    BY <1>2, <2>3, <2>4, OtherPcs, CallMoves
    DEF Call, turnstileVars, Points, ReadPath, WritePath
  <2> QED
    BY <2>1, <2>5
<1> QED
  BY <1>1, <1>2 DEF RwRlock, RwTryRlock, RW_CAN_READ, rw_wowner

\* rw_wlock() and rw_try_wlock().
LEMMA ClientWrites ==
  ASSUME RwInv, NEW t \in Thread, NEW l \in Rwlock, RwWlock(t, l) \/ RwTryWlock(t, l)
  PROVE  HoldStep(t) /\ Moves(t)
<1>0. HoldInv /\ LocalTypeOK
  BY InvParts
<1>1. ASSUME rw_lock[l] = RW_UNLOCKED, Goto(t, "idle", "idle"), TakeWrite(t, l, Owned(t)),
             UNCHANGED <<turnstileVars, localVars>>
      PROVE  HoldStep(t) /\ Moves(t)
  <2>1. HoldStep(t)
    BY <1>1, OtherPcs, TakeWriteStep, WordFacts DEF IsFree, IsWord
  <2>2. Moves(t)
    BY <1>1, OtherPcs, ReturnMoves DEF turnstileVars
  <2> QED
    BY <2>1, <2>2
<1>2. ASSUME MayWrite(t, l), rw_wlocked(t, l), Goto(t, "idle", "idle"), RecurseWrite(t, l),
             UNCHANGED <<turnstileVars, localVars>>
      PROVE  HoldStep(t) /\ Moves(t)
  <2>1. HoldStep(t)
    BY <1>2, OtherPcs, RecurseStep
  <2>2. Moves(t)
    BY <1>2, OtherPcs, ReturnMoves DEF turnstileVars
  <2> QED
    BY <2>1, <2>2
<1>3. ASSUME MayWrite(t, l), Goto(t, "idle", "wlock"), Call(t, l, TS_EXCLUSIVE_QUEUE),
             UNCHANGED <<turnstileVars, wordVars, heldVars>>
      PROVE  HoldStep(t) /\ Moves(t)
  <2>1. HoldStep(t)
    BY <1>3, OtherPcs, Unheld DEF wordVars, heldVars
  <2>2. ReadsOf(t, l)' = {}
    BY <1>3 DEF ReadsOf, heldVars, MayWrite
  <2>3. queue' \in [Thread -> Queue]
    BY <1>0, <1>3 DEF Call, LocalTypeOK, Queue
  <2>4. Moves(t)
    BY <1>3, <2>2, <2>3, OtherPcs, CallMoves
    DEF Call, turnstileVars, Points, ReadPath, WritePath
  <2> QED
    BY <2>1, <2>4
<1> QED
  BY <1>1, <1>2, <1>3 DEF RwWlock, RwTryWlock

\* One round of _rw_runlock() gives the read lock up, or goes for the turnstile.
LEMMA RunlockGives ==
  ASSUME RwInv, NEW t \in Thread, NEW l \in Rwlock, NEW w, ReadsOf(t, l) # {},
         SetWord(l, w), IsWord(w, NULL, rw_lock[l].readers - 1), DropRead(t, l),
         UNCHANGED <<rw_recurse, wheld>>, Tally(t, -1)
  PROVE  HoldStep(t)
<1>1. Becomes(l, NULL, rw_lock[l].readers - 1)
  BY InvParts, StoreBecomes DEF SetWord
<1> QED
  BY <1>1 DEF LosesRead, HoldStep

\* The word _rw_runlock() stores, on its two paths without waiters, has one
\* reader less.
LEMMA RunlockWord ==
  ASSUME RwInv, NEW t \in Thread, NEW l \in Rwlock, ReadsOf(t, l) # {}
  PROVE  IsWord(IF rw_lock[l].readers > 1 THEN [rw_lock[l] EXCEPT !.readers = @ - 1]
                ELSE RW_UNLOCKED, NULL, rw_lock[l].readers - 1)
<1>0. HoldInv
  BY InvParts
<1>1. /\ rw_lock[l] \in Word /\ rw_lock[l].owner = NULL
      /\ rw_lock[l].readers \in Nat /\ rw_lock[l].readers > 0
  BY <1>0, ReaderCounted DEF HoldInv, HoldTypeOK, rw_wowner
<1>2. CASE rw_lock[l].readers > 1
  BY <1>1, <1>2, WordUpdates
<1>3. CASE rw_lock[l].readers = 1
  BY <1>3, WordFacts
<1> QED
  BY <1>1, <1>2, <1>3

\* The steps of _rw_runlock().
LEMMA RunlockSteps ==
  ASSUME RwInv, NEW t \in Thread,
         \/ \E l \in Rwlock : RwRunlock(t, l)
         \/ Runlock(t) \/ RunlockChain(t)
  PROVE  HoldStep(t) /\ Moves(t)
<1>0. HoldInv /\ LocalTypeOK /\ OwnPath(t) /\ td_rw_rlocks \in [Thread -> Nat]
  BY InvParts DEF HoldInv, HoldTypeOK
<1>1. ASSUME NEW l \in Rwlock, RwRunlock(t, l) PROVE HoldStep(t) /\ Moves(t)
  <2>0. /\ ReadsOf(t, l) # {} /\ td_rw_rlocks' = [td_rw_rlocks EXCEPT ![t] = @ - 1]
        /\ UNCHANGED <<td_state, rw_recurse, wheld>>
    BY <1>1 DEF RwRunlock, turnstileVars
  <2>1. ASSUME NEW to, Goto(t, "idle", to)
        PROVE  td_rw_rlocks[t] > 0 /\ td_rw_rlocks' \in [Thread -> Nat]
    <3>1. td_rw_rlocks[t] + 0 > 0
      BY <1>0, <2>0, <2>1, OtherPcs, ReaderCounted
    <3> QED
      BY <1>0, <2>0, <3>1
  <2>2. CASE /\ Goto(t, "idle", "idle")
             /\ SetWord(l, IF rw_lock[l].readers > 1 THEN [rw_lock[l] EXCEPT !.readers = @ - 1]
                           ELSE RW_UNLOCKED)
             /\ DropRead(t, l) /\ Return(t)
    <3>1. Tally(t, -1)
      BY <1>0, <2>0, <2>1, <2>2, OtherPcs DEF Tally
    <3>2. HoldStep(t)
      BY <2>0, <2>2, <3>1, RunlockGives, RunlockWord
    <3>3. Moves(t)
      BY <2>0, <2>2, OtherPcs, ReturnMoves
    <3> QED
      BY <3>2, <3>3
  <2>3. CASE /\ Goto(t, "idle", "runlock_chain") /\ Call(t, l, TS_SHARED_QUEUE)
             /\ UNCHANGED <<rw_lock, rheld>>
    <3>1. Tally(t, 0)
      BY <1>0, <2>0, <2>1, <2>3, OtherPcs DEF Tally
    <3>2. HoldStep(t)
      BY <1>0, <2>0, <2>3, <3>1 DEF HoldStep, Keeps, HoldInv, HoldTypeOK
    <3>3. ReadsOf(t, l)' # {}
      BY <2>0, <2>3 DEF ReadsOf
    <3>4. queue' \in [Thread -> Queue]
      BY <1>0, <2>3 DEF Call, LocalTypeOK, Queue
    <3>5. Moves(t)
      BY <2>0, <2>3, <3>3, <3>4, OtherPcs, CallMoves
         DEF Call, Points, WaitPath, WritePath
    <3> QED
      BY <3>2, <3>5
  <2> QED
    BY <1>1, <2>2, <2>3 DEF RwRunlock, RunlockRound
<1>2. CASE Runlock(t)
  <2>0. /\ UNCHANGED <<td_state, rw_recurse, wheld, td_rw_rlocks>>
        /\ pc[t] = "runlock" /\ cur[t] \in Rwlock /\ ReadsOf(t, cur[t]) # {}
    BY <1>0, <1>2 DEF Runlock, RunlockRound, turnstileVars, Goto, OwnPath,
                      ReadPath
  <2>2. CASE /\ Goto(t, "runlock", "idle")
             /\ SetWord(cur[t], IF rw_lock[cur[t]].readers > 1
                                THEN [rw_lock[cur[t]] EXCEPT !.readers = @ - 1]
                                ELSE RW_UNLOCKED)
             /\ DropRead(t, cur[t]) /\ Return(t)
    <3>1. Tally(t, -1)
      BY <2>0, <2>2, OtherPcs, TallyStays
    <3>2. HoldStep(t)
      BY <2>0, <2>2, <3>1, RunlockGives, RunlockWord
    <3>3. Moves(t)
      BY <2>0, <2>2, OtherPcs, ReturnMoves
    <3> QED
      BY <3>2, <3>3
  <2>3. CASE /\ Goto(t, "runlock", "runlock_chain") /\ Call(t, cur[t], TS_SHARED_QUEUE)
             /\ UNCHANGED <<rw_lock, rheld>>
    <3>2. HoldStep(t)
      BY <2>0, <2>3, OtherPcs, Unheld
    <3>3. ReadsOf(t, cur[t])' # {} /\ cur' = cur
      BY <1>0, <2>0, <2>3 DEF ReadsOf, Call, LocalTypeOK
    <3>4. queue' \in [Thread -> Queue]
      BY <1>0, <2>3 DEF Call, LocalTypeOK, Queue
    <3>5. ReadsOf(t, cur[t])' # {} /\ \A l \in Rwlock : l = cur[t] => ReadsOf(t, l)' # {}
      BY <2>0, <2>3, <3>3 DEF ReadsOf
    <3>6. Moves(t)
      BY <2>0, <2>3, <3>4, <3>5, OtherPcs, CallMoves
         DEF Call, Points, WaitPath, WritePath
    <3> QED
      BY <3>2, <3>6
  <2> QED
    BY <1>2, <2>2, <2>3 DEF Runlock, RunlockRound
<1>3. CASE RunlockChain(t)
  <2>0. /\ UNCHANGED <<td_state, rw_recurse, wheld, td_rw_rlocks, cur, v, lts>>
        /\ pc[t] = "runlock_chain" /\ cur[t] \in Rwlock /\ ReadsOf(t, cur[t]) # {}
    BY <1>0, <1>3 DEF RunlockChain, OwnPath, ReadPath
  <2>1. cur' = [cur EXCEPT ![t] = cur[t]]
    BY <1>0, <2>0 DEF LocalTypeOK
  <2>2. CASE /\ rw_lock[cur[t]].readers = 1 /\ Goto(t, "runlock_chain", "wake")
             /\ SetWord(cur[t], Released(rw_lock[cur[t]])) /\ DropRead(t, cur[t])
             /\ queue' = [queue EXCEPT ![t] = WakeQueue(rw_lock[cur[t]])]
    <3>1. Tally(t, -1)
      BY <2>0, <2>2, OtherPcs, TallyStays
    <3>2. IsWord(Released(rw_lock[cur[t]]), NULL, rw_lock[cur[t]].readers - 1)
      <4>1. rw_lock[cur[t]] \in Word
        BY <1>0, <2>0 DEF HoldInv, HoldTypeOK
      <4>2. rw_lock[cur[t]].readers - 1 = 0
        BY <2>2
      <4> QED
        BY <4>1, <4>2, WordUpdates
    <3>3. HoldStep(t)
      BY <2>0, <2>2, <3>1, <3>2, RunlockGives
    <3>4. queue' \in [Thread -> Queue]
      BY <1>0, <2>2 DEF LocalTypeOK, Queue, WakeQueue
    <3>5. Moves(t)
      <4>1. "wake" \in Points /\ "wake" \notin ReadPath \cup WaitPath \cup WritePath
        BY DEF Points, Chained, ReadPath, WaitPath, WritePath
      <4>2. pc' = [pc EXCEPT ![t] = "wake"] /\ TD_IS_RUNNING(t)
        BY <2>2, OtherPcs
      <4> QED
        BY <2>0, <2>1, <3>4, <4>1, <4>2, CallMoves
    <3> QED
      BY <3>3, <3>5
  <2>3. CASE Goto(t, "runlock_chain", "runlock") /\ UNCHANGED <<rw_lock, queue, rheld>>
    <3>1. HoldStep(t)
      BY <2>0, <2>3, OtherPcs, Unheld
    <3>2. \A l \in Rwlock : l = cur[t] => ReadsOf(t, l)' # {}
      BY <2>0, <2>3 DEF ReadsOf
    <3>3. Moves(t)
      BY <1>0, <2>0, <2>1, <2>3, <3>2, OtherPcs, CallMoves
         DEF Points, WaitPath, WritePath, LocalTypeOK
    <3> QED
      BY <3>1, <3>3
  <2> QED
    BY <1>3, <2>2, <2>3 DEF RunlockChain
<1> QED
  BY <1>1, <1>2, <1>3

\* rw_wunlock() and the store that frees the lock.
LEMMA WunlockSteps ==
  ASSUME RwInv, NEW t \in Thread,
         (\E l \in Rwlock : RwWunlock(t, l)) \/ Release(t)
  PROVE  HoldStep(t) /\ Moves(t)
<1>0. HoldInv /\ LocalTypeOK /\ OwnPath(t)
  BY InvParts
<1>1. ASSUME NEW l \in Rwlock, NEW w, IsWord(w, NULL, 0), rw_lock[l].owner = t,
             rw_recurse[l] = 0, SetWord(l, w), wheld' = [wheld EXCEPT ![l][t] = 0],
             UNCHANGED <<rw_recurse, rheld>>, Tally(t, 0)
      PROVE  HoldStep(t)
  <2>1. Becomes(l, NULL, 0)
    BY <1>0, <1>1, StoreBecomes DEF SetWord
  <2> QED
    BY <1>1, <2>1 DEF LosesWrite, HoldStep, rw_wowner
<1>2. ASSUME NEW l \in Rwlock, RwWunlock(t, l) PROVE HoldStep(t) /\ Moves(t)
  <2>0. /\ wheld[l][t] > 0 /\ UNCHANGED <<td_state, td_rw_rlocks, rheld>>
    BY <1>2 DEF RwWunlock, turnstileVars
  <2>1. rw_lock[l].owner = t
    BY <1>0, <2>0 DEF HoldInv, AccountInv, rw_wowner
  <2>2. CASE /\ rw_recursed(l) /\ Goto(t, "idle", "idle")
             /\ rw_recurse' = [rw_recurse EXCEPT ![l] = @ - 1]
             /\ wheld' = [wheld EXCEPT ![l][t] = @ - 1]
             /\ UNCHANGED <<rw_lock, localVars>>
    <3>1. Tally(t, 0)
      BY <2>0, <2>2, OtherPcs, TallyStays
    <3>2. HoldStep(t)
      BY <2>0, <2>1, <2>2, <3>1 DEF HoldStep, Unrecurses, rw_wowner,
                                    rw_recursed
    <3>3. Moves(t)
      BY <2>0, <2>2, OtherPcs, ReturnMoves
    <3> QED
      BY <3>2, <3>3
  <2>3. CASE /\ ~rw_recursed(l) /\ Goto(t, "idle", "idle") /\ SetWord(l, RW_UNLOCKED)
             /\ wheld' = [wheld EXCEPT ![l][t] = 0] /\ UNCHANGED <<rw_recurse, localVars>>
    <3>1. Tally(t, 0)
      BY <2>0, <2>3, OtherPcs, TallyStays
    <3>2. HoldStep(t)
      BY <1>1, <2>0, <2>1, <2>3, <3>1, WordFacts DEF rw_recursed
    <3>3. Moves(t)
      BY <2>0, <2>3, OtherPcs, ReturnMoves
    <3> QED
      BY <3>2, <3>3
  <2>4. CASE /\ ~rw_recursed(l) /\ Goto(t, "idle", "wunlock")
             /\ Call(t, l, TS_EXCLUSIVE_QUEUE) /\ UNCHANGED <<wordVars, wheld>>
    <3>1. HoldStep(t)
      BY <2>0, <2>4, OtherPcs, Unheld DEF wordVars
    <3>2. queue' \in [Thread -> Queue]
      BY <1>0, <2>4 DEF Call, LocalTypeOK, Queue
    <3>3. Moves(t)
      <4>1. "wunlock" \in Points /\ "wunlock" \notin ReadPath \cup WaitPath
        BY DEF Points, ReadPath, WaitPath
      <4>2. pc' = [pc EXCEPT ![t] = "wunlock"] /\ TD_IS_RUNNING(t)
        BY <2>4, OtherPcs
      <4>3. rw_lock'[l].owner = t /\ rw_recurse'[l] = 0
        BY <2>1, <2>4 DEF rw_recursed, wordVars
      <4> QED
        BY <2>0, <2>4, <3>2, <4>1, <4>2, <4>3, CallMoves DEF Call
    <3> QED
      BY <3>1, <3>3
  <2> QED
    BY <1>2, <2>2, <2>3, <2>4 DEF RwWunlock
<1>3. CASE Release(t)
  <2>1. /\ Goto(t, "release", "idle") /\ SetWord(cur[t], v[t])
        /\ wheld' = [wheld EXCEPT ![cur[t]][t] = 0] /\ Return(t)
        /\ UNCHANGED <<rw_recurse, td_rw_rlocks, rheld>>
        /\ td_state' = [td \in Thread |->
                          IF td \in ToSet(ts_pending[lts[t]]) THEN "runq" ELSE td_state[td]]
    BY <1>3 DEF Release, UnpendReturn, turnstile_unpend
  <2>2. /\ pc[t] = "release" /\ cur[t] \in Rwlock /\ rw_lock[cur[t]].owner = t
        /\ rw_recurse[cur[t]] = 0 /\ IsWord(v[t], NULL, 0)
    BY <1>0, <2>1 DEF Goto, OwnPath, WritePath, LocalTypeOK, IsWord, rw_wowner
  <2>3. Tally(t, 0)
    BY <2>1, OtherPcs, TallyStays
  <2>4. HoldStep(t)
    BY <1>1, <2>1, <2>2, <2>3
  <2>5. Moves(t)
    BY <2>1, OtherPcs, ReturnMoves
  <2> QED
    BY <2>4, <2>5
<1> QED
  BY <1>2, <1>3

\* rw_try_upgrade().
LEMMA UpgradeSteps ==
  ASSUME RwInv, NEW t \in Thread,
         (\E l \in Rwlock : RwTryUpgrade(t, l)) \/ UpgradeCheck(t)
  PROVE  HoldStep(t) /\ Moves(t)
<1>0. /\ HoldInv /\ LocalTypeOK /\ OwnPath(t) /\ td_rw_rlocks \in [Thread -> Nat]
      /\ rw_lock \in [Rwlock -> Word]
  BY InvParts DEF HoldInv, HoldTypeOK
<1>1. ASSUME NEW l \in Rwlock, NEW w, IsWord(w, t, 0), TakeUpgrade(t, l, w),
             ReadsOf(t, l) # {}, rw_lock[l].readers <= 1,
             NEW from \in {"idle", "up_check"}, Goto(t, from, "idle")
      PROVE  HoldStep(t)
  <2>1. Becomes(l, t, 0)
    BY <1>0, <1>1, StoreBecomes DEF TakeUpgrade, SetWord
  <2>2. td_rw_rlocks[t] + 0 > 0
    BY <1>0, <1>1, OtherPcs, ReaderCounted
  <2>3. td_rw_rlocks' = [td_rw_rlocks EXCEPT ![t] = @ - 1]
    BY <1>1 DEF TakeUpgrade
  <2>4. td_rw_rlocks' \in [Thread -> Nat] /\ td_rw_rlocks'[t] = td_rw_rlocks[t] - 1
    BY <1>0, <2>2, <2>3
  <2>5. Tally(t, -1)
    BY <1>0, <1>1, <2>3, <2>4, OtherPcs DEF Tally
  <2>6. rw_lock[l].readers = 1
    BY <1>0, <1>1, LoneReader
  <2> QED
    BY <1>1, <2>1, <2>5, <2>6 DEF TakeUpgrade, Upgrades, HoldStep
<1>2. ASSUME NEW l \in Rwlock, RwTryUpgrade(t, l) PROVE HoldStep(t) /\ Moves(t)
  <2>0. /\ ReadsOf(t, l) # {} /\ rw_lock[l].readers <= 1 /\ UNCHANGED td_state
    BY <1>2 DEF RwTryUpgrade, turnstileVars
  <2>1. CASE Goto(t, "idle", "idle") /\ TakeUpgrade(t, l, Owned(t)) /\ UNCHANGED localVars
    <3>1. HoldStep(t)
      BY <1>1, <2>0, <2>1, WordFacts
    <3>2. Moves(t)
      BY <2>0, <2>1, OtherPcs, ReturnMoves
    <3> QED
      BY <3>1, <3>2
  <2>2. CASE /\ Goto(t, "idle", "upgrade") /\ Call(t, l, TS_EXCLUSIVE_QUEUE)
             /\ UNCHANGED <<wordVars, heldVars>>
    <3>1. HoldStep(t)
      BY <2>2, OtherPcs, Unheld DEF wordVars, heldVars
    <3>2. ReadsOf(t, l)' # {}
      BY <2>0, <2>2 DEF ReadsOf, heldVars
    <3>3. queue' \in [Thread -> Queue]
      BY <1>0, <2>2 DEF Call, LocalTypeOK, Queue
    <3>4. Moves(t)
      BY <2>0, <2>2, <3>2, <3>3, OtherPcs, CallMoves
         DEF Call, Points, WaitPath, WritePath
    <3> QED
      BY <3>1, <3>4
  <2> QED
    BY <1>2, <2>1, <2>2 DEF RwTryUpgrade
<1>3. CASE UpgradeCheck(t)
  <2>0. /\ Goto(t, "up_check", "idle") /\ Return(t) /\ UNCHANGED td_state
        /\ pc[t] = "up_check" /\ cur[t] \in Rwlock /\ ReadsOf(t, cur[t]) # {}
    BY <1>0, <1>3 DEF UpgradeCheck, Goto, Cancel, Claim, OwnPath, ReadPath
  <2>1. Moves(t)
    BY <2>0, OtherPcs, ReturnMoves
  <2>2. CASE UNCHANGED <<wordVars, heldVars>>
    <3>1. HoldStep(t)
      BY <2>0, <2>2, OtherPcs, Unheld DEF wordVars, heldVars
    <3> QED
      BY <2>1, <3>1
  <2>3. CASE /\ rw_lock[cur[t]].readers <= 1
             /\ TakeUpgrade(t, cur[t], [rw_lock[cur[t]] EXCEPT !.owner = t, !.readers = 0,
                                                               !.spinner = FALSE])
    <3>1. IsWord([rw_lock[cur[t]] EXCEPT !.owner = t, !.readers = 0, !.spinner = FALSE], t, 0)
      BY <1>0, <2>0, WordUpdates
    <3>2. HoldStep(t)
      BY <1>1, <2>0, <2>3, <3>1
    <3> QED
      BY <2>1, <3>2
  <2> QED
    BY <1>3, <2>2, <2>3 DEF UpgradeCheck
<1> QED
  BY <1>2, <1>3

\* rw_downgrade().
LEMMA DowngradeSteps ==
  ASSUME RwInv, NEW t \in Thread,
         (\E l \in Rwlock : RwDowngrade(t, l)) \/ DownStore(t)
  PROVE  HoldStep(t) /\ Moves(t)
<1>0. /\ HoldInv /\ LocalTypeOK /\ OwnPath(t) /\ td_rw_rlocks \in [Thread -> Nat]
      /\ rw_lock \in [Rwlock -> Word]
  BY InvParts DEF HoldInv, HoldTypeOK
<1>1. ASSUME NEW l \in Rwlock, NEW w, IsWord(w, NULL, 1), TakeDowngrade(t, l, w),
             rw_lock[l].owner = t, rw_recurse[l] = 0,
             NEW from \in {"idle", "down_store"}, NEW to \in {"idle", "unpend"},
             Goto(t, from, to)
      PROVE  HoldStep(t)
  <2>1. Becomes(l, NULL, 1)
    BY <1>0, <1>1, StoreBecomes DEF TakeDowngrade, SetWord
  <2>2. td_rw_rlocks' = [td_rw_rlocks EXCEPT ![t] = @ + 1]
    BY <1>1 DEF TakeDowngrade
  <2>3. Tally(t, 1)
    BY <1>0, <1>1, <2>2, OtherPcs DEF Tally
  <2> QED
    BY <1>1, <2>1, <2>3 DEF TakeDowngrade, Downgrades, HoldStep, rw_wowner
<1>2. ASSUME NEW l \in Rwlock, RwDowngrade(t, l) PROVE HoldStep(t) /\ Moves(t)
  <2>0. /\ wheld[l][t] = 1 /\ UNCHANGED td_state
    BY <1>2 DEF RwDowngrade, turnstileVars
  <2>1. rw_lock[l].owner = t /\ rw_recurse[l] = 0
    <3>1. rw_lock[l].owner = t /\ wheld[l][t] = rw_recurse[l] + 1
      BY <1>0, <2>0 DEF HoldInv, AccountInv, rw_wowner
    <3>2. rw_recurse[l] \in Nat
      BY <1>0 DEF HoldInv, HoldTypeOK
    <3> QED
      BY <2>0, <3>1, <3>2
  <2>2. CASE /\ Goto(t, "idle", "idle") /\ TakeDowngrade(t, l, RW_READERS_LOCK(1))
             /\ UNCHANGED localVars
    <3>1. HoldStep(t)
      BY <1>1, <2>1, <2>2, WordFacts
    <3>2. Moves(t)
      BY <2>0, <2>2, OtherPcs, ReturnMoves
    <3> QED
      BY <3>1, <3>2
  <2>3. CASE /\ Goto(t, "idle", "downgrade") /\ Call(t, l, TS_SHARED_QUEUE)
             /\ UNCHANGED <<wordVars, heldVars>>
    <3>1. HoldStep(t)
      BY <2>3, OtherPcs, Unheld DEF wordVars, heldVars
    <3>2. queue' \in [Thread -> Queue]
      BY <1>0, <2>3 DEF Call, LocalTypeOK, Queue
    <3>3. Moves(t)
      <4>1. "downgrade" \in Points /\ "downgrade" \notin ReadPath \cup WaitPath
        BY DEF Points, ReadPath, WaitPath
      <4>2. pc' = [pc EXCEPT ![t] = "downgrade"] /\ TD_IS_RUNNING(t)
        BY <2>3, OtherPcs
      <4>3. rw_lock'[l].owner = t /\ rw_recurse'[l] = 0
        BY <2>1, <2>3 DEF wordVars
      <4> QED
        BY <2>0, <2>3, <3>2, <4>1, <4>2, <4>3, CallMoves DEF Call
    <3> QED
      BY <3>1, <3>3
  <2> QED
    BY <1>2, <2>2, <2>3 DEF RwDowngrade
<1>3. CASE DownStore(t)
  <2>0. /\ TakeDowngrade(t, cur[t], v[t]) /\ UNCHANGED td_state
        /\ pc[t] = "down_store" /\ cur[t] \in Rwlock /\ rw_lock[cur[t]].owner = t
        /\ rw_recurse[cur[t]] = 0 /\ IsWord(v[t], NULL, 1)
    BY <1>0, <1>3 DEF DownStore, OwnPath, WritePath, LocalTypeOK, IsWord,
                      rw_wowner
  <2>1. CASE Goto(t, "down_store", "unpend") /\ UNCHANGED localVars
    <3>1. HoldStep(t)
      BY <1>1, <2>0, <2>1
    <3>2. cur' = [cur EXCEPT ![t] = cur[t]] /\ UNCHANGED <<v, lts>> /\ queue' \in [Thread -> Queue]
      BY <1>0, <2>1 DEF LocalTypeOK, localVars
    <3>3. "unpend" \in Points /\ "unpend" \notin ReadPath \cup WaitPath \cup WritePath
      BY DEF Points, Chained, ReadPath, WaitPath, WritePath
    <3>4. pc' = [pc EXCEPT ![t] = "unpend"] /\ TD_IS_RUNNING(t)
      BY <2>1, OtherPcs
    <3>5. Moves(t)
      BY <2>0, <3>2, <3>3, <3>4, CallMoves
    <3> QED
      BY <3>1, <3>5
  <2>2. CASE Goto(t, "down_store", "idle") /\ Return(t)
    <3>1. HoldStep(t)
      BY <1>1, <2>0, <2>2
    <3>2. Moves(t)
      BY <2>0, <2>2, OtherPcs, ReturnMoves
    <3> QED
      BY <3>1, <3>2
  <2> QED
    BY <1>3, <2>1, <2>2 DEF DownStore
<1> QED
  BY <1>2, <1>3

\* rw_destroy() and rw_init().
LEMMA LifeSteps ==
  ASSUME RwInv, NEW t \in Thread, NEW l \in Rwlock, RwDestroy(t, l) \/ RwInit(t, l)
  PROVE  HoldStep(t) /\ Moves(t)
<1>0. HoldInv
  BY InvParts
<1>1. /\ Goto(t, "idle", "idle") /\ UNCHANGED <<td_state, localVars, heldVars>>
      /\ IsWord(rw_lock[l], NULL, 0) \/ IsWord(rw_lock[l], DESTROYED, 0)
      /\ \E w : SetWord(l, w) /\ (IsWord(w, NULL, 0) \/ IsWord(w, DESTROYED, 0))
      /\ rw_recurse' = rw_recurse \/ rw_recurse' = [rw_recurse EXCEPT ![l] = 0]
  BY WordFacts DEF RwDestroy, RwInit, turnstileVars
<1>2. Moves(t)
  BY <1>1, OtherPcs, ReturnMoves
<1>3. Tally(t, 0)
  BY <1>1, OtherPcs, TallyStays DEF heldVars
<1>4. rw_wowner(l) \notin Thread /\ rw_lock[l].readers = 0
  BY <1>1, TurnstileAssumption, RwlockAssumption DEF IsWord, rw_wowner
<1>5. \E o \in {NULL, DESTROYED} : Becomes(l, o, 0)
  BY <1>0, <1>1, StoreBecomes DEF SetWord
<1>6. rw_recurse' = rw_recurse
  BY <1>0, <1>1, <1>4 DEF HoldInv, HoldTypeOK, WordInv
<1>7. Toggles(t, l)
  BY <1>1, <1>3, <1>4, <1>5, <1>6 DEF Toggles, heldVars
<1> QED
  BY <1>2, <1>7 DEF HoldStep

\* Every step of a thread is one of the kinds above.
LEMMA EveryStep ==
  ASSUME RwInv, NEW t \in Thread, Step(t) \/ Client(t) \/ Preempt(t) \/ Dispatch(t)
  PROVE  HoldStep(t) /\ Moves(t)
BY QuietSteps, WaitSteps, RunlockSteps, WunlockSteps, UpgradeSteps,
   DowngradeSteps,
   ClientReads, ClientWrites, LifeSteps
DEF Step, Client

\* The initial states satisfy the inductive invariant.
LEMMA RwInvInit == Init => RwInv
<1> SUFFICES ASSUME Init PROVE RwInv
  OBVIOUS
<1> USE RwlockAssumption, TurnstileAssumption DEF Init
<1>1. LocalTypeOK /\ HoldTypeOK
  BY WordFacts DEF LocalTypeOK, HoldTypeOK, IsWord, Points, Queue
<1>2. td_state \in [Thread -> {"running", "runq", "lock"}]
  BY DEF TurnstileInit
<1>3. \A t \in Thread : OwnPath(t)
  BY DEF OwnPath, ReadPath, WaitPath, WritePath, TurnstileInit, TD_ON_LOCK
<1>4. WordInv
  BY DEF WordInv, RW_UNLOCKED, RW_READERS_LOCK, rw_wowner
<1>5. AccountInv
  BY FS_EmptySet DEF AccountInv, RW_UNLOCKED, RW_READERS_LOCK, rw_wowner
<1>6. ReadInv
  <2>1. \A t \in Thread : AllReads(t) = {} /\ Pend(t) = 0
    BY DEF AllReads, Pend
  <2>2. \A t \in Thread, l \in Rwlock : ReadsOf(t, l) = Upto(t, 0)
    BY DEF ReadsOf, Upto
  <2>3. ASSUME NEW t \in Thread
        PROVE  /\ IsFiniteSet(AllReads(t))
               /\ Cardinality(AllReads(t)) = td_rw_rlocks[t] + Pend(t)
    <3>1. AllReads(t) = {} /\ Pend(t) = 0 /\ td_rw_rlocks[t] = 0
      BY <2>1
    <3> HIDE DEF Init
    <3> QED
      BY <3>1, FS_EmptySet
  <2>4. \A l \in Rwlock : IsFiniteSet(rheld[l])
    BY FS_EmptySet
  <2>5. 0 \in 0..MaxRead
    OBVIOUS
  <2> QED
    BY <2>2, <2>3, <2>4, <2>5 DEF ReadInv
<1> QED
  BY <1>1, <1>2, <1>3, <1>4, <1>5, <1>6, InvParts DEF HoldInv

\* Every step keeps the inductive invariant.
LEMMA RwInvNext == RwInv /\ [Next]_vars => RwInv'
<1> SUFFICES ASSUME RwInv, [Next]_vars PROVE RwInv'
  OBVIOUS
<1>1. ASSUME NEW t \in Thread, Step(t) \/ Client(t) \/ Preempt(t) \/ Dispatch(t)
      PROVE  RwInv'
  BY <1>1, EveryStep, StepKeeps
<1>2. CASE UNCHANGED vars
  <2> USE <1>2 DEF vars, turnstileVars, wordVars, localVars, heldVars, RwInv
  <2>1. TypeOK' /\ WordInv' /\ AccountInv'
    BY DEF TypeOK, WordInv, AccountInv, rw_wowner
  <2>2. CallInv' /\ PathInv'
    BY DEF CallInv, PathInv, ReadsOf, rw_wowner, TD_ON_LOCK
  <2>3. ReadInv'
    BY DEF ReadInv, AllReads, ReadsOf, Pend
  <2> QED
    BY <2>1, <2>2, <2>3
<1> QED
  BY <1>1, <1>2 DEF Next

\* For any number of threads and locks: the lock word accounts for every holder.
THEOREM HoldersAreAccounted == Spec => []HoldersAccounted
<1>1. RwInv => HoldersAccounted
  BY DEF RwInv, AccountInv, HoldersAccounted
<1> QED
  BY <1>1, RwInvInit, RwInvNext, PTL DEF Spec

\* A thread that has a read lock never blocks to read the same lock again.
THEOREM ReadersNeverDeadlock == Spec => []NoReaderDeadlock
<1>1. RwInv => NoReaderDeadlock
  BY DEF RwInv, CallInv, PathInv, WaitPath, NoReaderDeadlock
<1> QED
  BY <1>1, RwInvInit, RwInvNext, PTL DEF Spec

-----------------------------------------------------------------------------
\* Each kind of step is a step of the abstract lock.
LEMMA AbstractState ==
  ASSUME HoldInv
  PROVE  \A l \in Rwlock :
           /\ AbstractReaders[l] = rw_lock[l].readers
           /\ AbstractWriter[l] = IF rw_lock[l].owner = DESTROYED THEN NULL ELSE rw_lock[l].owner
BY DEF AbstractReaders, AbstractWriter, rw_wowner

\* The change of a word, seen in the abstract state.
LEMMA AbstractBecomes ==
  ASSUME HoldInv, NEW l \in Rwlock, NEW o, NEW r, o # DESTROYED, Becomes(l, o, r)
  PROVE  /\ AbstractReaders' = [AbstractReaders EXCEPT ![l] = r]
         /\ AbstractWriter' = [AbstractWriter EXCEPT ![l] = o]
BY DEF AbstractReaders, AbstractWriter, Becomes, rw_wowner

\* Every kind of step is a step of AbstractRwlock or changes nothing of it.
LEMMA AbstractStep ==
  ASSUME HoldInv, NEW t \in Thread, HoldStep(t)
  PROVE  \/ Abstract!Next
         \/ UNCHANGED <<AbstractWriter, rw_recurse, AbstractReaders>>
<1> USE DEF rw_wowner
<1>0. /\ t # NULL /\ t # DESTROYED /\ NULL # DESTROYED
      /\ rw_lock \in [Rwlock -> Word] /\ rw_recurse \in [Rwlock -> Nat]
      /\ \A l \in Rwlock : rw_lock[l].readers \in Nat
  BY TurnstileAssumption, RwlockAssumption, WordFacts DEF HoldInv, HoldTypeOK
<1>k. CASE Keeps(t)
  BY <1>k DEF Keeps, AbstractReaders, AbstractWriter
<1>1. ASSUME NEW l \in Rwlock, GetsRead(t, l) PROVE Abstract!Next
  <2>0. AbstractWriter' = AbstractWriter
    BY <1>0, <1>1 DEF GetsRead, Becomes, AbstractWriter
  <2>1. Abstract!ReadLock(l)
    BY <1>0, <1>1, <2>0, AbstractState, AbstractBecomes
       DEF GetsRead, Abstract!ReadLock
  <2> QED
    BY <2>1 DEF Abstract!Next
<1>2. ASSUME NEW l \in Rwlock, LosesRead(t, l) PROVE Abstract!Next
  <2>0. rw_lock[l].owner = NULL /\ rw_lock[l].readers > 0 /\ rw_lock[l].readers - 1 \in Nat
    BY <1>0, <1>2, ReaderCounted DEF LosesRead
  <2>00. AbstractWriter' = AbstractWriter
    BY <1>0, <1>2, <2>0 DEF LosesRead, Becomes, AbstractWriter
  <2>1. Abstract!ReadUnlock(l)
    BY <1>0, <1>2, <2>0, <2>00, AbstractState, AbstractBecomes
       DEF LosesRead, Abstract!ReadUnlock
  <2> QED
    BY <2>1 DEF Abstract!Next
<1>3. ASSUME NEW l \in Rwlock, GetsWrite(t, l) PROVE Abstract!Next
  <2>0. AbstractReaders' = AbstractReaders
    BY <1>0, <1>3 DEF GetsWrite, Becomes, AbstractReaders
  <2>1. Abstract!WriteLock(t, l)
    BY <1>0, <1>3, <2>0, AbstractState, AbstractBecomes
       DEF GetsWrite, Abstract!WriteLock
  <2> QED
    BY <2>1 DEF Abstract!Next
<1>4. ASSUME NEW l \in Rwlock, Recurses(t, l) PROVE Abstract!Next
  <2>0. UNCHANGED <<AbstractReaders, AbstractWriter>>
    BY <1>4 DEF Recurses, RecurseWrite, AbstractReaders, AbstractWriter
  <2>1. Abstract!Recurse(t, l)
    BY <1>0, <1>4, <2>0, AbstractState DEF Recurses, RecurseWrite,
                                           Abstract!Recurse
  <2> QED
    BY <2>1 DEF Abstract!Next
<1>5. ASSUME NEW l \in Rwlock, Unrecurses(t, l) PROVE Abstract!Next
  <2>0. UNCHANGED <<AbstractReaders, AbstractWriter>> /\ rw_recurse[l] > 0
    BY <1>0, <1>5 DEF Unrecurses, AbstractReaders, AbstractWriter
  <2>1. Abstract!Unrecurse(t, l)
    BY <1>0, <1>5, <2>0, AbstractState DEF Unrecurses, Abstract!Unrecurse
  <2> QED
    BY <2>1 DEF Abstract!Next
<1>6. ASSUME NEW l \in Rwlock, LosesWrite(t, l) PROVE Abstract!Next
  <2>0. rw_lock[l].readers = 0
    BY <1>0, <1>6 DEF LosesWrite, HoldInv, WordInv
  <2>00. AbstractReaders' = AbstractReaders
    BY <1>0, <1>6, <2>0 DEF LosesWrite, Becomes, AbstractReaders
  <2>1. Abstract!WriteUnlock(t, l)
    BY <1>0, <1>6, <2>0, <2>00, AbstractState, AbstractBecomes
       DEF LosesWrite, Abstract!WriteUnlock
  <2> QED
    BY <2>1 DEF Abstract!Next
<1>7. ASSUME NEW l \in Rwlock, Upgrades(t, l) PROVE Abstract!Next
  <2>1. Abstract!Upgrade(t, l)
    BY <1>0, <1>7, AbstractState, AbstractBecomes
       DEF Upgrades, Abstract!Upgrade
  <2> QED
    BY <2>1 DEF Abstract!Next
<1>8. ASSUME NEW l \in Rwlock, Downgrades(t, l) PROVE Abstract!Next
  <2>1. Becomes(l, NULL, 1) /\ rw_lock[l].owner = t /\ rw_recurse[l] = 0 /\ UNCHANGED rw_recurse
    BY <1>8 DEF Downgrades
  <2>2. /\ AbstractReaders' = [AbstractReaders EXCEPT ![l] = 1]
        /\ AbstractWriter' = [AbstractWriter EXCEPT ![l] = NULL]
        /\ AbstractWriter[l] = t
    BY <1>0, <2>1, AbstractState, AbstractBecomes
  <2>3. Abstract!Downgrade(t, l)
    BY <2>1, <2>2 DEF Abstract!Downgrade
  <2> QED
    BY <2>3 DEF Abstract!Next
<1>9. ASSUME NEW l \in Rwlock, Toggles(t, l)
      PROVE  UNCHANGED <<AbstractWriter, rw_recurse, AbstractReaders>>
  <2>1. \A m \in Rwlock :
          /\ rw_lock'[m].readers = rw_lock[m].readers
          /\ (IF rw_lock'[m].owner = DESTROYED THEN NULL ELSE rw_lock'[m].owner) =
             (IF rw_lock[m].owner = DESTROYED THEN NULL ELSE rw_lock[m].owner)
    BY <1>0, <1>9, WordFacts DEF Toggles, Becomes
  <2> QED
    BY <1>9, <2>1 DEF Toggles, AbstractReaders, AbstractWriter
<1> QED
  BY <1>k, <1>1, <1>2, <1>3, <1>4, <1>5, <1>6, <1>7, <1>8, <1>9 DEF HoldStep

\* The lock word and rw_recurse implement the abstract reader/writer lock.
THEOREM RwlockRefinement == Spec => ImplementsRwlock
<1>1. Init => Abstract!Init
  BY RwlockAssumption
  DEF Init, Abstract!Init, AbstractReaders, AbstractWriter, RW_UNLOCKED, RW_READERS_LOCK, rw_wowner
<1>2. ASSUME RwInv, [Next]_vars
      PROVE  [Abstract!Next]_<<AbstractWriter, rw_recurse, AbstractReaders>>
  <2>1. ASSUME NEW t \in Thread, Step(t) \/ Client(t) \/ Preempt(t) \/ Dispatch(t)
        PROVE  \/ Abstract!Next
               \/ UNCHANGED <<AbstractWriter, rw_recurse, AbstractReaders>>
    BY <1>2, <2>1, EveryStep, InvParts, AbstractStep
  <2>2. CASE UNCHANGED vars
    BY <2>2 DEF vars, wordVars, AbstractReaders, AbstractWriter, rw_wowner
  <2> QED
    BY <1>2, <2>1, <2>2 DEF Next
<1> QED
  BY <1>1, <1>2, RwInvInit, RwInvNext, PTL
     DEF Spec, ImplementsRwlock, Abstract!Spec

\* The queue of the readers; the waiter bit of queue q; a queue of the lock's
\* turnstile that has threads in it.
SH == TS_SHARED_QUEUE
Bit(w, q) == IF q = SH THEN w.read_waiters ELSE w.write_waiters
Has(l, q) == \E ts \in Attached(l) : ts_blocked[ts][q] # <<>>

\* The control points of a thread that has looked up a turnstile; of a thread that
\* has taken waiters off a turnstile and not made them runnable.
Looking == {"check", "contest", "wait", "up_check", "down_store"}
Waking  == {"release", "unpend"}

\* The turnstile is in the hash table; the threads in its queues.
OnChain(ts) == \E c \in Chain : ts \in tc_turnstiles[c]
Waiting(ts) == ToSet(ts_blocked[ts][EX]) \cup ToSet(ts_blocked[ts][SH])

\* Thread u is waking waiters of ts.
Releasing(u, ts) == pc[u] \in Waking /\ lts[u] = ts

\* The chain lock that a thread has.
ControlOf(t) ==
  /\ pc[t] \in Chained => tc_lock[TC_HASH[cur[t]]] = t
  /\ pc[t] \in Looking \cup Waking => lts[t] \in Turnstiles
ControlInv == \A t \in Thread : ControlOf(t)

\* A turnstile in the hash table belongs to a lock in its chain and has one waiter
\* more, in the two queues together, than turnstiles on its free list.
AttachedOf(ts, c) ==
  /\ ts_lockobj[ts] \in Rwlock /\ TC_HASH[ts_lockobj[ts]] = c
  /\ Len(ts_blocked[ts][EX]) + Len(ts_blocked[ts][SH]) = Len(ts_free[ts]) + 1
AttachedInv == \A c \in Chain : \A ts \in tc_turnstiles[c] : AttachedOf(ts, c)

\* A lock has at most one turnstile.
OneAttached == \A l \in Rwlock : \A x, y \in Attached(l) : x = y

\* A turnstile that is not in the hash table is empty.
DetachedOf(ts) == ts_blocked[ts][EX] = <<>> /\ ts_blocked[ts][SH] = <<>> /\ ts_free[ts] = <<>>
DetachedInv == \A ts \in Turnstiles : ~OnChain(ts) => DetachedOf(ts)

\* The threads on the lists of a turnstile wait on it: queued threads have given
\* their turnstile away, pending threads have been given one and have somebody who
\* is going to make them runnable.
QueueOf(ts) ==
  /\ \A q \in Queue :
       /\ Injective(ts_blocked[ts][q])
       /\ \A t \in ToSet(ts_blocked[ts][q]) :
            /\ TD_ON_LOCK(t) /\ td_blocked[t] = ts /\ cur[t] = ts_lockobj[ts]
            /\ td_turnstile[t] = NULL /\ queue[t] = q
  /\ \A t \in ToSet(ts_pending[ts]) :
       /\ TD_ON_LOCK(t) /\ td_blocked[t] = ts /\ cur[t] = ts_lockobj[ts]
       /\ td_turnstile[t] # NULL
  /\ ts_pending[ts] # <<>> => \E u \in Thread : Releasing(u, ts)
QueueInv == \A ts \in Turnstiles : QueueOf(ts)

\* What thread t finds in the turnstile that it works on or waits in.
LockedOf(t) ==
  /\ pc[t] \in Looking =>
       \/ /\ lts[t] = td_turnstile[t] /\ Attached(cur[t]) = {}
          /\ ts_lockobj[lts[t]] = cur[t] /\ pc[t] # "down_store"
       \/ lts[t] \in Attached(cur[t]) /\ lts[t] # td_turnstile[t]
  /\ pc[t] \in Waking =>
       /\ ts_lockobj[lts[t]] = cur[t]
       /\ \A x \in Attached(cur[t]) : x = lts[t]
       /\ ~OnChain(lts[t]) => \E w \in ToSet(ts_pending[lts[t]]) : td_turnstile[w] = lts[t]
  /\ TD_ON_LOCK(t) =>
       /\ td_blocked[t] \in Turnstiles
       /\ t \in Waiting(td_blocked[t]) \/ t \in ToSet(ts_pending[td_blocked[t]])
  /\ td_turnstile[t] = NULL => TD_ON_LOCK(t)
LockedInv == \A t \in Thread : LockedOf(t)

\* No turnstile is in two places.
PlaceInv ==
  /\ \A u, w \in Thread :
       td_turnstile[u] # NULL /\ td_turnstile[u] = td_turnstile[w] => u = w
  /\ \A u \in Thread, x \in Turnstiles :
       td_turnstile[u] = x => ~OnChain(x) /\ \A y \in Turnstiles : x \notin ToSet(ts_free[y])
  /\ \A x, y \in Turnstiles : OnChain(x) => x \notin ToSet(ts_free[y])
  /\ \A x, y \in Turnstiles : \A i \in DOMAIN ts_free[x], j \in DOMAIN ts_free[y] :
       ts_free[x][i] = ts_free[y][j] => x = y /\ i = j

\* Where turnstiles and waiting threads are.
StructInv ==
  /\ ControlInv /\ AttachedInv /\ OneAttached
  /\ DetachedInv /\ QueueInv /\ LockedInv /\ PlaceInv

-----------------------------------------------------------------------------
\* The bits of w are those of the queues of l.
Exact(w, l) == \A q \in Queue : Bit(w, q) <=> Has(l, q)

\* The bits of a word tell the truth but while a thread with the chain lock is
\* between its store and its change to the queues.  A free lock has neither waiting
\* nor spinning writers, a lock that is written no spinning ones, and a free lock
\* that has waiters has a thread that is on its way.
WordOf(l) ==
  /\ (\A u \in Thread : cur[u] = l => pc[u] \notin {"wait", "wake", "release"}) =>
       Exact(rw_lock[l], l)
  /\ IsFree(rw_lock[l]) => ~rw_lock[l].write_waiters
  /\ IsFree(rw_lock[l]) \/ rw_wowner(l) # NULL => ~rw_lock[l].spinner
  /\ \A ts \in Attached(l) :
       ts_owner[ts] = rw_wowner(l) \/ \E u \in Thread : cur[u] = l /\ pc[u] = "wake"
  /\ IsFree(rw_lock[l]) /\ HasWaiters(rw_lock[l]) =>
       \E u \in Thread : cur[u] = l /\ ~TD_ON_LOCK(u)

\* What thread t, with a call about lock l, knows of the word of l.
KnowsAt(t, l) ==
  LET w == rw_lock[l]
  IN  /\ pc[t] # "idle" => w.owner # DESTROYED
      /\ pc[t] = "contest" =>
           /\ \A q \in Queue : Bit(v[t], q) <=> Bit(w, q)
           /\ HasWaiters(v[t]) /\ ~IsFree(v[t]) => ~IsFree(w)
           /\ queue[t] = SH => ~IsFree(v[t])
      /\ pc[t] = "wait" =>
           /\ Bit(w, queue[t]) /\ ~IsFree(w)
           /\ \A q \in Queue \ {queue[t]} : Bit(w, q) <=> Has(l, q)
      /\ pc[t] = "runlock_chain" => HasWaiters(w)
      /\ pc[t] = "wake" =>
           /\ \A q \in Queue : Bit(w, q) <=> Has(l, q) /\ q # queue[t]
           /\ Has(l, queue[t])
           /\ \A ts \in Attached(l) : ts_owner[ts] = NULL
      /\ pc[t] \in {"wake", "unpend"} => (HasWaiters(w) => w.owner = NULL)
      /\ pc[t] \in Waking => ts_pending[lts[t]] # <<>> /\ ts_owner[lts[t]] \in {t, NULL}
      /\ pc[t] = "release" =>
           /\ HasWaiters(w)
           /\ Exact(v[t], l) /\ ~v[t].write_waiters /\ ~v[t].spinner
      /\ pc[t] = "down_store" =>
           /\ v[t].write_waiters = w.write_waiters /\ ~v[t].spinner
           /\ v[t].read_waiters = (w.read_waiters /\ w.write_waiters)
KnowsOf(t) == (pc[t] = "idle" => cur[t] = NULL) /\ KnowsAt(t, cur[t])

\* A turnstile that is not in the hash table has an owner only while its waiters are
\* being woken.
OwnedInv ==
  \A ts \in Turnstiles :
    ~OnChain(ts) /\ ts_owner[ts] # NULL => \E u \in Thread : Releasing(u, ts)

\* What the words say.
TruthInv == (\A l \in Rwlock : WordOf(l)) /\ (\A t \in Thread : KnowsOf(t)) /\ OwnedInv

\* The inductive invariant of the waiters.
WaitInv == RwInv /\ TurnstileTypeOK /\ StructInv /\ TruthInv

USE DEF Turnstiles, Rwlock

\* The lists of turnstiles, by their elements.
LEMMA Lists ==
  ASSUME TurnstileTypeOK
  PROVE  /\ \A x \in Turnstiles, q \in Queue :
              ts_blocked[x][q] \in Seq(Thread) /\ ToSet(ts_blocked[x][q]) \subseteq Thread
         /\ \A x \in Turnstiles : /\ ts_pending[x] \in Seq(Thread)
                                  /\ ToSet(ts_pending[x]) \subseteq Thread
                                  /\ ts_free[x] \in Seq(Turnstiles)
                                  /\ ToSet(ts_free[x]) \subseteq Turnstiles
                                  /\ Waiting(x) \subseteq Thread
         /\ Queue = {EX, SH} /\ EX # SH
<1>0. Queue = {EX, SH} /\ EX # SH
  BY DEF Queue, EX, SH, TS_EXCLUSIVE_QUEUE, TS_SHARED_QUEUE
<1>1. ASSUME NEW x \in Turnstiles, NEW q \in Queue
      PROVE  ts_blocked[x][q] \in Seq(Thread) /\ ToSet(ts_blocked[x][q]) \subseteq Thread
  <2>1. ts_blocked[x][q] \in Seq(Thread)
    BY DEF TurnstileTypeOK
  <2> QED
    BY <2>1, SetOfSeq
<1>2. ASSUME NEW x \in Turnstiles
      PROVE  /\ ts_pending[x] \in Seq(Thread)
             /\ ToSet(ts_pending[x]) \subseteq Thread
             /\ ts_free[x] \in Seq(Turnstiles)
             /\ ToSet(ts_free[x]) \subseteq Turnstiles
             /\ Waiting(x) \subseteq Thread
  <2>1. ts_pending[x] \in Seq(Thread) /\ ts_free[x] \in Seq(Turnstiles)
    BY DEF TurnstileTypeOK
  <2> QED
    BY <2>1, <1>0, <1>1, SetOfSeq DEF Waiting
<1> QED
  BY <1>0, <1>1, <1>2

\* The hash table starts empty and every thread with a turnstile of its own.
LEMMA WaitInvInit == Init => WaitInv
<1> SUFFICES ASSUME Init PROVE WaitInv
  OBVIOUS
<1>r. RwInv
  BY RwInvInit
<1> USE TurnstileAssumption, RwlockAssumption DEF Init, TurnstileInit
<1>0. \A c \in Chain : tc_turnstiles[c] = {}
  OBVIOUS
<1>1. TurnstileTypeOK
  BY DEF TurnstileTypeOK, Queue, TS_EXCLUSIVE_QUEUE, TS_SHARED_QUEUE, Priority
<1>2. ControlInv
  BY DEF ControlInv, ControlOf, Chained, Looking, Waking
<1>3. \A l \in Rwlock : Attached(l) = {}
  BY <1>0 DEF Attached
<1>4. AttachedInv /\ OneAttached
  BY <1>0, <1>3 DEF AttachedInv, OneAttached
<1>5. /\ \A ts \in Turnstiles, q \in Queue : ts_blocked[ts][q] = <<>>
      /\ \A ts \in Turnstiles : ~OnChain(ts) /\ ts_free[ts] = <<>> /\ ts_pending[ts] = <<>>
      /\ Injective(<<>>) /\ ToSet(<<>>) = {}
      /\ EX \in Queue /\ SH \in Queue
  BY <1>0 DEF OnChain, Queue, Injective, ToSet, EX, SH
<1>6. DetachedInv /\ QueueInv
  BY <1>5 DEF DetachedInv, DetachedOf, QueueInv, QueueOf
<1>7. LockedInv
  BY DEF LockedInv, LockedOf, Looking, Waking, TD_ON_LOCK
<1>8. PlaceInv
  BY <1>5 DEF PlaceInv
<1>9. \A q \in Queue : ~Bit(RW_UNLOCKED, q)
  BY DEF Bit, RW_UNLOCKED, RW_READERS_LOCK
<1>10. \A l \in Rwlock : WordOf(l)
  BY <1>3, <1>9 DEF WordOf, Exact, Has, RW_UNLOCKED, RW_READERS_LOCK, HasWaiters
<1>11. (\A t \in Thread : KnowsOf(t)) /\ OwnedInv
  BY DEF KnowsOf, KnowsAt, Waking, OwnedInv
<1> QED
  BY <1>r, <1>1, <1>2, <1>4, <1>6, <1>7, <1>8, <1>10, <1>11 DEF WaitInv, StructInv, TruthInv

-----------------------------------------------------------------------------
\* A step of t moves no other thread and puts none to sleep.
Aside(t) ==
  \A u \in Thread \ {t} :
    /\ pc'[u] = pc[u] /\ cur'[u] = cur[u] /\ queue'[u] = queue[u]
    /\ v'[u] = v[u] /\ lts'[u] = lts[u]
    /\ TD_ON_LOCK(u)' => TD_ON_LOCK(u)

\* A step of t takes no chain lock away.
ChainKept(t) == \A c \in Chain : tc_lock[c] \notin {t, NULL} => tc_lock'[c] = tc_lock[c]

\* The facts about thread t that its steps rest on.
LEMMA Here ==
  ASSUME WaitInv, NEW t \in Thread
  PROVE  /\ pc[t] \in Points
         /\ pc[t] # "idle" => cur[t] \in Rwlock /\ TC_HASH[cur[t]] \in Chain
         /\ pc[t] \in Chained => tc_lock[TC_HASH[cur[t]]] = t /\ ~TD_ON_LOCK(t)
         /\ pc[t] \in Looking \cup Waking =>
              pc[t] \in Chained /\ lts[t] \in Turnstiles /\ cur[t] \in Rwlock
         /\ TD_ON_LOCK(t) => pc[t] \in {"propagate", "blocked"}
         /\ cur[t] \in Rwlock \cup {NULL} /\ queue[t] \in Queue /\ v[t] \in Word
         /\ \A l \in Rwlock : rw_lock[l] \in Word
         /\ ControlOf(t) /\ LockedOf(t) /\ KnowsOf(t)
<1>1. OwnPath(t) /\ LocalTypeOK /\ HoldInv
  BY InvParts DEF WaitInv
<1>2. ControlOf(t) /\ LockedOf(t) /\ KnowsOf(t)
  BY DEF WaitInv, StructInv, ControlInv, LockedInv, TruthInv
<1> QED
  BY <1>1, <1>2, TurnstileAssumption
  DEF OwnPath, LocalTypeOK, HoldInv, HoldTypeOK, ControlOf, Chained, Looking, Waking

\* The chain lock is held by one thread.
LEMMA OneInChain ==
  ASSUME WaitInv, NEW t \in Thread, NEW u \in Thread, pc[t] \in Chained,
         pc[u] \in Chained, TC_HASH[cur[t]] = TC_HASH[cur[u]]
  PROVE  t = u
BY Here

\* The control part, for the other threads.
LEMMA ControlStep ==
  ASSUME WaitInv, NEW t \in Thread, Aside(t), ChainKept(t), ControlOf(t)'
  PROVE  ControlInv'
<1> SUFFICES ASSUME NEW u \in Thread \ {t} PROVE ControlOf(u)'
  BY DEF ControlInv
<1>1. pc'[u] = pc[u] /\ cur'[u] = cur[u] /\ lts'[u] = lts[u]
  BY DEF Aside
<1>2. ControlOf(u)
  BY Here
<1>3. pc[u] \in Chained => TC_HASH[cur[u]] \in Chain /\ tc_lock[TC_HASH[cur[u]]] = u
  BY Here DEF Chained
<1>4. u \notin {t, NULL}
  BY TurnstileAssumption
<1>5. pc[u] \in Chained => tc_lock'[TC_HASH[cur[u]]] = u
  BY <1>3, <1>4 DEF ChainKept
<1> QED
  BY <1>1, <1>2, <1>5 DEF ControlOf

-----------------------------------------------------------------------------
\* A step that puts no turnstile anywhere else, and may move threads within queues.
ListsKept ==
  /\ UNCHANGED <<tc_turnstiles, ts_pending, ts_free, td_turnstile, td_blocked>>
  /\ Reordered

\* What such a step keeps, when ts_lockobj of turnstiles in the hash table is kept.
LEMMA ListsKeptFacts ==
  ASSUME WaitInv, ListsKept, \A x \in Turnstiles : OnChain(x) => ts_lockobj'[x] = ts_lockobj[x]
  PROVE  /\ \A x \in Turnstiles : /\ OnChain(x)' <=> OnChain(x)
                                  /\ Waiting(x)' = Waiting(x)
         /\ \A x \in Turnstiles, q \in Queue :
              ts_blocked'[x][q] = <<>> <=> ts_blocked[x][q] = <<>>
         /\ \A l \in Rwlock : /\ Attached(l)' = Attached(l)
                              /\ \A q \in Queue : Has(l, q)' <=> Has(l, q)
         /\ AttachedInv' /\ OneAttached' /\ DetachedInv' /\ PlaceInv'
<1>0. TurnstileTypeOK /\ Queue = {EX, SH} /\ EX \in Queue /\ SH \in Queue
  BY Lists DEF WaitInv
<1>1. \A x \in Turnstiles : OnChain(x)' <=> OnChain(x)
  BY DEF OnChain, ListsKept
<1>2. \A x \in Turnstiles, q \in Queue :
        /\ Len(ts_blocked'[x][q]) = Len(ts_blocked[x][q])
        /\ ToSet(ts_blocked'[x][q]) = ToSet(ts_blocked[x][q])
        /\ ts_blocked[x][q] \in Seq(Thread) /\ ts_blocked'[x][q] \in Seq(Thread)
  BY <1>0, Lists DEF ListsKept, Reordered
<1>3. \A x \in Turnstiles, q \in Queue : ts_blocked'[x][q] = <<>> <=> ts_blocked[x][q] = <<>>
  <2> SUFFICES ASSUME NEW x \in Turnstiles, NEW q \in Queue
               PROVE  ts_blocked'[x][q] = <<>> <=> ts_blocked[x][q] = <<>>
    OBVIOUS
  <2>1. ts_blocked[x][q] = <<>> <=> ToSet(ts_blocked[x][q]) = {}
    BY <1>2, EmptySeqIs
  <2>2. ts_blocked'[x][q] = <<>> <=> ToSet(ts_blocked'[x][q]) = {}
    BY <1>2, EmptySeqIs
  <2> QED
    BY <2>1, <2>2, <1>2
<1>4. \A x \in Turnstiles : Waiting(x)' = Waiting(x)
  BY <1>0, <1>2 DEF Waiting
<1>5. \A c \in Chain : tc_turnstiles'[c] = tc_turnstiles[c] /\ tc_turnstiles[c] \subseteq Turnstiles
  BY <1>0 DEF ListsKept, TurnstileTypeOK
<1>6. \A c \in Chain : \A x \in tc_turnstiles[c] : OnChain(x) /\ x \in Turnstiles
  BY <1>5 DEF OnChain
<1>7. ASSUME NEW l \in Rwlock
      PROVE  /\ Attached(l)' = Attached(l)
             /\ \A q \in Queue : Has(l, q)' <=> Has(l, q)
  <2>1. TC_HASH[l] \in Chain
    BY TurnstileAssumption
  <2>2. Attached(l)' = Attached(l)
    BY <2>1, <1>5, <1>6 DEF Attached
  <2>3. \A x \in Attached(l) : x \in Turnstiles
    BY <2>1, <1>6 DEF Attached
  <2> QED
    BY <2>2, <2>3, <1>3 DEF Has
<1>8. AttachedInv'
  BY <1>0, <1>2, <1>5, <1>6 DEF WaitInv, StructInv, AttachedInv, AttachedOf, ListsKept
<1>9. OneAttached'
  BY <1>7 DEF WaitInv, StructInv, OneAttached
<1>10. DetachedInv'
  BY <1>0, <1>1, <1>3 DEF WaitInv, StructInv, DetachedInv, DetachedOf, ListsKept
<1>11. PlaceInv'
  BY <1>1 DEF WaitInv, StructInv, PlaceInv, ListsKept
<1> QED
  BY <1>1, <1>3, <1>4, <1>7, <1>8, <1>9, <1>10, <1>11

\* The threads on the lists, after a step of t that changes no list.
LEMMA ListedStep ==
  ASSUME WaitInv, NEW t \in Thread, ListsKept, Aside(t),
         \A u \in Thread : TD_ON_LOCK(u)' <=> TD_ON_LOCK(u),
         TD_ON_LOCK(t) => cur'[t] = cur[t] /\ queue'[t] = queue[t],
         pc[t] \in Waking <=> pc'[t] \in Waking, pc[t] \in Waking => lts'[t] = lts[t],
         \A x \in Turnstiles : ts_lockobj'[x] = ts_lockobj[x] \/ (Waiting(x) = {} /\ ts_pending[x] = <<>>)
  PROVE  QueueInv'
<1>0. TurnstileTypeOK /\ Queue = {EX, SH}
  BY Lists DEF WaitInv
<1> SUFFICES ASSUME NEW x \in Turnstiles PROVE QueueOf(x)'
  BY DEF QueueInv
<1>1. QueueOf(x)
  BY DEF WaitInv, StructInv, QueueInv
<1>2. \A u \in Thread : TD_ON_LOCK(u) => cur'[u] = cur[u] /\ queue'[u] = queue[u]
  BY DEF Aside
<1>3. \A u \in Thread : Releasing(u, x)' <=> Releasing(u, x)
  BY DEF Releasing, Aside
<1>4. /\ \A q \in Queue : /\ ToSet(ts_blocked'[x][q]) = ToSet(ts_blocked[x][q])
                          /\ Injective(ts_blocked'[x][q])
                          /\ ToSet(ts_blocked[x][q]) \subseteq Waiting(x)
      /\ Waiting(x) \subseteq Thread
      /\ ToSet(ts_pending[x]) \subseteq Thread
      /\ ts_pending[x] = <<>> => ToSet(ts_pending[x]) = {}
  BY <1>0, Lists, EmptySeqIs DEF ListsKept, Reordered, Waiting
<1>5. ts_lockobj'[x] = ts_lockobj[x] \/ (Waiting(x) = {} /\ ToSet(ts_pending[x]) = {})
  BY <1>4
<1>6. ASSUME NEW q \in Queue, NEW u \in ToSet(ts_blocked'[x][q])
      PROVE  /\ TD_ON_LOCK(u)' /\ td_blocked'[u] = x /\ cur'[u] = ts_lockobj'[x]
             /\ td_turnstile'[u] = NULL /\ queue'[u] = q
  <2>1. u \in ToSet(ts_blocked[x][q]) /\ u \in Thread /\ Waiting(x) # {}
    BY <1>4
  <2>2. /\ TD_ON_LOCK(u) /\ td_blocked[u] = x /\ cur[u] = ts_lockobj[x]
        /\ td_turnstile[u] = NULL /\ queue[u] = q
    BY <1>1, <2>1 DEF QueueOf
  <2> QED
    BY <2>1, <2>2, <1>2, <1>5 DEF ListsKept
<1>7. ASSUME NEW u \in ToSet(ts_pending'[x])
      PROVE  /\ TD_ON_LOCK(u)' /\ td_blocked'[u] = x /\ cur'[u] = ts_lockobj'[x]
             /\ td_turnstile'[u] # NULL
  <2>1. u \in ToSet(ts_pending[x]) /\ u \in Thread
    BY <1>4 DEF ListsKept
  <2>2. /\ TD_ON_LOCK(u) /\ td_blocked[u] = x /\ cur[u] = ts_lockobj[x]
        /\ td_turnstile[u] # NULL
    BY <1>1, <2>1 DEF QueueOf
  <2> QED
    BY <2>1, <2>2, <1>2, <1>5 DEF ListsKept
<1>8. ts_pending'[x] # <<>> => \E u \in Thread : Releasing(u, x)'
  BY <1>1, <1>3 DEF QueueOf, ListsKept
<1> QED
  BY <1>4, <1>6, <1>7, <1>8 DEF QueueOf

\* A step that leaves the turnstiles where they are, and thread t at the same stage.
Still(t) ==
  /\ ListsKept /\ UNCHANGED ts_lockobj /\ Aside(t)
  /\ \A u \in Thread : TD_ON_LOCK(u)' <=> TD_ON_LOCK(u)
  /\ pc'[t] \in Looking <=> pc[t] \in Looking
  /\ pc'[t] = "down_store" <=> pc[t] = "down_store"
  /\ pc'[t] \in Waking <=> pc[t] \in Waking
  /\ pc[t] \in Looking \cup Waking \/ TD_ON_LOCK(t) =>
       cur'[t] = cur[t] /\ lts'[t] = lts[t] /\ queue'[t] = queue[t]

\* Such a step keeps the structure of the turnstiles.
LEMMA StillStep ==
  ASSUME WaitInv, NEW t \in Thread, Still(t), ControlInv'
  PROVE  StructInv'
<1>1. ListsKept /\ Aside(t) /\ UNCHANGED ts_lockobj
  BY DEF Still
<1>2. /\ \A x \in Turnstiles : (OnChain(x)' <=> OnChain(x)) /\ Waiting(x)' = Waiting(x)
      /\ \A l \in Rwlock : Attached(l)' = Attached(l)
      /\ AttachedInv' /\ OneAttached' /\ DetachedInv' /\ PlaceInv'
  BY <1>1, ListsKeptFacts
<1>3. QueueInv'
  BY <1>1, ListedStep DEF Still
<1>4. LockedInv'
  <2> SUFFICES ASSUME NEW u \in Thread PROVE LockedOf(u)'
    BY DEF LockedInv
  <2>1. /\ pc'[u] \in Looking <=> pc[u] \in Looking
        /\ pc'[u] = "down_store" <=> pc[u] = "down_store"
        /\ pc'[u] \in Waking <=> pc[u] \in Waking
        /\ pc[u] \in Looking \cup Waking => cur'[u] = cur[u] /\ lts'[u] = lts[u]
        /\ TD_ON_LOCK(u)' <=> TD_ON_LOCK(u)
    BY DEF Still, Aside
  <2>2. LockedOf(u) /\ (pc[u] \in Looking \cup Waking => lts[u] \in Turnstiles /\ cur[u] \in Rwlock)
    BY Here
  <2> QED
    BY <2>1, <2>2, <1>1, <1>2 DEF LockedOf, ListsKept
<1> QED
  BY <1>2, <1>3, <1>4 DEF StructInv

\* The turnstile of a thread that runs is in nobody's way.
LEMMA OwnTurnstile ==
  ASSUME WaitInv, NEW t \in Thread, ~TD_ON_LOCK(t)
  PROVE  LET x == td_turnstile[t]
         IN  /\ x \in Turnstiles /\ ~OnChain(x)
             /\ Waiting(x) = {} /\ ts_pending[x] = <<>> /\ ts_free[x] = <<>>
             /\ \A q \in Queue : ts_blocked[x][q] = <<>>
             /\ \A u \in Thread : ~Releasing(u, x)
             /\ \A u \in Thread \ {t} : pc[u] \in Looking => lts[u] # x
<1> DEFINE x == td_turnstile[t]
<1>0. TurnstileTypeOK /\ Queue = {EX, SH}
  BY Lists DEF WaitInv
<1>1. x \in Turnstiles
  BY <1>0, Here DEF LockedOf, TurnstileTypeOK
<1>2. ~OnChain(x)
  BY <1>1 DEF WaitInv, StructInv, PlaceInv
<1>3. ts_blocked[x][EX] = <<>> /\ ts_blocked[x][SH] = <<>> /\ ts_free[x] = <<>>
  BY <1>1, <1>2 DEF WaitInv, StructInv, DetachedInv, DetachedOf
<1>4. Waiting(x) = {}
  BY <1>3 DEF Waiting, ToSet
<1>5. ASSUME NEW u \in Thread, Releasing(u, x) PROVE FALSE
  <2>1. PICK w \in ToSet(ts_pending[x]) : td_turnstile[w] = x
    BY <1>2, <1>5, Here DEF LockedOf, Releasing
  <2>2. w \in Thread /\ TD_ON_LOCK(w)
    BY <1>0, <1>1, Lists DEF WaitInv, StructInv, QueueInv, QueueOf
  <2>3. w = t
    BY <2>1, <2>2, <1>1, TurnstileAssumption DEF WaitInv, StructInv, PlaceInv
  <2> QED
    BY <2>2, <2>3
<1>6. ts_pending[x] = <<>>
  BY <1>1, <1>5 DEF WaitInv, StructInv, QueueInv, QueueOf
<1>7. ASSUME NEW u \in Thread \ {t}, pc[u] \in Looking, lts[u] = x PROVE FALSE
  <2>1. lts[u] = td_turnstile[u] \/ lts[u] \in Attached(cur[u])
    BY <1>7, Here DEF LockedOf
  <2>2. lts[u] # td_turnstile[u]
    BY <1>1, <1>7, TurnstileAssumption DEF WaitInv, StructInv, PlaceInv
  <2>3. TC_HASH[cur[u]] \in Chain
    BY <1>7, Here DEF Looking
  <2> QED
    BY <2>1, <2>2, <2>3, <1>2, <1>7 DEF Attached, OnChain
<1> QED
  BY <1>0, <1>1, <1>2, <1>3, <1>4, <1>5, <1>6, <1>7

\* A lock's turnstile is in the hash table.
LEMMA AttachedOn ==
  ASSUME WaitInv, NEW l \in Rwlock, NEW x \in Attached(l)
  PROVE  /\ x \in Turnstiles /\ OnChain(x) /\ ts_lockobj[x] = l
         /\ Len(ts_blocked[x][EX]) + Len(ts_blocked[x][SH]) = Len(ts_free[x]) + 1
         /\ x \in tc_turnstiles[TC_HASH[l]] /\ TC_HASH[l] \in Chain
<1>1. TC_HASH[l] \in Chain
  BY TurnstileAssumption
<1> QED
  BY <1>1 DEF WaitInv, StructInv, TurnstileTypeOK, AttachedInv, AttachedOf, Attached, OnChain

\* A step of t that puts no turnstile elsewhere, and changes no more than the lock
\* of its own turnstile: looking for a turnstile, and going away again.
OwnOnly(t) ==
  /\ ListsKept /\ Aside(t) /\ ~TD_ON_LOCK(t)
  /\ \A u \in Thread : TD_ON_LOCK(u)' <=> TD_ON_LOCK(u)
  /\ pc[t] \notin Waking /\ pc'[t] \notin Waking
  /\ \A x \in Turnstiles \ {td_turnstile[t]} : ts_lockobj'[x] = ts_lockobj[x]
  /\ pc'[t] \in Looking =>
       /\ cur'[t] \in Rwlock
       /\ \/ /\ lts'[t] = td_turnstile[t] /\ Attached(cur'[t]) = {}
             /\ ts_lockobj'[lts'[t]] = cur'[t] /\ pc'[t] # "down_store"
          \/ lts'[t] \in Attached(cur'[t])

\* Looking for a turnstile, or going away again, keeps the structure of the
\* turnstiles and every queue.
LEMMA OwnOnlyStep ==
  ASSUME WaitInv, NEW t \in Thread, OwnOnly(t), ControlInv'
  PROVE  /\ StructInv'
         /\ \A l \in Rwlock : /\ Attached(l)' = Attached(l)
                              /\ \A q \in Queue : Has(l, q)' <=> Has(l, q)
<1> DEFINE x0 == td_turnstile[t]
<1>0. /\ x0 \in Turnstiles /\ ~OnChain(x0) /\ Waiting(x0) = {} /\ ts_pending[x0] = <<>>
      /\ \A u \in Thread : ~Releasing(u, x0)
      /\ \A u \in Thread \ {t} : pc[u] \in Looking => lts[u] # x0
  BY OwnTurnstile DEF OwnOnly
<1> HIDE DEF x0
<1>1. ListsKept /\ Aside(t) /\ \A x \in Turnstiles \ {x0} : ts_lockobj'[x] = ts_lockobj[x]
  BY DEF OwnOnly, x0
<1>2. \A x \in Turnstiles : OnChain(x) => ts_lockobj'[x] = ts_lockobj[x]
  BY <1>0, <1>1
<1>3. /\ \A x \in Turnstiles : (OnChain(x)' <=> OnChain(x)) /\ Waiting(x)' = Waiting(x)
      /\ \A l \in Rwlock : /\ Attached(l)' = Attached(l)
                           /\ \A q \in Queue : Has(l, q)' <=> Has(l, q)
      /\ AttachedInv' /\ OneAttached' /\ DetachedInv' /\ PlaceInv'
  BY <1>1, <1>2, ListsKeptFacts
<1>4. \A x \in Turnstiles : ts_lockobj'[x] = ts_lockobj[x] \/ (Waiting(x) = {} /\ ts_pending[x] = <<>>)
  BY <1>0, <1>1
<1>5. QueueInv'
  BY <1>1, <1>4, ListedStep DEF OwnOnly
<1>6. ASSUME NEW u \in Thread \ {t} PROVE LockedOf(u)'
  <2>1. /\ pc'[u] = pc[u] /\ cur'[u] = cur[u] /\ lts'[u] = lts[u]
        /\ TD_ON_LOCK(u)' <=> TD_ON_LOCK(u)
    BY DEF OwnOnly, Aside
  <2>2. LockedOf(u) /\ (pc[u] \in Looking \cup Waking => lts[u] \in Turnstiles /\ cur[u] \in Rwlock)
    BY Here
  <2>3. pc[u] \in Looking \cup Waking => ts_lockobj'[lts[u]] = ts_lockobj[lts[u]]
    BY <2>2, <1>0, <1>1 DEF Releasing
  <2> QED
    BY <2>1, <2>2, <2>3, <1>1, <1>3 DEF LockedOf, ListsKept
<1>7. LockedOf(t)'
  <2>1. ~TD_ON_LOCK(t)' /\ pc'[t] \notin Waking /\ td_turnstile'[t] = x0 /\ x0 # NULL
    BY <1>0, TurnstileAssumption DEF OwnOnly, ListsKept, x0
  <2>2. ASSUME pc'[t] \in Looking
        PROVE  \/ /\ lts'[t] = td_turnstile'[t] /\ Attached(cur[t])' = {}
                  /\ ts_lockobj'[lts'[t]] = cur'[t] /\ pc'[t] # "down_store"
               \/ lts'[t] \in Attached(cur[t])' /\ lts'[t] # td_turnstile'[t]
    <3>1. PICK l \in Rwlock : l = cur'[t]
      BY <2>2 DEF OwnOnly
    <3>2. Attached(cur[t])' = Attached(l)
      BY <3>1, <1>3 DEF Attached
    <3>3. \A x \in Attached(l) : x # x0
      BY <1>0, AttachedOn
    <3> QED
      BY <2>1, <2>2, <3>1, <3>2, <3>3 DEF OwnOnly, x0
  <2> QED
    BY <2>1, <2>2 DEF LockedOf
<1> QED
  BY <1>3, <1>5, <1>6, <1>7 DEF StructInv, LockedInv

-----------------------------------------------------------------------------
\* What turnstile_wait() does to the lists when thread t joins queue k of ts, which
\* is the queue q before: t is in its queue, ts is in the hash table, and unless ts
\* is its own, t puts its turnstile on the free list.
Joins(t, l, ts, k) ==
  LET q   == ts_blocked[ts][k]
      r   == ts_blocked'[ts][k]
      own == td_turnstile[t]
  IN  /\ r \in Seq(Thread) /\ Len(r) = Len(q) + 1
      /\ ToSet(r) = ToSet(q) \cup {t} /\ Injective(r)
      /\ ts_blocked' = [ts_blocked EXCEPT ![ts][k] = r]
      /\ ts_blocked' \in [Turnstiles -> [Queue -> Seq(Thread)]]
      /\ tc_turnstiles' = [tc_turnstiles EXCEPT ![TC_HASH[l]] = @ \cup {ts}]
      /\ tc_turnstiles' \in [Chain -> SUBSET Turnstiles]
      /\ ts_free' \in [Turnstiles -> Seq(Turnstiles)]
      /\ \/ ts = own /\ UNCHANGED ts_free
         \/ ts # own /\ ts_free' = [ts_free EXCEPT ![ts] = <<own>> \o @]
      /\ ts_owner' = [ts_owner EXCEPT ![ts] = rw_wowner(l)] \/ (ts # own /\ UNCHANGED ts_owner)
      /\ td_turnstile' = [td_turnstile EXCEPT ![t] = NULL]
      /\ td_blocked' = [td_blocked EXCEPT ![t] = ts]
      /\ td_state' = [td_state EXCEPT ![t] = "lock"]
      /\ tc_lock' = [tc_lock EXCEPT ![TC_HASH[l]] = NULL]
      /\ pc' = [pc EXCEPT ![t] = "propagate"]
      /\ lts' = [lts EXCEPT ![t] = NULL]
      /\ UNCHANGED <<ts_lockobj, ts_pending, cur, queue, v, rw_lock>>

\* Where the turnstile of a waiting thread is.
LEMMA WaitFacts ==
  ASSUME WaitInv, NEW t \in Thread, Wait(t), NEW l \in Rwlock, l = cur[t]
  PROVE  LET ts == lts[t]
         IN  /\ pc[t] = "wait" /\ ~TD_ON_LOCK(t) /\ ts \in Turnstiles /\ TC_HASH[l] \in Chain
             /\ td_turnstile[t] \in Turnstiles /\ ts_lockobj[ts] = l
             /\ \/ ts = td_turnstile[t] /\ Attached(l) = {}
                \/ ts # td_turnstile[t] /\ ts \in Attached(l)
             /\ \A x \in Turnstiles, q \in Queue : t \notin ToSet(ts_blocked[x][q])
             /\ \A x \in Turnstiles : t \notin ToSet(ts_pending[x])
<1>1. pc[t] = "wait" /\ ~TD_ON_LOCK(t)
  BY DEF Wait, Goto, TD_IS_RUNNING, TD_ON_LOCK
<1>2. lts[t] \in Turnstiles /\ TC_HASH[l] \in Chain /\ td_turnstile[t] \in Turnstiles
  BY <1>1, Here, OwnTurnstile, TurnstileAssumption DEF Looking
<1>3. \/ lts[t] = td_turnstile[t] /\ Attached(l) = {} /\ ts_lockobj[lts[t]] = l
      \/ lts[t] # td_turnstile[t] /\ lts[t] \in Attached(l)
  BY <1>1, Here DEF LockedOf, Looking
<1>4. ts_lockobj[lts[t]] = l
  BY <1>3, AttachedOn
<1>5. /\ \A x \in Turnstiles, q \in Queue : t \notin ToSet(ts_blocked[x][q])
      /\ \A x \in Turnstiles : t \notin ToSet(ts_pending[x])
  BY <1>1 DEF WaitInv, StructInv, QueueInv, QueueOf
<1> QED
  BY <1>1, <1>2, <1>3, <1>4, <1>5

\* turnstile_wait puts the thread at the end of one queue of the lock's turnstile,
\* its own turnstile if the lock had none.
LEMMA WaitJoins ==
  ASSUME WaitInv, NEW t \in Thread, Wait(t), NEW l \in Rwlock, l = cur[t],
         NEW ts \in Turnstiles, ts = lts[t], NEW k \in Queue, k = queue[t]
  PROVE  Joins(t, l, ts, k)
<1> DEFINE q == ts_blocked[ts][k]
           own == td_turnstile[t]
<1>1. /\ ts_blocked \in [Turnstiles -> [Queue -> Seq(Thread)]]
      /\ ts_free \in [Turnstiles -> Seq(Turnstiles)]
      /\ tc_turnstiles \in [Chain -> SUBSET Turnstiles]
      /\ td_priority \in [Thread -> Priority] /\ q \in Seq(Thread)
  BY DEF WaitInv, TurnstileTypeOK
<1>2. Injective(q) /\ t \notin ToSet(q) /\ own \in Turnstiles /\ TC_HASH[l] \in Chain
  BY WaitFacts DEF WaitInv, StructInv, QueueInv, QueueOf
<1>3. /\ td_turnstile' = [td_turnstile EXCEPT ![t] = NULL]
      /\ td_blocked' = [td_blocked EXCEPT ![t] = ts]
      /\ td_state' = [td_state EXCEPT ![t] = "lock"]
      /\ tc_lock' = [tc_lock EXCEPT ![TC_HASH[l]] = NULL]
      /\ pc' = [pc EXCEPT ![t] = "propagate"]
      /\ lts' = [lts EXCEPT ![t] = NULL]
      /\ UNCHANGED <<ts_lockobj, ts_pending, cur, queue, v, rw_lock>>
  BY DEF Wait, Goto, turnstile_wait_block, turnstile_chain_unlock, wordVars
<1>4. turnstile_wait_enqueue(t, l, ts, rw_wowner(l), k)
  BY DEF Wait
<1>5. \E r \in Seq(Thread) :
        /\ Len(r) = Len(q) + 1 /\ ToSet(r) = ToSet(q) \cup {t} /\ Injective(r)
        /\ ts_blocked' = [ts_blocked EXCEPT ![ts][k] = r]
  <2>1. CASE ts_blocked' = [ts_blocked EXCEPT ![ts][k] = Append(@, t)]
    <3>1. /\ Append(q, t) \in Seq(Thread) /\ Len(Append(q, t)) = Len(q) + 1
          /\ ToSet(Append(q, t)) = ToSet(q) \cup {t} /\ Injective(Append(q, t))
      BY <1>1, <1>2, AppendJoins
    <3> QED
      BY <2>1, <3>1
  <2>2. CASE ts_blocked' = [ts_blocked EXCEPT ![ts][k] = InsertByPriority(@, t, td_priority)]
    <3> DEFINE r == InsertByPriority(q, t, td_priority)
    <3>1. /\ r \in Seq(Thread) /\ Len(r) = Len(q) + 1
          /\ ToSet(r) = ToSet(q) \cup {t} /\ Injective(r)
      BY <1>1, <1>2, InsertJoins
    <3>2. ts_blocked' = [ts_blocked EXCEPT ![ts][k] = r]
      BY <2>2
    <3> HIDE DEF r
    <3> QED
      BY <3>1, <3>2
  <2> QED
    BY <1>4, <2>1, <2>2 DEF turnstile_wait_enqueue
<1>6. PICK r \in Seq(Thread) :
        /\ Len(r) = Len(q) + 1 /\ ToSet(r) = ToSet(q) \cup {t} /\ Injective(r)
        /\ ts_blocked' = [ts_blocked EXCEPT ![ts][k] = r]
  BY <1>5
<1>7. /\ ts_blocked'[ts][k] = r
      /\ ts_blocked' \in [Turnstiles -> [Queue -> Seq(Thread)]]
  <2>1. ts_blocked' = [ts_blocked EXCEPT ![ts] = [@ EXCEPT ![k] = r]]
    BY <1>1, <1>6
  <2>2. [ts_blocked[ts] EXCEPT ![k] = r] \in [Queue -> Seq(Thread)]
    BY <1>1
  <2> QED
    BY <1>1, <2>1, <2>2
<1>8. /\ tc_turnstiles' = [tc_turnstiles EXCEPT ![TC_HASH[l]] = @ \cup {ts}]
      /\ tc_turnstiles' \in [Chain -> SUBSET Turnstiles]
  <2>1. CASE ts = own
    <3>1. tc_turnstiles' = [tc_turnstiles EXCEPT ![TC_HASH[l]] = @ \cup {ts}]
      BY <1>4, <2>1 DEF turnstile_wait_enqueue
    <3> QED
      BY <1>1, <1>2, <3>1
  <2>2. CASE ts # own
    <3>1. ts \in tc_turnstiles[TC_HASH[l]]
      BY <2>2, WaitFacts DEF Attached
    <3> QED
      BY <1>1, <1>2, <1>4, <2>2, <3>1 DEF turnstile_wait_enqueue
  <2> QED
    BY <2>1, <2>2
<1>9. /\ ts_free' \in [Turnstiles -> Seq(Turnstiles)]
      /\ \/ ts = own /\ UNCHANGED ts_free
         \/ ts # own /\ ts_free' = [ts_free EXCEPT ![ts] = <<own>> \o @]
      /\ ts_owner' = [ts_owner EXCEPT ![ts] = rw_wowner(l)] \/ (ts # own /\ UNCHANGED ts_owner)
  <2>1. <<own>> \o ts_free[ts] \in Seq(Turnstiles)
    <3>1. ts_free[ts] \in Seq(Turnstiles)
      BY <1>1
    <3> QED
      BY <1>2, <3>1, PrependEffect
  <2>2. /\ \/ ts = own /\ UNCHANGED ts_free
           \/ ts # own /\ ts_free' = [ts_free EXCEPT ![ts] = <<own>> \o @]
        /\ ts_owner' = [ts_owner EXCEPT ![ts] = rw_wowner(l)] \/ (ts # own /\ UNCHANGED ts_owner)
    BY <1>4 DEF turnstile_wait_enqueue
  <2>3. ts_free' \in [Turnstiles -> Seq(Turnstiles)]
    BY <1>1, <2>1, <2>2
  <2> QED
    BY <2>2, <2>3
<1> QED
  BY <1>3, <1>6, <1>7, <1>8, <1>9 DEF Joins

\* The free lists after t has joined: those of before, but for the turnstile of t
\* at the head of that of ts.
LEMMA JoinFree ==
  ASSUME WaitInv, NEW t \in Thread, NEW l \in Rwlock, NEW ts \in Turnstiles,
         NEW k \in Queue, Joins(t, l, ts, k), NEW own \in Turnstiles, own = td_turnstile[t]
  PROVE  /\ \A y \in Turnstiles \ {ts} : ts_free'[y] = ts_free[y]
         /\ ts = own => ts_free'[ts] = ts_free[ts]
         /\ ts # own => /\ Len(ts_free'[ts]) = Len(ts_free[ts]) + 1
                        /\ ToSet(ts_free'[ts]) = ToSet(ts_free[ts]) \cup {own}
                        /\ \A i \in DOMAIN ts_free'[ts] :
                             \/ i = 1 /\ ts_free'[ts][i] = own
                             \/ /\ i \in Int /\ i - 1 \in DOMAIN ts_free[ts]
                                /\ ts_free'[ts][i] = ts_free[ts][i - 1]
<1> DEFINE f == ts_free[ts]
           g == <<own>> \o f
<1>0. ts_free \in [Turnstiles -> Seq(Turnstiles)] /\ f \in Seq(Turnstiles)
  BY DEF WaitInv, TurnstileTypeOK
<1>1. \/ ts = own /\ ts_free' = ts_free
      \/ ts # own /\ ts_free' = [ts_free EXCEPT ![ts] = g]
  BY DEF Joins
<1> HIDE DEF f
<1>2. /\ Len(g) = Len(f) + 1 /\ Len(f) \in Nat
      /\ DOMAIN g = 1..(Len(f) + 1) /\ DOMAIN f = 1..Len(f)
      /\ g[1] = own
      /\ \A i \in 1..(Len(f) + 1) : i = 1 \/ (i - 1 \in 1..Len(f) /\ g[i] = f[i - 1])
      /\ ToSet(g) = ToSet(f) \cup {own}
  BY <1>0, PrependEffect
<1> HIDE DEF g
<1>3. ts # own => ts_free'[ts] = g
  BY <1>0, <1>1
<1>4. \A i \in DOMAIN g : \/ i = 1 /\ g[i] = own
                          \/ i \in Int /\ i - 1 \in DOMAIN f /\ g[i] = f[i - 1]
  BY <1>2
<1>5. /\ \A y \in Turnstiles \ {ts} : ts_free'[y] = ts_free[y]
      /\ ts = own => ts_free'[ts] = ts_free[ts]
  BY <1>0, <1>1
<1> QED
  BY <1>2, <1>3, <1>4, <1>5 DEF f

\* No turnstile is in two places after t has joined.
LEMMA JoinPlaces ==
  ASSUME WaitInv, NEW t \in Thread, NEW l \in Rwlock, NEW ts \in Turnstiles,
         NEW k \in Queue, Joins(t, l, ts, k), NEW own \in Turnstiles, own = td_turnstile[t],
         \A x \in Turnstiles : OnChain(x)' <=> (OnChain(x) \/ x = ts),
         ts # own => OnChain(ts)
  PROVE  PlaceInv'
<1>1. PlaceInv /\ td_turnstile \in [Thread -> Turnstiles \cup {NULL}] /\ NULL \notin Turnstiles
  BY TurnstileAssumption DEF WaitInv, StructInv, TurnstileTypeOK
<1>2. /\ ~OnChain(own) /\ \A y \in Turnstiles : own \notin ToSet(ts_free[y])
      /\ \A u \in Thread \ {t} : td_turnstile[u] # own
  BY <1>1 DEF PlaceInv
<1>3. td_turnstile'[t] = NULL /\ \A u \in Thread \ {t} : td_turnstile'[u] = td_turnstile[u]
  BY <1>1 DEF Joins
<1>4. \A y \in Turnstiles : \A x \in ToSet(ts_free'[y]) :
        x \in ToSet(ts_free[y]) \/ (x = own /\ ts # own /\ y = ts)
  BY JoinFree
<1>5. \A u, w \in Thread :
        td_turnstile'[u] # NULL /\ td_turnstile'[u] = td_turnstile'[w] => u = w
  BY <1>1, <1>3 DEF PlaceInv
<1>6. ASSUME NEW u \in Thread, NEW x \in Turnstiles, td_turnstile'[u] = x
      PROVE  ~OnChain(x)' /\ \A y \in Turnstiles : x \notin ToSet(ts_free'[y])
  <2>1. u # t /\ td_turnstile[u] = x /\ x # own
    BY <1>1, <1>2, <1>3, <1>6
  <2>2. ~OnChain(x) /\ \A y \in Turnstiles : x \notin ToSet(ts_free[y])
    BY <2>1, <1>1 DEF PlaceInv
  <2>3. x # ts
    BY <2>1, <2>2
  <2> QED
    BY <2>1, <2>2, <2>3, <1>4
<1>7. ASSUME NEW x \in Turnstiles, NEW y \in Turnstiles, OnChain(x)'
      PROVE  x \notin ToSet(ts_free'[y])
  <2>1. CASE x = own
    BY <2>1, <1>2, <1>4, <1>7
  <2>2. CASE x # own
    <3>1. OnChain(x)
      BY <2>2, <1>7
    <3> QED
      BY <2>2, <3>1, <1>1, <1>4 DEF PlaceInv
  <2> QED
    BY <2>1, <2>2
<1>8. ASSUME NEW x \in Turnstiles, NEW y \in Turnstiles,
             NEW i \in DOMAIN ts_free'[x], NEW j \in DOMAIN ts_free'[y],
             ts_free'[x][i] = ts_free'[y][j]
      PROVE  x = y /\ i = j
  <2>0. /\ \A a, b \in Turnstiles : \A m \in DOMAIN ts_free[a], n \in DOMAIN ts_free[b] :
             ts_free[a][m] = ts_free[b][n] => a = b /\ m = n
        /\ \A a \in Turnstiles : \A m \in DOMAIN ts_free[a] : ts_free[a][m] # own
    BY <1>1, <1>2 DEF PlaceInv, ToSet
  <2>1. \/ x = ts /\ ts # own /\ i = 1 /\ ts_free'[x][i] = own
        \/ /\ x = ts /\ ts # own /\ i \in Int /\ i - 1 \in DOMAIN ts_free[x]
           /\ ts_free'[x][i] = ts_free[x][i - 1]
        \/ (x # ts \/ ts = own) /\ i \in DOMAIN ts_free[x] /\ ts_free'[x][i] = ts_free[x][i]
    BY JoinFree
  <2>2. \/ y = ts /\ ts # own /\ j = 1 /\ ts_free'[y][j] = own
        \/ /\ y = ts /\ ts # own /\ j \in Int /\ j - 1 \in DOMAIN ts_free[y]
           /\ ts_free'[y][j] = ts_free[y][j - 1]
        \/ (y # ts \/ ts = own) /\ j \in DOMAIN ts_free[y] /\ ts_free'[y][j] = ts_free[y][j]
    BY JoinFree
  <2>3. CASE x = ts /\ ts # own /\ i = 1 /\ ts_free'[x][i] = own
    <3>1. j = 1 /\ y = ts
      BY <2>0, <2>2, <2>3, <1>8
    <3> QED
      BY <2>3, <3>1
  <2>4. CASE /\ x = ts /\ ts # own /\ i \in Int /\ i - 1 \in DOMAIN ts_free[x]
             /\ ts_free'[x][i] = ts_free[x][i - 1]
    <3>0. ts_free'[y][j] = ts_free[x][i - 1] /\ ts_free[x][i - 1] # own
      <4>1. ts_free'[y][j] = ts_free[x][i - 1]
        BY <1>8, <2>4
      <4>2. ts_free[x][i - 1] # own
        BY <2>0, <2>4
      <4> QED
        BY <4>1, <4>2
    <3>1. y = ts /\ j \in Int /\ j - 1 \in DOMAIN ts_free[y] /\ ts_free[x][i - 1] = ts_free[y][j - 1]
      <4>1. ~(y # ts /\ j \in DOMAIN ts_free[y] /\ ts_free'[y][j] = ts_free[y][j])
        BY <3>0, <2>0, <2>4
      <4> QED
        BY <3>0, <4>1, <2>2, <2>4
    <3>2. i - 1 = j - 1
      BY <2>0, <2>4, <3>1
    <3> QED
      BY <2>4, <3>1, <3>2
  <2>5. CASE (x # ts \/ ts = own) /\ i \in DOMAIN ts_free[x] /\ ts_free'[x][i] = ts_free[x][i]
    <3>1. CASE y = ts /\ ts # own /\ j = 1 /\ ts_free'[y][j] = own
      BY <2>0, <2>5, <3>1, <1>8
    <3>2. CASE /\ y = ts /\ ts # own /\ j \in Int /\ j - 1 \in DOMAIN ts_free[y]
               /\ ts_free'[y][j] = ts_free[y][j - 1]
      <4>1. ts_free[x][i] = ts_free[y][j - 1]
        BY <2>5, <3>2, <1>8
      <4>2. x = y
        BY <4>1, <2>0, <2>5, <3>2
      <4> QED
        BY <4>2, <2>5, <3>2
    <3>3. CASE (y # ts \/ ts = own) /\ j \in DOMAIN ts_free[y] /\ ts_free'[y][j] = ts_free[y][j]
      <4>1. ts_free[x][i] = ts_free[y][j]
        BY <2>5, <3>3, <1>8
      <4> QED
        BY <4>1, <2>0, <2>5, <3>3
    <3> QED
      BY <3>1, <3>2, <3>3, <2>2
  <2> QED
    BY <2>1, <2>3, <2>4, <2>5
<1> QED
  BY <1>5, <1>6, <1>7, <1>8 DEF PlaceInv

\* A thread joins the turnstile of the lock.
LEMMA JoinStep ==
  ASSUME WaitInv, NEW t \in Thread, Wait(t), NEW l \in Rwlock, l = cur[t],
         NEW ts \in Turnstiles, ts = lts[t], NEW k \in Queue, k = queue[t]
  PROVE  /\ StructInv' /\ Aside(t)
         /\ Attached(l)' = {ts} /\ \A n \in Rwlock \ {l} : Attached(n)' = Attached(n)
         /\ \A q \in Queue : Has(l, q)' <=> (Has(l, q) \/ q = k)
         /\ \A n \in Rwlock \ {l}, q \in Queue : Has(n, q)' <=> Has(n, q)
         /\ \A x \in Turnstiles : OnChain(x)' <=> (OnChain(x) \/ x = ts)
<1>1. Joins(t, l, ts, k)
  BY WaitJoins
<1>2. PICK own \in Turnstiles : own = td_turnstile[t]
  BY WaitFacts
<1>3. /\ pc[t] = "wait" /\ ~TD_ON_LOCK(t) /\ TC_HASH[l] \in Chain /\ ts_lockobj[ts] = l
      /\ \/ ts = own /\ Attached(l) = {}
         \/ ts # own /\ ts \in Attached(l)
      /\ \A x \in Turnstiles, q \in Queue : t \notin ToSet(ts_blocked[x][q])
      /\ \A x \in Turnstiles : t \notin ToSet(ts_pending[x])
  BY <1>2, WaitFacts
<1>4. /\ TurnstileTypeOK /\ Queue = {EX, SH} /\ EX # SH /\ LocalTypeOK
      /\ td_state \in [Thread -> {"running", "runq", "lock"}]
      /\ ControlInv /\ AttachedInv /\ OneAttached /\ DetachedInv /\ QueueInv /\ LockedInv
  BY Lists, InvParts DEF WaitInv, StructInv
<1>5. /\ ts_blocked \in [Turnstiles -> [Queue -> Seq(Thread)]]
      /\ ts_free \in [Turnstiles -> Seq(Turnstiles)]
      /\ tc_turnstiles \in [Chain -> SUBSET Turnstiles]
      /\ tc_lock \in [Chain -> Thread \cup {NULL}]
      /\ td_blocked \in [Thread -> Turnstiles \cup {NULL}]
      /\ td_turnstile \in [Thread -> Turnstiles \cup {NULL}]
      /\ pc \in [Thread -> Points] /\ lts \in [Thread -> Turnstiles \cup {NULL}]
  BY <1>4 DEF TurnstileTypeOK, LocalTypeOK
<1>6. /\ pc'[t] = "propagate" /\ lts'[t] = NULL /\ td_turnstile'[t] = NULL
      /\ td_blocked'[t] = ts /\ TD_ON_LOCK(t)'
      /\ \A u \in Thread \ {t} :
           /\ pc'[u] = pc[u] /\ lts'[u] = lts[u] /\ td_turnstile'[u] = td_turnstile[u]
           /\ td_blocked'[u] = td_blocked[u] /\ (TD_ON_LOCK(u)' <=> TD_ON_LOCK(u))
      /\ UNCHANGED <<ts_lockobj, ts_pending, cur, queue, v, rw_lock>>
  BY <1>1, <1>4, <1>5 DEF Joins, TD_ON_LOCK
<1>7. /\ tc_turnstiles'[TC_HASH[l]] = tc_turnstiles[TC_HASH[l]] \cup {ts}
      /\ \A c \in Chain \ {TC_HASH[l]} : tc_turnstiles'[c] = tc_turnstiles[c]
  BY <1>1, <1>3, <1>5 DEF Joins
<1>8. /\ \A x \in Turnstiles \ {ts} : ts_blocked'[x] = ts_blocked[x]
      /\ \A q \in Queue \ {k} : ts_blocked'[ts][q] = ts_blocked[ts][q]
  <2>1. ts_blocked' = [ts_blocked EXCEPT ![ts][k] = ts_blocked'[ts][k]]
    BY <1>1 DEF Joins
  <2> QED
    BY <2>1, <1>5
<1>9. /\ ts_blocked'[ts][k] \in Seq(Thread)
      /\ Len(ts_blocked'[ts][k]) = Len(ts_blocked[ts][k]) + 1
      /\ ToSet(ts_blocked'[ts][k]) = ToSet(ts_blocked[ts][k]) \cup {t}
      /\ Injective(ts_blocked'[ts][k])
  BY <1>1 DEF Joins
<1>10. ts_blocked'[ts][k] # <<>>
  BY <1>9, EmptySeqIs
<1>11. \A x \in Turnstiles : OnChain(x)' <=> (OnChain(x) \/ x = ts)
  BY <1>3, <1>7 DEF OnChain
<1>12. Attached(l)' = {ts} /\ \A n \in Rwlock \ {l} : Attached(n)' = Attached(n)
  <2>1. \A x \in Attached(l) : x = ts
    BY <1>3, <1>4 DEF OneAttached
  <2>2. Attached(l)' = {ts}
    BY <2>1, <1>3, <1>6, <1>7 DEF Attached
  <2>3. ASSUME NEW n \in Rwlock \ {l} PROVE Attached(n)' = Attached(n)
    <3>1. TC_HASH[n] \in Chain
      BY TurnstileAssumption
    <3>2. tc_turnstiles'[TC_HASH[n]] \in
            {tc_turnstiles[TC_HASH[n]], tc_turnstiles[TC_HASH[n]] \cup {ts}}
      BY <3>1, <1>7
    <3> QED
      BY <3>2, <1>3, <1>6 DEF Attached
  <2> QED
    BY <2>2, <2>3
<1>13. \A x \in Turnstiles : Waiting(x) \subseteq Waiting(x)'
  <2> SUFFICES ASSUME NEW x \in Turnstiles, NEW q \in Queue
               PROVE  ToSet(ts_blocked[x][q]) \subseteq ToSet(ts_blocked'[x][q])
    BY <1>4 DEF Waiting
  <2> QED
    BY <1>8, <1>9
<1>14. t \in Waiting(ts)'
  BY <1>4, <1>9 DEF Waiting
<1>15. Aside(t) /\ ChainKept(t)
  <2>1. tc_lock[TC_HASH[l]] = t
    BY <1>3, Here DEF Chained
  <2>2. tc_lock' = [tc_lock EXCEPT ![TC_HASH[l]] = NULL]
    BY <1>1 DEF Joins
  <2>3. ChainKept(t)
    BY <2>1, <2>2, <1>3, <1>5 DEF ChainKept
  <2> QED
    BY <2>3, <1>6 DEF Aside
<1>16. ControlInv'
  <2>1. ControlOf(t)'
    BY <1>6 DEF ControlOf, Chained, Looking, Waking
  <2> QED
    BY <1>15, <2>1, ControlStep
<1>17. AttachedInv'
  <2> SUFFICES ASSUME NEW c \in Chain, NEW x \in tc_turnstiles'[c] PROVE AttachedOf(x, c)'
    BY DEF AttachedInv
  <2>1. CASE x = ts
    <3>1. c = TC_HASH[l]
      <4> SUFFICES ASSUME c # TC_HASH[l] PROVE FALSE
        OBVIOUS
      <4>1. ts \in tc_turnstiles[c]
        BY <2>1, <1>7
      <4>2. AttachedOf(ts, c)
        BY <4>1, <1>4 DEF AttachedInv
      <4> QED
        BY <4>2, <1>3 DEF AttachedOf
    <3>2. /\ \A q \in Queue : Len(ts_blocked[ts][q]) \in Nat
          /\ Len(ts_free[ts]) \in Nat
      <4>1. ASSUME NEW q \in Queue PROVE Len(ts_blocked[ts][q]) \in Nat
        <5>1. ts_blocked[ts][q] \in Seq(Thread)
          BY <1>5
        <5> QED
          BY <5>1, LenProperties
      <4>2. ts_free[ts] \in Seq(Turnstiles)
        BY <1>5
      <4> QED
        BY <4>1, <4>2, LenProperties
    <3>3. Len(ts_blocked'[ts][EX]) + Len(ts_blocked'[ts][SH])
            = Len(ts_blocked[ts][EX]) + Len(ts_blocked[ts][SH]) + 1
      <4> DEFINE a == Len(ts_blocked[ts][EX])
                 b == Len(ts_blocked[ts][SH])
                 c1 == Len(ts_blocked'[ts][EX])
                 d1 == Len(ts_blocked'[ts][SH])
      <4>1. a \in Nat /\ b \in Nat
        BY <3>2, <1>4
      <4>2. CASE k = EX
        <5>1. c1 = a + 1 /\ d1 = b
          BY <4>2, <1>4, <1>8, <1>9
        <5> HIDE DEF a, b, c1, d1
        <5>2. c1 + d1 = a + b + 1
          BY <5>1, <4>1
        <5> QED
          BY <5>2 DEF a, b, c1, d1
      <4>3. CASE k = SH
        <5>1. d1 = b + 1 /\ c1 = a
          BY <4>3, <1>4, <1>8, <1>9
        <5> HIDE DEF a, b, c1, d1
        <5>2. c1 + d1 = a + b + 1
          BY <5>1, <4>1
        <5> QED
          BY <5>2 DEF a, b, c1, d1
      <4> QED
        BY <4>2, <4>3, <1>4
    <3>4. CASE ts = own
      <4>1. DetachedOf(ts)
        BY <3>4, <1>2, <1>3, <1>4, OwnTurnstile DEF DetachedInv
      <4>2. Len(<<>>) = 0
        OBVIOUS
      <4>3. Len(ts_blocked[ts][EX]) = 0 /\ Len(ts_blocked[ts][SH]) = 0 /\ Len(ts_free[ts]) = 0
        BY <4>1, <4>2 DEF DetachedOf
      <4>4. ts_free'[ts] = ts_free[ts]
        BY <3>4, <1>1, <1>2, JoinFree
      <4>5. Len(ts_blocked'[ts][EX]) + Len(ts_blocked'[ts][SH]) = Len(ts_free'[ts]) + 1
        <5> DEFINE n == Len(ts_blocked'[ts][EX]) + Len(ts_blocked'[ts][SH])
                   z == Len(ts_free'[ts])
        <5>1. n = 0 + 0 + 1 /\ z = 0
          BY <3>3, <4>3, <4>4
        <5> HIDE DEF n, z
        <5>2. n = z + 1
          BY <5>1
        <5> QED
          BY <5>2 DEF n, z
      <4> QED
        BY <2>1, <3>1, <4>5, <1>3, <1>6 DEF AttachedOf
    <3>5. CASE ts # own
      <4>1. Len(ts_blocked[ts][EX]) + Len(ts_blocked[ts][SH]) = Len(ts_free[ts]) + 1
        BY <3>5, <1>3, AttachedOn
      <4>2. Len(ts_free'[ts]) = Len(ts_free[ts]) + 1
        BY <3>5, <1>1, <1>2, JoinFree
      <4>3. Len(ts_blocked'[ts][EX]) + Len(ts_blocked'[ts][SH]) = Len(ts_free'[ts]) + 1
        BY <3>3, <4>1, <4>2
      <4> QED
        BY <2>1, <3>1, <4>3, <1>3, <1>6 DEF AttachedOf
    <3> QED
      BY <3>4, <3>5
  <2>2. CASE x # ts
    <3>1. x \in tc_turnstiles[c] /\ x \in Turnstiles /\ AttachedOf(x, c)
      BY <2>2, <1>4, <1>5, <1>7 DEF AttachedInv
    <3>2. ts_free'[x] = ts_free[x] /\ ts_blocked'[x] = ts_blocked[x]
      BY <2>2, <3>1, <1>1, <1>2, <1>8, JoinFree
    <3> QED
      BY <3>1, <3>2, <1>6 DEF AttachedOf
  <2> QED
    BY <2>1, <2>2
<1>18. OneAttached'
  BY <1>4, <1>12 DEF OneAttached
<1>19. DetachedInv'
  <2> SUFFICES ASSUME NEW x \in Turnstiles, ~OnChain(x)' PROVE DetachedOf(x)'
    BY DEF DetachedInv
  <2>1. x # ts /\ DetachedOf(x)
    BY <1>4, <1>11 DEF DetachedInv
  <2>2. ts_free'[x] = ts_free[x] /\ ts_blocked'[x] = ts_blocked[x]
    BY <2>1, <1>1, <1>2, <1>8, JoinFree
  <2> QED
    BY <2>1, <2>2 DEF DetachedOf
<1>20. QueueInv'
  <2> SUFFICES ASSUME NEW x \in Turnstiles PROVE QueueOf(x)'
    BY DEF QueueInv
  <2>1. QueueOf(x) /\ ts_pending'[x] = ts_pending[x] /\ ts_lockobj'[x] = ts_lockobj[x]
    BY <1>4, <1>6 DEF QueueInv
  <2>2. \A u \in Thread : Releasing(u, x)' <=> Releasing(u, x)
    BY <1>3, <1>6 DEF Releasing, Waking
  <2>3. /\ \A q \in Queue : ToSet(ts_blocked[x][q]) \subseteq Thread \ {t}
        /\ ToSet(ts_pending[x]) \subseteq Thread \ {t}
    BY <1>3, <1>4, Lists
  <2>4. ASSUME NEW q \in Queue, NEW u \in ToSet(ts_blocked[x][q])
        PROVE  /\ TD_ON_LOCK(u)' /\ td_blocked'[u] = x /\ cur'[u] = ts_lockobj'[x]
               /\ td_turnstile'[u] = NULL /\ queue'[u] = q
    <3>1. u \in Thread \ {t}
      BY <2>3
    <3> QED
      BY <2>1, <3>1, <1>6 DEF QueueOf
  <2>5. \A u \in ToSet(ts_pending'[x]) :
          /\ TD_ON_LOCK(u)' /\ td_blocked'[u] = x /\ cur'[u] = ts_lockobj'[x]
          /\ td_turnstile'[u] # NULL
    BY <2>1, <2>3, <1>6 DEF QueueOf
  <2>6. ASSUME NEW q \in Queue
        PROVE  /\ Injective(ts_blocked'[x][q])
               /\ \A u \in ToSet(ts_blocked'[x][q]) :
                    /\ TD_ON_LOCK(u)' /\ td_blocked'[u] = x /\ cur'[u] = ts_lockobj'[x]
                    /\ td_turnstile'[u] = NULL /\ queue'[u] = q
    <3>1. CASE x = ts /\ q = k
      <4>1. /\ TD_ON_LOCK(t)' /\ td_blocked'[t] = x /\ cur'[t] = ts_lockobj'[x]
            /\ td_turnstile'[t] = NULL /\ queue'[t] = q
        BY <3>1, <1>3, <1>6
      <4> QED
        BY <3>1, <4>1, <2>4, <1>9
    <3>2. CASE x # ts \/ q # k
      <4>1. ts_blocked'[x][q] = ts_blocked[x][q]
        BY <3>2, <1>8
      <4> QED
        BY <4>1, <2>1, <2>4 DEF QueueOf
    <3> QED
      BY <3>1, <3>2
  <2>7. ts_pending'[x] # <<>> => \E u \in Thread : Releasing(u, x)'
    BY <2>1, <2>2 DEF QueueOf
  <2> QED
    BY <2>5, <2>6, <2>7 DEF QueueOf
<1>21. LockedInv'
  <2> SUFFICES ASSUME NEW u \in Thread PROVE LockedOf(u)'
    BY DEF LockedInv
  <2>1. CASE u = t
    BY <2>1, <1>6, <1>14 DEF LockedOf, Looking, Waking
  <2>2. CASE u # t
    <3>0. LockedOf(u)
      BY Here
    <3>1. /\ pc'[u] = pc[u] /\ cur'[u] = cur[u] /\ lts'[u] = lts[u]
          /\ td_turnstile'[u] = td_turnstile[u]
          /\ td_blocked'[u] = td_blocked[u] /\ (TD_ON_LOCK(u)' <=> TD_ON_LOCK(u))
      BY <2>2, <1>6
    <3>2. ASSUME pc[u] \in Looking \cup Waking
          PROVE  cur[u] \in Rwlock /\ lts[u] \in Turnstiles /\ Attached(cur[u])' = Attached(cur[u])
      <4>1. pc[u] \in Chained /\ cur[u] \in Rwlock /\ lts[u] \in Turnstiles
        BY <3>2, Here
      <4>2. cur[u] # l
        BY <2>2, <4>1, <1>3, OneInChain DEF Chained
      <4> QED
        BY <3>1, <4>1, <4>2, <1>12
    <3>3. pc[u] \in Waking /\ ~OnChain(lts[u])' =>
            \E w \in ToSet(ts_pending'[lts[u]]) : td_turnstile'[w] = lts[u]
      <4> SUFFICES ASSUME pc[u] \in Waking, ~OnChain(lts[u])'
                   PROVE  \E w \in ToSet(ts_pending'[lts[u]]) : td_turnstile'[w] = lts[u]
        OBVIOUS
      <4>1. lts[u] \in Turnstiles /\ ~OnChain(lts[u])
        BY <3>1, <3>2, <1>11
      <4>2. PICK w \in ToSet(ts_pending[lts[u]]) : td_turnstile[w] = lts[u]
        BY <4>1, <3>0 DEF LockedOf
      <4>3. w \in Thread \ {t}
        BY <4>1, <1>3, <1>4, Lists
      <4> QED
        BY <4>1, <4>2, <4>3, <1>6
    <3>4. TD_ON_LOCK(u) => /\ td_blocked[u] \in Turnstiles
                           /\ Waiting(td_blocked[u]) \subseteq Waiting(td_blocked[u])'
      BY <3>0, <3>1, <1>13 DEF LockedOf
    <3> QED
      BY <3>0, <3>1, <3>2, <3>3, <3>4, <1>6 DEF LockedOf
  <2> QED
    BY <2>1, <2>2
<1>22. PlaceInv'
  <2>1. ts # own => OnChain(ts)
    BY <1>3, AttachedOn
  <2> QED
    BY <2>1, <1>1, <1>2, <1>11, JoinPlaces
<1>23. /\ \A q \in Queue : Has(l, q)' <=> (Has(l, q) \/ q = k)
       /\ \A n \in Rwlock \ {l}, q \in Queue : Has(n, q)' <=> Has(n, q)
  <2>1. ASSUME NEW q \in Queue PROVE Has(l, q)' <=> (Has(l, q) \/ q = k)
    <3>1. Has(l, q)' <=> ts_blocked'[ts][q] # <<>>
      BY <1>12 DEF Has
    <3>2. Has(l, q) <=> ts_blocked[ts][q] # <<>>
      <4>1. CASE ts = own
        <5>1. ts_blocked[ts][q] = <<>>
          BY <4>1, <1>2, <1>3, OwnTurnstile
        <5> QED
          BY <4>1, <5>1, <1>3 DEF Has
      <4>2. CASE ts # own
        BY <4>2, <1>3, <1>4 DEF Has, OneAttached
      <4> QED
        BY <4>1, <4>2
    <3> QED
      BY <3>1, <3>2, <1>8, <1>10
  <2>2. ASSUME NEW n \in Rwlock \ {l}, NEW q \in Queue PROVE Has(n, q)' <=> Has(n, q)
    <3>1. \A x \in Attached(n) : x \in Turnstiles /\ x # ts
      BY <1>3, AttachedOn
    <3> QED
      BY <3>1, <1>8, <1>12 DEF Has
  <2> QED
    BY <2>1, <2>2
<1> QED
  BY <1>11, <1>12, <1>15, <1>16, <1>17, <1>18, <1>19, <1>20, <1>21, <1>22, <1>23 DEF StructInv

-----------------------------------------------------------------------------
\* A sequence without its first k elements.
LEMMA SuffixEffect ==
  ASSUME NEW T, NEW f \in Seq(T), NEW k \in Nat
  PROVE  LET g == SubSeq(f, k + 1, Len(f))
         IN  /\ g \in Seq(T) /\ Len(g) = (IF k < Len(f) THEN Len(f) - k ELSE 0)
             /\ \A i \in DOMAIN g : i \in Nat /\ i + k \in DOMAIN f /\ g[i] = f[i + k]
<1> DEFINE m == k + 1
           n == Len(f)
           g == SubSeq(f, m, n)
<1>1. m \in Int /\ n \in Nat /\ DOMAIN f = 1..n /\ \A i \in m..n : f[i] \in T
  BY LenProperties, ElementOfSeq
<1>2. /\ g \in Seq(T) /\ Len(g) = (IF m <= n THEN n - m + 1 ELSE 0)
      /\ \A i \in 1..(n - m + 1) : g[i] = f[m + i - 1]
  <2> HIDE DEF m, n
  <2> QED
    BY <1>1, SubSeqProperties
<1>3. DOMAIN g = 1..Len(g)
  BY <1>2, LenProperties
<1> HIDE DEF g, n
<1>4. ASSUME NEW i \in DOMAIN g PROVE i \in Nat /\ i + k \in DOMAIN f /\ g[i] = f[i + k]
  <2>1. i \in 1..(n - m + 1) /\ m <= n
    BY <1>1, <1>2, <1>3
  <2>2. m + i - 1 = i + k /\ i + k \in 1..n /\ i \in Nat
    BY <2>1, <1>1
  <2> QED
    BY <2>1, <2>2, <1>1, <1>2
<1>5. Len(g) = (IF k < n THEN n - k ELSE 0)
  BY <1>1, <1>2
<1> QED
  BY <1>2, <1>4, <1>5 DEF g, n

\* What turnstile_broadcast() of queue q does to a turnstile that has one waiter
\* more than turnstiles on its free list: the waiters of q become pending, each is
\* given the turnstile of its number on the free list, and the one for which none
\* is left takes ts itself off the chain.
HandsOut(l, ts, q) ==
  LET s == ts_blocked[ts][q]
      f == ts_free[ts]
  IN  /\ ts_pending' = [ts_pending EXCEPT ![ts] = s]
      /\ ts_blocked' = [ts_blocked EXCEPT ![ts][q] = <<>>]
      /\ ts_free' = [ts_free EXCEPT ![ts] = SubSeq(f, Len(s) + 1, Len(f))]
      /\ tc_turnstiles' = [tc_turnstiles EXCEPT ![TC_HASH[l]] =
                             IF Len(s) > Len(f) THEN @ \ {ts} ELSE @]
      /\ td_turnstile' \in [Thread -> Turnstiles \cup {NULL}]
      /\ \A i \in 1..Len(s) : td_turnstile'[s[i]] = IF i <= Len(f) THEN f[i] ELSE ts
      /\ \A u \in Thread \ ToSet(s) : td_turnstile'[u] = td_turnstile[u]

\* turnstile_broadcast of one queue: what is left blocked, what becomes pending,
\* and the turnstiles handed back.
LEMMA QueueBroadcast ==
  ASSUME TurnstileTypeOK, NEW l, NEW ts \in Turnstiles, NEW k \in Queue,
         turnstile_broadcast(l, ts, k), ts_pending[ts] = <<>>, Injective(ts_blocked[ts][k])
  PROVE  HandsOut(l, ts, k)
<1> DEFINE q == ts_blocked[ts][k]
           free == ts_free[ts]
           pend == ts_pending[ts] \o q
           Place(td) == CHOOSE j \in DOMAIN pend : pend[j] = td
<1>0. q \in Seq(Thread) /\ free \in Seq(Turnstiles) /\ Len(free) \in Nat
  BY LenProperties DEF TurnstileTypeOK
<1>1. pend = q
  BY <1>0, ConcatEmptySeq
<1>2. /\ ts_pending' = [ts_pending EXCEPT ![ts] = pend]
      /\ ts_blocked' = [ts_blocked EXCEPT ![ts][k] = <<>>]
      /\ ts_free' = [ts_free EXCEPT ![ts] = SubSeq(free, Len(pend) + 1, Len(free))]
      /\ td_turnstile' = [td \in Thread |->
                            IF td \in ToSet(pend) THEN Given(free, Place(td), ts)
                            ELSE td_turnstile[td]]
      /\ tc_turnstiles' = [tc_turnstiles EXCEPT ![TC_HASH[l]] =
                             IF Len(pend) > Len(free) THEN @ \ {ts} ELSE @]
  BY DEF turnstile_broadcast
<1> HIDE DEF pend
<1>5. DOMAIN q = 1..Len(q) /\ \A i \in 1..Len(q) : q[i] \in Thread /\ q[i] \in ToSet(q)
  BY <1>0, LenProperties, ElementOfSeq DEF ToSet
<1>6. ASSUME NEW i \in 1..Len(q) PROVE Place(q[i]) = i
  BY <1>1, <1>5 DEF Injective
<1> HIDE DEF Place
<1>7. ASSUME NEW i \in 1..Len(q)
      PROVE  td_turnstile'[q[i]] = IF i <= Len(free) THEN free[i] ELSE ts
  BY <1>1, <1>2, <1>5, <1>6 DEF Given
<1>8. \A u \in Thread \ ToSet(q) : td_turnstile'[u] = td_turnstile[u]
  BY <1>1, <1>2
<1>9. ASSUME NEW u \in Thread PROVE td_turnstile'[u] \in Turnstiles \cup {NULL}
  <2>1. CASE u \in ToSet(q)
    <3>1. PICK i \in 1..Len(q) : q[i] = u
      BY <2>1, <1>5 DEF ToSet
    <3>2. i <= Len(free) => free[i] \in Turnstiles
      BY <1>0, ElementOfSeq
    <3> QED
      BY <3>1, <3>2, <1>7
  <2>2. CASE u \notin ToSet(q)
    BY <2>2, <1>8 DEF TurnstileTypeOK
  <2> QED
    BY <2>1, <2>2
<1>10. td_turnstile' \in [Thread -> Turnstiles \cup {NULL}]
  BY <1>2, <1>9
<1>11. /\ ts_pending' = [ts_pending EXCEPT ![ts] = q]
       /\ ts_free' = [ts_free EXCEPT ![ts] = SubSeq(free, Len(q) + 1, Len(free))]
       /\ tc_turnstiles' = [tc_turnstiles EXCEPT ![TC_HASH[l]] =
                              IF Len(q) > Len(free) THEN @ \ {ts} ELSE @]
  BY <1>1, <1>2
<1> QED
  BY <1>2, <1>7, <1>8, <1>10, <1>11 DEF HandsOut

\* The woken threads are given turnstiles of the free list, and ts when that is used
\* up; no two of them the same, and none that stays on the free list.
LEMMA EachWokenHasOne ==
  ASSUME TurnstileTypeOK, NEW l, NEW ts \in Turnstiles, NEW k \in Queue,
         HandsOut(l, ts, k), Injective(ts_free[ts]), ts \notin ToSet(ts_free[ts]),
         Len(ts_blocked[ts][k]) <= Len(ts_free[ts]) + 1
  PROVE  LET s == ts_blocked[ts][k]
             f == ts_free[ts]
             gone == Len(s) > Len(f)
         IN  /\ \A u \in ToSet(s) :
                  /\ u \in Thread
                  /\ \/ td_turnstile'[u] \in ToSet(f)
                     \/ td_turnstile'[u] = ts /\ gone
             /\ \A u, w \in ToSet(s) : td_turnstile'[u] = td_turnstile'[w] => u = w
             /\ gone => \E u \in ToSet(s) : td_turnstile'[u] = ts
             /\ \A u \in ToSet(s) : td_turnstile'[u] \notin ToSet(ts_free'[ts])
             /\ ts_free'[ts] \in Seq(Turnstiles)
             /\ Len(ts_free'[ts]) = IF gone THEN 0 ELSE Len(f) - Len(s)
             /\ \A i \in DOMAIN ts_free'[ts] :
                  /\ i \in Nat /\ i + Len(s) \in DOMAIN f
                  /\ ts_free'[ts][i] = f[i + Len(s)]
<1> DEFINE s == ts_blocked[ts][k]
           f == ts_free[ts]
           n == Len(s)
           m == Len(f)
<1>1. s \in Seq(Thread) /\ f \in Seq(Turnstiles) /\ ts_free \in [Turnstiles -> Seq(Turnstiles)]
  BY DEF TurnstileTypeOK
<1>2. \A i \in 1..n : td_turnstile'[s[i]] = IF i <= m THEN f[i] ELSE ts
  BY DEF HandsOut
<1>3. n <= m + 1 /\ Injective(f) /\ ts \notin ToSet(f)
  OBVIOUS
<1>4. ts_free'[ts] = SubSeq(f, n + 1, m)
  BY <1>1 DEF HandsOut
<1> HIDE DEF s, f
<1>5. /\ m \in Nat /\ DOMAIN f = 1..m
      /\ \A i \in 1..m : f[i] \in Turnstiles /\ f[i] \in ToSet(f)
      /\ \A x \in ToSet(f) : x \in Turnstiles /\ \E i \in 1..m : f[i] = x
  BY <1>1, SetOfSeq, Zenon
<1>6. /\ n \in Nat /\ DOMAIN s = 1..n
      /\ \A i \in 1..n : s[i] \in Thread /\ s[i] \in ToSet(s)
      /\ \A u \in ToSet(s) : u \in Thread /\ \E i \in 1..n : s[i] = u
  BY <1>1, SetOfSeq, Zenon
<1>7. /\ ts_free'[ts] \in Seq(Turnstiles)
      /\ Len(ts_free'[ts]) = (IF n < m THEN m - n ELSE 0)
      /\ \A i \in DOMAIN ts_free'[ts] :
           i \in Nat /\ i + n \in DOMAIN f /\ ts_free'[ts][i] = f[i + n]
  <2> HIDE DEF n
  <2>1. LET g == SubSeq(f, n + 1, Len(f))
        IN  /\ g \in Seq(Turnstiles) /\ Len(g) = (IF n < Len(f) THEN Len(f) - n ELSE 0)
            /\ \A i \in DOMAIN g : i \in Nat /\ i + n \in DOMAIN f /\ g[i] = f[i + n]
    BY <1>1, <1>6, SuffixEffect
  <2> QED
    BY <2>1, <1>4
<1> HIDE DEF n, m
<1>8. \A i \in 1..n :
        \/ i \in 1..m /\ td_turnstile'[s[i]] = f[i]
        \/ i = n /\ n > m /\ td_turnstile'[s[i]] = ts
  BY <1>2, <1>3, <1>5, <1>6
<1>9. ASSUME NEW u \in ToSet(s)
      PROVE  /\ u \in Thread
             /\ \/ td_turnstile'[u] \in ToSet(f)
                \/ td_turnstile'[u] = ts /\ n > m
             /\ td_turnstile'[u] \notin ToSet(ts_free'[ts])
  <2>1. PICK i \in 1..n : s[i] = u
    BY <1>6
  <2>2. \A j \in DOMAIN ts_free'[ts] :
          j \in Nat /\ j + n \in 1..m /\ ts_free'[ts][j] = f[j + n] /\ j # 0
    <3>1. DOMAIN ts_free'[ts] = 1..Len(ts_free'[ts])
      BY <1>7, LenProperties
    <3> QED
      BY <3>1, <1>5, <1>7
  <2>3. CASE i \in 1..m /\ td_turnstile'[s[i]] = f[i]
    <3>1. \A j \in DOMAIN ts_free'[ts] : ts_free'[ts][j] # f[i]
      <4> SUFFICES ASSUME NEW j \in DOMAIN ts_free'[ts], ts_free'[ts][j] = f[i] PROVE FALSE
        OBVIOUS
      <4>1. j \in Nat /\ j # 0 /\ j + n \in 1..m /\ f[j + n] = f[i]
        BY <2>2
      <4>2. j + n = i
        BY <4>1, <2>3, <1>3, <1>5 DEF Injective
      <4> QED
        BY <4>1, <4>2, <1>6
    <3>2. td_turnstile'[u] = f[i] /\ f[i] \in ToSet(f) /\ u \in Thread
      BY <2>1, <2>3, <1>5, <1>6
    <3>3. f[i] \notin ToSet(ts_free'[ts])
      BY <3>1 DEF ToSet
    <3> QED
      BY <3>2, <3>3
  <2>4. CASE i = n /\ n > m /\ td_turnstile'[s[i]] = ts
    <3>1. \A j \in DOMAIN ts_free'[ts] : ts_free'[ts][j] # ts
      BY <2>2, <1>3, <1>5
    <3> QED
      BY <2>1, <2>4, <3>1, <1>6 DEF ToSet
  <2> QED
    BY <1>8, <2>1, <2>3, <2>4
<1>10. ASSUME NEW u \in ToSet(s), NEW w \in ToSet(s), td_turnstile'[u] = td_turnstile'[w]
       PROVE  u = w
  <2>1. PICK i \in 1..n : s[i] = u
    BY <1>6
  <2>2. PICK j \in 1..n : s[j] = w
    BY <1>6
  <2>3. i = j
    <3>1. CASE i \in 1..m /\ td_turnstile'[u] = f[i]
      <4>1. td_turnstile'[w] # ts
        BY <3>1, <1>3, <1>5, <1>10
      <4>2. j \in 1..m /\ td_turnstile'[w] = f[j]
        BY <4>1, <2>2, <1>8
      <4> QED
        BY <3>1, <4>2, <1>3, <1>5, <1>10 DEF Injective
    <3>2. CASE i = n /\ td_turnstile'[u] = ts
      <4>1. \A h \in 1..m : td_turnstile'[w] # f[h]
        BY <3>2, <1>3, <1>5, <1>10
      <4>2. j = n
        BY <4>1, <2>2, <1>8
      <4> QED
        BY <3>2, <4>2
    <3> QED
      BY <2>1, <3>1, <3>2, <1>8
  <2> QED
    BY <2>1, <2>2, <2>3
<1>11. n > m => \E u \in ToSet(s) : td_turnstile'[u] = ts
  <2> SUFFICES ASSUME n > m PROVE \E u \in ToSet(s) : td_turnstile'[u] = ts
    OBVIOUS
  <2>1. n \in 1..n /\ td_turnstile'[s[n]] = ts
    BY <1>2, <1>5, <1>6
  <2> QED
    BY <2>1, <1>6
<1>12. Len(ts_free'[ts]) = IF n > m THEN 0 ELSE m - n
  BY <1>5, <1>6, <1>7
<1> QED
  BY <1>7, <1>9, <1>10, <1>11, <1>12 DEF s, f, n, m

\* The two queues of a lock's turnstile.
LEMMA TwoQueues ==
  ASSUME WaitInv, NEW l \in Rwlock, NEW ts \in Turnstiles, ts \in Attached(l),
         NEW q \in Queue, NEW r \in Queue, r # q
  PROVE  /\ Len(ts_blocked[ts][r]) \in Nat
         /\ Len(ts_blocked[ts][q]) + Len(ts_blocked[ts][r]) = Len(ts_free[ts]) + 1
         /\ Len(ts_blocked[ts][q]) > Len(ts_free[ts]) <=> ts_blocked[ts][r] = <<>>
         /\ Len(ts_blocked[ts][q]) <= Len(ts_free[ts]) + 1
<1> DEFINE a == Len(ts_blocked[ts][q])
           b == Len(ts_blocked[ts][r])
           c == Len(ts_free[ts])
<1>1. TurnstileTypeOK /\ Queue = {EX, SH} /\ EX # SH
  BY Lists DEF WaitInv
<1>2. Len(ts_blocked[ts][EX]) + Len(ts_blocked[ts][SH]) = c + 1
  BY AttachedOn
<1>3. /\ ts_free[ts] \in Seq(Turnstiles) /\ ts_blocked[ts][q] \in Seq(Thread)
      /\ ts_blocked[ts][r] \in Seq(Thread)
  BY <1>1 DEF TurnstileTypeOK
<1>4. a \in Nat /\ b \in Nat /\ c \in Nat /\ (ts_blocked[ts][r] = <<>> <=> b = 0)
  BY <1>3, EmptySeqIs, LenProperties
<1>5. a + b = c + 1 \/ b + a = c + 1
  <2>1. CASE q = EX /\ r = SH
    BY <2>1, <1>2
  <2>2. CASE q = SH /\ r = EX
    BY <2>2, <1>2
  <2> QED
    BY <2>1, <2>2, <1>1
<1> HIDE DEF a, b, c
<1>6. a + b = c + 1 /\ (a > c <=> b = 0) /\ a <= c + 1
  BY <1>4, <1>5
<1> QED
  BY <1>4, <1>6 DEF a, b, c

\* Thread t takes the waiters of queue q off turnstile ts of lock l.
Wakes(t, l, ts, q) ==
  /\ cur[t] = l /\ ~TD_ON_LOCK(t) /\ pc[t] \notin Waking
  /\ ts \in Attached(l) /\ ts_blocked[ts][q] # <<>> /\ turnstile_broadcast(l, ts, q)
  /\ pc'[t] \in Waking /\ lts'[t] = ts /\ cur'[t] = l
  /\ \A u \in Thread \ {t} :
       /\ pc'[u] = pc[u] /\ cur'[u] = cur[u] /\ queue'[u] = queue[u]
       /\ v'[u] = v[u] /\ lts'[u] = lts[u]
  /\ UNCHANGED <<ts_lockobj, td_blocked, td_state>>
  /\ tc_lock'[TC_HASH[l]] = t /\ ChainKept(t)
  /\ \A u \in Thread \ {t} : pc[u] \in Chained => TC_HASH[cur[u]] # TC_HASH[l]

\* What the turnstile is like before, and what becomes of it.
LEMMA WakesFacts ==
  ASSUME WaitInv, NEW t \in Thread, NEW l \in Rwlock, NEW ts \in Turnstiles,
         NEW q \in Queue, Wakes(t, l, ts, q)
  PROVE  LET s == ts_blocked[ts][q]
             f == ts_free[ts]
         IN  /\ ts_pending[ts] = <<>> /\ HandsOut(l, ts, q)
             /\ Injective(f) /\ ts \notin ToSet(f) /\ Len(s) \in Nat /\ Len(f) \in Nat
             /\ Len(s) <= Len(f) + 1
<1> DEFINE s == ts_blocked[ts][q]
           f == ts_free[ts]
<1>1. /\ TurnstileTypeOK /\ Queue = {EX, SH} /\ EX # SH /\ PlaceInv /\ QueueOf(ts)
      /\ ts \in Attached(l)
  BY Lists DEF WaitInv, StructInv, QueueInv, Wakes
<1>2. /\ OnChain(ts) /\ ts_lockobj[ts] = l
      /\ Len(ts_blocked[ts][EX]) + Len(ts_blocked[ts][SH]) = Len(f) + 1
  BY <1>1, AttachedOn
<1>3. ts_pending[ts] = <<>>
  <2> SUFFICES ASSUME ts_pending[ts] # <<>> PROVE FALSE
    OBVIOUS
  <2>1. PICK u \in Thread : Releasing(u, ts)
    BY <1>1 DEF QueueOf
  <2>2. u # t /\ pc[u] \in Chained /\ cur[u] = l
    BY <2>1, <1>2, Here DEF Releasing, LockedOf, Wakes
  <2> QED
    BY <2>2 DEF Wakes
<1>4. Injective(f) /\ ts \notin ToSet(f)
  BY <1>1, <1>2 DEF PlaceInv, Injective
<1>5. f \in Seq(Turnstiles) /\ s \in Seq(Thread) /\ Len(f) \in Nat /\ Len(s) \in Nat
  BY <1>1, LenProperties DEF TurnstileTypeOK
<1>6. Len(s) <= Len(f) + 1
  <2>1. PICK r \in Queue : r # q
    BY <1>1
  <2> QED
    BY <2>1, <1>1, TwoQueues
<1>7. HandsOut(l, ts, q)
  <2>1. Injective(s) /\ turnstile_broadcast(l, ts, q)
    BY <1>1 DEF QueueOf, Wakes
  <2> QED
    BY <2>1, <1>1, <1>3, QueueBroadcast
<1> QED
  BY <1>3, <1>4, <1>5, <1>6, <1>7

\* No turnstile is in two places after the waiters have been given theirs.
LEMMA WakesPlaces ==
  ASSUME WaitInv, NEW t \in Thread, NEW l \in Rwlock, NEW ts \in Turnstiles,
         NEW q \in Queue, Wakes(t, l, ts, q),
         \A x \in Turnstiles : OnChain(x)' <=>
           (OnChain(x) /\ ~(x = ts /\ Len(ts_blocked[ts][q]) > Len(ts_free[ts])))
  PROVE  PlaceInv'
<1> DEFINE s == ts_blocked[ts][q]
           f == ts_free[ts]
           n == Len(s)
           gone == n > Len(f)
<1>0. TurnstileTypeOK /\ PlaceInv /\ OnChain(ts) /\ NULL \notin Turnstiles
  BY AttachedOn, TurnstileAssumption DEF WaitInv, StructInv, Wakes
<1>1. HandsOut(l, ts, q) /\ Injective(f) /\ ts \notin ToSet(f) /\ n \in Nat /\ n <= Len(f) + 1
  BY WakesFacts
<1>2. /\ \A u \in ToSet(s) : u \in Thread /\ (td_turnstile'[u] \in ToSet(f) \/ (td_turnstile'[u] = ts /\ gone))
      /\ \A u, w \in ToSet(s) : td_turnstile'[u] = td_turnstile'[w] => u = w
      /\ \A u \in ToSet(s) : td_turnstile'[u] \notin ToSet(ts_free'[ts])
      /\ \A i \in DOMAIN ts_free'[ts] :
           i \in Nat /\ i + n \in DOMAIN f /\ ts_free'[ts][i] = f[i + n]
  <2>1. TurnstileTypeOK /\ HandsOut(l, ts, q)
    BY <1>0, <1>1
  <2>2. /\ Injective(ts_free[ts]) /\ ts \notin ToSet(ts_free[ts])
        /\ Len(ts_blocked[ts][q]) <= Len(ts_free[ts]) + 1
    BY <1>1
  <2> HIDE DEF s, f, n, gone
  <2> QED
    BY <2>1, <2>2, EachWokenHasOne DEF s, f, n, gone
<1>3. /\ \A u \in Thread \ ToSet(s) : td_turnstile'[u] = td_turnstile[u]
      /\ \A y \in Turnstiles \ {ts} : ts_free'[y] = ts_free[y]
      /\ ToSet(f) \subseteq Turnstiles
  BY <1>0, <1>1, Lists DEF HandsOut, TurnstileTypeOK
<1>4. \A x \in Turnstiles : OnChain(x)' <=> (OnChain(x) /\ ~(x = ts /\ gone))
  OBVIOUS
<1> HIDE DEF s, n, gone
<1>5. \A y \in Turnstiles : ToSet(ts_free'[y]) \subseteq ToSet(ts_free[y])
  BY <1>2, <1>3 DEF ToSet
<1>6. \A x \in ToSet(f) \cup {ts} : /\ x \in Turnstiles
                                    /\ \A u \in Thread : td_turnstile[u] # x
                                    /\ \A y \in Turnstiles \ {ts} : x \notin ToSet(ts_free[y])
  <2> SUFFICES ASSUME NEW x \in ToSet(f) \cup {ts}
               PROVE  /\ x \in Turnstiles
                      /\ \A u \in Thread : td_turnstile[u] # x
                      /\ \A y \in Turnstiles \ {ts} : x \notin ToSet(ts_free[y])
    OBVIOUS
  <2>1. x \in Turnstiles
    BY <1>3
  <2>2. CASE x = ts
    BY <2>1, <2>2, <1>0 DEF PlaceInv
  <2>3. CASE x \in ToSet(ts_free[ts])
    <3>1. \A y \in Turnstiles \ {ts} : x \notin ToSet(ts_free[y])
      BY <2>3, <1>0 DEF PlaceInv, ToSet
    <3> QED
      BY <2>1, <2>3, <3>1, <1>0 DEF PlaceInv
  <2> QED
    BY <2>2, <2>3
<1>7. ASSUME NEW u \in Thread, NEW w \in Thread, td_turnstile'[u] # NULL,
             td_turnstile'[u] = td_turnstile'[w]
      PROVE  u = w
  <2>1. CASE u \in ToSet(s) /\ w \in ToSet(s)
    BY <2>1, <1>2, <1>7
  <2>2. CASE u \in ToSet(s) /\ w \notin ToSet(s)
    BY <2>2, <1>2, <1>3, <1>6, <1>7
  <2>3. CASE u \notin ToSet(s) /\ w \in ToSet(s)
    BY <2>3, <1>2, <1>3, <1>6, <1>7
  <2>4. CASE u \notin ToSet(s) /\ w \notin ToSet(s)
    BY <2>4, <1>0, <1>3, <1>7 DEF PlaceInv
  <2> QED
    BY <2>1, <2>2, <2>3, <2>4
<1>8. ASSUME NEW u \in Thread, NEW x \in Turnstiles, td_turnstile'[u] = x
      PROVE  ~OnChain(x)' /\ \A y \in Turnstiles : x \notin ToSet(ts_free'[y])
  <2>1. CASE u \in ToSet(s)
    <3>1. x \in ToSet(f) \/ (x = ts /\ gone)
      BY <2>1, <1>2, <1>8
    <3>2. \A y \in Turnstiles : x \notin ToSet(ts_free'[y])
      BY <2>1, <3>1, <1>2, <1>3, <1>6, <1>8
    <3>3. x \in ToSet(f) => ~OnChain(x)
      BY <1>0 DEF PlaceInv
    <3> QED
      BY <3>1, <3>2, <3>3, <1>4
  <2>2. CASE u \notin ToSet(s)
    <3>1. ~OnChain(x) /\ \A y \in Turnstiles : x \notin ToSet(ts_free[y])
      BY <2>2, <1>0, <1>3, <1>8 DEF PlaceInv
    <3> QED
      BY <3>1, <1>4, <1>5
  <2> QED
    BY <2>1, <2>2
<1>9. \A x, y \in Turnstiles : OnChain(x)' => x \notin ToSet(ts_free'[y])
  BY <1>0, <1>4, <1>5 DEF PlaceInv
<1>10. ASSUME NEW x \in Turnstiles, NEW y \in Turnstiles,
              NEW i \in DOMAIN ts_free'[x], NEW j \in DOMAIN ts_free'[y],
              ts_free'[x][i] = ts_free'[y][j]
       PROVE  x = y /\ i = j
  <2>0. \A a, b \in Turnstiles : \A h \in DOMAIN ts_free[a], m \in DOMAIN ts_free[b] :
          ts_free[a][h] = ts_free[b][m] => a = b /\ h = m
    BY <1>0 DEF PlaceInv
  <2>1. PICK i1 \in DOMAIN ts_free[x] :
          ts_free'[x][i] = ts_free[x][i1] /\ (x = ts => i \in Nat /\ i1 = i + n) /\ (x # ts => i1 = i)
    BY <1>2, <1>3
  <2>2. PICK j1 \in DOMAIN ts_free[y] :
          ts_free'[y][j] = ts_free[y][j1] /\ (y = ts => j \in Nat /\ j1 = j + n) /\ (y # ts => j1 = j)
    BY <1>2, <1>3
  <2>3. ts_free[x][i1] = ts_free[y][j1]
    BY <2>1, <2>2, <1>10
  <2>4. x = y /\ i1 = j1
    BY <2>0, <2>3
  <2> QED
    BY <2>1, <2>2, <2>4, <1>1
<1> QED
  BY <1>7, <1>8, <1>9, <1>10 DEF PlaceInv

\* Thread t takes a queue off the turnstile of its lock.
LEMMA WakesStep ==
  ASSUME WaitInv, NEW t \in Thread, NEW l \in Rwlock, NEW ts \in Turnstiles,
         NEW k \in Queue, Wakes(t, l, ts, k)
  PROVE  /\ StructInv' /\ Aside(t) /\ ts_pending'[ts] # <<>>
         /\ Attached(l)' \subseteq {ts} /\ \A n \in Rwlock \ {l} : Attached(n)' = Attached(n)
         /\ \A q \in Queue : Has(l, q)' <=> (Has(l, q) /\ q # k)
         /\ \A n \in Rwlock \ {l}, q \in Queue : Has(n, q)' <=> Has(n, q)
         /\ \A x \in Turnstiles \ {ts} : /\ OnChain(x)' <=> OnChain(x)
                                         /\ ts_pending'[x] = ts_pending[x]
<1> DEFINE s == ts_blocked[ts][k]
           f == ts_free[ts]
           gone == Len(s) > Len(f)
<1>1. HandsOut(l, ts, k) /\ ts_pending[ts] = <<>> /\ Len(s) \in Nat /\ Len(f) \in Nat
  BY WakesFacts
<1>2. /\ Len(s) <= Len(f) + 1 /\ Injective(f) /\ ts \notin ToSet(f)
      /\ \A r \in Queue \ {k} : /\ Len(ts_blocked[ts][r]) \in Nat
                                /\ Len(s) + Len(ts_blocked[ts][r]) = Len(f) + 1
                                /\ gone <=> ts_blocked[ts][r] = <<>>
  <2>1. Len(s) <= Len(f) + 1 /\ Injective(f) /\ ts \notin ToSet(f)
    BY WakesFacts
  <2>2. ASSUME NEW r \in Queue, r # k
        PROVE  /\ Len(ts_blocked[ts][r]) \in Nat
               /\ Len(s) + Len(ts_blocked[ts][r]) = Len(f) + 1
               /\ gone <=> ts_blocked[ts][r] = <<>>
    <3>1. ts \in Attached(l)
      BY DEF Wakes
    <3> QED
      BY <3>1, <2>2, TwoQueues
  <2> QED
    BY <2>1, <2>2
<1>3. /\ TurnstileTypeOK /\ Queue = {EX, SH} /\ EX # SH
      /\ ControlInv /\ AttachedInv /\ OneAttached /\ DetachedInv /\ QueueInv /\ LockedInv
      /\ ts_blocked \in [Turnstiles -> [Queue -> Seq(Thread)]]
      /\ ts_free \in [Turnstiles -> Seq(Turnstiles)]
      /\ tc_turnstiles \in [Chain -> SUBSET Turnstiles]
      /\ ts_pending \in [Turnstiles -> Seq(Thread)]
  BY Lists DEF WaitInv, StructInv, TurnstileTypeOK
<1>4. /\ cur[t] = l /\ ~TD_ON_LOCK(t) /\ ts \in Attached(l) /\ s # <<>> /\ pc[t] \notin Waking
      /\ pc'[t] \in Waking /\ lts'[t] = ts /\ cur'[t] = l
      /\ \A u \in Thread \ {t} :
           /\ pc'[u] = pc[u] /\ cur'[u] = cur[u] /\ queue'[u] = queue[u]
           /\ v'[u] = v[u] /\ lts'[u] = lts[u]
           /\ pc[u] \in Chained => TC_HASH[cur[u]] # TC_HASH[l]
      /\ UNCHANGED <<ts_lockobj, td_blocked, td_state>>
      /\ tc_lock'[TC_HASH[l]] = t /\ ChainKept(t)
  BY DEF Wakes
<1>5. OnChain(ts) /\ ts_lockobj[ts] = l /\ TC_HASH[l] \in Chain
  BY <1>4, AttachedOn
<1>6. /\ \A u \in ToSet(s) : u \in Thread /\ (td_turnstile'[u] \in ToSet(f) \/ td_turnstile'[u] = ts)
      /\ gone => \E u \in ToSet(s) : td_turnstile'[u] = ts
      /\ ts_free'[ts] \in Seq(Turnstiles)
      /\ Len(ts_free'[ts]) = IF gone THEN 0 ELSE Len(f) - Len(s)
  <2>0. Injective(ts_free[ts]) /\ ts \notin ToSet(ts_free[ts])
        /\ Len(ts_blocked[ts][k]) <= Len(ts_free[ts]) + 1
    BY <1>2
  <2>1. \A u \in ToSet(s) : /\ u \in Thread
                            /\ \/ td_turnstile'[u] \in ToSet(f)
                               \/ td_turnstile'[u] = ts /\ gone
    <3>1. TurnstileTypeOK /\ HandsOut(l, ts, k)
      BY <1>1, <1>3
    <3> QED
      BY <3>1, <2>0, EachWokenHasOne
  <2>2. gone => \E u \in ToSet(s) : td_turnstile'[u] = ts
    <3>1. TurnstileTypeOK /\ HandsOut(l, ts, k)
      BY <1>1, <1>3
    <3> QED
      BY <3>1, <2>0, EachWokenHasOne
  <2>3. /\ ts_free'[ts] \in Seq(Turnstiles)
        /\ Len(ts_free'[ts]) = IF gone THEN 0 ELSE Len(f) - Len(s)
    BY <2>0, <1>1, <1>3, EachWokenHasOne
  <2> QED
    BY <2>1, <2>2, <2>3
<1>7. /\ ts_pending'[ts] = s /\ ts_blocked'[ts][k] = <<>>
      /\ \A q \in Queue \ {k} : ts_blocked'[ts][q] = ts_blocked[ts][q]
      /\ \A x \in Turnstiles \ {ts} : /\ ts_pending'[x] = ts_pending[x]
                                      /\ ts_free'[x] = ts_free[x]
                                      /\ ts_blocked'[x] = ts_blocked[x]
      /\ tc_turnstiles'[TC_HASH[l]] =
           IF gone THEN tc_turnstiles[TC_HASH[l]] \ {ts} ELSE tc_turnstiles[TC_HASH[l]]
      /\ \A c \in Chain \ {TC_HASH[l]} : tc_turnstiles'[c] = tc_turnstiles[c]
      /\ \A u \in Thread \ ToSet(s) : td_turnstile'[u] = td_turnstile[u]
  <2>1. /\ ts_pending' = [ts_pending EXCEPT ![ts] = s]
        /\ ts_blocked' = [ts_blocked EXCEPT ![ts][k] = <<>>]
        /\ ts_free' = [ts_free EXCEPT ![ts] = SubSeq(f, Len(s) + 1, Len(f))]
        /\ tc_turnstiles' = [tc_turnstiles EXCEPT ![TC_HASH[l]] =
                               IF gone THEN @ \ {ts} ELSE @]
        /\ \A u \in Thread \ ToSet(s) : td_turnstile'[u] = td_turnstile[u]
    BY <1>1 DEF HandsOut
  <2> HIDE DEF s, f, gone
  <2> QED
    BY <2>1, <1>3, <1>5
<1>8. s \in Seq(Thread) /\ ToSet(s) \subseteq Thread /\ ToSet(f) \subseteq Turnstiles
  BY <1>3, Lists
<1>9. /\ \A u \in ToSet(s) : td_turnstile'[u] \in Turnstiles /\ td_turnstile'[u] # NULL
      /\ \A u \in ToSet(s) : TD_ON_LOCK(u) /\ td_blocked[u] = ts /\ cur[u] = l
                             /\ td_turnstile[u] = NULL /\ queue[u] = k /\ u # t
  <2>1. \A u \in ToSet(s) : TD_ON_LOCK(u) /\ td_blocked[u] = ts /\ cur[u] = l
                            /\ td_turnstile[u] = NULL /\ queue[u] = k
    BY <1>3, <1>5 DEF QueueInv, QueueOf
  <2>2. \A u \in ToSet(s) : td_turnstile'[u] \in Turnstiles
    BY <1>6, <1>8
  <2> QED
    BY <2>1, <2>2, <1>4, TurnstileAssumption
<1>10. \A u \in Thread : TD_ON_LOCK(u)' <=> TD_ON_LOCK(u)
  BY <1>4 DEF TD_ON_LOCK
<1> HIDE DEF s, f, gone
<1>11. \A x \in Turnstiles : OnChain(x)' <=> (OnChain(x) /\ ~(x = ts /\ gone))
  <2>1. \A c \in Chain : ts \in tc_turnstiles[c] => c = TC_HASH[l]
    BY <1>3, <1>5 DEF AttachedInv, AttachedOf
  <2> QED
    BY <2>1, <1>5, <1>7 DEF OnChain
<1>12. /\ Attached(l)' = (IF gone THEN {} ELSE {ts})
       /\ \A n \in Rwlock \ {l} : Attached(n)' = Attached(n)
  <2>1. \A x \in Attached(l) : x = ts
    BY <1>3, <1>4 DEF OneAttached
  <2>2. Attached(l)' = (IF gone THEN {} ELSE {ts})
    BY <2>1, <1>4, <1>7 DEF Attached
  <2>3. ASSUME NEW n \in Rwlock \ {l} PROVE Attached(n)' = Attached(n)
    <3>1. TC_HASH[n] \in Chain
      BY TurnstileAssumption
    <3>2. tc_turnstiles'[TC_HASH[n]] \in
            {tc_turnstiles[TC_HASH[n]], tc_turnstiles[TC_HASH[n]] \ {ts}}
      BY <3>1, <1>7
    <3> QED
      BY <3>2, <1>4, <1>5 DEF Attached
  <2> QED
    BY <2>2, <2>3
<1>13. Aside(t)
  BY <1>4, <1>10 DEF Aside
<1>14. ControlInv'
  <2>1. ControlOf(t)'
    BY <1>4 DEF ControlOf, Looking, Waking
  <2> QED
    BY <1>4, <1>13, <2>1, ControlStep
<1>15. AttachedInv'
  <2> SUFFICES ASSUME NEW c \in Chain, NEW x \in tc_turnstiles'[c] PROVE AttachedOf(x, c)'
    BY DEF AttachedInv
  <2>1. x \in tc_turnstiles[c] /\ x \in Turnstiles /\ AttachedOf(x, c)
    BY <1>3, <1>7 DEF AttachedInv
  <2>2. CASE x = ts
    <3>1. ~gone
      BY <2>2, <1>11 DEF OnChain
    <3>2. PICK o \in Queue \ {k} : TRUE
      BY <1>3
    <3> DEFINE a == Len(s)
               b == Len(ts_blocked[ts][o])
               m == Len(f)
               g == Len(ts_free'[ts])
    <3>3. a + b = m + 1 /\ g = m - a /\ a \in Nat /\ b \in Nat /\ m \in Nat
      BY <3>1, <1>1, <1>2, <1>6 DEF s, f, gone
    <3>4. Len(ts_blocked'[ts][k]) = 0 /\ Len(ts_blocked'[ts][o]) = b
      BY <1>7
    <3>5. \/ Len(ts_blocked'[ts][EX]) = 0 /\ Len(ts_blocked'[ts][SH]) = b
          \/ Len(ts_blocked'[ts][EX]) = b /\ Len(ts_blocked'[ts][SH]) = 0
      <4>1. (k = EX /\ o = SH) \/ (k = SH /\ o = EX)
        BY <1>3
      <4> HIDE DEF b
      <4> QED
        BY <3>4, <4>1
    <3> HIDE DEF a, b, m, g
    <3>6. b = g + 1 /\ 0 + b = b /\ b + 0 = b
      BY <3>3
    <3>7. Len(ts_blocked'[ts][EX]) + Len(ts_blocked'[ts][SH]) = g + 1
      BY <3>5, <3>6
    <3> QED
      BY <2>1, <2>2, <3>7, <1>4 DEF AttachedOf, g
  <2>3. CASE x # ts
    <3>1. /\ ts_blocked'[x] = ts_blocked[x] /\ ts_free'[x] = ts_free[x]
          /\ ts_lockobj'[x] = ts_lockobj[x]
      BY <2>1, <2>3, <1>4, <1>7
    <3> QED
      BY <2>1, <3>1 DEF AttachedOf
  <2> QED
    BY <2>2, <2>3
<1>16. OneAttached'
  <2>1. \A x \in Attached(l)' : x = ts
    BY <1>12
  <2>2. \A n \in Rwlock : n = l \/ Attached(n)' = Attached(n)
    BY <1>12
  <2> SUFFICES ASSUME NEW n \in Rwlock, NEW x \in Attached(n)', NEW y \in Attached(n)'
               PROVE  x = y
    BY DEF OneAttached
  <2>3. OneAttached
    BY <1>3
  <2> QED
    BY <2>1, <2>2, <2>3 DEF OneAttached
<1>17. DetachedInv'
  <2> SUFFICES ASSUME NEW x \in Turnstiles, ~OnChain(x)' PROVE DetachedOf(x)'
    BY DEF DetachedInv
  <2>1. CASE x = ts
    <3>1. gone
      BY <2>1, <1>5, <1>11
    <3>2. \A q \in Queue : ts_blocked'[ts][q] = <<>>
      BY <3>1, <1>2, <1>7 DEF s, f, gone
    <3>3. ts_free'[ts] = <<>>
      BY <3>1, <1>6, EmptySeqIs
    <3> QED
      BY <2>1, <3>2, <3>3, <1>3 DEF DetachedOf
  <2>2. CASE x # ts
    BY <2>2, <1>3, <1>7, <1>11 DEF DetachedInv, DetachedOf
  <2> QED
    BY <2>1, <2>2
<1>18. QueueInv'
  <2> SUFFICES ASSUME NEW x \in Turnstiles PROVE QueueOf(x)'
    BY DEF QueueInv
  <2>1. QueueOf(x) /\ ts_lockobj'[x] = ts_lockobj[x]
    BY <1>3, <1>4 DEF QueueInv
  <2>2. /\ \A q \in Queue : ToSet(ts_blocked[x][q]) \subseteq Thread
        /\ ToSet(ts_pending[x]) \subseteq Thread
    BY <1>3, Lists
  <2>3. \A u \in Thread : TD_ON_LOCK(u) => cur'[u] = cur[u] /\ queue'[u] = queue[u]
    BY <1>4
  <2>4. ASSUME NEW q \in Queue, q # k \/ x # ts
        PROVE  /\ Injective(ts_blocked'[x][q])
               /\ \A u \in ToSet(ts_blocked'[x][q]) :
                    /\ TD_ON_LOCK(u)' /\ td_blocked'[u] = x /\ cur'[u] = ts_lockobj'[x]
                    /\ td_turnstile'[u] = NULL /\ queue'[u] = q
    <3>1. ts_blocked'[x][q] = ts_blocked[x][q]
      BY <2>4, <1>7
    <3>2. ASSUME NEW u \in ToSet(ts_blocked[x][q])
          PROVE  /\ TD_ON_LOCK(u)' /\ td_blocked'[u] = x /\ cur'[u] = ts_lockobj'[x]
                 /\ td_turnstile'[u] = NULL /\ queue'[u] = q
      <4>1. /\ u \in Thread /\ TD_ON_LOCK(u) /\ td_blocked[u] = x /\ cur[u] = ts_lockobj[x]
            /\ td_turnstile[u] = NULL /\ queue[u] = q
        BY <2>1, <2>2 DEF QueueOf
      <4>2. u \notin ToSet(s)
        BY <2>4, <4>1, <1>9
      <4> QED
        BY <4>1, <4>2, <2>1, <2>3, <1>4, <1>7, <1>10
    <3> QED
      BY <3>1, <3>2, <2>1 DEF QueueOf
  <2>5. CASE x = ts
    <3>1. ts_blocked'[x][k] = <<>> /\ Injective(<<>>) /\ ToSet(<<>>) = {}
      BY <2>5, <1>7 DEF Injective, ToSet
    <3>2. \A u \in ToSet(ts_pending'[x]) :
            /\ TD_ON_LOCK(u)' /\ td_blocked'[u] = x /\ cur'[u] = ts_lockobj'[x]
            /\ td_turnstile'[u] # NULL
      <4> SUFFICES ASSUME NEW u \in ToSet(s)
                   PROVE  /\ TD_ON_LOCK(u)' /\ td_blocked'[u] = ts /\ cur'[u] = ts_lockobj'[ts]
                          /\ td_turnstile'[u] # NULL
        BY <2>5, <1>7
      <4>1. u \in Thread
        BY <1>8
      <4> QED
        BY <4>1, <2>3, <1>4, <1>5, <1>9, <1>10
    <3>3. Releasing(t, x)'
      BY <2>5, <1>4 DEF Releasing
    <3>4. ASSUME NEW q \in Queue
          PROVE  /\ Injective(ts_blocked'[x][q])
                 /\ \A u \in ToSet(ts_blocked'[x][q]) :
                      /\ TD_ON_LOCK(u)' /\ td_blocked'[u] = x /\ cur'[u] = ts_lockobj'[x]
                      /\ td_turnstile'[u] = NULL /\ queue'[u] = q
      BY <3>1, <2>4
    <3> QED
      BY <3>2, <3>3, <3>4 DEF QueueOf
  <2>6. CASE x # ts
    <3>1. \A u \in ToSet(ts_pending'[x]) :
            /\ TD_ON_LOCK(u)' /\ td_blocked'[u] = x /\ cur'[u] = ts_lockobj'[x]
            /\ td_turnstile'[u] # NULL
      <4> SUFFICES ASSUME NEW u \in ToSet(ts_pending[x])
                   PROVE  /\ TD_ON_LOCK(u)' /\ td_blocked'[u] = x /\ cur'[u] = ts_lockobj'[x]
                          /\ td_turnstile'[u] # NULL
        BY <2>6, <1>7
      <4>1. /\ u \in Thread /\ TD_ON_LOCK(u) /\ td_blocked[u] = x /\ cur[u] = ts_lockobj[x]
            /\ td_turnstile[u] # NULL
        BY <2>1, <2>2 DEF QueueOf
      <4>2. u \notin ToSet(s)
        BY <4>1, <1>9
      <4> QED
        BY <4>1, <4>2, <2>1, <2>3, <1>4, <1>7, <1>10
    <3>2. \A u \in Thread : Releasing(u, x) => Releasing(u, x)'
      BY <2>6, <1>4 DEF Releasing
    <3>3. ts_pending'[x] # <<>> => \E u \in Thread : Releasing(u, x)'
      BY <2>1, <2>6, <3>2, <1>7 DEF QueueOf
    <3> QED
      BY <2>4, <2>6, <3>1, <3>3 DEF QueueOf
  <2> QED
    BY <2>5, <2>6
<1>19. LockedInv'
  <2> SUFFICES ASSUME NEW u \in Thread PROVE LockedOf(u)'
    BY DEF LockedInv
  <2>0. LockedOf(u)
    BY Here
  <2>1. TD_ON_LOCK(u) => /\ td_blocked[u] \in Turnstiles
                         /\ u \in Waiting(td_blocked[u])' \/ u \in ToSet(ts_pending'[td_blocked[u]])
    <3> SUFFICES ASSUME TD_ON_LOCK(u)
                 PROVE  /\ td_blocked[u] \in Turnstiles
                        /\ u \in Waiting(td_blocked[u])' \/ u \in ToSet(ts_pending'[td_blocked[u]])
      OBVIOUS
    <3>1. PICK x \in Turnstiles : x = td_blocked[u]
      BY <2>0 DEF LockedOf
    <3>2. u \in Waiting(x) \/ u \in ToSet(ts_pending[x])
      BY <2>0, <3>1 DEF LockedOf
    <3>3. u \in Waiting(x)' \/ u \in ToSet(ts_pending'[x])
      <4>1. CASE x = ts
        <5>1. u \in Waiting(ts)
          BY <3>2, <4>1, <1>1 DEF ToSet
        <5>2. PICK q \in Queue : u \in ToSet(ts_blocked[ts][q])
          BY <5>1, <1>3 DEF Waiting
        <5>3. CASE q = k
          BY <5>2, <5>3, <4>1, <1>7 DEF s
        <5>4. CASE q # k
          <6>1. u \in ToSet(ts_blocked'[ts][q])
            BY <5>2, <5>4, <1>7
          <6> QED
            BY <6>1, <4>1, <1>3 DEF Waiting
        <5> QED
          BY <5>3, <5>4
      <4>2. CASE x # ts
        BY <3>2, <4>2, <1>7 DEF Waiting
      <4> QED
        BY <4>1, <4>2
    <3>4. td_blocked'[u] = x
      BY <3>1, <1>4
    <3> QED
      BY <3>1, <3>3, <3>4, <1>4 DEF Waiting
  <2>2. td_turnstile'[u] = NULL => TD_ON_LOCK(u)'
    <3> SUFFICES ASSUME td_turnstile'[u] = NULL PROVE TD_ON_LOCK(u)
      BY <1>10
    <3>1. td_turnstile[u] = NULL
      BY <1>7, <1>9
    <3> QED
      BY <3>1, <2>0 DEF LockedOf
  <2>3. CASE u = t
    <3>1. pc'[t] \notin Looking
      BY <1>4 DEF Looking, Waking
    <3>2. ~OnChain(ts)' => \E w \in ToSet(ts_pending'[ts]) : td_turnstile'[w] = ts
      BY <1>5, <1>6, <1>7, <1>11
    <3>3. ~TD_ON_LOCK(t)'
      BY <1>4, <1>10
    <3>4. ~OnChain(lts[t])' => \E w \in ToSet(ts_pending'[lts'[t]]) : td_turnstile'[w] = lts'[t]
      BY <3>2, <1>4 DEF OnChain
    <3>5. \A x \in Attached(cur[t])' : x = lts'[t]
      BY <1>4, <1>12 DEF Attached
    <3> QED
      BY <2>2, <2>3, <3>1, <3>3, <3>4, <3>5, <1>4, <1>5 DEF LockedOf
  <2>4. CASE u # t
    <3>1. pc'[u] = pc[u] /\ cur'[u] = cur[u] /\ lts'[u] = lts[u] /\ td_blocked'[u] = td_blocked[u]
      BY <2>4, <1>4
    <3>2. ASSUME pc[u] \in Looking \cup Waking
          PROVE  /\ cur[u] \in Rwlock /\ lts[u] \in Turnstiles /\ cur[u] # l
                 /\ Attached(cur[u])' = Attached(cur[u])
                 /\ td_turnstile'[u] = td_turnstile[u]
      <4>1. pc[u] \in Chained /\ cur[u] \in Rwlock /\ lts[u] \in Turnstiles /\ ~TD_ON_LOCK(u)
        BY <3>2, Here
      <4>2. cur[u] # l
        BY <2>4, <4>1, <1>4
      <4>3. u \notin ToSet(s)
        BY <4>1, <1>9
      <4> QED
        BY <3>1, <4>1, <4>2, <4>3, <1>7, <1>12
    <3>3. ASSUME pc[u] \in Waking, ~OnChain(lts[u])'
          PROVE  \E w \in ToSet(ts_pending'[lts[u]]) : td_turnstile'[w] = lts[u]
      <4>1. lts[u] \in Turnstiles /\ lts[u] # ts
        BY <2>0, <3>2, <3>3, <1>5 DEF LockedOf
      <4>2. ~OnChain(lts[u])
        BY <4>1, <3>1, <3>3, <1>11
      <4>3. PICK w \in ToSet(ts_pending[lts[u]]) : td_turnstile[w] = lts[u]
        BY <4>2, <3>3, <2>0 DEF LockedOf
      <4>4. w \in Thread /\ td_blocked[w] = lts[u]
        BY <4>1, <1>3, Lists DEF QueueInv, QueueOf
      <4>5. w \notin ToSet(s)
        BY <4>1, <4>4, <1>9
      <4> QED
        BY <4>1, <4>3, <4>4, <4>5, <1>7
    <3> QED
      BY <2>0, <2>1, <2>2, <3>1, <3>2, <3>3, <1>4, <1>10 DEF LockedOf
  <2> QED
    BY <2>3, <2>4
<1>20. PlaceInv'
  BY <1>11, WakesPlaces DEF s, f, gone
<1>21. /\ \A q \in Queue : Has(l, q)' <=> (Has(l, q) /\ q # k)
       /\ \A n \in Rwlock \ {l}, q \in Queue : Has(n, q)' <=> Has(n, q)
  <2>1. ASSUME NEW q \in Queue PROVE Has(l, q)' <=> (Has(l, q) /\ q # k)
    <3>1. Has(l, q) <=> ts_blocked[ts][q] # <<>>
      BY <1>3, <1>4 DEF Has, OneAttached
    <3>2. CASE q = k
      BY <3>2, <1>7, <1>12 DEF Has
    <3>3. CASE q # k
      <4>1. gone <=> ts_blocked[ts][q] = <<>>
        BY <3>3, <1>2 DEF s, f, gone
      <4> QED
        BY <3>1, <3>3, <4>1, <1>7, <1>12 DEF Has
    <3> QED
      BY <3>2, <3>3
  <2>2. ASSUME NEW n \in Rwlock \ {l}, NEW q \in Queue PROVE Has(n, q)' <=> Has(n, q)
    <3>1. \A x \in Attached(n) : x \in Turnstiles /\ x # ts
      BY <1>5, AttachedOn
    <3> QED
      BY <3>1, <1>7, <1>12 DEF Has
  <2> QED
    BY <2>1, <2>2
<1>22. Attached(l)' \subseteq {ts} /\ ts_pending'[ts] # <<>>
  BY <1>4, <1>7, <1>12
<1>23. \A x \in Turnstiles \ {ts} : (OnChain(x)' <=> OnChain(x)) /\ ts_pending'[x] = ts_pending[x]
  BY <1>7, <1>11
<1> QED
  BY <1>12, <1>13, <1>14, <1>15, <1>16, <1>17, <1>18, <1>19, <1>20, <1>21, <1>22, <1>23
  DEF StructInv

\* The first waiter of a turnstile that has one, in either queue, is a thread.
LEMMA FirstIsThread ==
  ASSUME TurnstileTypeOK, NEW ts \in Turnstiles,
         ts_blocked[ts][EX] # <<>> \/ ts_blocked[ts][SH] # <<>>
  PROVE  turnstile_first_waiter(ts) \in Thread
<1> DEFINE std == ts_blocked[ts][TS_SHARED_QUEUE]
           xtd == ts_blocked[ts][TS_EXCLUSIVE_QUEUE]
<1>1. std \in Seq(Thread) /\ xtd \in Seq(Thread) /\ (xtd # <<>> \/ std # <<>>)
  BY DEF TurnstileTypeOK, Queue, EX, SH
<1>2. (xtd # <<>> => xtd[1] \in Thread) /\ (std # <<>> => std[1] \in Thread)
  BY <1>1, EmptySeq, LenProperties, ElementOfSeq
<1>3. \/ turnstile_first_waiter(ts) = std[1] /\ std # <<>>
      \/ turnstile_first_waiter(ts) = xtd[1] /\ xtd # <<>>
  BY <1>1 DEF turnstile_first_waiter
<1> QED
  BY <1>2, <1>3

\* A turnstile in the hash table has waiters.
LEMMA OnChainHasWaiters ==
  ASSUME WaitInv, NEW ts \in Turnstiles, OnChain(ts)
  PROVE  /\ ts_blocked[ts][EX] # <<>> \/ ts_blocked[ts][SH] # <<>>
         /\ Waiting(ts) # {} /\ Waiters(ts) = Waiting(ts)
         /\ ts_lockobj[ts] \in Rwlock /\ ts \in Attached(ts_lockobj[ts])
<1>1. PICK c \in Chain : ts \in tc_turnstiles[c]
  BY DEF OnChain
<1>2. AttachedOf(ts, c)
  BY <1>1 DEF WaitInv, StructInv, AttachedInv
<1>3. TurnstileTypeOK /\ Queue = {EX, SH} /\ EX \in Queue /\ SH \in Queue
  BY Lists DEF WaitInv
<1>4. /\ ts_blocked[ts][EX] \in Seq(Thread) /\ ts_blocked[ts][SH] \in Seq(Thread)
      /\ ts_free[ts] \in Seq(Turnstiles)
  BY <1>3, Lists
<1>5. Len(ts_free[ts]) \in Nat /\ Len(<<>>) = 0
  BY <1>4, LenProperties
<1>6. ts_blocked[ts][EX] # <<>> \/ ts_blocked[ts][SH] # <<>>
  <2> SUFFICES ASSUME ts_blocked[ts][EX] = <<>>, ts_blocked[ts][SH] = <<>> PROVE FALSE
    OBVIOUS
  <2> DEFINE n == Len(ts_free[ts])
  <2>1. Len(ts_blocked[ts][EX]) + Len(ts_blocked[ts][SH]) = n + 1
    BY <1>2 DEF AttachedOf
  <2>2. 0 + 0 = n + 1 /\ n \in Nat
    BY <2>1, <1>5
  <2> HIDE DEF n
  <2> QED
    BY <2>2
<1>7. Waiting(ts) # {}
  BY <1>4, <1>6, EmptySeqIs DEF Waiting
<1>8. Waiters(ts) = Waiting(ts)
  BY <1>3 DEF Waiters, Waiting
<1>9. ts_lockobj[ts] \in Rwlock /\ ts \in Attached(ts_lockobj[ts])
  BY <1>1, <1>2 DEF AttachedOf, Attached
<1> QED
  BY <1>6, <1>7, <1>8, <1>9

\* The other turnstiles of a thread that has one to give up have waiters.
LEMMA OwnedHaveWaiters ==
  ASSUME WaitInv, NEW t \in Thread
  PROVE  {turnstile_first_waiter(n) : n \in td_contested(t) \ {lts[t]}} \subseteq Thread
<1> SUFFICES ASSUME NEW n \in Turnstiles, ts_owner[n] = t, n # lts[t]
             PROVE  turnstile_first_waiter(n) \in Thread
  BY DEF td_contested
<1>1. OnChain(n)
  <2> SUFFICES ASSUME ~OnChain(n) PROVE FALSE
    OBVIOUS
  <2>0. t # NULL
    BY TurnstileAssumption
  <2>1. PICK u \in Thread : Releasing(u, n)
    BY <2>0 DEF WaitInv, TruthInv, OwnedInv
  <2>2. u = t
    BY <2>0, <2>1, Here DEF Releasing, KnowsOf, KnowsAt
  <2> QED
    BY <2>1, <2>2 DEF Releasing
<1>2. TurnstileTypeOK
  BY DEF WaitInv
<1> QED
  BY <1>1, <1>2, OnChainHasWaiters, FirstIsThread

\* Thread t makes the waiters that it has taken off its turnstile runnable.
Unpends(t, l, ts) ==
  /\ cur[t] = l /\ lts[t] = ts /\ pc[t] \in Waking /\ TD_IS_RUNNING(t)
  /\ UnpendReturn(t) /\ pc' = [pc EXCEPT ![t] = "idle"]

\* turnstile_unpend makes the pending threads runnable and touches no queue.
LEMMA UnpendFacts ==
  ASSUME WaitInv, NEW t \in Thread, NEW l \in Rwlock, NEW ts \in Turnstiles,
         Unpends(t, l, ts)
  PROVE  LET pend == ToSet(ts_pending[ts])
         IN  /\ TurnstileTypeOK' /\ ~TD_ON_LOCK(t) /\ ~TD_ON_LOCK(t)'
             /\ ts_lockobj[ts] = l /\ tc_lock[TC_HASH[l]] = t /\ TC_HASH[l] \in Chain
             /\ pc'[t] = "idle" /\ cur'[t] = NULL /\ lts'[t] = NULL
             /\ \A u \in Thread \ {t} :
                  /\ pc'[u] = pc[u] /\ cur'[u] = cur[u] /\ queue'[u] = queue[u]
                  /\ v'[u] = v[u] /\ lts'[u] = lts[u]
             /\ ts_pending'[ts] = <<>> /\ ts_owner'[ts] = NULL
             /\ OnChain(ts) => ts_lockobj'[ts] = l
             /\ \A x \in Turnstiles \ {ts} : /\ ts_pending'[x] = ts_pending[x]
                                             /\ ts_lockobj'[x] = ts_lockobj[x]
                                             /\ ts_owner'[x] = ts_owner[x]
             /\ UNCHANGED <<tc_turnstiles, ts_blocked, ts_free, td_turnstile>>
             /\ tc_lock' = [tc_lock EXCEPT ![TC_HASH[l]] = NULL]
             /\ \A u \in pend : /\ u \in Thread /\ TD_ON_LOCK(u) /\ td_blocked[u] = ts
                                /\ cur[u] = l /\ td_turnstile[u] # NULL /\ ~TD_ON_LOCK(u)'
             /\ \A u \in Thread \ pend : /\ TD_ON_LOCK(u)' <=> TD_ON_LOCK(u)
                                         /\ td_blocked'[u] = td_blocked[u]
<1> DEFINE pend == ToSet(ts_pending[ts])
<1>1. /\ cur[t] = l /\ lts[t] = ts /\ pc[t] \in Waking /\ ~TD_ON_LOCK(t)
      /\ pc' = [pc EXCEPT ![t] = "idle"] /\ UnpendReturn(t)
  BY DEF Unpends, TD_IS_RUNNING, TD_ON_LOCK
<1>2. ts_lockobj[ts] = l /\ tc_lock[TC_HASH[l]] = t /\ TC_HASH[l] \in Chain
  BY <1>1, Here DEF LockedOf, Waking
<1>3. /\ ts_pending' = [ts_pending EXCEPT ![ts] = <<>>]
      /\ ts_lockobj' = [ts_lockobj EXCEPT ![ts] = IF Waiters(ts) = {} THEN NULL ELSE @]
      /\ ts_owner' = [ts_owner EXCEPT ![ts] = NULL]
      /\ td_state' = [td \in Thread |-> IF td \in pend THEN "runq" ELSE td_state[td]]
      /\ td_blocked' = [td \in Thread |-> IF td \in pend THEN NULL ELSE td_blocked[td]]
      /\ ts_lock' = [ts_lock EXCEPT ![ts] = NULL]
      /\ tc_lock' = [tc_lock EXCEPT ![TC_HASH[l]] = NULL]
      /\ cur' = [cur EXCEPT ![t] = NULL]
      /\ queue' = [queue EXCEPT ![t] = TS_SHARED_QUEUE]
      /\ v' = [v EXCEPT ![t] = RW_UNLOCKED]
      /\ lts' = [lts EXCEPT ![t] = NULL]
      /\ UNCHANGED <<tc_turnstiles, ts_blocked, ts_free, td_turnstile, td_base_pri, prop>>
  BY <1>1 DEF UnpendReturn, turnstile_unpend, turnstile_chain_unlock, Return
<1>4. /\ ts_pending \in [Turnstiles -> Seq(Thread)]
      /\ ts_lockobj \in [Turnstiles -> Lock \cup {NULL}]
      /\ ts_owner \in [Turnstiles -> Thread \cup {NULL}]
      /\ ts_lock \in [Turnstiles -> Thread \cup {NULL}]
      /\ tc_lock \in [Chain -> Thread \cup {NULL}]
      /\ td_state \in [Thread -> {"running", "runq", "lock"}]
      /\ td_blocked \in [Thread -> Turnstiles \cup {NULL}]
      /\ pc \in [Thread -> Points] /\ lts \in [Thread -> Turnstiles \cup {NULL}]
      /\ cur \in [Thread -> Rwlock \cup {NULL}] /\ queue \in [Thread -> Queue]
      /\ v \in [Thread -> Word]
  BY InvParts DEF WaitInv, TurnstileTypeOK, LocalTypeOK
<1>5. td_priority' \in [Thread -> Priority] /\ td_borrowing' \in [Thread -> BOOLEAN]
  <2> DEFINE waiting == {turnstile_first_waiter(n) : n \in td_contested(t) \ {ts}}
  <2>1. waiting \subseteq Thread
    BY <1>1, OwnedHaveWaiters
  <2>2. sched_unlend_prio(t, Min({PRI_MAX} \cup {td_priority[w] : w \in waiting}))
    BY <1>1 DEF UnpendReturn, turnstile_unpend
  <2>3. TurnstileTypeOK
    BY DEF WaitInv
  <2> HIDE DEF waiting
  <2> QED
    BY <2>1, <2>2, <2>3, UnlendEffect
<1>6. TurnstileTypeOK'
  <2>1. <<>> \in Seq(Thread)
    OBVIOUS
  <2>2. /\ ts_pending' \in [Turnstiles -> Seq(Thread)]
        /\ ts_lockobj' \in [Turnstiles -> Lock \cup {NULL}]
        /\ ts_owner' \in [Turnstiles -> Thread \cup {NULL}]
        /\ ts_lock' \in [Turnstiles -> Thread \cup {NULL}]
        /\ tc_lock' \in [Chain -> Thread \cup {NULL}]
    BY <2>1, <1>3, <1>4
  <2>3. /\ td_state' \in [Thread -> {"running", "runq", "lock"}]
        /\ td_blocked' \in [Thread -> Turnstiles \cup {NULL}]
    BY <1>3, <1>4
  <2> QED
    BY <2>2, <2>3, <1>3, <1>5 DEF WaitInv, TurnstileTypeOK
<1>7. /\ pc'[t] = "idle" /\ cur'[t] = NULL /\ lts'[t] = NULL
      /\ \A u \in Thread \ {t} :
           /\ pc'[u] = pc[u] /\ cur'[u] = cur[u] /\ queue'[u] = queue[u]
           /\ v'[u] = v[u] /\ lts'[u] = lts[u]
  BY <1>1, <1>3, <1>4
<1>8. /\ ts_pending'[ts] = <<>> /\ ts_owner'[ts] = NULL
      /\ \A x \in Turnstiles \ {ts} : /\ ts_pending'[x] = ts_pending[x]
                                      /\ ts_lockobj'[x] = ts_lockobj[x]
                                      /\ ts_owner'[x] = ts_owner[x]
  BY <1>3, <1>4
<1>9. OnChain(ts) => ts_lockobj'[ts] = l
  <2>1. OnChain(ts) => Waiters(ts) # {}
    BY OnChainHasWaiters
  <2> QED
    BY <2>1, <1>2, <1>3, <1>4
<1>10. \A u \in pend : /\ u \in Thread /\ TD_ON_LOCK(u) /\ td_blocked[u] = ts
                       /\ cur[u] = l /\ td_turnstile[u] # NULL
  <2>1. QueueOf(ts) /\ pend \subseteq Thread
    BY Lists DEF WaitInv, StructInv, QueueInv
  <2> QED
    BY <2>1, <1>2 DEF QueueOf
<1>11. /\ \A u \in pend : ~TD_ON_LOCK(u)'
       /\ \A u \in Thread \ pend : (TD_ON_LOCK(u)' <=> TD_ON_LOCK(u)) /\ td_blocked'[u] = td_blocked[u]
  BY <1>3, <1>10 DEF TD_ON_LOCK
<1>12. ~TD_ON_LOCK(t)'
  BY <1>1, <1>10, <1>11
<1> HIDE DEF pend
<1> QED
  BY <1>1, <1>2, <1>3, <1>6, <1>7, <1>8, <1>9, <1>10, <1>11, <1>12 DEF pend

\* turnstile_unpend keeps the structure of the turnstiles.
LEMMA UnpendStep ==
  ASSUME WaitInv, NEW t \in Thread, NEW l \in Rwlock, NEW ts \in Turnstiles,
         Unpends(t, l, ts)
  PROVE  /\ StructInv' /\ Aside(t)
         /\ \A n \in Rwlock : /\ Attached(n)' = Attached(n)
                              /\ \A q \in Queue : Has(n, q)' <=> Has(n, q)
         /\ \A x \in Turnstiles : OnChain(x)' <=> OnChain(x)
<1> DEFINE pend == ToSet(ts_pending[ts])
<1>1. /\ ~TD_ON_LOCK(t) /\ ~TD_ON_LOCK(t)'
      /\ ts_lockobj[ts] = l /\ tc_lock[TC_HASH[l]] = t /\ TC_HASH[l] \in Chain
      /\ pc'[t] = "idle" /\ cur'[t] = NULL /\ lts'[t] = NULL
      /\ \A u \in Thread \ {t} :
           /\ pc'[u] = pc[u] /\ cur'[u] = cur[u] /\ queue'[u] = queue[u]
           /\ v'[u] = v[u] /\ lts'[u] = lts[u]
      /\ UNCHANGED <<tc_turnstiles, ts_blocked, ts_free, td_turnstile>>
      /\ tc_lock' = [tc_lock EXCEPT ![TC_HASH[l]] = NULL]
  BY UnpendFacts
<1>2. /\ ts_pending'[ts] = <<>>
      /\ OnChain(ts) => ts_lockobj'[ts] = l
      /\ \A x \in Turnstiles \ {ts} : /\ ts_pending'[x] = ts_pending[x]
                                      /\ ts_lockobj'[x] = ts_lockobj[x]
  BY UnpendFacts
<1>3. \A u \in pend : /\ u \in Thread /\ TD_ON_LOCK(u) /\ td_blocked[u] = ts
                      /\ cur[u] = l /\ td_turnstile[u] # NULL /\ ~TD_ON_LOCK(u)'
  BY UnpendFacts
<1>4. \A u \in Thread \ pend : /\ TD_ON_LOCK(u)' <=> TD_ON_LOCK(u)
                               /\ td_blocked'[u] = td_blocked[u]
  BY UnpendFacts
<1>5. /\ TurnstileTypeOK /\ AttachedInv /\ OneAttached /\ DetachedInv /\ QueueInv /\ PlaceInv
      /\ tc_lock \in [Chain -> Thread \cup {NULL}] /\ Queue = {EX, SH}
      /\ tc_turnstiles \in [Chain -> SUBSET Turnstiles]
      /\ lts[t] = ts /\ pc[t] \in Waking /\ cur[t] = l
  BY Lists DEF WaitInv, StructInv, TurnstileTypeOK, Unpends
<1> HIDE DEF pend
<1>6. \A x \in Turnstiles : (OnChain(x)' <=> OnChain(x)) /\ Waiting(x)' = Waiting(x)
  BY <1>1 DEF OnChain, Waiting
<1>7. \A x \in Turnstiles : OnChain(x) => ts_lockobj'[x] = ts_lockobj[x]
  BY <1>1, <1>2
<1>8. \A n \in Rwlock : /\ Attached(n)' = Attached(n)
                        /\ \A q \in Queue : Has(n, q)' <=> Has(n, q)
  <2> SUFFICES ASSUME NEW n \in Rwlock
               PROVE  Attached(n)' = Attached(n) /\ \A q \in Queue : Has(n, q)' <=> Has(n, q)
    OBVIOUS
  <2>1. TC_HASH[n] \in Chain /\ tc_turnstiles[TC_HASH[n]] \subseteq Turnstiles
    <3>1. TC_HASH[n] \in Chain
      BY TurnstileAssumption
    <3> QED
      BY <3>1 DEF WaitInv, TurnstileTypeOK
  <2>2. \A x \in tc_turnstiles[TC_HASH[n]] : ts_lockobj'[x] = ts_lockobj[x]
    BY <2>1, <1>7 DEF OnChain
  <2>3. Attached(n)' = Attached(n)
    BY <2>2, <1>1 DEF Attached
  <2> QED
    BY <2>3, <1>1 DEF Has
<1>9. Aside(t) /\ ChainKept(t)
  <2>1. \A u \in Thread : TD_ON_LOCK(u)' => TD_ON_LOCK(u)
    BY <1>3, <1>4
  <2>2. ChainKept(t)
    BY <1>1, <1>5 DEF ChainKept
  <2> QED
    BY <2>1, <2>2, <1>1 DEF Aside
<1>10. ControlInv'
  <2>1. ControlOf(t)'
    BY <1>1 DEF ControlOf, Chained, Looking, Waking
  <2> QED
    BY <1>9, <2>1, ControlStep
<1>11. AttachedInv'
  <2> SUFFICES ASSUME NEW c \in Chain, NEW x \in tc_turnstiles[c] PROVE AttachedOf(x, c)'
    BY <1>1 DEF AttachedInv
  <2>1. x \in Turnstiles /\ AttachedOf(x, c) /\ OnChain(x)
    BY <1>5 DEF AttachedInv, OnChain
  <2> QED
    BY <2>1, <1>1, <1>7 DEF AttachedOf
<1>12. OneAttached'
  BY <1>5, <1>8 DEF OneAttached
<1>13. DetachedInv'
  BY <1>1, <1>5, <1>6 DEF DetachedInv, DetachedOf
<1>14. \A x \in Turnstiles, q \in Queue : \A u \in ToSet(ts_blocked[x][q]) :
         u \in Thread \ {t} /\ u \notin pend
  <2> SUFFICES ASSUME NEW x \in Turnstiles, NEW q \in Queue, NEW u \in ToSet(ts_blocked[x][q])
               PROVE  u \in Thread \ {t} /\ u \notin pend
    OBVIOUS
  <2>1. u \in Thread /\ TD_ON_LOCK(u) /\ td_turnstile[u] = NULL
    BY <1>5, Lists DEF QueueInv, QueueOf
  <2> QED
    BY <2>1, <1>1, <1>3
<1>15. \A x \in Turnstiles \ {ts} : \A u \in ToSet(ts_pending[x]) :
         u \in Thread \ {t} /\ u \notin pend
  <2> SUFFICES ASSUME NEW x \in Turnstiles \ {ts}, NEW u \in ToSet(ts_pending[x])
               PROVE  u \in Thread \ {t} /\ u \notin pend
    OBVIOUS
  <2>1. u \in Thread /\ TD_ON_LOCK(u) /\ td_blocked[u] = x
    BY <1>5, Lists DEF QueueInv, QueueOf
  <2> QED
    BY <2>1, <1>1, <1>3
<1>16. QueueInv'
  <2> SUFFICES ASSUME NEW x \in Turnstiles PROVE QueueOf(x)'
    BY DEF QueueInv
  <2>1. QueueOf(x)
    BY <1>5 DEF QueueInv
  <2>2. ASSUME NEW q \in Queue, NEW u \in ToSet(ts_blocked'[x][q])
        PROVE  /\ TD_ON_LOCK(u)' /\ td_blocked'[u] = x /\ cur'[u] = ts_lockobj'[x]
               /\ td_turnstile'[u] = NULL /\ queue'[u] = q
    <3>1. u \in ToSet(ts_blocked[x][q]) /\ u \in Thread \ {t} /\ u \notin pend
      BY <1>1, <1>14
    <3>2. /\ TD_ON_LOCK(u) /\ td_blocked[u] = x /\ cur[u] = ts_lockobj[x]
          /\ td_turnstile[u] = NULL /\ queue[u] = q
      BY <2>1, <3>1 DEF QueueOf
    <3>3. OnChain(x)
      <4> SUFFICES ASSUME ~OnChain(x) PROVE FALSE
        OBVIOUS
      <4>1. ts_blocked[x][q] = <<>> /\ ToSet(<<>>) = {}
        BY <1>5 DEF DetachedInv, DetachedOf, ToSet
      <4> QED
        BY <3>1, <4>1
    <3> QED
      BY <3>1, <3>2, <3>3, <1>1, <1>4, <1>7
  <2>3. \A q \in Queue : Injective(ts_blocked'[x][q])
    BY <2>1, <1>1 DEF QueueOf
  <2>4. CASE x = ts
    <3>1. ts_pending'[x] = <<>> /\ ToSet(<<>>) = {}
      BY <2>4, <1>2 DEF ToSet
    <3> QED
      BY <2>2, <2>3, <3>1 DEF QueueOf
  <2>5. CASE x # ts
    <3>1. ts_pending'[x] = ts_pending[x] /\ ts_lockobj'[x] = ts_lockobj[x]
      BY <2>5, <1>2
    <3>2. ASSUME NEW u \in ToSet(ts_pending'[x])
          PROVE  /\ TD_ON_LOCK(u)' /\ td_blocked'[u] = x /\ cur'[u] = ts_lockobj'[x]
                 /\ td_turnstile'[u] # NULL
      <4>1. u \in ToSet(ts_pending[x]) /\ u \in Thread \ {t} /\ u \notin pend
        BY <2>5, <3>1, <1>15
      <4>2. /\ TD_ON_LOCK(u) /\ td_blocked[u] = x /\ cur[u] = ts_lockobj[x]
            /\ td_turnstile[u] # NULL
        BY <2>1, <4>1 DEF QueueOf
      <4> QED
        BY <3>1, <4>1, <4>2, <1>1, <1>4
    <3>3. \A u \in Thread : Releasing(u, x) => Releasing(u, x)'
      BY <2>5, <1>1, <1>5 DEF Releasing
    <3>4. ts_pending'[x] # <<>> => \E u \in Thread : Releasing(u, x)'
      BY <2>1, <3>1, <3>3 DEF QueueOf
    <3> QED
      BY <2>2, <2>3, <3>2, <3>4 DEF QueueOf
  <2> QED
    BY <2>4, <2>5
<1>17. LockedInv'
  <2> SUFFICES ASSUME NEW u \in Thread PROVE LockedOf(u)'
    BY DEF LockedInv
  <2>0. LockedOf(u)
    BY Here
  <2>1. td_turnstile'[u] = NULL => TD_ON_LOCK(u)'
    BY <2>0, <1>1, <1>3, <1>4 DEF LockedOf
  <2>2. CASE u = t
    BY <2>1, <2>2, <1>1 DEF LockedOf, Looking, Waking
  <2>3. CASE u # t
    <3>1. /\ pc'[u] = pc[u] /\ cur'[u] = cur[u] /\ lts'[u] = lts[u]
          /\ td_turnstile'[u] = td_turnstile[u]
      BY <2>3, <1>1
    <3>2. ASSUME pc[u] \in Looking \cup Waking
          PROVE  /\ cur[u] \in Rwlock /\ lts[u] \in Turnstiles /\ cur[u] # l
                 /\ Attached(cur[u])' = Attached(cur[u])
      <4>1. pc[u] \in Chained /\ cur[u] \in Rwlock /\ lts[u] \in Turnstiles
        BY <3>2, Here
      <4>2. pc[t] \in Chained
        BY <1>5, Here
      <4>3. cur[u] # l
        BY <2>3, <4>1, <4>2, <1>5, OneInChain
      <4> QED
        BY <3>1, <4>1, <4>3, <1>8
    <3>3. pc[u] \in Looking /\ ts_lockobj[lts[u]] = cur[u] => ts_lockobj'[lts[u]] = cur[u]
      BY <3>2, <1>1, <1>2
    <3>4. ASSUME pc[u] \in Waking
          PROVE  /\ ts_lockobj'[lts[u]] = cur[u]
                 /\ ~OnChain(lts[u])' =>
                      \E w \in ToSet(ts_pending'[lts[u]]) : td_turnstile'[w] = lts[u]
      <4>1. lts[u] \in Turnstiles \ {ts} /\ ts_lockobj[lts[u]] = cur[u]
        BY <2>0, <3>2, <3>4, <1>1 DEF LockedOf
      <4>2. OnChain(lts[u])' <=> OnChain(lts[u])
        BY <4>1, <3>1, <1>6
      <4> QED
        BY <2>0, <3>4, <4>1, <4>2, <1>1, <1>2 DEF LockedOf
    <3>5. ASSUME TD_ON_LOCK(u)'
          PROVE  /\ td_blocked'[u] \in Turnstiles
                 /\ u \in Waiting(td_blocked[u])' \/ u \in ToSet(ts_pending'[td_blocked'[u]])
      <4>1. u \notin pend /\ TD_ON_LOCK(u) /\ td_blocked'[u] = td_blocked[u]
        BY <3>5, <1>3, <1>4
      <4>2. PICK x \in Turnstiles : x = td_blocked[u]
        BY <2>0, <4>1 DEF LockedOf
      <4>3. u \in Waiting(x) \/ u \in ToSet(ts_pending[x])
        BY <2>0, <4>1, <4>2 DEF LockedOf
      <4>4. u \in Waiting(x)' \/ u \in ToSet(ts_pending'[x])
        <5>1. CASE u \in Waiting(x)
          BY <5>1, <1>6
        <5>2. CASE u \in ToSet(ts_pending[x])
          <6>1. x # ts
            BY <4>1, <5>2 DEF pend
          <6> QED
            BY <5>2, <6>1, <1>2
        <5> QED
          BY <4>3, <5>1, <5>2
      <4> QED
        BY <4>1, <4>2, <4>4 DEF Waiting
    <3> QED
      BY <2>0, <2>1, <3>1, <3>2, <3>3, <3>4, <3>5 DEF LockedOf
  <2> QED
    BY <2>2, <2>3
<1>18. PlaceInv'
  BY <1>1, <1>5, <1>6 DEF PlaceInv
<1> QED
  BY <1>6, <1>8, <1>9, <1>10, <1>11, <1>12, <1>13, <1>16, <1>17, <1>18 DEF StructInv

\* Control points at which the queues and the bits of the word may disagree.
Storing == {"wait", "wake", "release"}

\* A step of t that keeps what the word of l says of the waiters of l, and their
\* turnstile.
Mild(t, l) ==
  LET w == rw_lock[l]
      x == rw_lock'[l]
  IN  /\ x.read_waiters = w.read_waiters /\ x.write_waiters = w.write_waiters
      /\ HasWaiters(w) => x.owner = w.owner /\ (IsFree(x) => IsFree(w))
      /\ IsFree(x) \/ x.owner # NULL => ~x.spinner
      /\ x.owner = DESTROYED => w.owner = DESTROYED \/ \A u \in Thread : cur[u] # l
      /\ Attached(l)' = Attached(l)
      /\ \A q \in Queue : Has(l, q)' <=> Has(l, q)
      /\ \A ts \in Attached(l) : ts_owner'[ts] = ts_owner[ts]
      /\ cur[t] = l => pc[t] \notin Storing
      /\ cur'[t] = l => pc'[t] \notin Storing
      /\ cur[t] = l /\ ~TD_ON_LOCK(t) /\ IsFree(x) /\ HasWaiters(x) =>
           cur'[t] = l /\ ~TD_ON_LOCK(t)'

\* A step of t, which has the chain lock before or after it, about the word or the
\* waiters of l.
Held(t, l) ==
  /\ cur[t] = l
  /\ \A u \in Thread \ {t} : cur[u] = l => pc[u] \notin Chained
  /\ WordOf(l)'
  /\ rw_lock'[l].owner # DESTROYED
  /\ \A u \in Thread \ {t} :
       cur[u] = l /\ pc[u] = "runlock_chain" => HasWaiters(rw_lock'[l])

\* A lock that has a turnstile has a waiter bit, or somebody about to wake them all.
LEMMA AttachedMarked ==
  ASSUME WaitInv, NEW l \in Rwlock, Attached(l) # {}
  PROVE  HasWaiters(rw_lock[l]) \/ \E u \in Thread : cur[u] = l /\ pc[u] = "wake"
<1>1. Queue = {EX, SH} /\ WordOf(l)
  BY Lists DEF WaitInv, TruthInv
<1>2. PICK ts \in Attached(l) : TRUE
  OBVIOUS
<1>3. Has(l, EX) \/ Has(l, SH)
  BY AttachedOn, OnChainHasWaiters DEF Has
<1>4. \A q \in Queue : Bit(rw_lock[l], q) => HasWaiters(rw_lock[l])
  BY DEF Bit, HasWaiters
<1>5. CASE \A u \in Thread : cur[u] = l => pc[u] \notin {"wait", "wake", "release"}
  BY <1>1, <1>3, <1>4, <1>5 DEF WordOf, Exact
<1>6. CASE \E u \in Thread : cur[u] = l /\ pc[u] \in {"wait", "wake", "release"}
  <2>1. PICK u \in Thread : cur[u] = l /\ pc[u] \in {"wait", "wake", "release"}
    BY <1>6
  <2>2. KnowsAt(u, l) /\ queue[u] \in Queue
    BY <2>1, Here DEF KnowsOf
  <2> QED
    BY <2>1, <2>2, <1>4 DEF KnowsAt
<1> QED
  BY <1>5, <1>6

\* What a thread knows is about its lock.
LEMMA KnowsThen ==
  ASSUME NEW u \in Thread, NEW l \in Rwlock, cur'[u] = l, pc'[u] # "idle", KnowsAt(u, l)'
  PROVE  KnowsOf(u)'
<1>1. /\ Attached(cur[u])' = Attached(l)'
      /\ rw_lock'[cur'[u]] = rw_lock'[l]
  BY DEF Attached
<1>2. \A q : Has(cur[u], q)' <=> Has(l, q)'
  BY <1>1 DEF Has
<1>3. KnowsAt(u, cur[u])'
  BY <1>1, <1>2 DEF KnowsAt, Exact
<1> QED
  BY <1>3 DEF KnowsOf

\* The word of a lock that t steps by.
LEMMA MildWord ==
  ASSUME WaitInv, NEW t \in Thread, Aside(t), NEW l \in Rwlock, Mild(t, l)
  PROVE  WordOf(l)'
<1> DEFINE w == rw_lock[l]
           x == rw_lock'[l]
<1>0. WordOf(l)
  BY DEF WaitInv, TruthInv
<1>1. \A q : Bit(x, q) = Bit(w, q)
  BY DEF Mild, Bit
<1>2. HasWaiters(x) <=> HasWaiters(w)
  BY DEF Mild, HasWaiters
<1>3. ASSUME \A u \in Thread : cur'[u] = l => pc'[u] \notin {"wait", "wake", "release"}
      PROVE  Exact(rw_lock[l], l)'
  <2>1. \A u \in Thread : cur[u] = l => pc[u] \notin {"wait", "wake", "release"}
    BY <1>3 DEF Mild, Storing, Aside
  <2>2. Exact(w, l)
    BY <2>1, <1>0 DEF WordOf
  <2>3. \A q \in Queue : Has(l, q)' <=> Has(l, q)
    BY DEF Mild
  <2> QED
    BY <2>2, <2>3, <1>1 DEF Exact
<1>4. IsFree(x) => ~x.write_waiters
  BY <1>0 DEF Mild, WordOf, HasWaiters
<1>5. IsFree(x) \/ x.owner # NULL => ~x.spinner
  BY DEF Mild
<1>6. ASSUME NEW ts \in Attached(l)'
      PROVE  ts_owner'[ts] = x.owner \/ \E u \in Thread : cur'[u] = l /\ pc'[u] = "wake"
  <2>1. ts \in Attached(l) /\ ts_owner'[ts] = ts_owner[ts]
    BY <1>6 DEF Mild
  <2>2. CASE \E u \in Thread : cur[u] = l /\ pc[u] = "wake"
    <3>1. PICK u \in Thread : cur[u] = l /\ pc[u] = "wake"
      BY <2>2
    <3>2. u # t
      BY <3>1 DEF Mild, Storing
    <3> QED
      BY <3>1, <3>2 DEF Aside
  <2>3. CASE ~\E u \in Thread : cur[u] = l /\ pc[u] = "wake"
    <3>1. HasWaiters(w)
      BY <2>1, <2>3, AttachedMarked
    <3>2. ts_owner[ts] = w.owner
      BY <2>1, <2>3, <1>0 DEF WordOf, rw_wowner
    <3> QED
      BY <2>1, <3>1, <3>2 DEF Mild
  <2> QED
    BY <2>2, <2>3
<1>7. ASSUME IsFree(x), HasWaiters(x)
      PROVE  \E u \in Thread : cur'[u] = l /\ ~TD_ON_LOCK(u)'
  <2>1. IsFree(w) /\ HasWaiters(w)
    BY <1>2, <1>7 DEF Mild
  <2>2. PICK u \in Thread : cur[u] = l /\ ~TD_ON_LOCK(u)
    BY <2>1, <1>0 DEF WordOf
  <2>3. CASE u = t
    BY <2>2, <2>3, <1>7 DEF Mild
  <2>4. CASE u # t
    BY <2>2, <2>4 DEF Aside
  <2> QED
    BY <2>3, <2>4
<1> QED
  BY <1>3, <1>4, <1>5, <1>6, <1>7 DEF WordOf, rw_wowner

\* What the other threads know.
LEMMA OthersKnow ==
  ASSUME WaitInv, NEW t \in Thread, Aside(t), NEW u \in Thread \ {t},
         pc[u] \in Waking => /\ ts_pending'[lts[u]] = ts_pending[lts[u]]
                             /\ ts_owner'[lts[u]] = ts_owner[lts[u]],
         \A l \in Rwlock : Mild(t, l) \/ Held(t, l)
  PROVE  KnowsOf(u)'
<1>0. /\ pc'[u] = pc[u] /\ cur'[u] = cur[u] /\ queue'[u] = queue[u]
      /\ v'[u] = v[u] /\ lts'[u] = lts[u]
  BY DEF Aside
<1>1. CASE pc[u] = "idle"
  BY <1>0, <1>1, Here DEF KnowsOf, KnowsAt, Waking
<1>2. CASE pc[u] # "idle"
  <2>1. PICK l \in Rwlock : l = cur[u]
    BY <1>2, Here
  <2>2. KnowsAt(u, l) /\ queue[u] \in Queue
    BY <2>1, Here DEF KnowsOf
  <2> SUFFICES KnowsAt(u, l)'
    BY <2>1, <1>0, <1>2, KnowsThen
  <2>3. CASE Held(t, l)
    <3>1. pc[u] \notin Chained /\ rw_lock'[l].owner # DESTROYED
      BY <2>1, <2>3 DEF Held
    <3>2. pc[u] = "runlock_chain" => HasWaiters(rw_lock'[l])
      BY <2>1, <2>3 DEF Held
    <3> QED
      BY <3>1, <3>2, <1>0 DEF KnowsAt, Chained, Waking
  <2>4. CASE Mild(t, l)
    <3> DEFINE w == rw_lock[l]
               x == rw_lock'[l]
    <3>1. \A q : Bit(x, q) = Bit(w, q)
      BY <2>4 DEF Mild, Bit
    <3>2. HasWaiters(x) <=> HasWaiters(w)
      BY <2>4 DEF Mild, HasWaiters
    <3>3. /\ HasWaiters(w) => x.owner = w.owner /\ (IsFree(x) => IsFree(w))
          /\ x.read_waiters = w.read_waiters /\ x.write_waiters = w.write_waiters
          /\ x.owner # DESTROYED
          /\ Attached(l)' = Attached(l)
          /\ \A q \in Queue : Has(l, q)' <=> Has(l, q)
          /\ \A ts \in Attached(l) : ts_owner'[ts] = ts_owner[ts]
      BY <2>1, <2>2, <2>4, <1>2 DEF Mild, KnowsAt
    <3>4. \A q \in Queue : Bit(w, q) => HasWaiters(w)
      BY DEF Bit, HasWaiters
    <3>5. pc[u] = "contest" =>
            /\ \A q \in Queue : Bit(v[u], q) <=> Bit(x, q)
            /\ HasWaiters(v[u]) /\ ~IsFree(v[u]) => ~IsFree(x)
            /\ queue[u] = SH => ~IsFree(v[u])
      <4> SUFFICES ASSUME pc[u] = "contest"
                   PROVE  /\ \A q \in Queue : Bit(v[u], q) <=> Bit(x, q)
                          /\ HasWaiters(v[u]) /\ ~IsFree(v[u]) => ~IsFree(x)
                          /\ queue[u] = SH => ~IsFree(v[u])
        OBVIOUS
      <4>1. /\ \A q \in Queue : Bit(v[u], q) <=> Bit(w, q)
            /\ HasWaiters(v[u]) /\ ~IsFree(v[u]) => ~IsFree(w)
            /\ queue[u] = SH => ~IsFree(v[u])
        BY <2>2 DEF KnowsAt
      <4>2. HasWaiters(v[u]) => \E q \in Queue : Bit(v[u], q)
        BY DEF HasWaiters, Bit, Queue, SH, TS_SHARED_QUEUE, TS_EXCLUSIVE_QUEUE
      <4> QED
        BY <4>1, <4>2, <3>1, <3>3, <3>4
    <3>6. pc[u] = "wait" =>
            /\ Bit(x, queue[u]) /\ ~IsFree(x)
            /\ \A q \in Queue \ {queue[u]} : Bit(x, q) <=> Has(l, q)'
      BY <2>2, <3>1, <3>3, <3>4 DEF KnowsAt
    <3>7. pc[u] = "wake" =>
            /\ \A q \in Queue : Bit(x, q) <=> Has(l, q)' /\ q # queue[u]
            /\ Has(l, queue[u])'
            /\ \A ts \in Attached(l)' : ts_owner'[ts] = NULL
      <4> SUFFICES ASSUME pc[u] = "wake"
                   PROVE  /\ \A q \in Queue : Bit(x, q) <=> Has(l, q)' /\ q # queue[u]
                          /\ Has(l, queue[u])'
                          /\ \A ts \in Attached(l)' : ts_owner'[ts] = NULL
        OBVIOUS
      <4>1. PICK k \in Queue : k = queue[u]
        BY <2>2
      <4>2. Has(l, k)' /\ \A q \in Queue : Bit(x, q) <=> Has(l, q)' /\ q # k
        BY <2>2, <3>1, <3>3, <4>1 DEF KnowsAt
      <4>3. Has(l, queue[u])'
        BY <4>1, <4>2, <1>0 DEF Has
      <4>4. \A ts \in Attached(l)' : ts_owner'[ts] = NULL
        BY <2>2, <3>3 DEF KnowsAt
      <4> QED
        BY <4>1, <4>2, <4>3, <4>4
    <3>8. /\ pc[u] = "runlock_chain" => HasWaiters(x)
          /\ pc[u] \in {"wake", "unpend"} => (HasWaiters(x) => x.owner = NULL)
          /\ pc[u] \in Waking => ts_pending'[lts[u]] # <<>> /\ ts_owner'[lts[u]] \in {u, NULL}
          /\ pc[u] = "down_store" =>
               /\ v[u].write_waiters = x.write_waiters /\ ~v[u].spinner
               /\ v[u].read_waiters = (x.read_waiters /\ x.write_waiters)
      BY <2>2, <3>2, <3>3 DEF KnowsAt
    <3>9. pc[u] = "release" =>
            /\ HasWaiters(x)
            /\ Exact(v[u], l)' /\ ~v[u].write_waiters /\ ~v[u].spinner
      BY <2>2, <3>2, <3>3, <1>0 DEF KnowsAt, Exact
    <3> HIDE DEF w, x
    <3> QED
      BY <3>3, <3>5, <3>6, <3>7, <3>8, <3>9, <1>0 DEF KnowsAt, x, Exact
  <2> QED
    BY <2>3, <2>4
<1> QED
  BY <1>1, <1>2

\* A step by which no word loses its meaning.
LEMMA TruthStep ==
  ASSUME WaitInv, NEW t \in Thread, Aside(t), KnowsOf(t)', OwnedInv',
         \A u \in Thread \ {t} : pc[u] \in Waking =>
           ts_pending'[lts[u]] = ts_pending[lts[u]] /\ ts_owner'[lts[u]] = ts_owner[lts[u]],
         \A l \in Rwlock : Mild(t, l) \/ Held(t, l)
  PROVE  TruthInv'
<1>1. \A l \in Rwlock : WordOf(l)'
  BY MildWord DEF Held
<1>2. \A u \in Thread : KnowsOf(u)'
  BY OthersKnow
<1> QED
  BY <1>1, <1>2 DEF TruthInv

\* A change of the word of l that keeps its waiter bits.
Settled(l) ==
  LET w == rw_lock[l]
      x == rw_lock'[l]
  IN  /\ x.read_waiters = w.read_waiters /\ x.write_waiters = w.write_waiters
      /\ HasWaiters(w) => x.owner = w.owner /\ (IsFree(x) => IsFree(w))
      /\ IsFree(x) \/ x.owner # NULL => ~x.spinner
      /\ x.owner = DESTROYED => w.owner = DESTROYED \/ \A u \in Thread : cur[u] # l

\* A step of t that leaves the turnstiles where they are and no word in doubt.
Calm(t) ==
  /\ OwnOnly(t) /\ ControlOf(t)' /\ ChainKept(t) /\ TurnstileTypeOK' /\ UNCHANGED ts_owner
  /\ pc[t] \notin Storing /\ pc'[t] \notin Storing
  /\ \A n \in Rwlock :
       /\ rw_lock'[n] = rw_lock[n] \/ Settled(n)
       /\ cur[t] = n => cur'[t] = n \/ ~IsFree(rw_lock'[n]) \/ ~HasWaiters(rw_lock'[n])
  /\ KnowsOf(t)'

\* A calm step keeps the whole invariant.
LEMMA CalmStep ==
  ASSUME WaitInv, NEW t \in Thread, Calm(t), RwInv'
  PROVE  WaitInv'
<1>1. OwnOnly(t) /\ Aside(t) /\ ~TD_ON_LOCK(t) /\ ~TD_ON_LOCK(t)' /\ ListsKept
  BY DEF Calm, OwnOnly
<1>2. ControlInv'
  BY <1>1, ControlStep DEF Calm
<1>3. /\ StructInv'
      /\ \A l \in Rwlock : /\ Attached(l)' = Attached(l)
                           /\ \A q \in Queue : Has(l, q)' <=> Has(l, q)
  BY <1>1, <1>2, OwnOnlyStep
<1>4. ASSUME NEW l \in Rwlock PROVE Mild(t, l)
  <2>1. Settled(l)
    <3>1. CASE rw_lock'[l] = rw_lock[l]
      <4>1. WordOf(l)
        BY DEF WaitInv, TruthInv
      <4> QED
        BY <3>1, <4>1 DEF Settled, WordOf, rw_wowner
    <3> QED
      BY <3>1 DEF Calm
  <2>2. UNCHANGED ts_owner /\ pc[t] \notin Storing /\ pc'[t] \notin Storing
    BY DEF Calm
  <2>3. cur[t] = l => cur'[t] = l \/ ~IsFree(rw_lock'[l]) \/ ~HasWaiters(rw_lock'[l])
    BY DEF Calm
  <2> QED
    BY <2>1, <2>2, <2>3, <1>1, <1>3 DEF Mild, Settled
<1>5. OwnedInv'
  <2> SUFFICES ASSUME NEW x \in Turnstiles, ~OnChain(x)', ts_owner'[x] # NULL
               PROVE  \E u \in Thread : Releasing(u, x)'
    BY DEF OwnedInv
  <2>1. ~OnChain(x) /\ ts_owner[x] # NULL
    BY <1>1 DEF Calm, ListsKept, OnChain
  <2>2. PICK u \in Thread : Releasing(u, x)
    BY <2>1 DEF WaitInv, TruthInv, OwnedInv
  <2>3. u # t
    BY <2>2, <1>1 DEF Releasing, OwnOnly
  <2> QED
    BY <2>2, <2>3, <1>1 DEF Releasing, Aside
<1>6. TruthInv'
  <2>1. KnowsOf(t)' /\ UNCHANGED <<ts_owner, ts_pending>>
    BY <1>1 DEF Calm, ListsKept
  <2> QED
    BY <2>1, <1>1, <1>4, <1>5, TruthStep
<1> QED
  BY <1>3, <1>6 DEF WaitInv, Calm

\* A calm step that has nothing to do with turnstiles, of a thread that is at p.
LEMMA AwayIsCalm ==
  ASSUME WaitInv, NEW t \in Thread, ~TD_ON_LOCK(t), UNCHANGED turnstileVars,
         pc[t] \notin Chained, pc'[t] \notin Chained,
         pc'[t] # "idle" => pc'[t] \in Points /\ rw_lock'[cur'[t]].owner # DESTROYED,
         pc'[t] = "idle" => cur'[t] = NULL,
         pc'[t] = "runlock_chain" => HasWaiters(rw_lock'[cur'[t]]),
         \A u \in Thread \ {t} :
           /\ pc'[u] = pc[u] /\ cur'[u] = cur[u] /\ queue'[u] = queue[u]
           /\ v'[u] = v[u] /\ lts'[u] = lts[u],
         \A n \in Rwlock :
           /\ rw_lock'[n] = rw_lock[n] \/ Settled(n)
           /\ cur[t] = n => cur'[t] = n \/ ~IsFree(rw_lock'[n]) \/ ~HasWaiters(rw_lock'[n])
  PROVE  Calm(t)
<1>1. /\ UNCHANGED <<tc_lock, tc_turnstiles, ts_lockobj, ts_owner, ts_blocked, ts_pending, ts_free>>
      /\ UNCHANGED <<td_turnstile, td_blocked, td_state>>
  BY DEF turnstileVars, chainVars, queueVars
<1>2. TurnstileTypeOK /\ QueuesInjective
  BY DEF WaitInv, StructInv, QueueInv, QueueOf, QueuesInjective
<1>3. Reordered
  BY <1>1, <1>2, SameQueues
<1>4. TurnstileTypeOK'
  BY <1>2 DEF turnstileVars, chainVars, queueVars, priVars, TurnstileTypeOK
<1>5. \A u \in Thread : TD_ON_LOCK(u)' <=> TD_ON_LOCK(u)
  BY <1>1 DEF TD_ON_LOCK
<1>6. /\ pc[t] \notin Looking \cup Waking \cup Storing
      /\ pc'[t] \notin Looking \cup Waking \cup Storing
  BY DEF Chained, Looking, Waking, Storing
<1>7. OwnOnly(t)
  BY <1>1, <1>3, <1>5, <1>6 DEF OwnOnly, Aside, ListsKept
<1>8. ControlOf(t)' /\ ChainKept(t)
  BY <1>1, <1>6 DEF ControlOf, ChainKept
<1>9. KnowsOf(t)'
  BY <1>6 DEF KnowsOf, KnowsAt, Chained, Waking
<1> QED
  BY <1>1, <1>4, <1>6, <1>7, <1>8, <1>9 DEF Calm

\* Changes of a word that keep its waiter bits.
LEMMA SettledWords ==
  ASSUME NEW l \in Rwlock, rw_lock[l] \in Word
  PROVE  LET w == rw_lock[l]
             x == rw_lock'[l]
         IN  /\ w.owner = NULL /\ x = [w EXCEPT !.readers = @ + 1] =>
                  Settled(l) /\ ~IsFree(x) /\ x.owner = NULL
             /\ w.owner = NULL /\ w.readers > 0 /\ x = [w EXCEPT !.spinner = TRUE] =>
                  Settled(l) /\ x.owner = NULL
             /\ w.owner = NULL /\ w.readers > 1 /\ x = [w EXCEPT !.readers = @ - 1] =>
                  Settled(l) /\ ~IsFree(x) /\ x.owner = NULL
             /\ \A t \in Thread :
                  ~HasWaiters(w) /\ x \in {RW_UNLOCKED, RW_READERS_LOCK(1), Owned(t)} =>
                  Settled(l) /\ ~HasWaiters(x)
             /\ ~HasWaiters(w) /\ (\A u \in Thread : cur[u] # l) /\ x = RW_DESTROYED =>
                  Settled(l) /\ ~HasWaiters(x)
<1> DEFINE w == rw_lock[l]
           x == rw_lock'[l]
<1>0. /\ w.owner \in Thread \cup {NULL, DESTROYED} /\ w.readers \in Nat
      /\ w.read_waiters \in BOOLEAN /\ w.write_waiters \in BOOLEAN /\ w.spinner \in BOOLEAN
      /\ DESTROYED # NULL /\ NULL \notin Thread /\ DESTROYED \notin Thread
  BY TurnstileAssumption, RwlockAssumption DEF Word
<1>1. ASSUME w.owner = NULL, x = [w EXCEPT !.readers = @ + 1]
      PROVE  Settled(l) /\ ~IsFree(x) /\ x.owner = NULL
  <2>1. /\ x.owner = NULL /\ x.readers = w.readers + 1
        /\ x.read_waiters = w.read_waiters /\ x.write_waiters = w.write_waiters
        /\ x.spinner = w.spinner
    BY <1>1 DEF Word
  <2>2. ~IsFree(x)
    BY <1>0, <2>1 DEF IsFree
  <2> QED
    BY <1>0, <1>1, <2>1, <2>2 DEF Settled
<1>2. ASSUME w.owner = NULL, w.readers > 0, x = [w EXCEPT !.spinner = TRUE]
      PROVE  Settled(l) /\ x.owner = NULL
  <2>1. /\ x.owner = NULL /\ x.readers = w.readers
        /\ x.read_waiters = w.read_waiters /\ x.write_waiters = w.write_waiters
    BY <1>2 DEF Word
  <2>2. ~IsFree(x)
    BY <1>0, <1>2, <2>1 DEF IsFree
  <2> QED
    BY <1>0, <1>2, <2>1, <2>2 DEF Settled
<1>3. ASSUME w.owner = NULL, w.readers > 1, x = [w EXCEPT !.readers = @ - 1]
      PROVE  Settled(l) /\ ~IsFree(x) /\ x.owner = NULL
  <2>1. /\ x.owner = NULL /\ x.readers = w.readers - 1
        /\ x.read_waiters = w.read_waiters /\ x.write_waiters = w.write_waiters
    BY <1>3 DEF Word
  <2>2. ~IsFree(x)
    BY <1>0, <1>3, <2>1 DEF IsFree
  <2> QED
    BY <1>0, <1>3, <2>1, <2>2 DEF Settled
<1>4. ASSUME NEW t \in Thread, ~HasWaiters(w), x \in {RW_UNLOCKED, RW_READERS_LOCK(1), Owned(t)}
      PROVE  Settled(l) /\ ~HasWaiters(x)
  <2>1. /\ ~x.read_waiters /\ ~x.write_waiters /\ ~x.spinner /\ x.owner # DESTROYED
        /\ x.read_waiters = FALSE /\ x.write_waiters = FALSE
    BY <1>0, <1>4 DEF RW_UNLOCKED, RW_READERS_LOCK, Owned
  <2>2. w.read_waiters = FALSE /\ w.write_waiters = FALSE
    BY <1>0, <1>4 DEF HasWaiters
  <2> QED
    BY <1>4, <2>1, <2>2 DEF Settled, HasWaiters
<1>5. ASSUME ~HasWaiters(w), \A u \in Thread : cur[u] # l, x = RW_DESTROYED
      PROVE  Settled(l) /\ ~HasWaiters(x)
  <2>1. /\ ~x.spinner /\ x.read_waiters = FALSE /\ x.write_waiters = FALSE
    BY <1>0, <1>5 DEF RW_UNLOCKED, RW_READERS_LOCK, RW_DESTROYED, Owned
  <2>2. w.read_waiters = FALSE /\ w.write_waiters = FALSE
    BY <1>0, <1>5 DEF HasWaiters
  <2> QED
    BY <1>5, <2>1, <2>2 DEF Settled, HasWaiters
<1> QED
  BY <1>1, <1>2, <1>3, <1>4, <1>5

\* The words that nobody waits for.
LEMMA Unwaited ==
  /\ ~HasWaiters(RW_UNLOCKED) /\ ~HasWaiters(RW_DESTROYED)
  /\ \A t \in Thread : ~HasWaiters(Owned(t))
BY DEF HasWaiters, RW_UNLOCKED, RW_READERS_LOCK, RW_DESTROYED, Owned

\* A step of t goes from control point p to r, about lock l.
GoesOn(t, l, p, r) ==
  /\ ~TD_ON_LOCK(t) /\ pc[t] = p /\ pc'[t] = r
  /\ cur[t] \in {NULL, l} /\ cur'[t] \in {NULL, l}
  /\ \A u \in Thread \ {t} :
       /\ pc'[u] = pc[u] /\ cur'[u] = cur[u] /\ queue'[u] = queue[u]
       /\ v'[u] = v[u] /\ lts'[u] = lts[u]

\* What the local variables become at the end of a call, at its start and within it.
LEMMA GoesHow ==
  ASSUME WaitInv, NEW t \in Thread, NEW p, NEW r, Goto(t, p, r)
  PROVE  /\ Return(t) => \A l \in Rwlock : cur[t] = l \/ p = "idle" =>
              GoesOn(t, l, p, r) /\ cur'[t] = NULL
         /\ \A l \in Rwlock, q \in Queue : Call(t, l, q) /\ (cur[t] = l \/ p = "idle") =>
              GoesOn(t, l, p, r) /\ cur'[t] = l
         /\ UNCHANGED localVars => \A l \in Rwlock : cur[t] = l \/ p = "idle" =>
              GoesOn(t, l, p, r) /\ cur'[t] = cur[t]
<1>1. LocalTypeOK /\ KnowsOf(t)
  BY InvParts, Here DEF WaitInv
<1>2. p = "idle" => cur[t] = NULL
  BY <1>1 DEF KnowsOf, Goto
<1>3. ~TD_ON_LOCK(t)
  BY DEF Goto, TD_IS_RUNNING, TD_ON_LOCK
<1>4. pc[t] = p /\ pc'[t] = r /\ \A u \in Thread \ {t} : pc'[u] = pc[u]
  BY <1>1 DEF Goto, LocalTypeOK
<1>5. Return(t) => /\ cur'[t] = NULL
                   /\ \A u \in Thread \ {t} : /\ cur'[u] = cur[u] /\ queue'[u] = queue[u]
                                              /\ v'[u] = v[u] /\ lts'[u] = lts[u]
  BY <1>1 DEF Return, LocalTypeOK
<1>6. \A l \in Rwlock, q \in Queue : Call(t, l, q) =>
        /\ cur'[t] = l
        /\ \A u \in Thread \ {t} : /\ cur'[u] = cur[u] /\ queue'[u] = queue[u]
                                   /\ v'[u] = v[u] /\ lts'[u] = lts[u]
  BY <1>1 DEF Call, LocalTypeOK
<1>7. UNCHANGED localVars => UNCHANGED <<cur, queue, v, lts>>
  BY DEF localVars
<1>8. Return(t) => \A l \in Rwlock : cur[t] = l \/ p = "idle" => GoesOn(t, l, p, r)
  BY <1>2, <1>3, <1>4, <1>5 DEF GoesOn
<1>9. ASSUME NEW l \in Rwlock, NEW q \in Queue, Call(t, l, q), cur[t] = l \/ p = "idle"
      PROVE  GoesOn(t, l, p, r) /\ cur'[t] = l
  BY <1>2, <1>3, <1>4, <1>6, <1>9 DEF GoesOn
<1>10. ASSUME UNCHANGED localVars, NEW l \in Rwlock, cur[t] = l \/ p = "idle"
       PROVE  GoesOn(t, l, p, r) /\ cur'[t] = cur[t]
  BY <1>2, <1>3, <1>4, <1>7, <1>10 DEF GoesOn
<1> QED
  BY <1>5, <1>8, <1>9, <1>10

\* A calm step about lock l, outside the chain lock.
LEMMA GoesOnCalm ==
  ASSUME WaitInv, NEW t \in Thread, NEW l \in Rwlock, NEW p \in Points \ Chained,
         NEW r \in Points \ Chained, GoesOn(t, l, p, r), UNCHANGED turnstileVars,
         \A n \in Rwlock \ {l} : rw_lock'[n] = rw_lock[n],
         rw_lock'[l] = rw_lock[l] \/ Settled(l),
         r = "idle" => /\ cur'[t] = NULL
                       /\ cur[t] = l => ~IsFree(rw_lock'[l]) \/ ~HasWaiters(rw_lock'[l]),
         r # "idle" => cur'[t] = l /\ rw_lock'[l].owner # DESTROYED,
         r = "runlock_chain" => HasWaiters(rw_lock'[l])
  PROVE  Calm(t)
<1>1. /\ ~TD_ON_LOCK(t) /\ pc[t] = p /\ pc'[t] = r
      /\ cur[t] \in {NULL, l} /\ cur'[t] \in {NULL, l}
      /\ \A u \in Thread \ {t} :
           /\ pc'[u] = pc[u] /\ cur'[u] = cur[u] /\ queue'[u] = queue[u]
           /\ v'[u] = v[u] /\ lts'[u] = lts[u]
  BY DEF GoesOn
<1>2. /\ pc[t] \notin Chained /\ pc'[t] \notin Chained
      /\ pc'[t] # "idle" => pc'[t] \in Points /\ rw_lock'[cur'[t]].owner # DESTROYED
      /\ pc'[t] = "idle" => cur'[t] = NULL
      /\ pc'[t] = "runlock_chain" => HasWaiters(rw_lock'[cur'[t]])
  BY <1>1
<1>3. ASSUME NEW n \in Rwlock
      PROVE  /\ rw_lock'[n] = rw_lock[n] \/ Settled(n)
             /\ cur[t] = n => cur'[t] = n \/ ~IsFree(rw_lock'[n]) \/ ~HasWaiters(rw_lock'[n])
  <2>1. cur[t] = n => n = l
    BY <1>1, TurnstileAssumption
  <2> QED
    BY <1>1, <2>1
<1> QED
  BY <1>1, <1>2, <1>3, AwayIsCalm

\* One word is stored.
LEMMA StoreWord ==
  ASSUME WaitInv, NEW l \in Rwlock, NEW x, rw_lock' = [rw_lock EXCEPT ![l] = x]
  PROVE  rw_lock'[l] = x /\ \A n \in Rwlock \ {l} : rw_lock'[n] = rw_lock[n]
BY InvParts DEF WaitInv, HoldInv, HoldTypeOK

\* Facts about a lock and a thread, from the invariant.
LEMMA LockFacts ==
  ASSUME WaitInv, NEW t \in Thread, NEW l \in Rwlock
  PROVE  /\ rw_lock[l] \in Word /\ HoldInv
         /\ rw_lock[l].owner \in Thread \cup {NULL, DESTROYED} /\ rw_lock[l].readers \in Nat
         /\ NULL \notin Thread /\ DESTROYED \notin Thread /\ DESTROYED # NULL
         /\ wheld[l][t] \in Nat
         /\ wheld[l][t] > 0 => rw_wowner(l) = t
         /\ ReadsOf(t, l) # {} => rw_wowner(l) = NULL /\ rw_lock[l].readers > 0
         /\ cur[t] = l /\ pc[t] # "idle" => rw_lock[l].owner # DESTROYED
         /\ cur[t] = l /\ pc[t] \in ReadPath => ReadsOf(t, l) # {}
         /\ cur[t] = l /\ pc[t] \in WritePath => rw_wowner(l) = t
<1>1. HoldInv /\ OwnPath(t) /\ KnowsOf(t)
  BY InvParts, Here DEF WaitInv
<1>2. rw_lock[l] \in Word /\ wheld[l][t] \in Nat
  BY <1>1 DEF HoldInv, HoldTypeOK
<1>3. rw_lock[l].owner \in Thread \cup {NULL, DESTROYED} /\ rw_lock[l].readers \in Nat
  BY <1>2 DEF Word
<1>4. wheld[l][t] > 0 => rw_wowner(l) = t
  BY <1>1 DEF HoldInv, AccountInv
<1> QED
  BY <1>1, <1>2, <1>3, <1>4, ReaderCounted, TurnstileAssumption, RwlockAssumption
  DEF OwnPath, KnowsOf, KnowsAt

\* The steps of a reader outside the chain lock.
LEMMA TakeReadCalm ==
  ASSUME WaitInv, NEW t \in Thread, NEW l \in Rwlock, NEW p \in Points \ Chained,
         Goto(t, p, "idle"), rw_wowner(l) = NULL, TakeRead(t, l),
         (Return(t) /\ cur[t] = l) \/ (UNCHANGED localVars /\ p = "idle")
  PROVE  Calm(t)
<1>1. GoesOn(t, l, p, "idle") /\ cur'[t] = NULL
  BY GoesHow, Here DEF KnowsOf, Goto
<1>2. rw_lock' = [rw_lock EXCEPT ![l].readers = @ + 1] /\ UNCHANGED turnstileVars
  BY DEF TakeRead, turnstileVars, chainVars, queueVars, priVars
<1>3. /\ rw_lock'[l] = [rw_lock[l] EXCEPT !.readers = @ + 1]
      /\ \A n \in Rwlock \ {l} : rw_lock'[n] = rw_lock[n]
  BY <1>2, StoreWord
<1>4. Settled(l) /\ ~IsFree(rw_lock'[l])
  BY <1>3, LockFacts, SettledWords DEF rw_wowner
<1> QED
  BY <1>1, <1>2, <1>3, <1>4, GoesOnCalm DEF Points, Chained

\* rw_rlock and rw_try_rlock are calm.
LEMMA RwRlockCalm ==
  ASSUME WaitInv, NEW t \in Thread, NEW l \in Rwlock, RwRlock(t, l) \/ RwTryRlock(t, l)
  PROVE  Calm(t)
<1>1. rw_wowner(l) # DESTROYED
  BY DEF RwRlock, RwTryRlock, MayRead
<1>2. CASE Goto(t, "idle", "rlock") /\ Call(t, l, TS_SHARED_QUEUE) /\ UNCHANGED <<turnstileVars, wordVars, heldVars>>
  <2>1. GoesOn(t, l, "idle", "rlock") /\ cur'[t] = l
    BY <1>2, GoesHow DEF Queue
  <2> QED
    BY <1>1, <1>2, <2>1, GoesOnCalm DEF wordVars, rw_wowner, Points, Chained
<1>3. CASE Goto(t, "idle", "idle") /\ rw_wowner(l) = NULL /\ TakeRead(t, l) /\ UNCHANGED localVars
  BY <1>3, TakeReadCalm DEF Points, Chained
<1> QED
  BY <1>2, <1>3 DEF RwRlock, RwTryRlock, RW_CAN_READ, rw_wowner

\* A round of the loop of _rw_rlock before it blocks is calm.
LEMMA RlockCalm ==
  ASSUME WaitInv, NEW t \in Thread, Rlock(t)
  PROVE  Calm(t)
<1>1. PICK l \in Rwlock : l = cur[t]
  BY Here DEF Rlock, Goto
<1>2. rw_lock[l].owner # DESTROYED
  BY <1>1, LockFacts DEF Rlock, Goto
<1>3. CASE Goto(t, "rlock", "idle") /\ RW_CAN_READ(t, rw_lock[l]) /\ TakeRead(t, l) /\ Return(t)
  <2>1. "rlock" \in Points \ Chained /\ rw_wowner(l) = NULL
    BY <1>3 DEF RW_CAN_READ, rw_wowner, Points, Chained
  <2> QED
    BY <1>1, <1>3, <2>1, TakeReadCalm
<1>4. CASE Goto(t, "rlock", "chain") /\ UNCHANGED <<turnstileVars, wordVars, localVars, heldVars>>
  <2>1. GoesOn(t, l, "rlock", "chain") /\ cur'[t] = l
    BY <1>1, <1>4, GoesHow
  <2> QED
    BY <1>2, <1>4, <2>1, GoesOnCalm DEF wordVars, Points, Chained
<1> QED
  BY <1>1, <1>3, <1>4 DEF Rlock

\* The steps of a writer outside the chain lock.
LEMMA TakeWriteCalm ==
  ASSUME WaitInv, NEW t \in Thread, NEW l \in Rwlock, NEW p \in Points \ Chained,
         Goto(t, p, "idle"), rw_lock[l] = RW_UNLOCKED, SetWord(l, Owned(t)), UNCHANGED turnstileVars,
         (Return(t) /\ cur[t] = l) \/ (UNCHANGED localVars /\ p = "idle")
  PROVE  Calm(t)
<1>1. GoesOn(t, l, p, "idle") /\ cur'[t] = NULL
  BY GoesHow, Here DEF KnowsOf, Goto
<1>2. rw_lock'[l] = Owned(t) /\ \A n \in Rwlock \ {l} : rw_lock'[n] = rw_lock[n]
  BY StoreWord DEF SetWord
<1>3. Settled(l) /\ ~HasWaiters(rw_lock'[l])
  BY <1>2, LockFacts, SettledWords, Unwaited
<1> QED
  BY <1>1, <1>2, <1>3, GoesOnCalm DEF Points, Chained

\* rw_wlock and rw_try_wlock are calm.
LEMMA RwWlockCalm ==
  ASSUME WaitInv, NEW t \in Thread, NEW l \in Rwlock, RwWlock(t, l) \/ RwTryWlock(t, l)
  PROVE  Calm(t)
<1>1. rw_wowner(l) # DESTROYED
  BY DEF RwWlock, RwTryWlock, MayWrite
<1>2. CASE Goto(t, "idle", "wlock") /\ Call(t, l, TS_EXCLUSIVE_QUEUE) /\ UNCHANGED <<turnstileVars, wordVars, heldVars>>
  <2>1. GoesOn(t, l, "idle", "wlock") /\ cur'[t] = l
    BY <1>2, GoesHow DEF Queue
  <2> QED
    BY <1>1, <1>2, <2>1, GoesOnCalm DEF wordVars, rw_wowner, Points, Chained
<1>3. CASE Goto(t, "idle", "idle") /\ rw_lock[l] = RW_UNLOCKED /\ TakeWrite(t, l, Owned(t)) /\ UNCHANGED <<turnstileVars, localVars>>
  BY <1>3, TakeWriteCalm DEF Points, Chained, TakeWrite
<1>4. CASE Goto(t, "idle", "idle") /\ RecurseWrite(t, l) /\ UNCHANGED <<turnstileVars, localVars>>
  <2>1. GoesOn(t, l, "idle", "idle") /\ cur[t] = NULL /\ cur'[t] = NULL
    BY <1>4, GoesHow, Here DEF KnowsOf, Goto
  <2> QED
    BY <1>4, <2>1, GoesOnCalm, TurnstileAssumption DEF RecurseWrite, Points, Chained
<1> QED
  BY <1>2, <1>3, <1>4 DEF RwWlock, RwTryWlock

\* A round of the loop of _rw_wlock_hard before it blocks, its spinning included,
\* is calm.
LEMMA WlockCalm ==
  ASSUME WaitInv, NEW t \in Thread, Wlock(t) \/ WspinEnd(t)
  PROVE  Calm(t)
<1>1. PICK l \in Rwlock : l = cur[t]
  BY Here DEF Wlock, WspinEnd, Goto
<1>2. rw_lock[l].owner # DESTROYED
  BY <1>1, LockFacts DEF Wlock, WspinEnd, Goto
<1>3. CASE Goto(t, "wlock", "idle") /\ rw_lock[l] = RW_UNLOCKED /\ TakeWrite(t, l, Owned(t)) /\ Return(t) /\ UNCHANGED turnstileVars
  <2>1. "wlock" \in Points \ Chained /\ SetWord(l, Owned(t))
    BY <1>3 DEF TakeWrite, Points, Chained
  <2> QED
    BY <1>1, <1>3, <2>1, TakeWriteCalm
<1>4. CASE /\ Goto(t, "wlock", "wspin") /\ rw_lock[l].owner = NULL /\ rw_lock[l].readers > 0
           /\ SetWord(l, [rw_lock[l] EXCEPT !.spinner = TRUE]) /\ UNCHANGED <<turnstileVars, localVars>>
  <2>1. GoesOn(t, l, "wlock", "wspin") /\ cur'[t] = l
    BY <1>1, <1>4, GoesHow
  <2>2. /\ rw_lock'[l] = [rw_lock[l] EXCEPT !.spinner = TRUE]
        /\ \A n \in Rwlock \ {l} : rw_lock'[n] = rw_lock[n]
    BY <1>4, StoreWord DEF SetWord
  <2>3. Settled(l) /\ rw_lock'[l].owner = NULL
    BY <1>4, <2>2, LockFacts, SettledWords
  <2> QED
    BY <1>4, <2>1, <2>2, <2>3, GoesOnCalm, LockFacts DEF Points, Chained
<1>5. CASE /\ Goto(t, "wlock", "chain") \/ Goto(t, "wspin", "wlock") \/ Goto(t, "wspin", "chain")
           /\ UNCHANGED <<turnstileVars, wordVars, localVars, heldVars>>
  <2>1. PICK p \in {"wlock", "wspin"}, r \in {"wlock", "chain"} : Goto(t, p, r)
    BY <1>5
  <2>2. GoesOn(t, l, p, r) /\ cur'[t] = l
    BY <1>1, <1>5, <2>1, GoesHow
  <2> QED
    BY <1>2, <1>5, <2>2, GoesOnCalm DEF wordVars, Points, Chained
<1> QED
  BY <1>1, <1>3, <1>4, <1>5 DEF Wlock, WspinEnd

\* A woken thread's return to its loop is calm.
LEMMA WokenCalm ==
  ASSUME WaitInv, NEW t \in Thread, Woken(t)
  PROVE  Calm(t)
<1>1. PICK l \in Rwlock : l = cur[t]
  BY Here DEF Woken, Goto
<1>2. PICK r \in {"rlock", "wlock"} : Goto(t, "blocked", r)
  BY DEF Woken, Loop
<1>3. GoesOn(t, l, "blocked", r) /\ cur'[t] = l
  BY <1>1, <1>2, GoesHow DEF Woken
<1>4. rw_lock[l].owner # DESTROYED
  BY <1>1, LockFacts DEF Woken, Goto
<1> QED
  BY <1>3, <1>4, GoesOnCalm DEF Woken, wordVars, Points, Chained

\* The steps of _rw_runlock() outside the chain lock.
LEMMA RunlockRoundCalm ==
  ASSUME WaitInv, NEW t \in Thread, NEW l \in Rwlock, NEW p \in Points \ Chained,
         cur[t] = l \/ p = "idle", ReadsOf(t, l) # {}, RunlockRound(t, l, p), UNCHANGED turnstileVars
  PROVE  Calm(t)
<1> DEFINE w == rw_lock[l]
<1>1. /\ w \in Word /\ w.owner = NULL /\ w.readers \in Nat /\ w.readers > 0
      /\ w.owner # DESTROYED
  BY LockFacts DEF rw_wowner
<1>2. CASE /\ Goto(t, p, "idle") /\ (w.readers > 1 \/ ~HasWaiters(w)) /\ Return(t)
           /\ SetWord(l, IF w.readers > 1 THEN [w EXCEPT !.readers = @ - 1] ELSE RW_UNLOCKED)
  <2>1. GoesOn(t, l, p, "idle") /\ cur'[t] = NULL
    BY <1>2, GoesHow
  <2>2. /\ rw_lock'[l] = IF w.readers > 1 THEN [w EXCEPT !.readers = @ - 1] ELSE RW_UNLOCKED
        /\ \A n \in Rwlock \ {l} : rw_lock'[n] = rw_lock[n]
    BY <1>2, StoreWord DEF SetWord
  <2>3. Settled(l) /\ (~IsFree(rw_lock'[l]) \/ ~HasWaiters(rw_lock'[l]))
    BY <1>1, <1>2, <2>2, SettledWords
  <2>4. "idle" \in Points \ Chained
    BY DEF Points, Chained
  <2> QED
    BY <2>1, <2>2, <2>3, <2>4, GoesOnCalm
<1>3. CASE /\ Goto(t, p, "runlock_chain") /\ HasWaiters(w) /\ Call(t, l, TS_SHARED_QUEUE)
           /\ UNCHANGED rw_lock
  <2>1. GoesOn(t, l, p, "runlock_chain") /\ cur'[t] = l
    BY <1>3, GoesHow DEF Queue
  <2>2. "runlock_chain" \in Points \ Chained
    BY DEF Points, Chained
  <2> QED
    BY <1>1, <1>3, <2>1, <2>2, GoesOnCalm
<1> QED
  BY <1>2, <1>3 DEF RunlockRound

\* rw_runlock, where it drops a reader or goes for the chain lock, is calm.
LEMMA RunlockCalm ==
  ASSUME WaitInv, NEW t \in Thread,
         Runlock(t) \/ \E l \in Rwlock : RwRunlock(t, l)
  PROVE  Calm(t)
<1>1. CASE Runlock(t)
  <2>1. PICK l \in Rwlock : l = cur[t]
    BY <1>1, Here DEF Runlock, RunlockRound, Goto
  <2>2. ReadsOf(t, l) # {}
    BY <1>1, <2>1, LockFacts DEF Runlock, RunlockRound, Goto, ReadPath
  <2>3. "runlock" \in Points \ Chained
    BY DEF Points, Chained
  <2> QED
    BY <1>1, <2>1, <2>2, <2>3, RunlockRoundCalm DEF Runlock
<1>2. CASE \E l \in Rwlock : RwRunlock(t, l)
  <2>1. PICK l \in Rwlock : RwRunlock(t, l)
    BY <1>2
  <2>2. "idle" \in Points \ Chained
    BY DEF Points, Chained
  <2> QED
    BY <2>1, <2>2, RunlockRoundCalm DEF RwRunlock
<1> QED
  BY <1>1, <1>2

\* The last reader that finds another one under the chain lock starts over: calm.
LEMMA RunlockAgainCalm ==
  ASSUME WaitInv, NEW t \in Thread, RunlockChain(t), rw_lock[cur[t]].readers # 1
  PROVE  Calm(t)
<1>1. PICK l \in Rwlock : l = cur[t]
  BY Here DEF RunlockChain
<1>2. /\ Goto(t, "runlock_chain", "runlock") /\ UNCHANGED rw_lock
      /\ UNCHANGED turnstileVars /\ UNCHANGED localVars
  BY DEF RunlockChain, turnstileVars, chainVars, queueVars, localVars
<1>3. GoesOn(t, l, "runlock_chain", "runlock") /\ cur'[t] = l
  BY <1>1, <1>2, GoesHow
<1>4. rw_lock[l].owner # DESTROYED
  BY <1>1, <1>2, LockFacts DEF Goto
<1> QED
  BY <1>2, <1>3, <1>4, GoesOnCalm DEF Points, Chained

\* rw_wunlock is calm: with waiters it only goes for the chain lock.
LEMMA RwWunlockCalm ==
  ASSUME WaitInv, NEW t \in Thread, NEW l \in Rwlock, RwWunlock(t, l)
  PROVE  Calm(t)
<1>1. rw_lock[l].owner = t /\ rw_lock[l] \in Word /\ t # DESTROYED
  BY LockFacts DEF RwWunlock, rw_wowner
<1>2. CASE Goto(t, "idle", "idle") /\ UNCHANGED <<turnstileVars, rw_lock, localVars>>
  <2>1. GoesOn(t, l, "idle", "idle") /\ cur[t] = NULL /\ cur'[t] = NULL
    BY <1>2, GoesHow, Here DEF KnowsOf, Goto
  <2> QED
    BY <1>2, <2>1, GoesOnCalm, TurnstileAssumption DEF Points, Chained
<1>3. CASE /\ Goto(t, "idle", "idle") /\ rw_lock[l] = Owned(t) /\ SetWord(l, RW_UNLOCKED)
           /\ UNCHANGED <<turnstileVars, localVars>>
  <2>1. GoesOn(t, l, "idle", "idle") /\ cur'[t] = NULL
    BY <1>3, GoesHow, Here DEF KnowsOf, Goto
  <2>2. rw_lock'[l] = RW_UNLOCKED /\ \A n \in Rwlock \ {l} : rw_lock'[n] = rw_lock[n]
    BY <1>3, StoreWord DEF SetWord
  <2>3. Settled(l) /\ ~HasWaiters(rw_lock'[l])
    BY <1>1, <1>3, <2>2, SettledWords, Unwaited
  <2> QED
    BY <1>3, <2>1, <2>2, <2>3, GoesOnCalm DEF Points, Chained
<1>4. CASE Goto(t, "idle", "wunlock") /\ Call(t, l, TS_EXCLUSIVE_QUEUE) /\ UNCHANGED <<turnstileVars, rw_lock>>
  <2>1. GoesOn(t, l, "idle", "wunlock") /\ cur'[t] = l
    BY <1>4, GoesHow DEF Queue
  <2> QED
    BY <1>1, <1>4, <2>1, GoesOnCalm DEF Points, Chained
<1> QED
  BY <1>2, <1>3, <1>4 DEF RwWunlock, wordVars

\* rw_try_upgrade is calm: with waiters it only goes for the turnstile.
LEMMA RwTryUpgradeCalm ==
  ASSUME WaitInv, NEW t \in Thread, NEW l \in Rwlock, RwTryUpgrade(t, l)
  PROVE  Calm(t)
<1>1. rw_lock[l].owner = NULL /\ rw_lock[l] \in Word /\ NULL # DESTROYED
  BY LockFacts DEF RwTryUpgrade, rw_wowner
<1>2. CASE /\ Goto(t, "idle", "idle") /\ ~HasWaiters(rw_lock[l]) /\ SetWord(l, Owned(t))
           /\ UNCHANGED <<turnstileVars, localVars>>
  <2>1. GoesOn(t, l, "idle", "idle") /\ cur'[t] = NULL
    BY <1>2, GoesHow, Here DEF KnowsOf, Goto
  <2>2. rw_lock'[l] = Owned(t) /\ \A n \in Rwlock \ {l} : rw_lock'[n] = rw_lock[n]
    BY <1>2, StoreWord DEF SetWord
  <2>3. Settled(l) /\ ~HasWaiters(rw_lock'[l])
    BY <1>1, <1>2, <2>2, SettledWords
  <2> QED
    BY <1>2, <2>1, <2>2, <2>3, GoesOnCalm DEF Points, Chained
<1>3. CASE Goto(t, "idle", "upgrade") /\ Call(t, l, TS_EXCLUSIVE_QUEUE) /\ UNCHANGED <<turnstileVars, wordVars>>
  <2>1. GoesOn(t, l, "idle", "upgrade") /\ cur'[t] = l
    BY <1>3, GoesHow DEF Queue
  <2> QED
    BY <1>1, <1>3, <2>1, GoesOnCalm DEF wordVars, Points, Chained
<1> QED
  BY <1>2, <1>3 DEF RwTryUpgrade, TakeUpgrade

\* rw_downgrade is calm: with waiters it only goes for the chain lock.
LEMMA RwDowngradeCalm ==
  ASSUME WaitInv, NEW t \in Thread, NEW l \in Rwlock, RwDowngrade(t, l)
  PROVE  Calm(t)
<1>1. rw_lock[l].owner = t /\ rw_lock[l] \in Word /\ t # DESTROYED
  BY LockFacts DEF RwDowngrade, rw_wowner
<1>2. CASE /\ Goto(t, "idle", "idle") /\ rw_lock[l] = Owned(t) /\ SetWord(l, RW_READERS_LOCK(1))
           /\ UNCHANGED <<turnstileVars, localVars>>
  <2>1. GoesOn(t, l, "idle", "idle") /\ cur'[t] = NULL
    BY <1>2, GoesHow, Here DEF KnowsOf, Goto
  <2>2. rw_lock'[l] = RW_READERS_LOCK(1) /\ \A n \in Rwlock \ {l} : rw_lock'[n] = rw_lock[n]
    BY <1>2, StoreWord DEF SetWord
  <2>3. Settled(l) /\ ~HasWaiters(rw_lock'[l])
    BY <1>1, <1>2, <2>2, SettledWords, Unwaited
  <2> QED
    BY <1>2, <2>1, <2>2, <2>3, GoesOnCalm DEF Points, Chained
<1>3. CASE Goto(t, "idle", "downgrade") /\ Call(t, l, TS_SHARED_QUEUE) /\ UNCHANGED <<turnstileVars, wordVars>>
  <2>1. GoesOn(t, l, "idle", "downgrade") /\ cur'[t] = l
    BY <1>3, GoesHow DEF Queue
  <2> QED
    BY <1>1, <1>3, <2>1, GoesOnCalm DEF wordVars, Points, Chained
<1> QED
  BY <1>2, <1>3 DEF RwDowngrade, TakeDowngrade

\* rw_init and rw_destroy are calm.
LEMMA LifeCalm ==
  ASSUME WaitInv, NEW t \in Thread, NEW l \in Rwlock, RwDestroy(t, l) \/ RwInit(t, l)
  PROVE  Calm(t)
<1>1. Goto(t, "idle", "idle") /\ UNCHANGED <<turnstileVars, localVars>>
  BY DEF RwDestroy, RwInit
<1>2. GoesOn(t, l, "idle", "idle") /\ cur'[t] = NULL
  BY <1>1, GoesHow, Here DEF KnowsOf, Goto
<1>3. CASE RwDestroy(t, l)
  <2>1. rw_lock'[l] = RW_DESTROYED /\ \A n \in Rwlock \ {l} : rw_lock'[n] = rw_lock[n]
    BY <1>3, StoreWord DEF RwDestroy, SetWord
  <2>2. Settled(l) /\ ~HasWaiters(rw_lock'[l])
    BY <1>3, <2>1, LockFacts, SettledWords, Unwaited DEF RwDestroy
  <2> QED
    BY <1>1, <1>2, <2>1, <2>2, GoesOnCalm DEF Points, Chained
<1>4. CASE RwInit(t, l)
  <2>1. rw_lock'[l] = RW_UNLOCKED /\ \A n \in Rwlock \ {l} : rw_lock'[n] = rw_lock[n]
    BY <1>4, StoreWord DEF RwInit, SetWord
  <2>2. Settled(l) /\ ~HasWaiters(rw_lock'[l])
    BY <1>4, <2>1, LockFacts, SettledWords, Unwaited DEF RwInit
  <2> QED
    BY <1>1, <1>2, <2>1, <2>2, GoesOnCalm DEF Points, Chained
<1> QED
  BY <1>3, <1>4

-----------------------------------------------------------------------------
\* The scheduler puts nobody to sleep and wakes nobody.
LEMMA SchedulerStep ==
  ASSUME WaitInv, NEW t \in Thread, Preempt(t) \/ Dispatch(t), RwInv'
  PROVE  WaitInv'
<1>1. /\ UNCHANGED <<tc_lock, tc_turnstiles, ts_lock, ts_lockobj, ts_owner, ts_blocked>>
      /\ UNCHANGED <<ts_pending, ts_free, td_turnstile, td_blocked>>
      /\ UNCHANGED <<td_priority, td_base_pri, td_borrowing, prop>>
      /\ UNCHANGED <<rw_lock, pc, cur, queue, v, lts>>
  BY DEF Preempt, Dispatch, chainVars, queueVars, priVars, wordVars, localVars
<1>2. TurnstileTypeOK /\ QueuesInjective /\ ControlInv
  BY DEF WaitInv, StructInv, QueueInv, QueueOf, QueuesInjective
<1>3. /\ td_state' \in [Thread -> {"running", "runq", "lock"}]
      /\ \A u \in Thread : TD_ON_LOCK(u)' <=> TD_ON_LOCK(u)
  <2>1. td_state \in [Thread -> {"running", "runq", "lock"}]
    BY <1>2 DEF TurnstileTypeOK
  <2>2. /\ td_state[t] \in {"running", "runq"}
        /\ td_state' \in {[td_state EXCEPT ![t] = "runq"], [td_state EXCEPT ![t] = "running"]}
    BY DEF Preempt, Dispatch, TD_IS_RUNNING
  <2> QED
    BY <2>1, <2>2 DEF TD_ON_LOCK
<1>4. TurnstileTypeOK'
  BY <1>1, <1>2, <1>3 DEF TurnstileTypeOK
<1>5. Reordered
  BY <1>1, <1>2, SameQueues
<1>6. Still(t)
  BY <1>1, <1>3, <1>5 DEF Still, ListsKept, Aside
<1>7. ControlInv'
  BY <1>1, <1>2 DEF ControlInv, ControlOf
<1>8. StructInv'
  BY <1>6, <1>7, StillStep
<1>9. \A l \in Rwlock : WordOf(l)'
  BY <1>1, <1>3 DEF WaitInv, TruthInv, WordOf, Exact, Has, Attached, rw_wowner
<1>10. \A u \in Thread : KnowsOf(u)'
  BY <1>1 DEF WaitInv, TruthInv, KnowsOf, KnowsAt, Exact, Has, Attached
<1>11. OwnedInv'
  BY <1>1 DEF WaitInv, TruthInv, OwnedInv, OnChain, Releasing
<1> QED
  BY <1>4, <1>8, <1>9, <1>10, <1>11 DEF WaitInv, TruthInv

-----------------------------------------------------------------------------
\* A step of a thread with the chain lock that leaves the word of l alone.
LEMMA ChainCalm ==
  ASSUME WaitInv, NEW t \in Thread, NEW l \in Rwlock, cur[t] = l, TD_IS_RUNNING(t),
         pc[t] \notin Storing \cup Waking, pc'[t] \notin Storing \cup Waking,
         UNCHANGED <<tc_turnstiles, ts_owner, ts_blocked, ts_pending, ts_free>>,
         UNCHANGED <<td_turnstile, td_blocked, td_state>>, TurnstileTypeOK',
         \A u \in Thread \ {t} :
           /\ pc'[u] = pc[u] /\ cur'[u] = cur[u] /\ queue'[u] = queue[u]
           /\ v'[u] = v[u] /\ lts'[u] = lts[u],
         \A x \in Turnstiles \ {td_turnstile[t]} : ts_lockobj'[x] = ts_lockobj[x],
         pc'[t] \in Looking =>
           /\ lts'[t] \in Turnstiles
           /\ \/ /\ lts'[t] = td_turnstile[t] /\ Attached(l) = {}
                 /\ ts_lockobj'[lts'[t]] = l /\ pc'[t] # "down_store"
              \/ lts'[t] \in Attached(l),
         pc'[t] # "idle" => cur'[t] = l,
         pc'[t] \in Chained => tc_lock'[TC_HASH[l]] = t,
         ChainKept(t),
         \A n \in Rwlock \ {l} : rw_lock'[n] = rw_lock[n],
         rw_lock'[l] = rw_lock[l] \/ Settled(l),
         cur'[t] = l \/ ~IsFree(rw_lock'[l]) \/ ~HasWaiters(rw_lock'[l]),
         KnowsOf(t)'
  PROVE  Calm(t)
<1>1. TurnstileTypeOK /\ QueuesInjective
  BY DEF WaitInv, StructInv, QueueInv, QueueOf, QueuesInjective
<1>2. Reordered
  BY <1>1, SameQueues
<1>3. ~TD_ON_LOCK(t) /\ \A u \in Thread : TD_ON_LOCK(u)' <=> TD_ON_LOCK(u)
  BY DEF TD_ON_LOCK, TD_IS_RUNNING
<1>4. pc'[t] \in Looking => cur'[t] = l
  BY DEF Looking
<1>5. OwnOnly(t)
  <2>1. ListsKept /\ Aside(t)
    BY <1>2, <1>3 DEF ListsKept, Aside
  <2>2. pc[t] \notin Waking /\ pc'[t] \notin Waking
    OBVIOUS
  <2>3. pc'[t] \in Looking =>
         /\ cur'[t] \in Rwlock
         /\ \/ /\ lts'[t] = td_turnstile[t] /\ Attached(cur'[t]) = {}
               /\ ts_lockobj'[lts'[t]] = cur'[t] /\ pc'[t] # "down_store"
            \/ lts'[t] \in Attached(cur'[t])
    BY <1>4
  <2> QED
    BY <1>3, <2>1, <2>2, <2>3 DEF OwnOnly
<1>6. ControlOf(t)'
  <2>1. pc'[t] \in Chained => cur'[t] = l
    BY DEF Chained
  <2>2. pc'[t] \in Looking \cup Waking => lts'[t] \in Turnstiles
    OBVIOUS
  <2> QED
    BY <2>1, <2>2 DEF ControlOf
<1>7. \A n \in Rwlock :
       /\ rw_lock'[n] = rw_lock[n] \/ Settled(n)
       /\ cur[t] = n => cur'[t] = n \/ ~IsFree(rw_lock'[n]) \/ ~HasWaiters(rw_lock'[n])
  OBVIOUS
<1> QED
  BY <1>5, <1>6, <1>7 DEF Calm

\* Taking the chain lock and giving it back.
LEMMA ChainLocks ==
  ASSUME WaitInv, NEW t \in Thread, NEW l \in Rwlock
  PROVE  /\ turnstile_chain_lock(t, l) => ChainKept(t) /\ tc_lock'[TC_HASH[l]] = t
         /\ turnstile_chain_unlock(l) /\ cur[t] = l /\ pc[t] \in Chained => ChainKept(t)
         /\ UNCHANGED tc_lock => ChainKept(t)
         /\ turnstile_chain_lock(t, l) \/ turnstile_chain_unlock(l) =>
              tc_lock' \in [Chain -> Thread \cup {NULL}]
<1>1. tc_lock \in [Chain -> Thread \cup {NULL}] /\ TC_HASH[l] \in Chain
  BY TurnstileAssumption DEF WaitInv, TurnstileTypeOK
<1>2. cur[t] = l /\ pc[t] \in Chained => tc_lock[TC_HASH[l]] = t
  BY Here
<1> QED
  BY <1>1, <1>2 DEF turnstile_chain_lock, turnstile_chain_unlock, ChainKept

\* A thread that has no word to compare or to store knows that its lock exists.
LEMMA PlainKnows ==
  ASSUME NEW t \in Thread, NEW l \in Rwlock
  PROVE  /\ pc'[t] = "idle" /\ cur'[t] = NULL => KnowsOf(t)'
         /\ pc'[t] \in {"rlock", "wlock", "check", "up_check", "propagate", "blocked"}
              /\ cur'[t] = l /\ rw_lock'[l].owner # DESTROYED => KnowsOf(t)'
BY DEF KnowsOf, KnowsAt, Waking

\* The parts of the type invariant that the steps under the chain lock change.
LEMMA ChainTypes ==
  ASSUME WaitInv, UNCHANGED <<tc_turnstiles, ts_owner, ts_blocked, ts_pending, ts_free>>,
         UNCHANGED <<td_turnstile, td_blocked, td_state, priVars>>,
         tc_lock' \in [Chain -> Thread \cup {NULL}],
         ts_lock' \in [Turnstiles -> Thread \cup {NULL}],
         ts_lockobj' \in [Turnstiles -> Lock \cup {NULL}]
  PROVE  TurnstileTypeOK'
<1>1. TurnstileTypeOK
  BY DEF WaitInv
<1> QED
  BY <1>1 DEF TurnstileTypeOK, priVars

\* Taking the chain lock to look for a turnstile is calm.
LEMMA TrywaitCalm ==
  ASSUME WaitInv, NEW t \in Thread, Trywait(t)
  PROVE  Calm(t)
<1>1. PICK l \in Rwlock : l = cur[t]
  BY Here DEF Trywait, Goto
<1>2. PICK ts \in Turnstiles : turnstile_trywait(t, l, ts) /\ lts' = [lts EXCEPT ![t] = ts]
  BY <1>1 DEF Trywait
<1>3. LocalTypeOK /\ TurnstileTypeOK
  BY InvParts DEF WaitInv
<1>4. /\ TD_IS_RUNNING(t) /\ pc[t] \in {"chain", "upgrade"} /\ pc'[t] \in {"check", "up_check"}
      /\ \A u \in Thread \ {t} : pc'[u] = pc[u] /\ lts'[u] = lts[u]
      /\ lts'[t] = ts
  BY <1>2, <1>3 DEF Trywait, Goto, LocalTypeOK
<1>5. /\ UNCHANGED <<tc_turnstiles, ts_owner, ts_blocked, ts_pending, ts_free, td_turnstile, td_blocked, td_state, priVars>>
      /\ UNCHANGED <<rw_lock, cur, queue, v>> /\ turnstile_chain_lock(t, l)
  BY <1>1 DEF Trywait, wordVars
<1>6. /\ ts_lock' \in [Turnstiles -> Thread \cup {NULL}]
      /\ ts_lockobj' \in [Turnstiles -> Lock \cup {NULL}]
      /\ \A x \in Turnstiles \ {td_turnstile[t]} : ts_lockobj'[x] = ts_lockobj[x]
      /\ \/ ts = td_turnstile[t] /\ Attached(l) = {} /\ ts_lockobj'[ts] = l
         \/ ts \in Attached(l)
  <2>1. /\ ts_lock \in [Turnstiles -> Thread \cup {NULL}]
        /\ ts_lockobj \in [Turnstiles -> Lock \cup {NULL}]
    BY <1>3 DEF TurnstileTypeOK
  <2>2. l \in Lock
    BY <1>3 DEF Rwlock
  <2> QED
    BY <1>2, <2>1, <2>2 DEF turnstile_trywait
<1>7. TurnstileTypeOK' /\ ChainKept(t) /\ tc_lock'[TC_HASH[l]] = t
  BY <1>5, <1>6, ChainLocks, ChainTypes
<1>8. KnowsOf(t)'
  BY <1>1, <1>4, <1>5, LockFacts, PlainKnows
<1>9. /\ pc[t] \notin Storing \cup Waking /\ pc'[t] \notin Storing \cup Waking
      /\ pc'[t] # "down_store"
  BY <1>4 DEF Storing, Waking
<1> QED
  BY <1>1, <1>4, <1>5, <1>6, <1>7, <1>8, <1>9, ChainCalm

\* What turnstile_cancel() changes.
LEMMA CancelFacts ==
  ASSUME WaitInv, NEW t \in Thread, NEW l \in Rwlock, l = cur[t], Cancel(t),
         pc[t] \in {"check", "contest", "up_check"}
  PROVE  /\ TurnstileTypeOK' /\ ChainKept(t)
         /\ UNCHANGED <<tc_turnstiles, ts_owner, ts_blocked, ts_pending, ts_free>>
         /\ UNCHANGED <<td_turnstile, td_blocked, td_state>>
         /\ \A x \in Turnstiles \ {td_turnstile[t]} : ts_lockobj'[x] = ts_lockobj[x]
<1>1. /\ UNCHANGED <<tc_turnstiles, ts_owner, ts_blocked, ts_pending, ts_free>>
      /\ UNCHANGED <<td_turnstile, td_blocked, td_state, priVars>>
      /\ turnstile_chain_unlock(l)
      /\ ts_lock' = [ts_lock EXCEPT ![lts[t]] = NULL]
      /\ ts_lockobj' = [ts_lockobj EXCEPT ![lts[t]] = IF lts[t] = td_turnstile[t] THEN NULL ELSE @]
  BY DEF Cancel, turnstile_cancel
<1>2. TurnstileTypeOK /\ pc[t] \in Chained
  BY DEF WaitInv, Chained
<1>3. /\ ts_lock' \in [Turnstiles -> Thread \cup {NULL}]
      /\ ts_lockobj' \in [Turnstiles -> Lock \cup {NULL}]
      /\ \A x \in Turnstiles \ {td_turnstile[t]} : ts_lockobj'[x] = ts_lockobj[x]
  BY <1>1, <1>2 DEF TurnstileTypeOK
<1> QED
  BY <1>1, <1>2, <1>3, ChainLocks, ChainTypes

\* turnstile_cancel and another round of the loop: calm.
LEMMA GiveUpCalm ==
  ASSUME WaitInv, NEW t \in Thread, NEW p \in {"check", "contest"}, GiveUp(t, p)
  PROVE  Calm(t)
<1>1. PICK l \in Rwlock : l = cur[t]
  BY Here DEF GiveUp, Goto
<1>2. LocalTypeOK
  BY InvParts DEF WaitInv
<1>3. /\ TD_IS_RUNNING(t) /\ pc[t] = p /\ pc'[t] \in {"rlock", "wlock"} /\ cur'[t] = l
      /\ UNCHANGED <<rw_lock, cur, queue>>
      /\ \A u \in Thread \ {t} : pc'[u] = pc[u] /\ lts'[u] = lts[u] /\ v'[u] = v[u]
  BY <1>1, <1>2 DEF GiveUp, Goto, Loop, LocalTypeOK, wordVars
<1>4. /\ TurnstileTypeOK' /\ ChainKept(t)
      /\ UNCHANGED <<tc_turnstiles, ts_owner, ts_blocked, ts_pending, ts_free>>
      /\ UNCHANGED <<td_turnstile, td_blocked, td_state>>
      /\ \A x \in Turnstiles \ {td_turnstile[t]} : ts_lockobj'[x] = ts_lockobj[x]
  BY <1>1, <1>3, CancelFacts DEF GiveUp
<1>5. KnowsOf(t)'
  BY <1>1, <1>3, LockFacts, PlainKnows
<1>6. /\ pc[t] \notin Storing \cup Waking /\ pc'[t] \notin Storing \cup Waking
      /\ pc'[t] \notin Looking /\ pc'[t] \notin Chained
  BY <1>3 DEF Storing, Waking, Looking, Chained
<1> QED
  BY <1>1, <1>3, <1>4, <1>5, <1>6, ChainCalm

\* The second look at the word, under the chain lock, is calm.
LEMMA CheckCalm ==
  ASSUME WaitInv, NEW t \in Thread, Check(t)
  PROVE  Calm(t)
<1>1. PICK l \in Rwlock : l = cur[t]
  BY Here DEF Check
<1> DEFINE w == rw_lock[l]
<1>2. CASE GiveUp(t, "check")
  BY <1>2, GiveUpCalm
<1>3. CASE /\ ~(queue[t] = TS_SHARED_QUEUE /\ RW_CAN_READ(t, w))
           /\ Goto(t, "check", "contest") /\ v' = [v EXCEPT ![t] = w]
           /\ UNCHANGED <<turnstileVars, wordVars, cur, queue, lts, heldVars>>
  <2>1. LocalTypeOK /\ ControlOf(t) /\ LockedOf(t) /\ w.owner # DESTROYED
    BY <1>1, <1>3, InvParts, Here, LockFacts DEF WaitInv, Goto
  <2>2. /\ TD_IS_RUNNING(t) /\ pc[t] = "check" /\ pc'[t] = "contest"
        /\ \A u \in Thread \ {t} : pc'[u] = pc[u] /\ v'[u] = v[u]
        /\ v'[t] = w /\ UNCHANGED <<rw_lock, cur, queue, lts>>
    BY <1>3, <2>1 DEF Goto, LocalTypeOK, wordVars
  <2>3. /\ UNCHANGED <<tc_lock, tc_turnstiles, ts_owner, ts_blocked, ts_pending, ts_free>>
        /\ UNCHANGED <<td_turnstile, td_blocked, td_state, ts_lockobj>>
    BY <1>3 DEF turnstileVars, chainVars, queueVars
  <2>4. TurnstileTypeOK'
    BY <1>3 DEF WaitInv, TurnstileTypeOK, turnstileVars, chainVars, queueVars, priVars
  <2>5. /\ tc_lock'[TC_HASH[l]] = t /\ ChainKept(t)
        /\ lts'[t] \in Turnstiles
        /\ \/ /\ lts'[t] = td_turnstile[t] /\ Attached(l) = {} /\ ts_lockobj'[lts'[t]] = l
           \/ lts'[t] \in Attached(l)
    BY <1>1, <2>1, <2>2, <2>3, ChainLocks DEF ControlOf, LockedOf, Chained, Looking
  <2>6. queue[t] = SH => ~IsFree(w)
    <3>1. WordOf(l)
      BY DEF WaitInv, TruthInv
    <3> QED
      BY <1>3, <3>1 DEF WordOf, IsFree, RW_CAN_READ, SH
  <2>7. KnowsOf(t)'
    <3>1. KnowsAt(t, l)'
      BY <2>1, <2>2, <2>6 DEF KnowsAt, Waking
    <3> QED
      BY <1>1, <2>2, <3>1, KnowsThen
  <2>8. /\ pc[t] \notin Storing \cup Waking /\ pc'[t] \notin Storing \cup Waking
        /\ pc'[t] # "down_store"
    BY <2>2 DEF Storing, Waking
  <2> QED
    BY <1>1, <2>2, <2>3, <2>4, <2>5, <2>7, <2>8, ChainCalm
<1> QED
  BY <1>1, <1>2, <1>3 DEF Check

\* A downgrade that takes the chain lock and reads the waiter bits is calm.
LEMMA DowngradeCalm ==
  ASSUME WaitInv, NEW t \in Thread, Downgrade(t)
  PROVE  Calm(t)
<1>1. PICK l \in Rwlock : l = cur[t]
  BY Here DEF Downgrade, Goto
<1> DEFINE w == rw_lock[l]
           x == [RW_READERS_LOCK(1) EXCEPT !.write_waiters = w.write_waiters,
                                           !.read_waiters = w.read_waiters /\ w.write_waiters]
<1>2. PICK ts \in Turnstiles : turnstile_lookup(t, l, ts) /\ lts' = [lts EXCEPT ![t] = ts]
  BY <1>1 DEF Downgrade
<1>3. LocalTypeOK /\ TurnstileTypeOK
  BY InvParts DEF WaitInv
<1>4. /\ TD_IS_RUNNING(t) /\ pc[t] = "downgrade" /\ pc'[t] = "down_store"
      /\ v' = [v EXCEPT ![t] = x] /\ UNCHANGED <<rw_lock, cur, queue>>
      /\ UNCHANGED <<tc_turnstiles, ts_owner, ts_blocked, ts_pending, ts_free>>
      /\ UNCHANGED <<td_turnstile, td_blocked, td_state, priVars, ts_lockobj>>
      /\ turnstile_chain_lock(t, l)
  BY <1>1, <1>3 DEF Downgrade, Goto, LocalTypeOK, queueVars, wordVars
<1>5. \A u \in Thread \ {t} : pc'[u] = pc[u] /\ lts'[u] = lts[u] /\ v'[u] = v[u]
  BY <1>2, <1>3, <1>4 DEF Downgrade, Goto, LocalTypeOK
<1>6. lts'[t] = ts /\ v'[t] = x
  BY <1>2, <1>3, <1>4 DEF LocalTypeOK
<1>7. ts \in Attached(l) /\ ts_lock' \in [Turnstiles -> Thread \cup {NULL}]
  BY <1>2, <1>3 DEF turnstile_lookup, TurnstileTypeOK
<1>8. TurnstileTypeOK' /\ ChainKept(t) /\ tc_lock'[TC_HASH[l]] = t
  <2>1. ts_lockobj' \in [Turnstiles -> Lock \cup {NULL}]
    BY <1>3, <1>4 DEF TurnstileTypeOK
  <2> QED
    BY <1>4, <1>7, <2>1, ChainLocks, ChainTypes
<1>9. KnowsOf(t)'
  <2>1. /\ x.write_waiters = w.write_waiters /\ ~x.spinner
        /\ x.read_waiters = (w.read_waiters /\ w.write_waiters)
    BY DEF RW_READERS_LOCK
  <2>2. w.owner # DESTROYED
    BY <1>1, <1>4, LockFacts
  <2> HIDE DEF x
  <2>3. KnowsAt(t, l)'
    BY <1>4, <1>6, <2>1, <2>2 DEF KnowsAt, Waking
  <2> QED
    BY <1>1, <1>4, <2>3, KnowsThen
<1>10. /\ pc[t] \notin Storing \cup Waking /\ pc'[t] \notin Storing \cup Waking
  BY <1>4 DEF Storing, Waking
<1> QED
  BY <1>1, <1>4, <1>5, <1>6, <1>7, <1>8, <1>9, <1>10, ChainCalm

\* Under the chain lock of its lock, a thread is alone.
Alone(t, l) == \A u \in Thread \ {t} : cur[u] = l => pc[u] \notin Chained

\* Under the chain lock of its lock, or taking it, a thread is alone.
LEMMA AloneInChain ==
  ASSUME WaitInv, NEW t \in Thread, NEW l \in Rwlock, cur[t] = l,
         pc[t] \in Chained \/ tc_lock[TC_HASH[l]] = NULL
  PROVE  /\ Alone(t, l)
         /\ \A u \in Thread \ {t} : pc[u] \in Chained => TC_HASH[cur[u]] # TC_HASH[l]
         /\ pc[t] \notin Storing => Exact(rw_lock[l], l)
         /\ pc[t] # "wake" => \A ts \in Attached(l) : ts_owner[ts] = rw_wowner(l)
<1>1. ASSUME NEW u \in Thread \ {t}, pc[u] \in Chained PROVE TC_HASH[cur[u]] # TC_HASH[l]
  <2>1. tc_lock[TC_HASH[cur[u]]] = u /\ u # NULL
    BY <1>1, Here, TurnstileAssumption
  <2>2. pc[t] \in Chained => tc_lock[TC_HASH[l]] = t
    BY Here
  <2> QED
    BY <2>1, <2>2
<1>2. Alone(t, l)
  BY <1>1 DEF Alone
<1>3. WordOf(l)
  BY DEF WaitInv, TruthInv
<1>4. \A u \in Thread \ {t} : cur[u] = l => pc[u] \notin Storing
  BY <1>2 DEF Alone, Storing, Chained
<1> QED
  BY <1>1, <1>2, <1>3, <1>4 DEF WordOf, Storing

\* A step of t under the chain lock of l, about l and its turnstile ts.
LEMMA HeldStep ==
  ASSUME WaitInv, NEW t \in Thread, NEW l \in Rwlock, NEW ts \in Turnstiles,
         cur[t] = l, ts_lockobj[ts] = l, Alone(t, l), Aside(t), cur'[t] \in {l, NULL},
         \A n \in Rwlock \ {l} :
           /\ rw_lock'[n] = rw_lock[n] /\ Attached(n)' = Attached(n)
           /\ \A q \in Queue : Has(n, q)' <=> Has(n, q),
         \A x \in Turnstiles \ {ts} :
           /\ ts_owner'[x] = ts_owner[x] /\ ts_pending'[x] = ts_pending[x]
           /\ OnChain(x)' <=> OnChain(x),
         pc[t] \in Waking => lts[t] = ts,
         ~OnChain(ts)' /\ ts_owner'[ts] # NULL => Releasing(t, ts)',
         WordOf(l)', rw_lock'[l].owner # DESTROYED,
         \A u \in Thread \ {t} :
           cur[u] = l /\ pc[u] = "runlock_chain" => HasWaiters(rw_lock'[l]),
         KnowsOf(t)', StructInv', TurnstileTypeOK', RwInv'
  PROVE  WaitInv'
<1>1. OwnedInv'
  <2> SUFFICES ASSUME NEW x \in Turnstiles, ~OnChain(x)', ts_owner'[x] # NULL
               PROVE  \E u \in Thread : Releasing(u, x)'
    BY DEF OwnedInv
  <2>1. CASE x = ts
    BY <2>1
  <2>2. CASE x # ts
    <3>1. ~OnChain(x) /\ ts_owner[x] # NULL
      BY <2>2
    <3>2. PICK u \in Thread : Releasing(u, x)
      BY <3>1 DEF WaitInv, TruthInv, OwnedInv
    <3>3. u # t
      BY <2>2, <3>2 DEF Releasing
    <3> QED
      BY <3>2, <3>3 DEF Releasing, Aside
  <2> QED
    BY <2>1, <2>2
<1>2. ASSUME NEW u \in Thread \ {t}, pc[u] \in Waking
      PROVE  ts_pending'[lts[u]] = ts_pending[lts[u]] /\ ts_owner'[lts[u]] = ts_owner[lts[u]]
  <2>1. pc[u] \in Chained /\ lts[u] \in Turnstiles /\ ts_lockobj[lts[u]] = cur[u]
    BY <1>2, Here DEF LockedOf
  <2>2. cur[u] # l
    BY <2>1 DEF Alone
  <2> QED
    BY <2>1, <2>2
<1>3. ASSUME NEW n \in Rwlock \ {l} PROVE Mild(t, n)
  <2>1. WordOf(n) /\ n # NULL
    BY TurnstileAssumption DEF WaitInv, TruthInv
  <2>2. \A x \in Attached(n) : ts_owner'[x] = ts_owner[x]
    BY AttachedOn
  <2> QED
    BY <2>1, <2>2 DEF Mild, WordOf, rw_wowner
<1>4. Held(t, l)
  BY DEF Held, Alone
<1>5. TruthInv'
  BY <1>1, <1>2, <1>3, <1>4, TruthStep
<1> QED
  BY <1>5 DEF WaitInv

\* What becomes of the word, for a lock that nobody else has the chain lock of.
LEMMA WordThen ==
  ASSUME NEW t \in Thread, NEW l \in Rwlock, Alone(t, l), Aside(t), NEW x, rw_lock'[l] = x,
         (cur'[t] = l /\ pc'[t] \in Storing) \/ Exact(x, l)',
         IsFree(x) => ~x.write_waiters /\ ~x.spinner,
         x.owner # NULL => ~x.spinner,
         (cur'[t] = l /\ pc'[t] = "wake") \/ \A ts \in Attached(l)' : ts_owner'[ts] = x.owner,
         (cur'[t] = l /\ ~TD_ON_LOCK(t)') \/ ~IsFree(x) \/ ~HasWaiters(x)
           \/ \E u \in Thread : cur'[u] = l /\ ~TD_ON_LOCK(u)'
  PROVE  WordOf(l)'
<1>1. (\A u \in Thread : cur'[u] = l => pc'[u] \notin {"wait", "wake", "release"}) =>
       Exact(rw_lock[l], l)'
  BY DEF Storing, Exact
<1> QED
  BY <1>1 DEF WordOf, rw_wowner

-----------------------------------------------------------------------------
\* turnstile_claim() lends the priority of the first waiter.
LEMMA ClaimFacts ==
  ASSUME WaitInv, NEW t \in Thread, NEW l \in Rwlock, l = cur[t], Claim(t),
         pc[t] \in {"contest", "up_check"}, NEW ts \in Turnstiles, ts = lts[t]
  PROVE  /\ TurnstileTypeOK' /\ ChainKept(t) /\ ts \in Attached(l)
         /\ ts_owner'[ts] = t /\ \A x \in Turnstiles \ {ts} : ts_owner'[x] = ts_owner[x]
         /\ UNCHANGED <<tc_turnstiles, ts_lockobj, ts_blocked, ts_pending, ts_free>>
         /\ UNCHANGED <<td_turnstile, td_blocked, td_state>>
<1> DEFINE w == turnstile_first_waiter(ts)
           m == Min({td_priority[t], td_priority[w]})
<1>1. TurnstileTypeOK /\ LockedOf(t) /\ pc[t] \in Chained /\ pc[t] \in Looking
  BY Here DEF WaitInv, Chained, Looking
<1>2. /\ UNCHANGED <<tc_turnstiles, ts_lockobj, ts_blocked, ts_pending, ts_free>>
      /\ UNCHANGED <<td_turnstile, td_blocked, td_state, td_base_pri, prop>>
      /\ ts # td_turnstile[t] /\ ts_owner' = [ts_owner EXCEPT ![ts] = t]
      /\ td_priority' = [td_priority EXCEPT ![t] = m]
      /\ td_borrowing' = [td_borrowing EXCEPT ![t] = @ \/ td_priority[w] < td_priority[t]]
      /\ ts_lock' = [ts_lock EXCEPT ![ts] = NULL]
      /\ turnstile_chain_unlock(l)
  BY DEF Claim, turnstile_claim
<1>3. ts \in Attached(l)
  BY <1>1, <1>2 DEF LockedOf
<1>4. w \in Thread
  <2>1. OnChain(ts)
    BY <1>3, AttachedOn
  <2> QED
    BY <2>1, <1>1, OnChainHasWaiters, FirstIsThread
<1> HIDE DEF w
<1>5. td_priority[t] \in Priority /\ td_priority[w] \in Priority /\ Priority \subseteq Nat
  BY <1>1, <1>4, TurnstileAssumption DEF TurnstileTypeOK, Priority
<1>6. m \in Priority
  <2>1. m \in {td_priority[t], td_priority[w]}
    BY <1>5, MinExists
  <2> QED
    BY <1>5, <2>1
<1> HIDE DEF m
<1>7. /\ td_priority' \in [Thread -> Priority] /\ ts_lock' \in [Turnstiles -> Thread \cup {NULL}]
      /\ ts_owner' \in [Turnstiles -> Thread \cup {NULL}]
      /\ ts_owner'[ts] = t /\ \A x \in Turnstiles \ {ts} : ts_owner'[x] = ts_owner[x]
  BY <1>1, <1>2, <1>6 DEF TurnstileTypeOK
<1>8. td_borrowing' \in [Thread -> BOOLEAN]
  <2>1. (td_borrowing[t] \/ td_priority[w] < td_priority[t]) \in BOOLEAN
    OBVIOUS
  <2> QED
    BY <1>1, <1>2, <2>1 DEF TurnstileTypeOK
<1>9. ChainKept(t) /\ tc_lock' \in [Chain -> Thread \cup {NULL}]
  BY <1>1, <1>2, ChainLocks
<1>10. TurnstileTypeOK'
  BY <1>1, <1>2, <1>7, <1>8, <1>9 DEF TurnstileTypeOK
<1> QED
  BY <1>2, <1>3, <1>7, <1>9, <1>10

\* A thread that takes a lock with the chain lock held claims the turnstile if
\* there are waiters, and cancels otherwise.
LEMMA TakesOver ==
  ASSUME WaitInv, NEW t \in Thread, NEW l \in Rwlock, l = cur[t],
         NEW p \in {"contest", "up_check"}, Goto(t, p, "idle"), Return(t),
         NEW x, SetWord(l, x), x.owner = t, x.spinner = FALSE,
         x.read_waiters = rw_lock[l].read_waiters, x.write_waiters = rw_lock[l].write_waiters,
         IF HasWaiters(rw_lock[l]) THEN Claim(t) ELSE Cancel(t), RwInv'
  PROVE  WaitInv'
<1> DEFINE w == rw_lock[l]
<1>1. /\ rw_lock'[l] = x /\ \A n \in Rwlock \ {l} : rw_lock'[n] = rw_lock[n]
  BY StoreWord DEF SetWord
<1>2. GoesOn(t, l, p, "idle") /\ cur'[t] = NULL /\ TD_IS_RUNNING(t)
  BY GoesHow DEF Goto
<1>3. /\ ~TD_ON_LOCK(t) /\ pc[t] = p /\ pc'[t] = "idle"
      /\ \A u \in Thread \ {t} :
           /\ pc'[u] = pc[u] /\ cur'[u] = cur[u] /\ queue'[u] = queue[u]
           /\ v'[u] = v[u] /\ lts'[u] = lts[u]
  BY <1>2 DEF GoesOn
<1>4. /\ t # NULL /\ t # DESTROYED /\ ~IsFree(x) /\ x.owner # DESTROYED
  BY TurnstileAssumption, RwlockAssumption DEF IsFree
<1>5. KnowsOf(t)'
  BY <1>2, <1>3, PlainKnows
<1>6. /\ pc[t] \notin Storing \cup Waking /\ pc'[t] \notin Storing \cup Waking
      /\ pc'[t] \notin Looking /\ pc'[t] \notin Chained /\ pc[t] \in Chained
  BY <1>3 DEF Storing, Waking, Looking, Chained
<1>7. CASE ~HasWaiters(w)
  <2>1. /\ TurnstileTypeOK' /\ ChainKept(t)
        /\ UNCHANGED <<tc_turnstiles, ts_owner, ts_blocked, ts_pending, ts_free>>
        /\ UNCHANGED <<td_turnstile, td_blocked, td_state>>
        /\ \A y \in Turnstiles \ {td_turnstile[t]} : ts_lockobj'[y] = ts_lockobj[y]
    BY <1>3, <1>7, CancelFacts
  <2>2. Settled(l)
    BY <1>1, <1>4, <1>7 DEF Settled
  <2>3. Calm(t)
    BY <1>1, <1>2, <1>3, <1>4, <1>5, <1>6, <2>1, <2>2, ChainCalm
  <2> QED
    BY <2>3, CalmStep
<1>8. CASE HasWaiters(w)
  <2>1. PICK ts \in Turnstiles : ts = lts[t]
    BY <1>3, Here DEF Looking
  <2>2. /\ TurnstileTypeOK' /\ ChainKept(t) /\ ts \in Attached(l)
        /\ ts_owner'[ts] = t /\ \A y \in Turnstiles \ {ts} : ts_owner'[y] = ts_owner[y]
        /\ UNCHANGED <<tc_turnstiles, ts_lockobj, ts_blocked, ts_pending, ts_free>>
        /\ UNCHANGED <<td_turnstile, td_blocked, td_state>>
    BY <1>3, <1>8, <2>1, ClaimFacts
  <2>3. QueuesInjective /\ TurnstileTypeOK
    BY DEF WaitInv, StructInv, QueueInv, QueueOf, QueuesInjective
  <2>4. Reordered
    BY <2>2, <2>3, SameQueues
  <2>5. \A u \in Thread : TD_ON_LOCK(u)' <=> TD_ON_LOCK(u)
    BY <2>2 DEF TD_ON_LOCK
  <2>6. OwnOnly(t) /\ Aside(t)
    BY <1>3, <1>6, <2>2, <2>4, <2>5 DEF OwnOnly, Aside, ListsKept
  <2>7. ControlOf(t)'
    BY <1>6 DEF ControlOf
  <2>8. ControlInv'
    BY <2>2, <2>6, <2>7, ControlStep
  <2>9. /\ StructInv'
        /\ \A n \in Rwlock : /\ Attached(n)' = Attached(n)
                             /\ \A q \in Queue : Has(n, q)' <=> Has(n, q)
    BY <2>6, <2>8, OwnOnlyStep
  <2>10. Alone(t, l) /\ Exact(w, l)
    BY <1>6, AloneInChain
  <2>11. \A y \in Attached(l) : y = ts
    BY <2>2 DEF WaitInv, StructInv, OneAttached
  <2>12. WordOf(l)'
    <3>1. \A q : Bit(x, q) = Bit(w, q)
      BY DEF Bit
    <3>2. Exact(x, l)'
      BY <2>9, <2>10, <3>1 DEF Exact
    <3>3. \A y \in Attached(l)' : ts_owner'[y] = x.owner
      BY <2>2, <2>9, <2>11
    <3> QED
      BY <1>1, <1>4, <2>6, <2>10, <3>2, <3>3, WordThen
  <2>13. /\ ts_lockobj[ts] = l /\ OnChain(ts) /\ \A y \in Turnstiles : OnChain(y)' <=> OnChain(y)
    BY <2>2, AttachedOn DEF OnChain
  <2>14. HasWaiters(rw_lock'[l])
    BY <1>1, <1>8 DEF HasWaiters
  <2> QED
    BY <1>1, <1>2, <1>4, <1>5, <1>6, <2>2, <2>6, <2>9, <2>10, <2>12, <2>13, <2>14, HeldStep
<1> QED
  BY <1>7, <1>8

\* A writer takes a free lock, together with its waiters.
LEMMA ContestFreeStep ==
  ASSUME WaitInv, NEW t \in Thread, ContestFree(t), RwInv'
  PROVE  WaitInv'
<1>1. PICK l \in Rwlock : l = cur[t]
  BY Here DEF ContestFree, Goto
<1>2. PICK x : x = [v[t] EXCEPT !.owner = t, !.spinner = FALSE]
  OBVIOUS
<1>3. /\ Goto(t, "contest", "idle") /\ Return(t) /\ SetWord(l, x) /\ rw_lock[l] = v[t]
      /\ IF HasWaiters(rw_lock[l]) THEN Claim(t) ELSE Cancel(t)
  BY <1>1, <1>2 DEF ContestFree, TakeWrite
<1>4. v[t] \in Word
  BY Here
<1>5. /\ x.owner = t /\ x.spinner = FALSE
      /\ x.read_waiters = rw_lock[l].read_waiters /\ x.write_waiters = rw_lock[l].write_waiters
  BY <1>2, <1>3, <1>4 DEF Word
<1> QED
  BY <1>1, <1>3, <1>5, TakesOver

\* The only reader becomes the writer and claims the waiters' turnstile, or gives up.
LEMMA UpgradeCheckStep ==
  ASSUME WaitInv, NEW t \in Thread, UpgradeCheck(t), RwInv'
  PROVE  WaitInv'
<1>1. PICK l \in Rwlock : l = cur[t]
  BY Here DEF UpgradeCheck, Goto
<1> DEFINE w == rw_lock[l]
<1>2. Goto(t, "up_check", "idle") /\ Return(t)
  BY DEF UpgradeCheck
<1>3. CASE w.readers > 1 /\ Cancel(t) /\ UNCHANGED <<wordVars, heldVars>>
  <2>1. GoesOn(t, l, "up_check", "idle") /\ cur'[t] = NULL /\ TD_IS_RUNNING(t)
    BY <1>1, <1>2, GoesHow DEF Goto
  <2>2. /\ ~TD_ON_LOCK(t) /\ pc[t] = "up_check" /\ pc'[t] = "idle"
        /\ \A u \in Thread \ {t} :
             /\ pc'[u] = pc[u] /\ cur'[u] = cur[u] /\ queue'[u] = queue[u]
             /\ v'[u] = v[u] /\ lts'[u] = lts[u]
    BY <2>1 DEF GoesOn
  <2>3. /\ TurnstileTypeOK' /\ ChainKept(t)
        /\ UNCHANGED <<tc_turnstiles, ts_owner, ts_blocked, ts_pending, ts_free>>
        /\ UNCHANGED <<td_turnstile, td_blocked, td_state>>
        /\ \A y \in Turnstiles \ {td_turnstile[t]} : ts_lockobj'[y] = ts_lockobj[y]
    BY <1>1, <1>3, <2>2, CancelFacts
  <2>4. UNCHANGED rw_lock /\ ~IsFree(w)
    BY <1>3, LockFacts DEF wordVars, IsFree
  <2>5. KnowsOf(t)'
    BY <2>1, <2>2, PlainKnows
  <2>6. /\ pc[t] \notin Storing \cup Waking /\ pc'[t] \notin Storing \cup Waking
        /\ pc'[t] \notin Looking /\ pc'[t] \notin Chained /\ pc[t] \in Chained
    BY <2>2 DEF Storing, Waking, Looking, Chained
  <2>7. Calm(t)
    BY <1>1, <2>1, <2>2, <2>3, <2>4, <2>5, <2>6, ChainCalm
  <2> QED
    BY <2>7, CalmStep
<1>4. CASE /\ w.readers <= 1
           /\ TakeUpgrade(t, l, [w EXCEPT !.owner = t, !.readers = 0, !.spinner = FALSE])
           /\ IF HasWaiters(w) THEN Claim(t) ELSE Cancel(t)
  <2>1. PICK x : x = [w EXCEPT !.owner = t, !.readers = 0, !.spinner = FALSE]
    OBVIOUS
  <2>2. SetWord(l, x) /\ w \in Word
    BY <1>4, <2>1, LockFacts DEF TakeUpgrade
  <2>3. /\ x.owner = t /\ x.spinner = FALSE
        /\ x.read_waiters = w.read_waiters /\ x.write_waiters = w.write_waiters
    BY <2>1, <2>2 DEF Word
  <2> QED
    BY <1>1, <1>2, <1>4, <2>2, <2>3, TakesOver
<1> QED
  BY <1>1, <1>3, <1>4 DEF UpgradeCheck

-----------------------------------------------------------------------------
\* A turnstile that is prepared but not in the hash table has no owner.
LEMMA PreparedUnowned ==
  ASSUME WaitInv, NEW t \in Thread, NEW l \in Rwlock, Alone(t, l), pc[t] \notin Waking,
         NEW ts \in Turnstiles, ts_lockobj[ts] = l, ~OnChain(ts)
  PROVE  ts_owner[ts] = NULL
<1> SUFFICES ASSUME ts_owner[ts] # NULL PROVE FALSE
  OBVIOUS
<1>1. PICK u \in Thread : Releasing(u, ts)
  BY DEF WaitInv, TruthInv, OwnedInv
<1>2. u # t /\ pc[u] \in Waking /\ lts[u] = ts
  BY <1>1 DEF Releasing
<1>3. pc[u] \in Chained /\ cur[u] = l
  BY <1>2, Here DEF LockedOf
<1> QED
  BY <1>2, <1>3 DEF Alone

\* The turnstile that a thread has found or prepared is of its lock.
LEMMA LookedUp ==
  ASSUME WaitInv, NEW t \in Thread, NEW l \in Rwlock, l = cur[t], pc[t] \in Looking
  PROVE  /\ lts[t] \in Turnstiles /\ ts_lockobj[lts[t]] = l /\ pc[t] \in Chained
         /\ Attached(l) \subseteq {lts[t]}
<1>1. LockedOf(t) /\ lts[t] \in Turnstiles /\ pc[t] \in Chained
  BY Here
<1> QED
  BY <1>1, AttachedOn DEF LockedOf, WaitInv, StructInv, OneAttached

\* The bits of a word with the bit of queue k set.
LEMMA AnnouncedBits ==
  ASSUME NEW w \in Word, NEW k \in Queue
  PROVE  LET x == Announced(k, w)
         IN  /\ x.owner = w.owner /\ x.readers = w.readers /\ x.spinner = w.spinner
             /\ Bit(x, k) /\ HasWaiters(x)
             /\ \A q \in Queue \ {k} : Bit(x, q) = Bit(w, q)
             /\ x = w => Bit(w, k) /\ HasWaiters(w)
<1>1. SH # TS_EXCLUSIVE_QUEUE /\ SH = TS_SHARED_QUEUE /\ Queue = {TS_EXCLUSIVE_QUEUE, SH}
  BY DEF SH, TS_SHARED_QUEUE, TS_EXCLUSIVE_QUEUE, Queue
<1>2. CASE k = SH
  <2>1. Announced(k, w) = [w EXCEPT !.read_waiters = TRUE]
    BY <1>1, <1>2 DEF Announced
  <2> QED
    BY <1>1, <1>2, <2>1 DEF Word, Bit, HasWaiters
<1>3. CASE k = TS_EXCLUSIVE_QUEUE
  <2>1. Announced(k, w) = [w EXCEPT !.write_waiters = TRUE]
    BY <1>1, <1>3 DEF Announced
  <2> QED
    BY <1>1, <1>3, <2>1 DEF Word, Bit, HasWaiters
<1> QED
  BY <1>1, <1>2, <1>3

\* The word that _rw_rlock() and _rw_wlock_hard() leave before they wait.
LEMMA ContestWord ==
  ASSUME WaitInv, NEW t \in Thread, ContestHeld(t), NEW l \in Rwlock, l = cur[t],
         NEW k \in Queue, k = queue[t]
  PROVE  LET w == rw_lock[l]
             x == rw_lock'[l]
         IN  /\ x.owner = w.owner /\ x.spinner = w.spinner
             /\ Bit(x, k) /\ HasWaiters(x) /\ ~IsFree(x)
             /\ \A q \in Queue \ {k} : Bit(x, q) = Bit(w, q)
             /\ \A n \in Rwlock \ {l} : rw_lock'[n] = rw_lock[n]
<1> DEFINE w == rw_lock[l]
<1>1. /\ KnowsAt(t, l) /\ v[t] \in Word /\ pc[t] = "contest" /\ w \in Word
  BY Here, LockFacts DEF KnowsOf, ContestHeld, Goto
<1>2. ~IsFree(v[t])
  <2>1. k = SH \/ k = TS_EXCLUSIVE_QUEUE
    BY DEF Queue, SH
  <2> QED
    BY <1>1, <2>1 DEF KnowsAt, ContestHeld
<1>3. CASE v[t] = Announced(k, v[t])
  <2>1. UNCHANGED rw_lock
    BY <1>3 DEF ContestHeld
  <2>2. Bit(v[t], k) /\ HasWaiters(v[t])
    BY <1>1, <1>3, AnnouncedBits
  <2>3. Bit(w, k) /\ ~IsFree(w)
    BY <1>1, <1>2, <2>2 DEF KnowsAt
  <2>4. HasWaiters(w)
    BY <2>3 DEF Bit, HasWaiters
  <2> QED
    BY <2>1, <2>3, <2>4
<1>4. CASE v[t] # Announced(k, v[t])
  <2>1. w = v[t] /\ rw_lock' = [rw_lock EXCEPT ![l] = Announced(k, w)]
    BY <1>4 DEF ContestHeld
  <2>2. PICK x : x = Announced(k, w)
    OBVIOUS
  <2>3. rw_lock'[l] = x /\ \A n \in Rwlock \ {l} : rw_lock'[n] = rw_lock[n]
    BY <2>1, <2>2, StoreWord
  <2>4. /\ x.owner = w.owner /\ x.readers = w.readers /\ x.spinner = w.spinner
        /\ Bit(x, k) /\ HasWaiters(x)
        /\ \A q \in Queue \ {k} : Bit(x, q) = Bit(w, q)
    BY <1>1, <2>2, AnnouncedBits
  <2>5. ~IsFree(x)
    BY <1>2, <2>1, <2>4 DEF IsFree
  <2> QED
    BY <2>3, <2>4, <2>5
<1> QED
  BY <1>3, <1>4

\* The waiter bit is set, or seen to be set, before the thread waits.
LEMMA ContestHeldStep ==
  ASSUME WaitInv, NEW t \in Thread, ContestHeld(t), RwInv'
  PROVE  WaitInv'
<1>1. PICK l \in Rwlock : l = cur[t]
  BY Here DEF ContestHeld, Goto
<1>2. PICK k \in Queue : k = queue[t]
  BY Here
<1>3. PICK x : x = rw_lock'[l]
  OBVIOUS
<1> DEFINE w == rw_lock[l]
<1>4. /\ x.owner = w.owner /\ x.spinner = w.spinner
      /\ Bit(x, k) /\ HasWaiters(x) /\ ~IsFree(x)
      /\ \A q \in Queue \ {k} : Bit(x, q) = Bit(w, q)
      /\ \A n \in Rwlock \ {l} : rw_lock'[n] = rw_lock[n]
  BY <1>1, <1>2, <1>3, ContestWord
<1>5. LocalTypeOK
  BY InvParts DEF WaitInv
<1>6. /\ TD_IS_RUNNING(t) /\ pc[t] = "contest" /\ pc'[t] = "wait"
      /\ UNCHANGED <<cur, queue, lts>>
      /\ \A u \in Thread \ {t} : pc'[u] = pc[u] /\ v'[u] = v[u]
  BY <1>5 DEF ContestHeld, Goto, LocalTypeOK
<1>7. /\ UNCHANGED <<tc_lock, tc_turnstiles, ts_owner, ts_blocked, ts_pending, ts_free>>
      /\ UNCHANGED <<td_turnstile, td_blocked, td_state, ts_lockobj>>
  BY DEF ContestHeld, turnstileVars, chainVars, queueVars
<1>8. TurnstileTypeOK'
  BY DEF ContestHeld, WaitInv, TurnstileTypeOK, turnstileVars, chainVars, queueVars, priVars
<1>9. QueuesInjective /\ TurnstileTypeOK
  BY DEF WaitInv, StructInv, QueueInv, QueueOf, QueuesInjective
<1>10. Reordered
  BY <1>7, <1>9, SameQueues
<1>11. \A u \in Thread : TD_ON_LOCK(u)' <=> TD_ON_LOCK(u)
  BY <1>7 DEF TD_ON_LOCK
<1>12. /\ pc[t] \in Looking /\ pc'[t] \in Looking /\ pc[t] \notin Waking \cup Storing
       /\ pc'[t] \notin Waking /\ pc'[t] \in Storing /\ pc[t] \in Chained
  BY <1>6 DEF Looking, Waking, Storing, Chained
<1>13. Still(t) /\ Aside(t)
  BY <1>6, <1>7, <1>10, <1>11, <1>12 DEF Still, ListsKept, Aside
<1>14. ControlInv'
  <2>1. ControlOf(t)'
    BY <1>6, <1>7, <1>12, Here DEF ControlOf
  <2> QED
    BY <1>7, <1>13, <2>1, ChainLocks, ControlStep
<1>15. StructInv'
  BY <1>13, <1>14, StillStep
<1>16. /\ Alone(t, l) /\ Exact(w, l)
       /\ \A y \in Attached(l) : ts_owner[y] = w.owner
  BY <1>1, <1>6, <1>12, AloneInChain DEF rw_wowner
<1>17. \A n \in Rwlock : /\ Attached(n)' = Attached(n)
                         /\ \A q \in Queue : Has(n, q)' <=> Has(n, q)
  BY <1>7 DEF Attached, Has
<1>18. \A y \in Turnstiles : OnChain(y)' <=> OnChain(y)
  BY <1>7 DEF OnChain
<1>19. PICK ts \in Turnstiles : ts = lts[t] /\ ts_lockobj[ts] = l
  BY <1>1, <1>12, LookedUp
<1>20. ~OnChain(ts) => ts_owner[ts] = NULL
  BY <1>12, <1>16, <1>19, PreparedUnowned
<1>21. x.owner # DESTROYED
  BY <1>1, <1>4, <1>6, LockFacts
<1>22. KnowsOf(t)'
  <2>1. \A q \in Queue \ {k} : Bit(x, q) <=> Has(l, q)'
    BY <1>4, <1>16, <1>17 DEF Exact
  <2>2. queue'[t] = k
    BY <1>2, <1>6
  <2>3. KnowsAt(t, l)'
    BY <1>3, <1>4, <1>6, <1>21, <2>1, <2>2 DEF KnowsAt, Waking
  <2> QED
    BY <1>1, <1>6, <2>3, KnowsThen
<1>23. WordOf(l)'
  <2>1. x.owner # NULL => ~x.spinner
    BY <1>4 DEF WaitInv, TruthInv, WordOf, rw_wowner
  <2>2. \A y \in Attached(l)' : ts_owner'[y] = x.owner
    BY <1>4, <1>7, <1>16, <1>17
  <2> QED
    BY <1>1, <1>3, <1>4, <1>6, <1>12, <1>13, <1>16, <2>1, <2>2, WordThen
<1> QED
  BY <1>1, <1>3, <1>4, <1>6, <1>7, <1>8, <1>12, <1>13, <1>15, <1>16, <1>17, <1>18, <1>19, <1>20, <1>21, <1>22, <1>23, HeldStep

\* turnstile_wait: the waiter joins the queue whose bit is set.
LEMMA WaitStep ==
  ASSUME WaitInv, NEW t \in Thread, Wait(t), RwInv'
  PROVE  WaitInv'
<1>1. PICK l \in Rwlock : l = cur[t]
  BY Here DEF Wait, Goto
<1>2. PICK k \in Queue : k = queue[t]
  BY Here
<1>3. pc[t] = "wait" /\ pc[t] \in Looking /\ pc[t] \in Chained /\ pc[t] \notin Waking
  BY DEF Wait, Goto, Looking, Chained, Waking
<1>4. PICK ts \in Turnstiles : ts = lts[t] /\ ts_lockobj[ts] = l
  BY <1>1, <1>3, LookedUp
<1>5. Joins(t, l, ts, k)
  BY <1>1, <1>2, <1>4, WaitJoins
<1>6. /\ StructInv' /\ Aside(t)
      /\ Attached(l)' = {ts} /\ \A n \in Rwlock \ {l} : Attached(n)' = Attached(n)
      /\ \A q \in Queue : Has(l, q)' <=> (Has(l, q) \/ q = k)
      /\ \A n \in Rwlock \ {l}, q \in Queue : Has(n, q)' <=> Has(n, q)
      /\ \A x \in Turnstiles : OnChain(x)' <=> (OnChain(x) \/ x = ts)
  BY <1>1, <1>2, <1>4, JoinStep
<1>7. PICK w : w = rw_lock[l]
  OBVIOUS
<1>8. KnowsAt(t, l) /\ w \in Word /\ w.owner # DESTROYED
  BY <1>1, <1>3, <1>7, Here, LockFacts DEF KnowsOf
<1>9. /\ Bit(w, k) /\ ~IsFree(w) /\ \A q \in Queue \ {k} : Bit(w, q) <=> Has(l, q)
  BY <1>2, <1>3, <1>7, <1>8 DEF KnowsAt
<1>10. /\ Alone(t, l) /\ \A y \in Attached(l) : ts_owner[y] = w.owner
  BY <1>1, <1>3, <1>7, AloneInChain DEF rw_wowner
<1>11. /\ UNCHANGED <<rw_lock, cur, ts_pending, ts_lockobj>>
       /\ pc' = [pc EXCEPT ![t] = "propagate"]
       /\ \/ ts_owner' = [ts_owner EXCEPT ![ts] = w.owner]
          \/ ts # td_turnstile[t] /\ UNCHANGED ts_owner
  BY <1>5, <1>7 DEF Joins, rw_wowner
<1>12. TurnstileTypeOK /\ LocalTypeOK /\ LockedOf(t)
  BY InvParts, Here DEF WaitInv
<1>13. pc'[t] = "propagate"
  BY <1>11, <1>12 DEF LocalTypeOK
<1>14. ts # td_turnstile[t] => ts \in Attached(l)
  BY <1>1, <1>3, <1>4, <1>12 DEF LockedOf
<1>15. ts_owner'[ts] = w.owner /\ \A y \in Turnstiles \ {ts} : ts_owner'[y] = ts_owner[y]
  BY <1>10, <1>11, <1>12, <1>14 DEF TurnstileTypeOK
<1>16. ts_owner' \in [Turnstiles -> Thread \cup {NULL}]
  <2>1. w.owner \in Thread \cup {NULL}
    BY <1>8 DEF Word
  <2> QED
    BY <1>11, <1>12, <2>1 DEF TurnstileTypeOK
<1>17. TurnstileTypeOK'
  <2>1. /\ ts_blocked' \in [Turnstiles -> [Queue -> Seq(Thread)]]
        /\ tc_turnstiles' \in [Chain -> SUBSET Turnstiles]
        /\ ts_free' \in [Turnstiles -> Seq(Turnstiles)]
        /\ UNCHANGED <<ts_lockobj, ts_pending>>
        /\ td_turnstile' = [td_turnstile EXCEPT ![t] = NULL]
        /\ td_blocked' = [td_blocked EXCEPT ![t] = ts]
        /\ td_state' = [td_state EXCEPT ![t] = "lock"]
        /\ tc_lock' = [tc_lock EXCEPT ![TC_HASH[l]] = NULL]
    BY <1>5 DEF Joins
  <2>2. /\ tc_lock' \in [Chain -> Thread \cup {NULL}]
        /\ td_turnstile' \in [Thread -> Turnstiles \cup {NULL}]
        /\ td_blocked' \in [Thread -> Turnstiles \cup {NULL}]
        /\ td_state' \in [Thread -> {"running", "runq", "lock"}]
    BY <1>12, <2>1 DEF TurnstileTypeOK
  <2>3. /\ UNCHANGED <<ts_lock, td_priority, td_base_pri, td_borrowing>>
        /\ prop' = [prop EXCEPT ![t] = [orig |-> ts, cur |-> ts, pri |-> td_priority[t]]]
    BY <1>4 DEF Wait, turnstile_wait_block
  <2>4. prop' \in [Thread -> [orig : Turnstiles, cur : Turnstiles, pri : Priority] \cup {NULL}]
    BY <1>12, <2>3 DEF TurnstileTypeOK
  <2> QED
    BY <1>12, <1>16, <2>1, <2>2, <2>3, <2>4 DEF TurnstileTypeOK
<1>18. KnowsOf(t)'
  BY <1>1, <1>7, <1>8, <1>11, <1>13, PlainKnows
<1>19. WordOf(l)'
  <2>1. Exact(w, l)'
    BY <1>6, <1>9 DEF Exact
  <2>2. w.owner # NULL => ~w.spinner
    BY <1>7 DEF WaitInv, TruthInv, WordOf, rw_wowner
  <2>3. \A y \in Attached(l)' : ts_owner'[y] = w.owner
    BY <1>6, <1>15
  <2>4. rw_lock'[l] = w
    BY <1>7, <1>11
  <2> QED
    BY <1>6, <1>9, <1>10, <2>1, <2>2, <2>3, <2>4, WordThen
<1>20. HasWaiters(w)
  BY <1>9 DEF Bit, HasWaiters
<1>21. /\ rw_lock'[l].owner # DESTROYED /\ HasWaiters(rw_lock'[l])
       /\ cur'[t] = l
       /\ \A n \in Rwlock \ {l} : rw_lock'[n] = rw_lock[n]
       /\ OnChain(ts)'
       /\ \A x \in Turnstiles \ {ts} : ts_pending'[x] = ts_pending[x] /\ (OnChain(x)' <=> OnChain(x))
  BY <1>1, <1>6, <1>7, <1>8, <1>11, <1>20
<1>22. \A n \in Rwlock \ {l} : Attached(n)' = Attached(n) /\ \A q \in Queue : Has(n, q)' <=> Has(n, q)
  BY <1>6
<1> QED
  BY <1>1, <1>3, <1>4, <1>6, <1>10, <1>15, <1>17, <1>18, <1>19, <1>21, <1>22, HeldStep

\* A step of the propagation of priority leaves the waiters where they are.
LEMMA PropagateStep ==
  ASSUME WaitInv, NEW t \in Thread, Propagate(t), RwInv'
  PROVE  WaitInv'
<1>1. PICK l \in Rwlock : l = cur[t]
  BY Here DEF Propagate
<1>2. propagate_priority(t) /\ pc[t] = "propagate"
  BY DEF Propagate
<1>3. LocalTypeOK /\ TurnstileTypeOK /\ QueuesInjective
  BY InvParts DEF WaitInv, StructInv, QueueInv, QueueOf, QueuesInjective
<1>4. BlockedOnOne
  BY DEF WaitInv, StructInv, LockedInv, LockedOf, BlockedOnOne
<1>5. TurnstileTypeOK' /\ Reordered
  BY <1>2, <1>3, <1>4, PropagateEffect
<1>6. /\ UNCHANGED <<tc_lock, tc_turnstiles, ts_lockobj, ts_owner, ts_pending, ts_free>>
      /\ UNCHANGED <<td_turnstile, td_blocked, td_state>>
  BY <1>2 DEF propagate_priority, chainVars
<1>7. /\ UNCHANGED <<rw_lock, cur, queue, v, lts>>
      /\ pc'[t] \in {"propagate", "blocked"}
      /\ \A u \in Thread \ {t} : pc'[u] = pc[u]
  BY <1>3 DEF Propagate, wordVars, localVars, LocalTypeOK
<1>8. \A u \in Thread : TD_ON_LOCK(u)' <=> TD_ON_LOCK(u)
  BY <1>6 DEF TD_ON_LOCK
<1>9. /\ pc[t] \notin Looking \cup Waking \cup Storing
      /\ pc'[t] \notin Looking \cup Waking \cup Storing \cup Chained
      /\ pc[t] # "down_store" /\ pc'[t] # "down_store"
  BY <1>2, <1>7 DEF Looking, Waking, Storing, Chained
<1>10. Still(t) /\ Aside(t) /\ ListsKept
  BY <1>5, <1>6, <1>7, <1>8, <1>9 DEF Still, ListsKept, Aside
<1>11. StructInv'
  <2>1. ControlOf(t)'
    BY <1>9 DEF ControlOf
  <2>2. ControlInv'
    BY <1>6, <1>1, <1>10, <2>1, ChainLocks, ControlStep
  <2> QED
    BY <1>10, <2>2, StillStep
<1>12. \A n \in Rwlock : /\ Attached(n)' = Attached(n)
                         /\ \A q \in Queue : Has(n, q)' <=> Has(n, q)
  BY <1>6, <1>10, ListsKeptFacts
<1>13. ASSUME NEW n \in Rwlock PROVE Mild(t, n)
  <2>1. WordOf(n)
    BY DEF WaitInv, TruthInv
  <2> QED
    BY <1>6, <1>7, <1>8, <1>9, <1>12, <2>1 DEF Mild, WordOf, rw_wowner
<1>14. KnowsOf(t)'
  BY <1>1, <1>2, <1>7, LockFacts, PlainKnows
<1>15. OwnedInv'
  <2> SUFFICES ASSUME NEW x \in Turnstiles, ~OnChain(x)', ts_owner'[x] # NULL
               PROVE  \E u \in Thread : Releasing(u, x)'
    BY DEF OwnedInv
  <2>1. ~OnChain(x) /\ ts_owner[x] # NULL
    BY <1>6 DEF OnChain
  <2>2. PICK u \in Thread : Releasing(u, x)
    BY <2>1 DEF WaitInv, TruthInv, OwnedInv
  <2>3. u # t
    BY <2>2, <1>9 DEF Releasing
  <2> QED
    BY <2>2, <2>3, <1>10 DEF Releasing, Aside
<1>16. TruthInv'
  BY <1>6, <1>10, <1>13, <1>14, <1>15, TruthStep
<1> QED
  BY <1>5, <1>11, <1>16 DEF WaitInv

\* The word that wakes one queue: which one, and what is left of the bits.
LEMMA ReleasedBits ==
  ASSUME NEW l \in Rwlock, NEW w \in Word, HasWaiters(w), Exact(w, l)
  PROVE  LET x == Released(w)
             k == WakeQueue(w)
         IN  /\ k \in Queue /\ Has(l, k)
             /\ x.owner = NULL /\ x.readers = 0 /\ ~x.write_waiters /\ ~x.spinner
             /\ \A q \in Queue : Bit(x, q) <=> Has(l, q) /\ q # k
<1> DEFINE x == Released(w)
<1>1. SH # TS_EXCLUSIVE_QUEUE /\ SH = TS_SHARED_QUEUE /\ Queue = {TS_EXCLUSIVE_QUEUE, SH}
  BY DEF SH, TS_SHARED_QUEUE, TS_EXCLUSIVE_QUEUE, Queue
<1>2. /\ x.owner = NULL /\ x.readers = 0 /\ ~x.write_waiters /\ ~x.spinner
      /\ x.read_waiters = (w.write_waiters /\ w.read_waiters)
  BY DEF Released, RW_UNLOCKED, RW_READERS_LOCK
<1>3. /\ Bit(w, SH) = w.read_waiters /\ Bit(w, TS_EXCLUSIVE_QUEUE) = w.write_waiters
      /\ Bit(x, SH) = x.read_waiters /\ Bit(x, TS_EXCLUSIVE_QUEUE) = x.write_waiters
  BY <1>1 DEF Bit
<1>4. w.read_waiters \in BOOLEAN /\ w.write_waiters \in BOOLEAN
  BY DEF Word
<1>5. (w.read_waiters <=> Has(l, SH)) /\ (w.write_waiters <=> Has(l, TS_EXCLUSIVE_QUEUE))
  BY <1>1, <1>3 DEF Exact
<1> HIDE DEF x
<1>6. CASE w.write_waiters
  <2>1. WakeQueue(w) = TS_EXCLUSIVE_QUEUE
    BY <1>6 DEF WakeQueue
  <2> QED
    BY <1>1, <1>2, <1>3, <1>4, <1>5, <1>6, <2>1 DEF x
<1>7. CASE ~w.write_waiters
  <2>1. WakeQueue(w) = SH /\ w.read_waiters
    BY <1>1, <1>7 DEF WakeQueue, HasWaiters
  <2> QED
    BY <1>1, <1>2, <1>3, <1>4, <1>5, <1>7, <2>1 DEF x
<1> QED
  BY <1>6, <1>7

\* The last reader is alone.
LEMMA OnlyReader ==
  ASSUME WaitInv, NEW t \in Thread, NEW u \in Thread, NEW l \in Rwlock,
         ReadsOf(t, l) # {}, ReadsOf(u, l) # {}, rw_lock[l].readers = 1
  PROVE  u = t
<1>1. HoldInv
  BY InvParts DEF WaitInv
<1>2. IsFiniteSet(rheld[l]) /\ Cardinality(rheld[l]) = 1
  BY <1>1 DEF HoldInv, ReadInv, AccountInv
<1>3. PICK r : rheld[l] = {r}
  BY <1>2, FS_Singleton
<1> QED
  BY <1>3 DEF ReadsOf

\* The last reader frees the lock and has still to look for the waiters.
LEMMA RunlockChainStep ==
  ASSUME WaitInv, NEW t \in Thread, RunlockChain(t), rw_lock[cur[t]].readers = 1, RwInv'
  PROVE  WaitInv'
<1>1. PICK l \in Rwlock : l = cur[t]
  BY Here DEF RunlockChain
<1>2. PICK w \in Word : w = rw_lock[l]
  BY LockFacts
<1>3. PICK x, k : x = Released(w) /\ k = WakeQueue(w)
  OBVIOUS
<1>4. LocalTypeOK /\ TurnstileTypeOK
  BY InvParts DEF WaitInv
<1>5. /\ TD_IS_RUNNING(t) /\ pc[t] = "runlock_chain" /\ pc' = [pc EXCEPT ![t] = "wake"]
      /\ turnstile_chain_lock(t, l) /\ SetWord(l, x)
      /\ queue' = [queue EXCEPT ![t] = k]
      /\ UNCHANGED <<tc_turnstiles, ts_lock, queueVars, td_state, priVars, cur, v, lts>>
  BY <1>1, <1>2, <1>3 DEF RunlockChain, Goto
<1>6. /\ pc'[t] = "wake" /\ queue'[t] = k /\ UNCHANGED <<cur, v, lts>>
      /\ \A u \in Thread \ {t} : pc'[u] = pc[u] /\ queue'[u] = queue[u]
  BY <1>4, <1>5 DEF LocalTypeOK
<1>7. /\ UNCHANGED <<tc_turnstiles, ts_owner, ts_blocked, ts_pending, ts_free>>
      /\ UNCHANGED <<td_turnstile, td_blocked, td_state, ts_lockobj, ts_lock, priVars>>
  BY <1>5 DEF queueVars
<1>8. rw_lock'[l] = x /\ \A n \in Rwlock \ {l} : rw_lock'[n] = rw_lock[n]
  BY <1>5, StoreWord DEF SetWord
<1>9. /\ pc[t] \notin Looking \cup Waking \cup Storing \cup Chained
      /\ pc'[t] \notin Looking \cup Waking
      /\ pc'[t] \in Storing /\ pc'[t] \in Chained
      /\ pc[t] # "down_store" /\ pc'[t] # "down_store"
  BY <1>5, <1>6 DEF Looking, Waking, Storing, Chained
<1>10. tc_lock[TC_HASH[l]] = NULL
  BY <1>5 DEF turnstile_chain_lock
<1>11. /\ Alone(t, l) /\ Exact(w, l) /\ \A ts \in Attached(l) : ts_owner[ts] = w.owner
  BY <1>1, <1>2, <1>5, <1>9, <1>10, AloneInChain DEF rw_wowner
<1>12. HasWaiters(w) /\ ReadsOf(t, l) # {} /\ w.owner = NULL /\ NULL # DESTROYED
  BY <1>1, <1>2, <1>5, Here, LockFacts DEF KnowsOf, KnowsAt, ReadPath, rw_wowner
<1>13. /\ k \in Queue /\ Has(l, k)
       /\ x.owner = NULL /\ x.readers = 0 /\ ~x.write_waiters /\ ~x.spinner
       /\ \A q \in Queue : Bit(x, q) <=> Has(l, q) /\ q # k
  BY <1>3, <1>11, <1>12, ReleasedBits
<1>14. PICK ts \in Attached(l) : TRUE
  BY <1>13 DEF Has
<1>15. ts \in Turnstiles /\ ts_lockobj[ts] = l /\ OnChain(ts)
  BY <1>14, AttachedOn
<1>16. /\ \A n \in Rwlock : /\ Attached(n)' = Attached(n)
                            /\ \A q \in Queue : Has(n, q)' <=> Has(n, q)
       /\ \A y \in Turnstiles : OnChain(y)' <=> OnChain(y)
  BY <1>7 DEF Attached, Has, OnChain
<1>17. Reordered
  BY <1>4, <1>7, SameQueues DEF WaitInv, StructInv, QueueInv, QueueOf, QueuesInjective
<1>18. \A u \in Thread : TD_ON_LOCK(u)' <=> TD_ON_LOCK(u)
  BY <1>7 DEF TD_ON_LOCK
<1>19. ~TD_ON_LOCK(t)
  BY <1>5 DEF TD_IS_RUNNING, TD_ON_LOCK
<1>20. Still(t) /\ Aside(t)
  BY <1>6, <1>7, <1>9, <1>17, <1>18, <1>19 DEF Still, ListsKept, Aside
<1>21. ChainKept(t) /\ tc_lock'[TC_HASH[l]] = t /\ tc_lock' \in [Chain -> Thread \cup {NULL}]
  BY <1>5, ChainLocks
<1>22. ControlInv'
  <2>1. ControlOf(t)'
    BY <1>1, <1>6, <1>9, <1>21 DEF ControlOf
  <2> QED
    BY <1>20, <1>21, <2>1, ControlStep
<1>23. StructInv'
  BY <1>20, <1>22, StillStep
<1>24. TurnstileTypeOK'
  <2>1. ts_lock' \in [Turnstiles -> Thread \cup {NULL}] /\ ts_lockobj' \in [Turnstiles -> Lock \cup {NULL}]
    BY <1>4, <1>7 DEF TurnstileTypeOK
  <2> QED
    BY <1>7, <1>21, <2>1, ChainTypes
<1>25. KnowsOf(t)'
  <2>1. \A q \in Queue : Bit(x, q) <=> Has(l, q)' /\ q # k
    BY <1>13, <1>16
  <2>2. Has(l, k)'
    BY <1>13, <1>16
  <2>3. Has(l, queue[t])'
    BY <1>6, <2>2 DEF Has
  <2>4. \A y \in Attached(l)' : ts_owner'[y] = NULL
    BY <1>7, <1>11, <1>12, <1>16
  <2>5. KnowsAt(t, l)'
    BY <1>6, <1>8, <1>12, <1>13, <2>1, <2>3, <2>4 DEF KnowsAt, Waking
  <2> QED
    BY <1>1, <1>6, <2>5, KnowsThen
<1>26. WordOf(l)'
  BY <1>1, <1>6, <1>8, <1>9, <1>11, <1>13, <1>18, <1>19, <1>20, WordThen
<1>27. ASSUME NEW u \in Thread \ {t}, cur[u] = l, pc[u] = "runlock_chain" PROVE FALSE
  <2>1. ReadsOf(u, l) # {}
    BY <1>27, LockFacts DEF ReadPath
  <2>2. rw_lock[l].readers = 1
    BY <1>1
  <2> QED
    BY <1>12, <2>1, <2>2, OnlyReader
<1>28. rw_lock'[l].owner # DESTROYED
  BY <1>8, <1>12, <1>13
<1> QED
  BY <1>1, <1>6, <1>7, <1>8, <1>9, <1>11, <1>15, <1>16, <1>20, <1>23, <1>24, <1>25, <1>26, <1>27, <1>28, HeldStep

-----------------------------------------------------------------------------
\* The types after a broadcast, and when the turnstile stays in the hash table.
LEMMA WakesTypes ==
  ASSUME WaitInv, NEW t \in Thread, NEW l \in Rwlock, NEW ts \in Turnstiles,
         NEW k \in Queue, Wakes(t, l, ts, k), UNCHANGED <<ts_owner, priVars>>,
         tc_lock' \in [Chain -> Thread \cup {NULL}], ts_lock' \in [Turnstiles -> Thread \cup {NULL}]
  PROVE  /\ TurnstileTypeOK'
         /\ \A y \in Attached(l)' : y = ts /\ \E r \in Queue \ {k} : Has(l, r)
<1> DEFINE s == ts_blocked[ts][k]
           f == ts_free[ts]
<1>1. HandsOut(l, ts, k) /\ Len(s) \in Nat
  BY WakesFacts
<1>2. /\ TurnstileTypeOK /\ Queue = {EX, SH} /\ EX # SH
      /\ s \in Seq(Thread) /\ f \in Seq(Turnstiles)
  BY Lists DEF WaitInv
<1>3. SubSeq(f, Len(s) + 1, Len(f)) \in Seq(Turnstiles)
  BY <1>1, <1>2, SuffixEffect
<1>4. /\ ts_pending' \in [Turnstiles -> Seq(Thread)]
      /\ ts_free' \in [Turnstiles -> Seq(Turnstiles)]
  BY <1>1, <1>2, <1>3 DEF HandsOut, TurnstileTypeOK
<1>5. ts_blocked' \in [Turnstiles -> [Queue -> Seq(Thread)]]
  <2>1. <<>> \in Seq(Thread) /\ ts_blocked' = [ts_blocked EXCEPT ![ts][k] = <<>>]
    BY <1>1 DEF HandsOut
  <2> QED
    BY <1>2, <2>1 DEF TurnstileTypeOK
<1>6. /\ tc_turnstiles' \in [Chain -> SUBSET Turnstiles]
      /\ td_turnstile' \in [Thread -> Turnstiles \cup {NULL}]
      /\ UNCHANGED <<ts_lockobj, td_blocked, td_state>>
  <2>1. TC_HASH[l] \in Chain
    BY TurnstileAssumption
  <2>2. tc_turnstiles \in [Chain -> SUBSET Turnstiles]
    BY <1>2 DEF TurnstileTypeOK
  <2>3. /\ td_turnstile' \in [Thread -> Turnstiles \cup {NULL}]
        /\ tc_turnstiles' \in {tc_turnstiles,
              [tc_turnstiles EXCEPT ![TC_HASH[l]] = @ \ {ts}]}
    <3>1. tc_turnstiles' = [tc_turnstiles EXCEPT ![TC_HASH[l]] =
                             IF Len(s) > Len(f) THEN @ \ {ts} ELSE @]
      BY <1>1 DEF HandsOut
    <3> HIDE DEF s, f
    <3> QED
      BY <1>1, <3>1, <2>1, <2>2 DEF HandsOut
  <2>4. UNCHANGED <<ts_lockobj, td_blocked, td_state>>
    BY DEF Wakes
  <2> QED
    BY <2>1, <2>2, <2>3, <2>4
<1>7. TurnstileTypeOK'
  BY <1>2, <1>4, <1>5, <1>6 DEF TurnstileTypeOK, priVars
<1>8. ASSUME NEW y \in Attached(l)'
      PROVE  y = ts /\ \E r \in Queue \ {k} : Has(l, r)
  <2>1. y = ts
    BY <1>8, WakesStep
  <2>2. PICK r \in Queue : r # k
    BY <1>2
  <2>3. ts \in Attached(l)
    BY DEF Wakes
  <2>4. Len(s) > Len(f) <=> ts_blocked[ts][r] = <<>>
    BY <2>2, <2>3, TwoQueues
  <2>5. ts \in tc_turnstiles'[TC_HASH[l]]
    BY <1>8, <2>1 DEF Attached
  <2>6. ~(Len(s) > Len(f))
    <3>1. TC_HASH[l] \in Chain /\ tc_turnstiles \in [Chain -> SUBSET Turnstiles]
      BY <1>2, TurnstileAssumption DEF TurnstileTypeOK
    <3>2. tc_turnstiles' = [tc_turnstiles EXCEPT ![TC_HASH[l]] = IF Len(s) > Len(f) THEN @ \ {ts} ELSE @]
      BY <1>1 DEF HandsOut
    <3> QED
      BY <2>5, <3>1, <3>2
  <2>7. Has(l, r)
    BY <2>3, <2>4, <2>6 DEF Has
  <2> QED
    BY <2>1, <2>2, <2>7
<1> QED
  BY <1>7, <1>8

\* What a thread that wakes queue k of l makes of the invariant, when x is the word.
LEMMA WakesHeld ==
  ASSUME WaitInv, NEW t \in Thread, NEW l \in Rwlock, NEW ts \in Turnstiles,
         NEW k \in Queue, Wakes(t, l, ts, k), UNCHANGED <<ts_owner, priVars>>,
         tc_lock' \in [Chain -> Thread \cup {NULL}], ts_lock' \in [Turnstiles -> Thread \cup {NULL}],
         \A n \in Rwlock \ {l} : rw_lock'[n] = rw_lock[n],
         NEW x, rw_lock'[l] = x, x.owner # DESTROYED,
         IsFree(x) => ~x.write_waiters /\ ~x.spinner, x.owner # NULL => ~x.spinner,
         pc'[t] = "release" \/ \A q \in Queue : Bit(x, q) <=> (Has(l, q) /\ q # k),
         pc'[t] = "release" => HasWaiters(x) /\ ~v'[t].write_waiters /\ ~v'[t].spinner
                               /\ \A q \in Queue : Bit(v'[t], q) <=> (Has(l, q) /\ q # k),
         pc'[t] = "unpend" => (HasWaiters(x) => x.owner = NULL),
         ts_owner[ts] \in {t, NULL},
         \A r \in Queue \ {k} : Has(l, r) => ts_owner[ts] = x.owner,
         \A u \in Thread \ {t} : cur[u] = l /\ pc[u] = "runlock_chain" => HasWaiters(x),
         RwInv'
  PROVE  WaitInv'
<1>1. /\ StructInv' /\ Aside(t) /\ ts_pending'[ts] # <<>>
      /\ Attached(l)' \subseteq {ts} /\ \A n \in Rwlock \ {l} : Attached(n)' = Attached(n)
      /\ \A q \in Queue : Has(l, q)' <=> (Has(l, q) /\ q # k)
      /\ \A n \in Rwlock \ {l}, q \in Queue : Has(n, q)' <=> Has(n, q)
      /\ \A y \in Turnstiles \ {ts} : /\ OnChain(y)' <=> OnChain(y)
                                      /\ ts_pending'[y] = ts_pending[y]
  BY WakesStep
<1>2. /\ TurnstileTypeOK'
      /\ \A y \in Attached(l)' : y = ts /\ \E r \in Queue \ {k} : Has(l, r)
  BY WakesTypes
<1>3. /\ cur[t] = l /\ pc[t] \notin Waking /\ ts \in Attached(l)
      /\ pc'[t] \in Waking /\ lts'[t] = ts /\ cur'[t] = l
      /\ ~TD_ON_LOCK(t) /\ UNCHANGED td_state
      /\ \A u \in Thread \ {t} : pc[u] \in Chained => TC_HASH[cur[u]] # TC_HASH[l]
  BY DEF Wakes
<1>4. Alone(t, l) /\ ts_lockobj[ts] = l
  BY <1>3, AttachedOn DEF Alone
<1>5. ~TD_ON_LOCK(t)'
  BY <1>3 DEF TD_ON_LOCK
<1>6. pc'[t] \in {"release", "unpend"}
  BY <1>3 DEF Waking
<1>7. KnowsOf(t)'
  <2>1. ts_pending'[lts'[t]] # <<>> /\ ts_owner'[lts'[t]] \in {t, NULL}
    BY <1>1, <1>3
  <2>2. pc'[t] = "release" => Exact(v[t], l)'
    BY <1>1 DEF Exact
  <2>3. KnowsAt(t, l)'
    BY <1>6, <2>1, <2>2 DEF KnowsAt
  <2> QED
    BY <1>3, <1>6, <2>3, KnowsThen
<1>8. WordOf(l)'
  <2>1. pc'[t] \in Storing \/ Exact(x, l)'
    BY <1>1 DEF Exact, Storing
  <2>2. \A y \in Attached(l)' : ts_owner'[y] = x.owner
    BY <1>2
  <2> QED
    BY <1>1, <1>3, <1>4, <1>5, <2>1, <2>2, WordThen
<1>9. Releasing(t, ts)'
  BY <1>3 DEF Releasing
<1>10. \A n \in Rwlock \ {l} :
           /\ rw_lock'[n] = rw_lock[n] /\ Attached(n)' = Attached(n)
           /\ \A q \in Queue : Has(n, q)' <=> Has(n, q)
  BY <1>1
<1> QED
  BY <1>1, <1>2, <1>3, <1>4, <1>7, <1>8, <1>9, <1>10, HeldStep

\* The queue that is woken has threads in it.
LEMMA WokenQueue ==
  ASSUME WaitInv, NEW l \in Rwlock, NEW ts \in Attached(l), NEW k \in Queue, Has(l, k)
  PROVE  ts_blocked[ts][k] # <<>>
BY DEF Has, WaitInv, StructInv, OneAttached

\* The last reader, its word stored, empties the queue that word has forgotten.
LEMMA WakeStep ==
  ASSUME WaitInv, NEW t \in Thread, Wake(t), RwInv'
  PROVE  WaitInv'
<1>1. PICK l \in Rwlock : l = cur[t]
  BY Here DEF Wake, Goto
<1>2. PICK k \in Queue : k = queue[t]
  BY Here
<1>3. PICK x \in Word : x = rw_lock[l]
  BY LockFacts
<1>4. PICK ts \in Turnstiles : /\ turnstile_lookup(t, l, ts) /\ turnstile_broadcast(l, ts, k)
                               /\ lts' = [lts EXCEPT ![t] = ts]
  BY <1>1, <1>2 DEF Wake, LookupBroadcast
<1>5. LocalTypeOK /\ TurnstileTypeOK
  BY InvParts DEF WaitInv
<1>6. /\ TD_IS_RUNNING(t) /\ pc[t] = "wake" /\ pc' = [pc EXCEPT ![t] = "unpend"]
      /\ UNCHANGED <<tc_lock, rw_lock, cur, queue, v>>
      /\ UNCHANGED <<ts_lockobj, ts_owner, td_blocked, td_state, priVars>>
  BY DEF Wake, Goto, LookupBroadcast, wordVars
<1>7. /\ pc'[t] = "unpend" /\ lts'[t] = ts
      /\ \A u \in Thread \ {t} : pc'[u] = pc[u] /\ lts'[u] = lts[u]
  BY <1>4, <1>5, <1>6 DEF LocalTypeOK
<1>8. /\ pc[t] \in Chained /\ pc[t] \notin Waking /\ pc'[t] \in Waking /\ ~TD_ON_LOCK(t)
  BY <1>6, <1>7 DEF Chained, Waking, TD_IS_RUNNING, TD_ON_LOCK
<1>9. ts \in Attached(l) /\ ts_lock' \in [Turnstiles -> Thread \cup {NULL}]
  BY <1>4, <1>5 DEF turnstile_lookup, TurnstileTypeOK
<1>10. KnowsAt(t, l) /\ tc_lock[TC_HASH[l]] = t /\ x.owner # DESTROYED
  BY <1>1, <1>3, <1>6, <1>8, Here, LockFacts DEF KnowsOf
<1>11. /\ \A q \in Queue : Bit(x, q) <=> (Has(l, q) /\ q # k)
       /\ Has(l, k) /\ ts_owner[ts] = NULL /\ (HasWaiters(x) => x.owner = NULL)
  BY <1>2, <1>3, <1>6, <1>9, <1>10 DEF KnowsAt
<1>12. \A u \in Thread \ {t} : pc[u] \in Chained => TC_HASH[cur[u]] # TC_HASH[l]
  BY <1>1, <1>8, AloneInChain
<1>13. Wakes(t, l, ts, k)
  <2>1. ts_blocked[ts][k] # <<>>
    BY <1>9, <1>11, WokenQueue
  <2>2. ChainKept(t) /\ tc_lock'[TC_HASH[l]] = t
    BY <1>6, <1>10, ChainLocks
  <2> QED
    BY <1>1, <1>4, <1>6, <1>7, <1>8, <1>9, <1>12, <2>1, <2>2 DEF Wakes
<1>14. \A r \in Queue \ {k} : Has(l, r) => ts_owner[ts] = x.owner
  <2>1. \A r \in Queue : Bit(x, r) => HasWaiters(x)
    BY DEF Bit, HasWaiters
  <2> QED
    BY <1>11, <2>1
<1>15. /\ IsFree(x) => ~x.write_waiters /\ ~x.spinner
       /\ x.owner # NULL => ~x.spinner
  BY <1>3 DEF WaitInv, TruthInv, WordOf, rw_wowner
<1>16. \A u \in Thread \ {t} : cur[u] = l /\ pc[u] = "runlock_chain" => HasWaiters(x)
  BY <1>3, Here DEF KnowsOf, KnowsAt
<1>17. tc_lock' \in [Chain -> Thread \cup {NULL}] /\ rw_lock'[l] = x
  BY <1>3, <1>5, <1>6 DEF TurnstileTypeOK
<1> QED
  BY <1>6, <1>7, <1>9, <1>10, <1>11, <1>13, <1>14, <1>15, <1>16, <1>17, WakesHeld

\* The writer empties the queue to wake before it stores its word.
LEMMA WunlockStep ==
  ASSUME WaitInv, NEW t \in Thread, Wunlock(t), RwInv'
  PROVE  WaitInv'
<1>1. PICK l \in Rwlock : l = cur[t]
  BY Here DEF Wunlock, Goto
<1>2. PICK x \in Word : x = rw_lock[l]
  BY LockFacts
<1>3. PICK k : k = WakeQueue(x)
  OBVIOUS
<1>4. PICK ts \in Turnstiles : /\ turnstile_lookup(t, l, ts) /\ turnstile_broadcast(l, ts, k)
                               /\ lts' = [lts EXCEPT ![t] = ts]
  BY <1>1, <1>2, <1>3 DEF Wunlock, LookupBroadcast
<1>5. LocalTypeOK /\ TurnstileTypeOK
  BY InvParts DEF WaitInv
<1>6. /\ TD_IS_RUNNING(t) /\ pc[t] = "wunlock" /\ pc' = [pc EXCEPT ![t] = "release"]
      /\ UNCHANGED <<rw_lock, cur, queue>> /\ v' = [v EXCEPT ![t] = Released(x)]
      /\ turnstile_chain_lock(t, l)
      /\ UNCHANGED <<ts_lockobj, ts_owner, td_blocked, td_state, priVars>>
  BY <1>1, <1>2 DEF Wunlock, Goto, LookupBroadcast, wordVars
<1>7. /\ pc'[t] = "release" /\ lts'[t] = ts /\ v'[t] = Released(x)
      /\ \A u \in Thread \ {t} : pc'[u] = pc[u] /\ lts'[u] = lts[u] /\ v'[u] = v[u]
  BY <1>4, <1>5, <1>6 DEF LocalTypeOK
<1>8. /\ pc[t] \notin Waking \cup Storing /\ pc'[t] \in Waking /\ ~TD_ON_LOCK(t)
      /\ pc[t] \in WritePath
  BY <1>6, <1>7 DEF Storing, Waking, TD_IS_RUNNING, TD_ON_LOCK, WritePath
<1>9. ts \in Attached(l) /\ ts_lock' \in [Turnstiles -> Thread \cup {NULL}]
  BY <1>4, <1>5 DEF turnstile_lookup, TurnstileTypeOK
<1>10. tc_lock[TC_HASH[l]] = NULL /\ x.owner = t /\ t # NULL /\ x.owner # DESTROYED
  BY <1>1, <1>2, <1>6, <1>8, LockFacts DEF turnstile_chain_lock, rw_wowner
<1>11. /\ \A u \in Thread \ {t} : pc[u] \in Chained => TC_HASH[cur[u]] # TC_HASH[l]
       /\ Alone(t, l) /\ Exact(x, l) /\ ts_owner[ts] = t
  BY <1>1, <1>2, <1>6, <1>8, <1>9, <1>10, AloneInChain DEF rw_wowner
<1>12. HasWaiters(x)
  <2>1. ~\E u \in Thread : cur[u] = l /\ pc[u] = "wake"
    BY <1>6, <1>11 DEF Alone, Chained
  <2> QED
    BY <1>2, <1>9, <2>1, AttachedMarked
<1>13. /\ k \in Queue /\ Has(l, k)
       /\ ~v'[t].write_waiters /\ ~v'[t].spinner
       /\ \A q \in Queue : Bit(v'[t], q) <=> (Has(l, q) /\ q # k)
  BY <1>3, <1>7, <1>11, <1>12, ReleasedBits
<1>14. tc_lock' \in [Chain -> Thread \cup {NULL}] /\ ChainKept(t) /\ tc_lock'[TC_HASH[l]] = t
  BY <1>6, ChainLocks
<1>15. Wakes(t, l, ts, k)
  <2>1. ts_blocked[ts][k] # <<>>
    BY <1>9, <1>13, WokenQueue
  <2> QED
    BY <1>1, <1>4, <1>6, <1>7, <1>8, <1>9, <1>11, <1>14, <2>1 DEF Wakes
<1>16. ~IsFree(x) /\ ~x.spinner
  BY <1>2, <1>10 DEF WaitInv, TruthInv, WordOf, rw_wowner, IsFree
<1>17. rw_lock'[l] = x
  BY <1>2, <1>6
<1> QED
  BY <1>6, <1>7, <1>9, <1>10, <1>11, <1>12, <1>13, <1>14, <1>15, <1>16, <1>17, WakesHeld

\* The waiters that were taken off the queues become runnable, when x is the word.
LEMMA UnpendsHeld ==
  ASSUME WaitInv, NEW t \in Thread, NEW l \in Rwlock, NEW ts \in Turnstiles,
         Unpends(t, l, ts), \A n \in Rwlock \ {l} : rw_lock'[n] = rw_lock[n],
         NEW x, rw_lock'[l] = x, x.owner # DESTROYED, Exact(x, l),
         IsFree(x) => ~x.write_waiters /\ ~x.spinner, x.owner # NULL => ~x.spinner,
         HasWaiters(x) => x.owner = NULL,
         \A u \in Thread \ {t} : cur[u] = l /\ pc[u] = "runlock_chain" => HasWaiters(x),
         RwInv'
  PROVE  WaitInv'
<1>1. /\ StructInv' /\ Aside(t)
      /\ \A n \in Rwlock : /\ Attached(n)' = Attached(n)
                           /\ \A q \in Queue : Has(n, q)' <=> Has(n, q)
      /\ \A y \in Turnstiles : OnChain(y)' <=> OnChain(y)
  BY UnpendStep
<1>2. /\ TurnstileTypeOK' /\ ts_lockobj[ts] = l /\ pc'[t] = "idle" /\ cur'[t] = NULL
      /\ ts_owner'[ts] = NULL
      /\ \A y \in Turnstiles \ {ts} : ts_pending'[y] = ts_pending[y] /\ ts_owner'[y] = ts_owner[y]
      /\ \A u \in ToSet(ts_pending[ts]) : u \in Thread /\ cur[u] = l /\ TD_ON_LOCK(u) /\ ~TD_ON_LOCK(u)'
      /\ ~TD_ON_LOCK(t)
  BY UnpendFacts
<1>3. cur[t] = l /\ lts[t] = ts /\ pc[t] \in Waking /\ pc[t] \in Chained
  BY DEF Unpends, Waking, Chained
<1>4. Alone(t, l)
  BY <1>3, AloneInChain
<1>5. KnowsOf(t)'
  BY <1>2, PlainKnows
<1>6. \E u \in Thread : cur'[u] = l /\ ~TD_ON_LOCK(u)'
  <2>1. ts_pending[ts] # <<>>
    BY <1>3, Here DEF KnowsOf, KnowsAt
  <2>2. ts_pending[ts] \in Seq(Thread)
    BY Lists DEF WaitInv
  <2>3. PICK u \in ToSet(ts_pending[ts]) : TRUE
    BY <2>1, <2>2, EmptySeqIs
  <2>4. u \in Thread /\ cur[u] = l /\ ~TD_ON_LOCK(u)' /\ u # t
    BY <1>2, <2>3
  <2> QED
    BY <1>1, <2>4 DEF Aside
<1>7. \A y \in Attached(l)' : ts_owner'[y] = x.owner
  <2> SUFFICES ASSUME NEW y \in Attached(l)' PROVE ts_owner'[y] = x.owner
    OBVIOUS
  <2>1. y \in Attached(l)
    BY <1>1
  <2>2. LockedOf(t)
    BY Here
  <2>3. y = ts
    BY <1>3, <2>1, <2>2 DEF LockedOf
  <2>4. Has(l, EX) \/ Has(l, SH)
    BY <2>1, AttachedOn, OnChainHasWaiters DEF Has
  <2>5. EX \in Queue /\ SH \in Queue /\ \A q : Bit(x, q) => HasWaiters(x)
    BY DEF EX, SH, Queue, Bit, HasWaiters
  <2>6. HasWaiters(x)
    BY <2>4, <2>5 DEF Exact
  <2> QED
    BY <1>2, <2>3, <2>6
<1>8. WordOf(l)'
  <2>1. Exact(x, l)'
    BY <1>1 DEF Exact
  <2> QED
    BY <1>1, <1>4, <1>6, <1>7, <2>1, WordThen
<1>9. ts_owner'[ts] = NULL /\ rw_lock'[l].owner # DESTROYED /\ cur'[t] \in {l, NULL}
  BY <1>2
<1> QED
  BY <1>1, <1>2, <1>3, <1>4, <1>5, <1>8, <1>9, HeldStep

\* The last reader's call, or a downgrade, ends with turnstile_unpend.
LEMMA UnpendReturns ==
  ASSUME WaitInv, NEW t \in Thread, Unpend(t), RwInv'
  PROVE  WaitInv'
<1>1. PICK l \in Rwlock : l = cur[t]
  BY Here DEF Unpend, Goto
<1>2. PICK x \in Word : x = rw_lock[l]
  BY LockFacts
<1>3. pc[t] = "unpend" /\ pc[t] \in Waking /\ pc[t] \in Chained /\ pc[t] \notin Storing
  BY DEF Unpend, Goto, Waking, Chained, Storing
<1>4. PICK ts \in Turnstiles : ts = lts[t]
  BY <1>3, Here
<1>5. Unpends(t, l, ts)
  BY <1>1, <1>3, <1>4 DEF Unpends, Unpend, Goto
<1>6. UNCHANGED rw_lock
  BY DEF Unpend, wordVars
<1>7. Exact(x, l)
  BY <1>1, <1>2, <1>3, AloneInChain
<1>8. x.owner # DESTROYED /\ (HasWaiters(x) => x.owner = NULL)
  BY <1>1, <1>2, <1>3, Here DEF KnowsOf, KnowsAt
<1>9. /\ IsFree(x) => ~x.write_waiters /\ ~x.spinner
      /\ x.owner # NULL => ~x.spinner
  BY <1>2 DEF WaitInv, TruthInv, WordOf, rw_wowner
<1>10. \A u \in Thread \ {t} : cur[u] = l /\ pc[u] = "runlock_chain" => HasWaiters(x)
  BY <1>2, Here DEF KnowsOf, KnowsAt
<1> QED
  BY <1>2, <1>5, <1>6, <1>7, <1>8, <1>9, <1>10, UnpendsHeld

\* The writer stores its word and makes the threads it took off runnable.
LEMMA ReleaseStep ==
  ASSUME WaitInv, NEW t \in Thread, Release(t), RwInv'
  PROVE  WaitInv'
<1>1. PICK l \in Rwlock : l = cur[t]
  BY Here DEF Release, Goto
<1>2. PICK x \in Word : x = v[t]
  BY Here
<1>3. pc[t] = "release" /\ pc[t] \in Waking /\ pc[t] \in Chained /\ pc[t] \in WritePath
  BY DEF Release, Goto, Waking, Chained, WritePath
<1>4. PICK ts \in Turnstiles : ts = lts[t]
  BY <1>3, Here
<1>5. Unpends(t, l, ts)
  BY <1>1, <1>3, <1>4 DEF Unpends, Release, Goto
<1>6. rw_lock'[l] = x /\ \A n \in Rwlock \ {l} : rw_lock'[n] = rw_lock[n]
  <2>1. rw_lock' = [rw_lock EXCEPT ![l] = x]
    BY <1>1, <1>2 DEF Release, SetWord
  <2> QED
    BY <2>1, StoreWord
<1>7. Exact(x, l) /\ ~x.write_waiters /\ ~x.spinner
  <2>1. KnowsAt(t, l)
    BY <1>1, Here DEF KnowsOf
  <2> QED
    BY <1>2, <1>3, <2>1 DEF KnowsAt, Exact
<1>8. x.owner = NULL /\ NULL # DESTROYED
  BY <1>2, <1>3, InvParts, RwlockAssumption DEF WaitInv, OwnPath
<1>9. \A u \in Thread \ {t} : ~(cur[u] = l /\ pc[u] = "runlock_chain")
  BY <1>1, <1>3, LockFacts DEF ReadPath
<1> QED
  BY <1>5, <1>6, <1>7, <1>8, <1>9, UnpendsHeld

-----------------------------------------------------------------------------
\* rw_downgrade() stores the word, and wakes the readers or leaves the turnstile to
\* the writers.
LEMMA DownWakes ==
  ASSUME WaitInv, NEW t \in Thread, DownStore(t), ~v[t].write_waiters, RwInv'
  PROVE  WaitInv'
<1>1. PICK l \in Rwlock : l = cur[t]
  BY Here DEF DownStore
<1>2. PICK x \in Word : x = v[t]
  BY Here
<1>3. PICK w \in Word : w = rw_lock[l]
  BY LockFacts
<1>4. /\ pc[t] = "down_store" /\ pc[t] \in Looking /\ pc[t] \in Chained
      /\ pc[t] \notin Waking \cup Storing /\ pc[t] \in WritePath
  BY DEF DownStore, Looking, Chained, Waking, Storing, WritePath
<1>5. PICK ts \in Turnstiles : ts = lts[t] /\ ts \in Attached(l)
  BY <1>1, <1>4, Here DEF LockedOf
<1>6. LocalTypeOK /\ TurnstileTypeOK
  BY InvParts DEF WaitInv
<1>7. /\ TD_IS_RUNNING(t) /\ pc' = [pc EXCEPT ![t] = "unpend"]
      /\ turnstile_broadcast(l, ts, SH) /\ SetWord(l, x)
      /\ UNCHANGED <<tc_lock, ts_lock, ts_lockobj, ts_owner, td_blocked, td_state, priVars>>
      /\ UNCHANGED <<cur, queue, v, lts>>
  BY <1>1, <1>2, <1>5 DEF DownStore, Goto, TakeDowngrade, localVars, SH
<1>8. /\ pc'[t] = "unpend" /\ \A u \in Thread \ {t} : pc'[u] = pc[u]
  BY <1>6, <1>7 DEF LocalTypeOK
<1>9. rw_lock'[l] = x /\ \A n \in Rwlock \ {l} : rw_lock'[n] = rw_lock[n]
  BY <1>7, StoreWord DEF SetWord
<1>10. /\ Exact(w, l) /\ ts_owner[ts] = w.owner
       /\ \A u \in Thread \ {t} : pc[u] \in Chained => TC_HASH[cur[u]] # TC_HASH[l]
  BY <1>1, <1>3, <1>4, <1>5, AloneInChain DEF rw_wowner
<1>11. w.owner = t /\ tc_lock[TC_HASH[l]] = t
  BY <1>1, <1>3, <1>4, LockFacts, Here DEF rw_wowner
<1>12. /\ x.write_waiters = w.write_waiters /\ ~x.spinner
       /\ x.read_waiters = (w.read_waiters /\ w.write_waiters)
  BY <1>1, <1>2, <1>3, <1>4, Here DEF KnowsOf, KnowsAt
<1>13. x.owner = NULL /\ NULL # DESTROYED /\ ~IsFree(x)
  BY <1>2, <1>4, InvParts, RwlockAssumption DEF WaitInv, OwnPath, IsFree
<1>14. Queue = {EX, SH} /\ EX # SH /\ SH \in Queue
  BY <1>6, Lists
<1>15. ~w.write_waiters /\ ~x.write_waiters /\ ~x.read_waiters
  BY <1>2, <1>12
<1>16. ~Has(l, EX)
  BY <1>10, <1>14, <1>15 DEF Exact, Bit
<1>17. Has(l, SH) /\ ts_blocked[ts][SH] # <<>>
  <2>1. ts_blocked[ts][EX] # <<>> \/ ts_blocked[ts][SH] # <<>>
    BY <1>5, AttachedOn, OnChainHasWaiters
  <2> QED
    BY <1>5, <1>16, <2>1 DEF Has
<1>18. /\ ~HasWaiters(x)
       /\ \A q \in Queue : Bit(x, q) <=> (Has(l, q) /\ q # SH)
  BY <1>14, <1>15, <1>16 DEF HasWaiters, Bit
<1>19. ~TD_ON_LOCK(t) /\ pc'[t] \in Waking
  BY <1>7, <1>8 DEF TD_IS_RUNNING, TD_ON_LOCK, Waking
<1>20. Wakes(t, l, ts, SH)
  <2>1. ChainKept(t) /\ tc_lock'[TC_HASH[l]] = t
    BY <1>7, <1>11, ChainLocks
  <2> QED
    BY <1>1, <1>4, <1>5, <1>7, <1>8, <1>10, <1>17, <1>19, <2>1 DEF Wakes
<1>21. \A r \in Queue \ {SH} : ~Has(l, r)
  BY <1>14, <1>16
<1>22. \A u \in Thread \ {t} : ~(cur[u] = l /\ pc[u] = "runlock_chain")
  BY <1>1, <1>4, LockFacts DEF ReadPath
<1>23. tc_lock' \in [Chain -> Thread \cup {NULL}] /\ ts_lock' \in [Turnstiles -> Thread \cup {NULL}]
  BY <1>6, <1>7 DEF TurnstileTypeOK
<1> QED
  BY <1>7, <1>8, <1>9, <1>10, <1>11, <1>12, <1>13, <1>14, <1>18, <1>20, <1>21, <1>22, <1>23, WakesHeld

\* A downgrade that leaves the turnstile to the writers that wait.
LEMMA DownDisowns ==
  ASSUME WaitInv, NEW t \in Thread, DownStore(t), v[t].write_waiters, RwInv'
  PROVE  WaitInv'
<1>1. PICK l \in Rwlock : l = cur[t]
  BY Here DEF DownStore
<1>2. PICK x \in Word : x = v[t]
  BY Here
<1>3. PICK w \in Word : w = rw_lock[l]
  BY LockFacts
<1>4. /\ pc[t] = "down_store" /\ pc[t] \in Looking /\ pc[t] \in Chained
      /\ pc[t] \notin Waking \cup Storing
  BY DEF DownStore, Looking, Chained, Waking, Storing
<1>5. PICK ts \in Turnstiles : ts = lts[t] /\ ts \in Attached(l)
  BY <1>1, <1>4, Here DEF LockedOf
<1>6. LocalTypeOK /\ TurnstileTypeOK
  BY InvParts DEF WaitInv
<1>7. /\ Goto(t, "down_store", "idle") /\ Return(t) /\ SetWord(l, x)
      /\ turnstile_disown(t, ts) /\ turnstile_chain_unlock(l)
      /\ UNCHANGED <<tc_turnstiles, ts_lockobj, ts_blocked, ts_pending, ts_free>>
      /\ UNCHANGED <<td_turnstile, td_blocked, td_state, td_base_pri, prop>>
  BY <1>1, <1>2, <1>5 DEF DownStore, TakeDowngrade
<1>8. GoesOn(t, l, "down_store", "idle") /\ cur'[t] = NULL
  BY <1>1, <1>7, GoesHow
<1>9. /\ ~TD_ON_LOCK(t) /\ pc'[t] = "idle"
      /\ \A u \in Thread \ {t} :
           /\ pc'[u] = pc[u] /\ cur'[u] = cur[u] /\ queue'[u] = queue[u]
           /\ v'[u] = v[u] /\ lts'[u] = lts[u]
  BY <1>8 DEF GoesOn
<1>10. rw_lock'[l] = x /\ \A n \in Rwlock \ {l} : rw_lock'[n] = rw_lock[n]
  BY <1>7, StoreWord DEF SetWord
<1>11. /\ ts_owner' = [ts_owner EXCEPT ![ts] = NULL] /\ ts_lock' = [ts_lock EXCEPT ![ts] = NULL]
  BY <1>7 DEF turnstile_disown
<1>12. td_priority' \in [Thread -> Priority] /\ td_borrowing' \in [Thread -> BOOLEAN]
  <2> DEFINE waiting == {turnstile_first_waiter(n) : n \in td_contested(t) \ {ts}}
  <2>1. waiting \subseteq Thread
    BY <1>5, OwnedHaveWaiters
  <2>2. sched_unlend_prio(t, Min({PRI_MAX} \cup {td_priority[y] : y \in waiting}))
    BY <1>7 DEF turnstile_disown
  <2> HIDE DEF waiting
  <2> QED
    BY <1>6, <2>1, <2>2, UnlendEffect
<1>13. ChainKept(t) /\ tc_lock' \in [Chain -> Thread \cup {NULL}]
  BY <1>1, <1>4, <1>7, ChainLocks
<1>14. /\ ts_owner' \in [Turnstiles -> Thread \cup {NULL}]
       /\ ts_lock' \in [Turnstiles -> Thread \cup {NULL}]
       /\ ts_owner'[ts] = NULL /\ \A y \in Turnstiles \ {ts} : ts_owner'[y] = ts_owner[y]
  BY <1>6, <1>11 DEF TurnstileTypeOK
<1>15. TurnstileTypeOK'
  BY <1>6, <1>7, <1>12, <1>13, <1>14 DEF TurnstileTypeOK
<1>16. Reordered
  BY <1>6, <1>7, SameQueues DEF WaitInv, StructInv, QueueInv, QueueOf, QueuesInjective
<1>17. \A u \in Thread : TD_ON_LOCK(u)' <=> TD_ON_LOCK(u)
  BY <1>7 DEF TD_ON_LOCK
<1>18. pc'[t] \notin Looking \cup Waking \cup Storing \cup Chained
  BY <1>9 DEF Looking, Waking, Storing, Chained
<1>19. OwnOnly(t) /\ Aside(t)
  BY <1>4, <1>7, <1>9, <1>16, <1>17, <1>18 DEF OwnOnly, Aside, ListsKept
<1>20. ControlInv'
  <2>1. ControlOf(t)'
    BY <1>18 DEF ControlOf
  <2> QED
    BY <1>13, <1>19, <2>1, ControlStep
<1>21. /\ StructInv'
       /\ \A n \in Rwlock : /\ Attached(n)' = Attached(n)
                            /\ \A q \in Queue : Has(n, q)' <=> Has(n, q)
  BY <1>19, <1>20, OwnOnlyStep
<1>22. Exact(w, l) /\ Alone(t, l)
  BY <1>1, <1>3, <1>4, AloneInChain
<1>23. /\ x.write_waiters = w.write_waiters /\ ~x.spinner
       /\ x.read_waiters = (w.read_waiters /\ w.write_waiters)
  BY <1>1, <1>2, <1>3, <1>4, Here DEF KnowsOf, KnowsAt
<1>24. x.owner = NULL /\ NULL # DESTROYED /\ ~IsFree(x)
  BY <1>2, <1>4, InvParts, RwlockAssumption DEF WaitInv, OwnPath, IsFree
<1>25. HasWaiters(x) /\ \A q \in Queue : Bit(x, q) <=> Bit(w, q)
  <2>1. x.read_waiters = w.read_waiters
    BY <1>2, <1>3, <1>23 DEF Word
  <2> QED
    BY <1>2, <1>23, <2>1 DEF HasWaiters, Bit
<1>26. WordOf(l)'
  <2>1. Exact(x, l)'
    BY <1>21, <1>22, <1>25 DEF Exact
  <2>2. \A y \in Attached(l)' : ts_owner'[y] = x.owner
    <3>1. \A y \in Attached(l) : y = ts
      BY <1>5 DEF WaitInv, StructInv, OneAttached
    <3> QED
      BY <1>14, <1>21, <1>24, <3>1
  <2> QED
    BY <1>10, <1>19, <1>22, <1>23, <1>24, <2>1, <2>2, WordThen
<1>27. KnowsOf(t)'
  BY <1>8, <1>9, PlainKnows
<1>28. ts_lockobj[ts] = l /\ \A y \in Turnstiles : OnChain(y)' <=> OnChain(y)
  BY <1>5, <1>7, AttachedOn DEF OnChain
<1> QED
  BY <1>1, <1>4, <1>7, <1>8, <1>10, <1>14, <1>15, <1>19, <1>21, <1>22, <1>24, <1>25, <1>26, <1>27, <1>28, HeldStep

-----------------------------------------------------------------------------
\* The steps of the calls in progress, and the calls that clients make, keep the
\* invariant of the waiters.
LEMMA WaitInvStep ==
  ASSUME WaitInv, NEW t \in Thread, Step(t), RwInv'
  PROVE  WaitInv'
<1>1. Rlock(t) \/ Wlock(t) \/ WspinEnd(t) \/ Trywait(t) \/ Check(t) => Calm(t)
  BY RlockCalm, WlockCalm, TrywaitCalm, CheckCalm
<1>2. ContestChanged(t) => Calm(t)
  BY GiveUpCalm DEF ContestChanged
<1>3. Woken(t) \/ Runlock(t) \/ Downgrade(t) => Calm(t)
  BY WokenCalm, RunlockCalm, DowngradeCalm
<1>4. RunlockChain(t) => WaitInv'
  BY RunlockAgainCalm, RunlockChainStep, CalmStep
<1>5. DownStore(t) => WaitInv'
  BY DownWakes, DownDisowns
<1>6. Calm(t) => WaitInv'
  BY CalmStep
<1>7. ContestFree(t) \/ ContestHeld(t) \/ Wait(t) \/ Propagate(t) \/ UpgradeCheck(t) => WaitInv'
  BY ContestFreeStep, ContestHeldStep, WaitStep, PropagateStep, UpgradeCheckStep
<1>8. Wake(t) \/ Unpend(t) \/ Wunlock(t) \/ Release(t) => WaitInv'
  BY WakeStep, UnpendReturns, WunlockStep, ReleaseStep
<1> QED
  BY <1>1, <1>2, <1>3, <1>4, <1>5, <1>6, <1>7, <1>8 DEF Step

\* The first step of every call, and the life cycle, keep the invariant.
LEMMA WaitInvClient ==
  ASSUME WaitInv, NEW t \in Thread, Client(t), RwInv'
  PROVE  WaitInv'
<1>1. PICK l \in Rwlock :
        \/ RwRlock(t, l) \/ RwTryRlock(t, l) \/ RwRunlock(t, l)
        \/ RwWlock(t, l) \/ RwTryWlock(t, l) \/ RwWunlock(t, l)
        \/ RwTryUpgrade(t, l) \/ RwDowngrade(t, l)
        \/ RwDestroy(t, l) \/ RwInit(t, l)
  BY DEF Client
<1>2. Calm(t)
  BY <1>1, RwRlockCalm, RunlockCalm, RwWlockCalm, RwWunlockCalm, RwTryUpgradeCalm,
     RwDowngradeCalm, LifeCalm
<1> QED
  BY <1>2, CalmStep

\* A step that changes nothing keeps the invariant.
LEMMA WaitInvStutter ==
  ASSUME WaitInv, UNCHANGED vars, RwInv'
  PROVE  WaitInv'
<1>1. /\ UNCHANGED <<tc_lock, tc_turnstiles, ts_lock, ts_lockobj, ts_owner, ts_blocked>>
      /\ UNCHANGED <<ts_pending, ts_free, td_turnstile, td_blocked, td_state>>
      /\ UNCHANGED <<td_priority, td_base_pri, td_borrowing, prop>>
      /\ UNCHANGED <<rw_lock, pc, cur, queue, v, lts>>
  BY DEF vars, turnstileVars, chainVars, queueVars, priVars, wordVars, localVars
<1>2. TurnstileTypeOK'
  BY <1>1 DEF WaitInv, TurnstileTypeOK
<1>3. ControlInv' /\ AttachedInv' /\ OneAttached'
  BY <1>1 DEF WaitInv, StructInv, ControlInv, ControlOf, AttachedInv, AttachedOf, OneAttached, Attached
<1>4. DetachedInv' /\ QueueInv'
  BY <1>1 DEF WaitInv, StructInv, DetachedInv, DetachedOf, OnChain, QueueInv, QueueOf, Releasing, TD_ON_LOCK
<1>5. LockedInv' /\ PlaceInv'
  BY <1>1 DEF WaitInv, StructInv, LockedInv, LockedOf, Attached, OnChain, Waiting, TD_ON_LOCK, PlaceInv
<1>6. \A l \in Rwlock : WordOf(l)'
  BY <1>1 DEF WaitInv, TruthInv, WordOf, Exact, Has, Attached, rw_wowner, TD_ON_LOCK
<1>7. \A u \in Thread : KnowsOf(u)'
  BY <1>1 DEF WaitInv, TruthInv, KnowsOf, KnowsAt, Exact, Has, Attached
<1>8. OwnedInv'
  BY <1>1 DEF WaitInv, TruthInv, OwnedInv, OnChain, Releasing
<1> QED
  BY <1>2, <1>3, <1>4, <1>5, <1>6, <1>7, <1>8 DEF WaitInv, StructInv, TruthInv

\* Every step keeps the invariant.
LEMMA WaitInvNext == WaitInv /\ [Next]_vars => WaitInv'
<1> SUFFICES ASSUME WaitInv, [Next]_vars PROVE WaitInv'
  OBVIOUS
<1>1. RwInv'
  BY RwInvNext DEF WaitInv
<1>2. ASSUME NEW t \in Thread, Step(t) \/ Client(t) \/ Preempt(t) \/ Dispatch(t)
      PROVE  WaitInv'
  BY <1>1, <1>2, WaitInvStep, WaitInvClient, SchedulerStep
<1>3. CASE UNCHANGED vars
  BY <1>1, <1>3, WaitInvStutter
<1> QED
  BY <1>2, <1>3 DEF Next

\* While nobody has the chain locked, the waiter bits of the word of a lock are set
\* exactly when threads wait in the queues of its turnstile, and that turnstile
\* belongs to the writer: what the MPASS()es of kern_rwlock.c and subr_turnstile.c
\* rest on.
THEOREM WaiterBitsAreExact == Spec => []WaiterBitsExact
<1>1. ASSUME WaitInv PROVE WaiterBitsExact
  <2>1. ASSUME NEW l \in Rwlock, tc_lock[TC_HASH[l]] = NULL
        PROVE  /\ \A u \in Thread : cur[u] = l => pc[u] \notin Storing
               /\ WordOf(l)
    BY <1>1, <2>1, Here, TurnstileAssumption DEF Storing, Chained, WaitInv, TruthInv
  <2>2. TurnstileOfWriter
    BY <2>1 DEF TurnstileOfWriter, WordOf, Storing
  <2>3. ASSUME NEW l \in Rwlock, tc_lock[TC_HASH[l]] = NULL
        PROVE  /\ rw_lock[l].read_waiters <=> \E ts \in Attached(l) : ts_blocked[ts][TS_SHARED_QUEUE] # <<>>
               /\ rw_lock[l].write_waiters <=> \E ts \in Attached(l) : ts_blocked[ts][TS_EXCLUSIVE_QUEUE] # <<>>
    <3>1. \A q \in Queue : Bit(rw_lock[l], q) <=> Has(l, q)
      BY <2>1, <2>3 DEF WordOf, Exact, Storing
    <3>2. TS_SHARED_QUEUE \in Queue /\ TS_EXCLUSIVE_QUEUE \in Queue /\ TS_EXCLUSIVE_QUEUE # SH
      BY DEF Queue, SH, TS_SHARED_QUEUE, TS_EXCLUSIVE_QUEUE
    <3> QED
      BY <3>1, <3>2 DEF Bit, Has, SH
  <2> QED
    BY <1>1, <2>2, <2>3 DEF WaiterBitsExact, WaitInv
<1> QED
  BY <1>1, WaitInvInit, WaitInvNext, PTL DEF Spec

\* A thread that is blocked on a free lock has another thread on its way to that
\* lock: nobody is left behind by the store that frees the lock before its waiters
\* are looked up, nor by the queue that stays asleep.
THEOREM NoWaiterIsStranded == Spec => []NoStrandedWaiter
<1>1. ASSUME WaitInv PROVE NoStrandedWaiter
  <2> SUFFICES ASSUME NEW t \in Thread, TD_ON_LOCK(t), IsFree(rw_lock[cur[t]])
               PROVE  \E u \in Thread : cur[u] = cur[t] /\ ~TD_ON_LOCK(u)
    BY DEF NoStrandedWaiter
  <2>1. PICK l \in Rwlock : l = cur[t]
    BY <1>1, Here
  <2>2. PICK ts \in Turnstiles : /\ ts = td_blocked[t]
                                 /\ t \in Waiting(ts) \/ t \in ToSet(ts_pending[ts])
    BY <1>1, Here DEF LockedOf
  <2>3. QueueOf(ts) /\ DetachedInv /\ WordOf(l) /\ Queue = {EX, SH}
    BY <1>1, Lists DEF WaitInv, StructInv, QueueInv, TruthInv
  <2>4. ts_lockobj[ts] = l
    BY <2>1, <2>2, <2>3 DEF QueueOf, Waiting
  <2>5. CASE t \in Waiting(ts)
    <3>1. ts_blocked[ts][EX] # <<>> \/ ts_blocked[ts][SH] # <<>>
      <4>1. ToSet(<<>>) = {}
        BY DEF ToSet
      <4> QED
        BY <2>5, <4>1 DEF Waiting
    <3>2. OnChain(ts)
      BY <2>3, <3>1 DEF DetachedInv, DetachedOf
    <3>3. Attached(l) # {}
      BY <1>1, <2>4, <3>2, OnChainHasWaiters
    <3>4. HasWaiters(rw_lock[l]) \/ \E u \in Thread : cur[u] = l /\ pc[u] = "wake"
      BY <1>1, <3>3, AttachedMarked
    <3>5. ASSUME NEW u \in Thread, cur[u] = l, pc[u] = "wake" PROVE ~TD_ON_LOCK(u)
      BY <1>1, <3>5, Here DEF Chained
    <3> QED
      BY <2>1, <2>3, <3>4, <3>5 DEF WordOf
  <2>6. CASE t \in ToSet(ts_pending[ts])
    <3>1. ts_pending[ts] # <<>>
      BY <2>6 DEF ToSet
    <3>2. PICK u \in Thread : Releasing(u, ts)
      BY <2>3, <3>1 DEF QueueOf
    <3>3. pc[u] \in Waking /\ lts[u] = ts /\ LockedOf(u) /\ pc[u] \in Chained
      BY <1>1, <3>2, Here DEF Releasing
    <3>4. cur[u] = l /\ ~TD_ON_LOCK(u)
      BY <1>1, <2>4, <3>3, Here DEF LockedOf
    <3> QED
      BY <2>1, <3>4
  <2> QED
    BY <2>2, <2>5, <2>6
<1> QED
  BY <1>1, WaitInvInit, WaitInvNext, PTL DEF Spec

=============================================================================
