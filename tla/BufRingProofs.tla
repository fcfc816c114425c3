---------------------------- MODULE BufRingProofs ----------------------------
(***************************************************************************)
(* Proofs about module BufRing: its invariants, and that it implements     *)
(* AbstractFifo, for any number of producers and consumers.  First comes   *)
(* the arithmetic: arcs of the ring between two indices, what happens to   *)
(* them when an index moves on, and the sequence of buffers an arc holds.  *)
(***************************************************************************)
EXTENDS BufRing, FiniteSetTheorems, SequenceTheorems, TLAPS

\* The slot i lies in the half-open arc of the ring from a to b.
In(a, i, b) == Distance(a, i) < Distance(a, b)

\* What a number below twice the size leaves modulo the size.
LEMMA ModSize ==
  \A x \in Nat : x < 2 * Size => x % Size \in Slot /\ x % Size = IF x < Size THEN x ELSE x - Size
<1> DEFINE n == Size
<1>1. n \in Nat /\ n > 1
  BY SizeAssumption
<1> HIDE DEF n
<1>2. ASSUME NEW x \in Nat, x < 2 * n
      PROVE  x % n \in 0 .. n - 1 /\ x % n = IF x < n THEN x ELSE x - n
  <2>1. x % n \in 0 .. n - 1
    BY <1>1, Z3
  <2>2. x < n => x % n = x
    BY <1>1, Z3
  <2>3. x >= n => x % n = x - n
    BY <1>1, <1>2, Z3
  <2> DEFINE m == x % n
  <2> HIDE DEF m
  <2>4. m \in 0 .. n - 1 /\ m = IF x < n THEN x ELSE x - n
    BY <1>1, <2>1, <2>2, <2>3 DEF m
  <2> QED
    BY <2>4 DEF m
<1> QED
  BY <1>2 DEF n, Slot

\* The next slot, without the modulus.
LEMMA SuccIs ==
  ASSUME NEW i \in Slot
  PROVE  Succ(i) \in Slot /\ Succ(i) = IF i = Size - 1 THEN 0 ELSE i + 1
<1> DEFINE x == i + 1
<1>1. x \in Nat /\ x < 2 * Size
  BY SizeAssumption DEF Slot
<1>2. Succ(i) = x % Size
  BY DEF Succ
<1> HIDE DEF x
<1>3. Succ(i) \in Slot /\ Succ(i) = IF x < Size THEN x ELSE x - Size
  BY <1>1, <1>2, ModSize
<1> QED
  BY <1>3, SizeAssumption DEF Slot, x

\* The distance, without the modulus.
LEMMA DistanceIs ==
  ASSUME NEW i \in Slot, NEW j \in Slot
  PROVE  Distance(i, j) \in Slot /\ Distance(i, j) = IF i <= j THEN j - i ELSE Size + j - i
<1> DEFINE x == Size + j - i
<1>1. x \in Nat /\ x < 2 * Size
  BY SizeAssumption DEF Slot
<1>2. Distance(i, j) = x % Size
  BY DEF Distance
<1> HIDE DEF x
<1>3. Distance(i, j) \in Slot /\ Distance(i, j) = IF x < Size THEN x ELSE x - Size
  BY <1>1, <1>2, ModSize
<1> QED
  BY <1>3, SizeAssumption DEF Slot, x

\* The slot k places on, without the modulus.
LEMMA PlusIs ==
  ASSUME NEW i \in Slot, NEW k \in Slot
  PROVE  /\ (i + k) % Size \in Slot
         /\ (i + k) % Size = IF i + k < Size THEN i + k ELSE i + k - Size
<1> DEFINE x == i + k
<1>1. x \in Nat /\ x < 2 * Size
  BY SizeAssumption DEF Slot
<1> HIDE DEF x
<1>2. x % Size \in Slot /\ x % Size = IF x < Size THEN x ELSE x - Size
  BY <1>1, ModSize
<1>3. x = i + k
  BY DEF x
<1> QED
  BY <1>2, <1>3, SizeAssumption DEF Slot

\* What arithmetic needs to know of slots.
LEMMA SlotIs ==
  /\ Size \in Nat /\ Size > 1
  /\ \A i \in Slot : i \in Nat /\ i < Size
BY SizeAssumption DEF Slot

\* The slot k places on is at distance k.
LEMMA PlusDistance ==
  ASSUME NEW i \in Slot, NEW k \in Slot
  PROVE  Distance(i, (i + k) % Size) = k
<1> DEFINE j == (i + k) % Size
<1>1. j \in Slot /\ j = IF i + k < Size THEN i + k ELSE i + k - Size
  BY PlusIs
<1> HIDE DEF j
<1>2. Distance(i, j) = IF i <= j THEN j - i ELSE Size + j - i
  BY <1>1, DistanceIs
<1> QED
  BY <1>1, <1>2, SlotIs DEF j

\* Going on by the distance of a slot leads to it.
LEMMA DistancePlus ==
  ASSUME NEW i \in Slot, NEW j \in Slot
  PROVE  (i + Distance(i, j)) % Size = j
<1> DEFINE k == Distance(i, j)
<1>1. k \in Slot /\ k = IF i <= j THEN j - i ELSE Size + j - i
  BY DistanceIs
<1> HIDE DEF k
<1>2. (i + k) % Size = IF i + k < Size THEN i + k ELSE i + k - Size
  BY <1>1, PlusIs
<1> QED
  BY <1>1, <1>2, SlotIs DEF k

\* An arc that does not go all the way round grows by one slot at its right end.
LEMMA GrowRight ==
  ASSUME NEW a \in Slot, NEW b \in Slot, Succ(b) # a
  PROVE  /\ Distance(a, Succ(b)) = Distance(a, b) + 1
         /\ ~In(a, b, b)
         /\ \A i \in Slot : In(a, i, Succ(b)) <=> In(a, i, b) \/ i = b
<1> DEFINE c == Succ(b)
<1>1. c \in Slot /\ c = IF b = Size - 1 THEN 0 ELSE b + 1
  BY SuccIs
<1> HIDE DEF c
<1>2. /\ Distance(a, c) = IF a <= c THEN c - a ELSE Size + c - a
      /\ Distance(a, b) = IF a <= b THEN b - a ELSE Size + b - a
  BY <1>1, DistanceIs
<1>3. Distance(a, c) = Distance(a, b) + 1 /\ Distance(a, b) \in Nat
  BY <1>1, <1>2, SlotIs DEF c
<1>4. ASSUME NEW i \in Slot PROVE In(a, i, c) <=> In(a, i, b) \/ i = b
  <2>1. Distance(a, i) = IF a <= i THEN i - a ELSE Size + i - a
    BY DistanceIs
  <2> QED
    BY <1>2, <1>3, <2>1, SlotIs DEF In
<1> QED
  BY <1>3, <1>4 DEF In, c

\* An arc that is not empty loses a slot at its left end.
LEMMA ShrinkLeft ==
  ASSUME NEW a \in Slot, NEW b \in Slot, a # b
  PROVE  /\ Distance(Succ(a), b) = Distance(a, b) - 1
         /\ In(a, a, b)
         /\ \A i \in Slot : In(Succ(a), i, b) <=> In(a, i, b) /\ i # a
<1> DEFINE c == Succ(a)
<1>1. c \in Slot /\ c = IF a = Size - 1 THEN 0 ELSE a + 1
  BY SuccIs
<1> HIDE DEF c
<1>2. /\ Distance(c, b) = IF c <= b THEN b - c ELSE Size + b - c
      /\ Distance(a, b) = IF a <= b THEN b - a ELSE Size + b - a
      /\ Distance(a, a) = IF a <= a THEN a - a ELSE Size + a - a
  BY <1>1, DistanceIs
<1>3. Distance(c, b) = Distance(a, b) - 1 /\ Distance(a, a) = 0 /\ Distance(a, b) \in Nat \ {0}
  BY <1>1, <1>2, SlotIs
<1>4. ASSUME NEW i \in Slot PROVE In(c, i, b) <=> In(a, i, b) /\ i # a
  <2>1. /\ Distance(a, i) = IF a <= i THEN i - a ELSE Size + i - a
        /\ Distance(c, i) = IF c <= i THEN i - c ELSE Size + i - c
    BY <1>1, DistanceIs
  <2> QED
    BY <1>1, <1>2, <1>3, <2>1, SlotIs DEF In
<1> QED
  BY <1>3, <1>4 DEF In, c

\* When an arc is empty, and when it leaves one slot free.
LEMMA ArcRoom ==
  ASSUME NEW a \in Slot, NEW b \in Slot
  PROVE  /\ Distance(a, b) \in Nat /\ Distance(a, b) < Size
         /\ Distance(a, b) < Size - 1 <=> Succ(b) # a
         /\ Distance(a, b) = 0 <=> a = b
<1>1. Succ(b) = IF b = Size - 1 THEN 0 ELSE b + 1
  BY SuccIs
<1>2. Distance(a, b) = IF a <= b THEN b - a ELSE Size + b - a
  BY DistanceIs
<1> QED
  BY <1>1, <1>2, SlotIs

\* Four places in order cut the ring into four arcs.
LEMMA FourArcs ==
  ASSUME NEW a \in Slot, NEW b \in Slot, NEW c \in Slot, NEW d \in Slot,
         Distance(a, b) + Distance(b, c) + Distance(c, d) < Size
  PROVE  /\ Distance(a, d) = Distance(a, b) + Distance(b, c) + Distance(c, d)
         /\ Distance(a, c) = Distance(a, b) + Distance(b, c)
         /\ Distance(b, d) = Distance(b, c) + Distance(c, d)
         /\ \A i \in Slot : /\ In(a, i, d) <=> In(a, i, b) \/ In(b, i, c) \/ In(c, i, d)
                            /\ In(b, i, d) <=> In(b, i, c) \/ In(c, i, d)
                            /\ ~(In(a, i, b) /\ In(b, i, c))
                            /\ ~(In(a, i, b) /\ In(c, i, d))
                            /\ ~(In(b, i, c) /\ In(c, i, d))
<1>1. /\ Distance(a, b) = IF a <= b THEN b - a ELSE Size + b - a
      /\ Distance(b, c) = IF b <= c THEN c - b ELSE Size + c - b
      /\ Distance(c, d) = IF c <= d THEN d - c ELSE Size + d - c
      /\ Distance(a, d) = IF a <= d THEN d - a ELSE Size + d - a
      /\ Distance(a, c) = IF a <= c THEN c - a ELSE Size + c - a
      /\ Distance(b, d) = IF b <= d THEN d - b ELSE Size + d - b
  BY DistanceIs
<1>2. /\ Distance(a, d) = Distance(a, b) + Distance(b, c) + Distance(c, d)
      /\ Distance(a, c) = Distance(a, b) + Distance(b, c)
      /\ Distance(b, d) = Distance(b, c) + Distance(c, d)
  BY <1>1, SlotIs
<1>3. ASSUME NEW i \in Slot
      PROVE  /\ In(a, i, d) <=> In(a, i, b) \/ In(b, i, c) \/ In(c, i, d)
             /\ In(b, i, d) <=> In(b, i, c) \/ In(c, i, d)
             /\ ~(In(a, i, b) /\ In(b, i, c))
             /\ ~(In(a, i, b) /\ In(c, i, d))
             /\ ~(In(b, i, c) /\ In(c, i, d))
  <2>1. /\ Distance(a, i) = IF a <= i THEN i - a ELSE Size + i - a
        /\ Distance(b, i) = IF b <= i THEN i - b ELSE Size + i - b
        /\ Distance(c, i) = IF c <= i THEN i - c ELSE Size + i - c
    BY DistanceIs
  <2> QED
    BY <1>1, <2>1, SlotIs DEF In
<1> QED
  BY <1>2, <1>3

\* Four places are in order and the two ends do not meet.
InOrder(a, b, c, d) == Distance(a, b) + Distance(b, c) + Distance(c, d) < Size

\* An arc with a slot in it is not empty.
LEMMA ArcNotEmpty ==
  ASSUME NEW a \in Slot, NEW b \in Slot, NEW i \in Slot, In(a, i, b)
  PROVE  a # b
BY ArcRoom DEF In

\* Four places in order stay in order when one of them moves on to the next slot.
LEMMA MoveIndex ==
  ASSUME NEW a \in Slot, NEW b \in Slot, NEW c \in Slot, NEW d \in Slot, InOrder(a, b, c, d)
  PROVE  /\ Succ(d) # a => InOrder(a, b, c, Succ(d)) /\ Succ(d) # c
         /\ c # d => InOrder(a, b, Succ(c), d) /\ b # Succ(c)
         /\ b # c => InOrder(a, Succ(b), c, d) /\ a # Succ(b)
         /\ a # b => InOrder(Succ(a), b, c, d) /\ Succ(d) # Succ(a)
<1> DEFINE x == Distance(a, b)  y == Distance(b, c)  z == Distance(c, d)
<1>1. x \in Nat /\ y \in Nat /\ z \in Nat /\ x + y + z < Size
  BY ArcRoom DEF InOrder
<1>2. Distance(a, d) = x + y + z /\ (x + y + z < Size - 1 <=> Succ(d) # a)
  <2>1. Distance(a, d) = x + y + z
    BY FourArcs DEF InOrder
  <2> QED
    BY <2>1, ArcRoom
<1>3. (x = 0 <=> a = b) /\ (y = 0 <=> b = c) /\ (z = 0 <=> c = d)
  BY ArcRoom
<1>4. (x < Size - 1 <=> Succ(b) # a) /\ (y < Size - 1 <=> Succ(c) # b) /\ (z < Size - 1 <=> Succ(d) # c)
  BY ArcRoom
<1>5. ASSUME Succ(d) # a PROVE InOrder(a, b, c, Succ(d)) /\ Succ(d) # c
  <2>1. x + y + z < Size - 1 /\ z < Size - 1
    <3> HIDE DEF x, y, z
    <3> QED
      BY <1>1, <1>2, <1>5, SlotIs
  <2>2. Distance(c, Succ(d)) = z + 1
    BY <1>4, <2>1, GrowRight
  <2>3. x + y + (z + 1) < Size
    <3> HIDE DEF x, y, z
    <3> QED
      BY <1>1, <2>1, SlotIs
  <2> QED
    BY <1>4, <2>1, <2>2, <2>3 DEF InOrder
<1>6. ASSUME c # d PROVE InOrder(a, b, Succ(c), d) /\ b # Succ(c)
  <2>1. y < Size - 1 /\ x + (y + 1) + (z - 1) < Size
    <3> HIDE DEF x, y, z
    <3> QED
      BY <1>1, <1>3, <1>6, SlotIs
  <2>2. Distance(b, Succ(c)) = y + 1 /\ Distance(Succ(c), d) = z - 1
    BY <1>4, <1>6, <2>1, GrowRight, ShrinkLeft
  <2> QED
    BY <1>4, <2>1, <2>2 DEF InOrder
<1>7. ASSUME b # c PROVE InOrder(a, Succ(b), c, d) /\ a # Succ(b)
  <2>1. x < Size - 1 /\ (x + 1) + (y - 1) + z < Size
    <3> HIDE DEF x, y, z
    <3> QED
      BY <1>1, <1>3, <1>7, SlotIs
  <2>2. Distance(a, Succ(b)) = x + 1 /\ Distance(Succ(b), c) = y - 1
    BY <1>4, <1>7, <2>1, GrowRight, ShrinkLeft
  <2> QED
    BY <1>4, <2>1, <2>2 DEF InOrder
<1>8. ASSUME a # b PROVE InOrder(Succ(a), b, c, d) /\ Succ(d) # Succ(a)
  <2>1. (x - 1) + y + z < Size /\ x + y + z # 0
    <3> HIDE DEF x, y, z
    <3> QED
      BY <1>1, <1>3, <1>8, SlotIs
  <2>2. Distance(Succ(a), b) = x - 1
    BY <1>8, ShrinkLeft
  <2>3. a # d
    BY <1>2, <2>1, ArcRoom
  <2>4. Succ(d) # Succ(a)
    BY <2>3, SuccIs, SlotIs
  <2> QED
    BY <2>1, <2>2, <2>4 DEF InOrder
<1> QED
  BY <1>5, <1>6, <1>7, <1>8

\* What a slot holds.
Value == Buf \cup {NULL}

\* n buffers of the ring r from slot a on.
QueueOf(r, a, n) == [k \in 1..n |-> r[(a + k - 1) % Size]]

\* q is such a sequence.
IsQueue(q, r, a, n) ==
  /\ q \in Seq(Value) /\ Len(q) = n
  /\ \A k \in 1..n : q[k] = r[(a + k - 1) % Size]

\* The buffers of an arc form a sequence.
LEMMA QueueOfIs ==
  ASSUME NEW r \in [Slot -> Value], NEW a \in Slot, NEW n \in 0..Size
  PROVE  IsQueue(QueueOf(r, a, n), r, a, n)
<1>1. ASSUME NEW k \in 1..n PROVE r[(a + k - 1) % Size] \in Value
  <2>1. k - 1 \in Slot
    BY SlotIs DEF Slot
  <2>2. (a + (k - 1)) % Size \in Slot /\ a + k - 1 = a + (k - 1)
    BY <2>1, PlusIs, SlotIs
  <2> QED
    BY <2>2
<1>2. n \in Nat
  BY SlotIs
<1>3. QueueOf(r, a, n) \in [1..n -> Value]
  BY <1>1 DEF QueueOf
<1>4. QueueOf(r, a, n) \in Seq(Value)
  BY <1>2, <1>3
<1>5. Len(QueueOf(r, a, n)) = n
  BY <1>2, <1>3, <1>4, LenProperties
<1> QED
  BY <1>4, <1>5 DEF QueueOf, IsQueue

\* An arc that grows at its right end appends a buffer.
LEMMA QueuePush ==
  ASSUME NEW r \in [Slot -> Value], NEW a \in Slot, NEW n \in 0..(Size - 1)
  PROVE  QueueOf(r, a, n + 1) = Append(QueueOf(r, a, n), r[(a + n) % Size])
<1> DEFINE p == QueueOf(r, a, n)  q == QueueOf(r, a, n + 1)  x == r[(a + n) % Size]
<1>0. n \in Nat /\ n \in 0..Size /\ n + 1 \in 0..Size /\ n \in Slot
  BY SlotIs DEF Slot
<1>1. p \in Seq(Value) /\ Len(p) = n /\ \A k \in 1..n : p[k] = r[(a + k - 1) % Size]
  BY <1>0, QueueOfIs DEF IsQueue
<1>2. q \in Seq(Value) /\ Len(q) = n + 1 /\ \A k \in 1..(n + 1) : q[k] = r[(a + k - 1) % Size]
  BY <1>0, QueueOfIs DEF IsQueue
<1>3. x \in Value /\ a + (n + 1) - 1 = a + n
  BY <1>0, PlusIs, SlotIs
<1> HIDE DEF p, q, x
<1>4. q[n + 1] = x /\ \A k \in 1..n : q[k] = p[k]
  BY <1>0, <1>1, <1>2, <1>3 DEF x
<1> DEFINE w == Append(p, x)
<1>5. w \in Seq(Value) /\ Len(w) = n + 1 /\ w[n + 1] = x /\ \A k \in 1..n : w[k] = p[k]
  BY <1>1, <1>3, AppendProperties
<1> HIDE DEF w
<1>6. \A k \in 1..(n + 1) : q[k] = w[k]
  BY <1>0, <1>4, <1>5
<1>7. q = w
  BY <1>2, <1>5, <1>6, SeqEqual
<1> QED
  BY <1>7 DEF p, q, x, w

\* An arc that loses its first slot loses the first buffer.
LEMMA QueuePop ==
  ASSUME NEW r \in [Slot -> Value], NEW a \in Slot, NEW n \in 1..(Size - 1)
  PROVE  /\ QueueOf(r, a, n) # <<>>
         /\ Head(QueueOf(r, a, n)) = r[a]
         /\ Tail(QueueOf(r, a, n)) = QueueOf(r, Succ(a), n - 1)
<1> DEFINE p == QueueOf(r, a, n)  q == QueueOf(r, Succ(a), n - 1)
<1>0. n \in Nat \ {0} /\ n \in 0..Size /\ n - 1 \in 0..Size /\ n - 1 \in Nat
  BY SlotIs
<1>1. p \in Seq(Value) /\ Len(p) = n /\ \A k \in 1..n : p[k] = r[(a + k - 1) % Size]
  BY <1>0, QueueOfIs DEF IsQueue
<1>2. q \in Seq(Value) /\ Len(q) = n - 1 /\ \A k \in 1..(n - 1) : q[k] = r[(Succ(a) + k - 1) % Size]
  <2>1. Succ(a) \in Slot
    BY SuccIs
  <2>2. IsQueue(q, r, Succ(a), n - 1)
    BY <1>0, <2>1, QueueOfIs
  <2> QED
    BY <2>2 DEF IsQueue
<1> HIDE DEF p, q
<1>3. p # <<>>
  BY <1>0, <1>1, EmptySeq
<1>4. p[1] = r[a]
  <2>0. 0 \in Slot
    BY SlotIs DEF Slot
  <2>1. (a + 0) % Size = IF a + 0 < Size THEN a + 0 ELSE a + 0 - Size
    BY <2>0, PlusIs
  <2>2. (a + 0) % Size = a /\ a + 1 - 1 = a + 0
    BY <2>1, SlotIs
  <2> QED
    BY <1>0, <1>1, <2>2
<1>5. ASSUME NEW k \in 1..(n - 1) PROVE q[k] = p[k + 1]
  <2>1. k + 1 \in 1..n /\ k - 1 \in Slot /\ k \in Slot
    BY <1>0, SlotIs DEF Slot
  <2>2. Succ(a) \in Slot /\ Succ(a) = IF a = Size - 1 THEN 0 ELSE a + 1
    BY SuccIs
  <2>3. (Succ(a) + (k - 1)) % Size = IF Succ(a) + (k - 1) < Size THEN Succ(a) + (k - 1) ELSE Succ(a) + (k - 1) - Size
    BY <2>1, <2>2, PlusIs
  <2>4. (a + k) % Size = IF a + k < Size THEN a + k ELSE a + k - Size
    BY <2>1, PlusIs
  <2>5. (Succ(a) + (k - 1)) % Size = (a + k) % Size
    BY <2>1, <2>2, <2>3, <2>4, SlotIs
  <2>6. Succ(a) + k - 1 = Succ(a) + (k - 1) /\ a + (k + 1) - 1 = a + k
    BY <2>1, <2>2, SlotIs
  <2>7. q[k] = r[(Succ(a) + k - 1) % Size]
    BY <1>2
  <2>8. p[k + 1] = r[(a + (k + 1) - 1) % Size]
    BY <1>1, <2>1
  <2> QED
    BY <2>5, <2>6, <2>7, <2>8, Zenon
<1> DEFINE w == Tail(p)
<1>6. w \in Seq(Value) /\ Len(w) = n - 1 /\ (\A k \in 1..(n - 1) : w[k] = p[k + 1])
  BY <1>1, <1>3, HeadTailProperties
<1>7. Head(p) = p[1]
  OBVIOUS
<1> HIDE DEF w
<1>8. \A k \in 1..(n - 1) : w[k] = q[k]
  BY <1>5, <1>6
<1>9. w = q
  BY <1>2, <1>6, <1>8, SeqEqual
<1> QED
  BY <1>3, <1>4, <1>7, <1>9 DEF p, q, w

\* The rings r and r2 hold the same from a to b.
SameArc(r, r2, a, b) == \A i \in Slot : In(a, i, b) => r2[i] = r[i]

\* Slots outside of the arc do not matter.
LEMMA QueueSame ==
  ASSUME NEW r, NEW r2, NEW a \in Slot, NEW b \in Slot, SameArc(r, r2, a, b)
  PROVE  QueueOf(r2, a, Distance(a, b)) = QueueOf(r, a, Distance(a, b))
<1>1. Distance(a, b) \in Slot
  BY DistanceIs
<1>2. ASSUME NEW k \in 1..Distance(a, b)
      PROVE  r2[(a + k - 1) % Size] = r[(a + k - 1) % Size]
  <2>1. k - 1 \in Slot /\ k - 1 < Distance(a, b) /\ a + k - 1 = a + (k - 1)
    BY <1>1, SlotIs DEF Slot
  <2>2. (a + (k - 1)) % Size \in Slot /\ Distance(a, (a + (k - 1)) % Size) = k - 1
    BY <2>1, PlusIs, PlusDistance
  <2> QED
    BY <2>1, <2>2 DEF In, SameArc
<1> QED
  BY <1>2 DEF QueueOf

-----------------------------------------------------------------------------

\* The labels of a thread that has reserved a slot to fill.
Filling == {"p_store", "p_publish"}

\* The threads with a dequeue in progress.
Consumers == {t \in Thread : pc[t] \in Consuming}

\* The indices stand in order.
IndexInv == InOrder(br_cons_tail, br_cons_head, br_prod_tail, br_prod_head)

\* The slots from a to b are the ones that the threads at the
\* labels have reserved, one each.
Reserved(p, h, labels, a, b) ==
  /\ \A t \in Thread : p[t] \in labels => In(a, h[t], b)
  /\ \A t, u \in Thread : p[t] \in labels /\ p[u] \in labels /\ h[t] = h[u] => t = u
  /\ \A i \in Slot : In(a, i, b) => \E t \in Thread : p[t] \in labels /\ h[t] = i

\* The slots reserved to fill and to empty.
ReserveInv ==
  /\ Reserved(pc, head, Filling, br_prod_tail, br_prod_head)
  /\ Reserved(pc, head, Consuming, br_cons_tail, br_cons_head)

\* One slot is reserved for each of them.
CountInv ==
  /\ IsFiniteSet(Consumers)
  /\ Cardinality(Consumers) = Distance(br_cons_tail, br_cons_head)

\* What the slots hold: queued buffers, nothing when free, and what the thread
\* that has reserved a slot has left there.
RingInv ==
  /\ \A i \in Slot : In(br_cons_head, i, br_prod_tail) => br_ring[i] # NULL
  /\ \A i \in Slot : ~In(br_cons_tail, i, br_prod_head) => br_ring[i] = NULL
  /\ \A t \in Thread :
       /\ pc[t] \in {"p_store", "c_publish", "s_publish"} => br_ring[head[t]] = NULL
       /\ pc[t] = "p_publish" => br_ring[head[t]] = buf[t]
       /\ pc[t] \in {"c_take", "s_take"} => br_ring[head[t]] # NULL
       /\ pc[t] \in Producing => buf[t] # NULL

\* What a thread knows from the index it has read, if it is still current.
WindowInv ==
  \A t \in Thread :
    /\ pc[t] = "p_cas" /\ head[t] = br_prod_head => Succ(br_prod_head) # br_cons_tail
    /\ pc[t] = "c_cas" /\ head[t] = br_cons_head => br_cons_head # br_prod_tail

\* Consumers hold br_lock, or there is none.
LockInv ==
  /\ br_owner # NULL => mode = "sc"
  /\ \A t \in Thread :
       /\ br_owner = t => pc[t] \in {"idle", "s_take", "s_publish"}
       /\ pc[t] \in {"s_take", "s_publish"} => br_owner = t
       /\ pc[t] \in {"c_tail", "c_cas", "c_take", "c_publish"} => mode = "mc"

\* What has been peeked is still the first, and only the owner of br_lock has peeked.
PeekInv ==
  /\ PeekStaysFirst
  /\ \A t \in Thread : peeked[t] # NULL => br_owner = t

\* The threads other than t keep their reservations.
OthersKeep(p, h, p2, h2, labels, t) ==
  \A u \in Thread \ {t} : /\ p2[u] \in labels <=> p[u] \in labels
                          /\ p[u] \in labels => h2[u] = h[u]

\* A step that keeps every reservation.
LEMMA ReserveSame ==
  ASSUME NEW p, NEW h, NEW p2, NEW h2, NEW L, NEW t \in Thread, NEW a, NEW b,
         Reserved(p, h, L, a, b), OthersKeep(p, h, p2, h2, L, t),
         p2[t] \in L <=> p[t] \in L, p[t] \in L => h2[t] = h[t]
  PROVE  Reserved(p2, h2, L, a, b)
<1>1. \A u \in Thread : (p2[u] \in L <=> p[u] \in L) /\ (p[u] \in L => h2[u] = h[u])
  BY DEF OthersKeep
<1> QED
  BY <1>1 DEF Reserved

\* A thread that moves a head reserves the slot it moves past.
LEMMA ReservePush ==
  ASSUME NEW p, NEW h \in [Thread -> Slot], NEW p2, NEW h2, NEW L, NEW t \in Thread,
         NEW a \in Slot, NEW b \in Slot,
         Reserved(p, h, L, a, b), OthersKeep(p, h, p2, h2, L, t),
         p[t] \notin L, p2[t] \in L, h2[t] = b, Succ(b) # a
  PROVE  Reserved(p2, h2, L, a, Succ(b))
<1>1. ~In(a, b, b) /\ \A i \in Slot : In(a, i, Succ(b)) <=> In(a, i, b) \/ i = b
  BY GrowRight
<1>2. \A u \in Thread : p2[u] \in L <=> (p[u] \in L \/ u = t)
  BY DEF OthersKeep
<1>3. \A u \in Thread : p[u] \in L => h2[u] = h[u] /\ h[u] # b /\ In(a, h[u], b) /\ h[u] \in Slot
  BY <1>1 DEF OthersKeep, Reserved
<1>4. \A u \in Thread : p2[u] \in L => In(a, h2[u], Succ(b))
  BY <1>1, <1>2, <1>3
<1>5. \A u, v \in Thread : p2[u] \in L /\ p2[v] \in L /\ h2[u] = h2[v] => u = v
  BY <1>2, <1>3 DEF Reserved
<1>6. ASSUME NEW i \in Slot, In(a, i, Succ(b))
      PROVE  \E u \in Thread : p2[u] \in L /\ h2[u] = i
  BY <1>1, <1>2, <1>3, <1>6 DEF Reserved
<1> QED
  BY <1>4, <1>5, <1>6 DEF Reserved

\* A thread whose slot is at the tail gives it up by moving the tail.
LEMMA ReservePop ==
  ASSUME NEW p, NEW h \in [Thread -> Slot], NEW p2, NEW h2, NEW L, NEW t \in Thread,
         NEW a \in Slot, NEW b \in Slot,
         Reserved(p, h, L, a, b), OthersKeep(p, h, p2, h2, L, t),
         p[t] \in L, p2[t] \notin L, h[t] = a
  PROVE  a # b /\ Reserved(p2, h2, L, Succ(a), b)
<1>0. a # b
  BY ArcRoom DEF Reserved, In
<1>1. \A i \in Slot : In(Succ(a), i, b) <=> In(a, i, b) /\ i # a
  BY <1>0, ShrinkLeft
<1>2. \A u \in Thread : p2[u] \in L <=> (p[u] \in L /\ u # t)
  BY DEF OthersKeep
<1>3. \A u \in Thread : p2[u] \in L => h2[u] = h[u] /\ h[u] # a /\ In(a, h[u], b) /\ h[u] \in Slot
  BY <1>2 DEF OthersKeep, Reserved
<1>4. \A u \in Thread : p2[u] \in L => In(Succ(a), h2[u], b)
  BY <1>1, <1>3
<1>5. \A u, v \in Thread : p2[u] \in L /\ p2[v] \in L /\ h2[u] = h2[v] => u = v
  BY <1>2, <1>3 DEF Reserved
<1>6. ASSUME NEW i \in Slot, In(Succ(a), i, b)
      PROVE  \E u \in Thread : p2[u] \in L /\ h2[u] = i
  <2>1. PICK u \in Thread : p[u] \in L /\ h[u] = i
    BY <1>1, <1>6 DEF Reserved
  <2> QED
    BY <1>1, <1>2, <1>3, <1>6, <2>1
<1> QED
  BY <1>0, <1>4, <1>5, <1>6 DEF Reserved

\* The control points.
Labels == Producing \cup Consuming \cup {"idle", "c_tail", "c_cas"}

\* What most steps need to know of the state.
RingFacts ==
  /\ br_prod_head \in Slot /\ br_prod_tail \in Slot
  /\ br_cons_head \in Slot /\ br_cons_tail \in Slot
  /\ br_ring \in [Slot -> Buf \cup {NULL}]
  /\ pc \in [Thread -> Labels] /\ head \in [Thread -> Slot]
  /\ buf \in [Thread -> Buf \cup {NULL}] /\ peeked \in [Thread -> Buf \cup {NULL}]
  /\ 0 \in Slot /\ \A i \in Slot : Succ(i) \in Slot
  /\ NULL \notin Thread /\ NULL \notin Buf

\* They hold in every state of the right types.
LEMMA RingFactsHold == TypeOK => RingFacts
<1>1. 0 \in Slot
  BY SizeAssumption DEF Slot
<1> QED
  BY <1>1, SuccIs, NULLAssumption DEF TypeOK, RingFacts, Labels

\* Every step keeps the types.
LEMMA TypeNext ==
  ASSUME TypeOK, [Next]_vars
  PROVE  TypeOK'
<1>0. RingFacts
  BY RingFactsHold
<1> USE <1>0 DEF RingFacts
<1>1. ASSUME NEW t \in Thread, NEW b \in Buf, Enqueue(t, b) PROVE TypeOK'
  BY <1>1 DEF Enqueue, Goto, TypeOK, Labels, Producing, Consuming, indices
<1>2. ASSUME NEW t \in Thread, ReadConsTail(t) PROVE TypeOK'
  BY <1>2 DEF ReadConsTail, Goto, Leave, TypeOK, Labels, Producing, Consuming,
              indices
<1>3. ASSUME NEW t \in Thread, CasProdHead(t), br_prod_head = head[t]
      PROVE  TypeOK'
  BY <1>3 DEF CasProdHead, Goto, TypeOK, Labels, Producing, Consuming, indices
<1>4. ASSUME NEW t \in Thread, CasProdHead(t), br_prod_head # head[t]
      PROVE  TypeOK'
  BY <1>4 DEF CasProdHead, Goto, TypeOK, Labels, Producing, Consuming, indices
<1>5. ASSUME NEW t \in Thread, StoreSlot(t) PROVE TypeOK'
  BY <1>5 DEF StoreSlot, Goto, TypeOK, Labels, Producing, Consuming, indices
<1>6. ASSUME NEW t \in Thread, PublishProd(t) PROVE TypeOK'
  BY <1>6 DEF PublishProd, ProducersDone, Goto, Leave, TypeOK, Labels,
              Producing, Consuming, indices
<1>7. ASSUME NEW t \in Thread, ReadConsHead(t) PROVE TypeOK'
  BY <1>7 DEF ReadConsHead, Goto, TypeOK, Labels, Producing, Consuming, indices
<1>8. ASSUME NEW t \in Thread, ReadProdTail(t) PROVE TypeOK'
  BY <1>8 DEF ReadProdTail, Goto, Leave, TypeOK, Labels, Producing, Consuming,
              indices
<1>9. ASSUME NEW t \in Thread, CasConsHead(t), br_cons_head = head[t]
      PROVE  TypeOK'
  BY <1>9 DEF CasConsHead, Goto, TypeOK, Labels, Producing, Consuming, indices
<1>10. ASSUME NEW t \in Thread, CasConsHead(t), br_cons_head # head[t]
       PROVE  TypeOK'
  BY <1>10 DEF CasConsHead, Goto, TypeOK, Labels, Producing, Consuming, indices
<1>11. ASSUME NEW t \in Thread, TakeSlot(t) PROVE TypeOK'
  BY <1>11 DEF TakeSlot, Goto, TypeOK, Labels, Producing, Consuming, indices
<1>12. ASSUME NEW t \in Thread, PublishCons(t) PROVE TypeOK'
  BY <1>12 DEF PublishCons, ConsumersDone, Goto, Leave, TypeOK, Labels,
               Producing, Consuming, indices
<1>13. ASSUME NEW t \in Thread, LockRing(t) PROVE TypeOK'
  BY <1>13 DEF LockRing, TypeOK, Labels, Producing, Consuming, indices
<1>14. ASSUME NEW t \in Thread, UnlockRing(t) PROVE TypeOK'
  BY <1>14 DEF UnlockRing, TypeOK, Labels, Producing, Consuming, indices
<1>15. ASSUME NEW t \in Thread, buf_ring_peek(t) PROVE TypeOK'
  BY <1>15 DEF buf_ring_peek, TypeOK, Labels, Producing, Consuming, indices
<1>16. ASSUME NEW t \in Thread, SingleConsHead(t) PROVE TypeOK'
  BY <1>16 DEF SingleConsHead, Goto, TypeOK, Labels, Producing, Consuming,
               indices
<1>17. ASSUME NEW t \in Thread, SingleTake(t) PROVE TypeOK'
  BY <1>17 DEF SingleTake, Goto, TypeOK, Labels, Producing, Consuming, indices
<1>18. ASSUME NEW t \in Thread, SinglePublish(t) PROVE TypeOK'
  BY <1>18 DEF SinglePublish, Goto, Leave, TypeOK, Labels, Producing,
               Consuming, indices
<1>19. CASE UNCHANGED vars
  BY <1>19 DEF vars, indices, TypeOK, Labels, Producing, Consuming, indices
<1> QED
  BY <1>1, <1>2, <1>3, <1>4, <1>5, <1>6, <1>7, <1>8, <1>9, <1>10, <1>11, <1>12,
     <1>13, <1>14, <1>15, <1>16, <1>17, <1>18, <1>19
     DEF Next, Step, Inside

\* Every step keeps br_lock with the consumer inside a dequeue.
LEMMA LockInvNext ==
  ASSUME TypeOK, LockInv, [Next]_vars
  PROVE  LockInv'
<1> USE DEF LockInv
<1>0. RingFacts
  BY RingFactsHold
<1> USE <1>0 DEF RingFacts
<1>1. ASSUME NEW t \in Thread, NEW b \in Buf, Enqueue(t, b) PROVE LockInv'
  BY <1>1 DEF Enqueue, Goto, indices
<1>2. ASSUME NEW t \in Thread, ReadConsTail(t) PROVE LockInv'
  BY <1>2 DEF ReadConsTail, Goto, Leave, indices
<1>3. ASSUME NEW t \in Thread, CasProdHead(t), br_prod_head = head[t]
      PROVE  LockInv'
  BY <1>3 DEF CasProdHead, Goto, indices
<1>4. ASSUME NEW t \in Thread, CasProdHead(t), br_prod_head # head[t]
      PROVE  LockInv'
  BY <1>4 DEF CasProdHead, Goto, indices
<1>5. ASSUME NEW t \in Thread, StoreSlot(t) PROVE LockInv'
  BY <1>5 DEF StoreSlot, Goto, indices
<1>6. ASSUME NEW t \in Thread, PublishProd(t) PROVE LockInv'
  BY <1>6 DEF PublishProd, ProducersDone, Goto, Leave, indices
<1>7. ASSUME NEW t \in Thread, ReadConsHead(t) PROVE LockInv'
  BY <1>7 DEF ReadConsHead, Goto, indices
<1>8. ASSUME NEW t \in Thread, ReadProdTail(t) PROVE LockInv'
  BY <1>8 DEF ReadProdTail, Goto, Leave, indices
<1>9. ASSUME NEW t \in Thread, CasConsHead(t), br_cons_head = head[t]
      PROVE  LockInv'
  BY <1>9 DEF CasConsHead, Goto, indices
<1>10. ASSUME NEW t \in Thread, CasConsHead(t), br_cons_head # head[t]
       PROVE  LockInv'
  BY <1>10 DEF CasConsHead, Goto, indices
<1>11. ASSUME NEW t \in Thread, TakeSlot(t) PROVE LockInv'
  BY <1>11 DEF TakeSlot, Goto, indices
<1>12. ASSUME NEW t \in Thread, PublishCons(t) PROVE LockInv'
  BY <1>12 DEF PublishCons, ConsumersDone, Goto, Leave, indices
<1>13. ASSUME NEW t \in Thread, LockRing(t) PROVE LockInv'
  BY <1>13 DEF LockRing, indices
<1>14. ASSUME NEW t \in Thread, UnlockRing(t) PROVE LockInv'
  BY <1>14 DEF UnlockRing, indices
<1>15. ASSUME NEW t \in Thread, buf_ring_peek(t) PROVE LockInv'
  BY <1>15 DEF buf_ring_peek, indices
<1>16. ASSUME NEW t \in Thread, SingleConsHead(t) PROVE LockInv'
  BY <1>16 DEF SingleConsHead, Goto, indices
<1>17. ASSUME NEW t \in Thread, SingleTake(t) PROVE LockInv'
  BY <1>17 DEF SingleTake, Goto, indices
<1>18. ASSUME NEW t \in Thread, SinglePublish(t) PROVE LockInv'
  BY <1>18 DEF SinglePublish, Goto, Leave, indices
<1>19. CASE UNCHANGED vars
  BY <1>19 DEF vars, indices, indices
<1> QED
  BY <1>1, <1>2, <1>3, <1>4, <1>5, <1>6, <1>7, <1>8, <1>9, <1>10, <1>11, <1>12,
     <1>13, <1>14, <1>15, <1>16, <1>17, <1>18, <1>19
     DEF Next, Step, Inside

\* The actions that move no index.
QuietAction(t) ==
  \/ \E b \in Buf : Enqueue(t, b)
  \/ ReadConsTail(t) \/ (CasProdHead(t) /\ br_prod_head # head[t]) \/ StoreSlot(t)
  \/ ReadConsHead(t) \/ ReadProdTail(t) \/ (CasConsHead(t) /\ br_cons_head # head[t])
  \/ TakeSlot(t) \/ SingleTake(t)
  \/ LockRing(t) \/ UnlockRing(t) \/ buf_ring_peek(t)

\* They also leave every reservation alone.
QuietStep(t) ==
  /\ UNCHANGED indices
  /\ OthersKeep(pc, head, pc', head', Filling, t)
  /\ OthersKeep(pc, head, pc', head', Consuming, t)
  /\ pc'[t] \in Filling <=> pc[t] \in Filling
  /\ pc[t] \in Filling => head'[t] = head[t]
  /\ pc'[t] \in Consuming <=> pc[t] \in Consuming
  /\ pc[t] \in Consuming => head'[t] = head[t]

\* They do.
LEMMA QuietActionIsQuiet ==
  ASSUME TypeOK, NEW t \in Thread, QuietAction(t)
  PROVE  QuietStep(t)
<1> USE RingFactsHold DEF RingFacts, QuietStep, OthersKeep, Filling, Consuming, Goto
<1>1. CASE \E b \in Buf : Enqueue(t, b)
  BY <1>1 DEF Enqueue
<1>2. CASE ReadConsTail(t)
  BY <1>2 DEF ReadConsTail, Leave
<1>3. CASE CasProdHead(t) /\ br_prod_head # head[t]
  BY <1>3 DEF CasProdHead, indices
<1>4. CASE StoreSlot(t)
  BY <1>4 DEF StoreSlot
<1>5. CASE ReadConsHead(t)
  BY <1>5 DEF ReadConsHead
<1>6. CASE ReadProdTail(t)
  BY <1>6 DEF ReadProdTail, Leave
<1>7. CASE CasConsHead(t) /\ br_cons_head # head[t]
  BY <1>7 DEF CasConsHead, indices
<1>8. CASE TakeSlot(t)
  BY <1>8 DEF TakeSlot
<1>9. CASE LockRing(t)
  BY <1>9 DEF LockRing
<1>10. CASE UnlockRing(t)
  BY <1>10 DEF UnlockRing
<1>11. CASE buf_ring_peek(t)
  BY <1>11 DEF buf_ring_peek
<1>12. CASE SingleTake(t)
  BY <1>12 DEF SingleTake
<1> QED
  BY <1>1, <1>2, <1>3, <1>4, <1>5, <1>6, <1>7, <1>8, <1>9, <1>10, <1>11, <1>12
     DEF QuietAction

\* Under br_lock there is one dequeue at a time.
LEMMA SoloConsumer ==
  ASSUME TypeOK, ReserveInv, LockInv, NEW t \in Thread, pc[t] \in {"s_take", "s_publish"}
  PROVE  br_cons_tail = head[t]
<1>0. RingFacts
  BY RingFactsHold
<1>1. In(br_cons_tail, head[t], br_cons_head)
  BY DEF ReserveInv, Reserved, Consuming
<1>2. br_cons_tail # br_cons_head
  <2>1. /\ Distance(br_cons_tail, head[t]) \in Nat
        /\ Distance(br_cons_tail, br_cons_head) \in Nat
        /\ Distance(br_cons_tail, br_cons_head) = 0 <=> br_cons_tail = br_cons_head
    BY <1>0, ArcRoom DEF RingFacts
  <2> QED
    BY <1>1, <2>1 DEF In
<1>3. In(br_cons_tail, br_cons_tail, br_cons_head)
  BY <1>0, <1>2, ShrinkLeft DEF RingFacts
<1>4. PICK u \in Thread : pc[u] \in Consuming /\ head[u] = br_cons_tail
  BY <1>0, <1>3 DEF ReserveInv, Reserved, RingFacts
<1>5. br_owner = t /\ br_owner # NULL /\ mode = "sc"
  BY <1>0 DEF LockInv, RingFacts
<1>6. br_owner = u
  BY <1>4, <1>5 DEF LockInv, Consuming
<1> QED
  BY <1>4, <1>5, <1>6

\* Every step keeps the reservations exact.
LEMMA ReserveInvNext ==
  ASSUME TypeOK, IndexInv, WindowInv, LockInv, ReserveInv, [Next]_vars
  PROVE  ReserveInv'
<1>0. RingFacts
  BY RingFactsHold
<1> USE <1>0 DEF RingFacts
<1>1. ASSUME NEW t \in Thread, QuietAction(t) PROVE ReserveInv'
  <2>1. QuietStep(t)
    BY <1>1, QuietActionIsQuiet
  <2> QED
    BY <2>1, ReserveSame DEF QuietStep, ReserveInv, indices
<1>2. ASSUME NEW t \in Thread, CasProdHead(t), br_prod_head = head[t]
      PROVE  ReserveInv'
  <2>0. Succ(br_prod_head) # br_prod_tail
    BY <1>2, MoveIndex DEF CasProdHead, IndexInv, WindowInv
  <2>1. OthersKeep(pc, head, pc', head', Filling, t) /\ OthersKeep(pc, head, pc', head', Consuming, t)
    BY <1>2 DEF OthersKeep, CasProdHead, Goto
  <2>2. pc[t] \notin Filling /\ pc'[t] \in Filling /\ head'[t] = br_prod_head /\ br_prod_head' = Succ(br_prod_head)
    BY <1>2 DEF Filling, CasProdHead, Goto
  <2>3. pc[t] \notin Consuming /\ pc'[t] \notin Consuming
    BY <1>2 DEF Consuming, CasProdHead, Goto
  <2>4. UNCHANGED <<br_prod_tail, br_cons_head, br_cons_tail>>
    BY <1>2 DEF indices, CasProdHead, Goto
  <2>5. Reserved(pc', head', Consuming, br_cons_tail, br_cons_head)
    BY <2>1, <2>3, ReserveSame DEF ReserveInv
  <2>6. Reserved(pc', head', Filling, br_prod_tail, Succ(br_prod_head))
    BY <2>1, <2>2, <2>0, ReservePush DEF ReserveInv
  <2> QED
    BY <2>2, <2>4, <2>5, <2>6 DEF ReserveInv
<1>3. ASSUME NEW t \in Thread, PublishProd(t) PROVE ReserveInv'
  <2>1. OthersKeep(pc, head, pc', head', Filling, t) /\ OthersKeep(pc, head, pc', head', Consuming, t)
    BY <1>3 DEF OthersKeep, PublishProd, ProducersDone, Goto, Leave
  <2>2. pc[t] \in Filling /\ pc'[t] \notin Filling /\ head[t] = br_prod_tail /\ br_prod_tail' = Succ(br_prod_tail)
    BY <1>3 DEF Filling, PublishProd, ProducersDone, Goto, Leave
  <2>3. pc[t] \notin Consuming /\ pc'[t] \notin Consuming
    BY <1>3 DEF Consuming, PublishProd, ProducersDone, Goto, Leave
  <2>4. UNCHANGED <<br_prod_head, br_cons_head, br_cons_tail>>
    BY <1>3 DEF indices, PublishProd, ProducersDone, Goto, Leave
  <2>5. Reserved(pc', head', Consuming, br_cons_tail, br_cons_head)
    BY <2>1, <2>3, ReserveSame DEF ReserveInv
  <2>6. Reserved(pc', head', Filling, Succ(br_prod_tail), br_prod_head)
    BY <2>1, <2>2, ReservePop DEF ReserveInv
  <2> QED
    BY <2>2, <2>4, <2>5, <2>6 DEF ReserveInv
<1>4. ASSUME NEW t \in Thread, CasConsHead(t), br_cons_head = head[t]
      PROVE  ReserveInv'
  <2>0. Succ(br_cons_head) # br_cons_tail
    BY <1>4, MoveIndex DEF CasConsHead, IndexInv, WindowInv
  <2>1. OthersKeep(pc, head, pc', head', Filling, t) /\ OthersKeep(pc, head, pc', head', Consuming, t)
    BY <1>4 DEF OthersKeep, CasConsHead, Goto
  <2>2. pc[t] \notin Consuming /\ pc'[t] \in Consuming /\ head'[t] = br_cons_head /\ br_cons_head' = Succ(br_cons_head)
    BY <1>4 DEF Consuming, CasConsHead, Goto
  <2>3. pc[t] \notin Filling /\ pc'[t] \notin Filling
    BY <1>4 DEF Filling, CasConsHead, Goto
  <2>4. UNCHANGED <<br_prod_head, br_prod_tail, br_cons_tail>>
    BY <1>4 DEF indices, CasConsHead, Goto
  <2>5. Reserved(pc', head', Filling, br_prod_tail, br_prod_head)
    BY <2>1, <2>3, ReserveSame DEF ReserveInv
  <2>6. Reserved(pc', head', Consuming, br_cons_tail, Succ(br_cons_head))
    BY <2>1, <2>2, <2>0, ReservePush DEF ReserveInv
  <2> QED
    BY <2>2, <2>4, <2>5, <2>6 DEF ReserveInv
<1>5. ASSUME NEW t \in Thread, PublishCons(t) PROVE ReserveInv'
  <2>1. OthersKeep(pc, head, pc', head', Filling, t) /\ OthersKeep(pc, head, pc', head', Consuming, t)
    BY <1>5 DEF OthersKeep, PublishCons, ConsumersDone, Goto, Leave
  <2>2. pc[t] \in Consuming /\ pc'[t] \notin Consuming /\ head[t] = br_cons_tail /\ br_cons_tail' = Succ(br_cons_tail)
    BY <1>5 DEF Consuming, PublishCons, ConsumersDone, Goto, Leave
  <2>3. pc[t] \notin Filling /\ pc'[t] \notin Filling
    BY <1>5 DEF Filling, PublishCons, ConsumersDone, Goto, Leave
  <2>4. UNCHANGED <<br_prod_head, br_prod_tail, br_cons_head>>
    BY <1>5 DEF indices, PublishCons, ConsumersDone, Goto, Leave
  <2>5. Reserved(pc', head', Filling, br_prod_tail, br_prod_head)
    BY <2>1, <2>3, ReserveSame DEF ReserveInv
  <2>6. Reserved(pc', head', Consuming, Succ(br_cons_tail), br_cons_head)
    BY <2>1, <2>2, ReservePop DEF ReserveInv
  <2> QED
    BY <2>2, <2>4, <2>5, <2>6 DEF ReserveInv
<1>6. ASSUME NEW t \in Thread, SingleConsHead(t) PROVE ReserveInv'
  <2>0. Succ(br_cons_head) # br_cons_tail
    BY <1>6, MoveIndex DEF SingleConsHead, IndexInv, buf_ring_empty
  <2>1. OthersKeep(pc, head, pc', head', Filling, t) /\ OthersKeep(pc, head, pc', head', Consuming, t)
    BY <1>6 DEF OthersKeep, SingleConsHead, Goto
  <2>2. pc[t] \notin Consuming /\ pc'[t] \in Consuming /\ head'[t] = br_cons_head /\ br_cons_head' = Succ(br_cons_head)
    BY <1>6 DEF Consuming, SingleConsHead, Goto
  <2>3. pc[t] \notin Filling /\ pc'[t] \notin Filling
    BY <1>6 DEF Filling, SingleConsHead, Goto
  <2>4. UNCHANGED <<br_prod_head, br_prod_tail, br_cons_tail>>
    BY <1>6 DEF indices, SingleConsHead, Goto
  <2>5. Reserved(pc', head', Filling, br_prod_tail, br_prod_head)
    BY <2>1, <2>3, ReserveSame DEF ReserveInv
  <2>6. Reserved(pc', head', Consuming, br_cons_tail, Succ(br_cons_head))
    BY <2>1, <2>2, <2>0, ReservePush DEF ReserveInv
  <2> QED
    BY <2>2, <2>4, <2>5, <2>6 DEF ReserveInv
<1>7. ASSUME NEW t \in Thread, SinglePublish(t) PROVE ReserveInv'
  <2>0. br_cons_tail = head[t]
    BY <1>7, SoloConsumer DEF SinglePublish
  <2>1. OthersKeep(pc, head, pc', head', Filling, t) /\ OthersKeep(pc, head, pc', head', Consuming, t)
    BY <1>7 DEF OthersKeep, SinglePublish, Goto, Leave
  <2>2. pc[t] \in Consuming /\ pc'[t] \notin Consuming /\ head[t] = br_cons_tail /\ br_cons_tail' = Succ(br_cons_tail)
    BY <1>7, <2>0 DEF Consuming, SinglePublish, Goto, Leave
  <2>3. pc[t] \notin Filling /\ pc'[t] \notin Filling
    BY <1>7 DEF Filling, SinglePublish, Goto, Leave
  <2>4. UNCHANGED <<br_prod_head, br_prod_tail, br_cons_head>>
    BY <1>7 DEF indices, SinglePublish, Goto, Leave
  <2>5. Reserved(pc', head', Filling, br_prod_tail, br_prod_head)
    BY <2>1, <2>3, ReserveSame DEF ReserveInv
  <2>6. Reserved(pc', head', Consuming, Succ(br_cons_tail), br_cons_head)
    BY <2>1, <2>2, ReservePop DEF ReserveInv
  <2> QED
    BY <2>2, <2>4, <2>5, <2>6 DEF ReserveInv
<1>8. CASE UNCHANGED vars
  BY <1>8 DEF vars, indices, ReserveInv
<1> QED
  BY <1>1, <1>2, <1>3, <1>4, <1>5, <1>6, <1>7, <1>8
     DEF Next, Step, Inside, QuietAction

\* Every step keeps the indices in order.
LEMMA IndexInvNext ==
  ASSUME TypeOK, WindowInv, LockInv, ReserveInv, IndexInv, [Next]_vars
  PROVE  IndexInv'
<1>0. RingFacts
  BY RingFactsHold
<1> USE <1>0 DEF RingFacts
<1>1. ASSUME NEW t \in Thread, QuietAction(t) PROVE IndexInv'
  <2>1. QuietStep(t)
    BY <1>1, QuietActionIsQuiet
  <2> QED
    BY <2>1 DEF QuietStep, IndexInv, indices
<1>2. ASSUME NEW t \in Thread, CasProdHead(t), br_prod_head = head[t]
      PROVE  IndexInv'
  <2>1. Succ(br_prod_head) # br_cons_tail
    BY <1>2 DEF WindowInv, CasProdHead
  <2> QED
    BY <1>2, <2>1, MoveIndex DEF IndexInv, CasProdHead, Goto
<1>3. ASSUME NEW t \in Thread, PublishProd(t) PROVE IndexInv'
  <2>1. br_prod_tail # br_prod_head
    BY <1>3, ArcNotEmpty DEF ReserveInv, Reserved, Filling, PublishProd
  <2> QED
    BY <1>3, <2>1, MoveIndex DEF IndexInv, PublishProd, ProducersDone, Goto,
                                 Leave
<1>4. ASSUME NEW t \in Thread, CasConsHead(t), br_cons_head = head[t]
      PROVE  IndexInv'
  <2>1. br_cons_head # br_prod_tail
    BY <1>4 DEF WindowInv, CasConsHead
  <2> QED
    BY <1>4, <2>1, MoveIndex DEF IndexInv, CasConsHead, Goto
<1>5. ASSUME NEW t \in Thread, PublishCons(t) PROVE IndexInv'
  <2>1. br_cons_tail # br_cons_head
    BY <1>5, ArcNotEmpty DEF ReserveInv, Reserved, Consuming, PublishCons
  <2> QED
    BY <1>5, <2>1, MoveIndex DEF IndexInv, PublishCons, ConsumersDone, Goto,
                                 Leave
<1>6. ASSUME NEW t \in Thread, SingleConsHead(t) PROVE IndexInv'
  <2>1. br_cons_head # br_prod_tail
    BY <1>6 DEF SingleConsHead, buf_ring_empty
  <2> QED
    BY <1>6, <2>1, MoveIndex DEF IndexInv, SingleConsHead, Goto
<1>7. ASSUME NEW t \in Thread, SinglePublish(t) PROVE IndexInv'
  <2>1. br_cons_tail # br_cons_head /\ br_cons_tail = head[t]
    BY <1>7, ArcNotEmpty, SoloConsumer DEF ReserveInv, Reserved, Consuming,
                                           SinglePublish
  <2> QED
    BY <1>7, <2>1, MoveIndex DEF IndexInv, SinglePublish
<1>8. CASE UNCHANGED vars
  BY <1>8 DEF vars, indices, IndexInv
<1> QED
  BY <1>1, <1>2, <1>3, <1>4, <1>5, <1>6, <1>7, <1>8
     DEF Next, Step, Inside, QuietAction

\* Every step keeps what the threads know from indices they have read, as long
\* as the ring does not go round once under a thread about to compare and set.
LEMMA WindowInvNext ==
  ASSUME ~MayLap, TypeOK, LockInv, ReserveInv, IndexInv, WindowInv, [Next]_vars
  PROVE  WindowInv'
<1>0. RingFacts
  BY RingFactsHold
<1> USE <1>0 DEF RingFacts
<1>1. ASSUME NEW t \in Thread, NEW b \in Buf, Enqueue(t, b) PROVE WindowInv'
  BY <1>1 DEF Enqueue, Goto, WindowInv, indices, RingFull, RingEmpty
<1>2. ASSUME NEW t \in Thread, ReadConsTail(t) PROVE WindowInv'
  BY <1>2 DEF ReadConsTail, Goto, Leave, WindowInv, indices, RingFull,
              RingEmpty
<1>3. ASSUME NEW t \in Thread, CasProdHead(t), br_prod_head = head[t]
      PROVE  WindowInv'
  <2>1. \A u \in Thread \ {t} : pc[u] = "p_cas" => head[u] # br_prod_head'
    BY <1>3 DEF CasProdHead, NoLap
  <2> QED
    BY <1>3, <2>1 DEF CasProdHead, Goto, WindowInv
<1>4. ASSUME NEW t \in Thread, CasProdHead(t), br_prod_head # head[t]
      PROVE  WindowInv'
  BY <1>4 DEF CasProdHead, Goto, WindowInv, indices, RingFull, RingEmpty
<1>5. ASSUME NEW t \in Thread, StoreSlot(t) PROVE WindowInv'
  BY <1>5 DEF StoreSlot, Goto, WindowInv, indices, RingFull, RingEmpty
<1>6. ASSUME NEW t \in Thread, PublishProd(t) PROVE WindowInv'
  <2>1. br_prod_tail # br_prod_head
    BY <1>6, ArcNotEmpty DEF ReserveInv, Reserved, Filling, PublishProd,
                             ProducersDone
  <2>2. br_cons_head # br_prod_tail'
    BY <1>6, <2>1, MoveIndex DEF IndexInv, PublishProd, ProducersDone
  <2> QED
    BY <1>6, <2>2 DEF PublishProd, Goto, Leave, WindowInv
<1>7. ASSUME NEW t \in Thread, ReadConsHead(t) PROVE WindowInv'
  BY <1>7 DEF ReadConsHead, Goto, WindowInv, indices, RingFull, RingEmpty
<1>8. ASSUME NEW t \in Thread, ReadProdTail(t) PROVE WindowInv'
  BY <1>8 DEF ReadProdTail, Goto, Leave, WindowInv, indices, RingFull,
              RingEmpty
<1>9. ASSUME NEW t \in Thread, CasConsHead(t), br_cons_head = head[t]
      PROVE  WindowInv'
  <2>1. \A u \in Thread \ {t} : pc[u] = "c_cas" => head[u] # br_cons_head'
    BY <1>9 DEF CasConsHead, NoLap
  <2>2. br_cons_head # br_prod_tail
    BY <1>9 DEF CasConsHead, WindowInv
  <2> QED
    BY <1>9, <2>1, <2>2 DEF CasConsHead, Goto, WindowInv
<1>10. ASSUME NEW t \in Thread, CasConsHead(t), br_cons_head # head[t]
       PROVE  WindowInv'
  BY <1>10 DEF CasConsHead, Goto, WindowInv, indices, RingFull, RingEmpty
<1>11. ASSUME NEW t \in Thread, TakeSlot(t) PROVE WindowInv'
  BY <1>11 DEF TakeSlot, Goto, WindowInv, indices, RingFull, RingEmpty
<1>12. ASSUME NEW t \in Thread, PublishCons(t) PROVE WindowInv'
  <2>1. br_cons_tail # br_cons_head
    BY <1>12, ArcNotEmpty DEF ReserveInv, Reserved, Consuming, PublishCons,
                              ConsumersDone
  <2>2. Succ(br_prod_head) # br_cons_tail'
    BY <1>12, <2>1, MoveIndex DEF IndexInv, PublishCons, ConsumersDone
  <2> QED
    BY <1>12, <2>2 DEF PublishCons, Goto, Leave, WindowInv
<1>13. ASSUME NEW t \in Thread, LockRing(t) PROVE WindowInv'
  BY <1>13 DEF LockRing, WindowInv, indices, RingFull, RingEmpty
<1>14. ASSUME NEW t \in Thread, UnlockRing(t) PROVE WindowInv'
  BY <1>14 DEF UnlockRing, WindowInv, indices, RingFull, RingEmpty
<1>15. ASSUME NEW t \in Thread, buf_ring_peek(t) PROVE WindowInv'
  BY <1>15 DEF buf_ring_peek, WindowInv, indices, RingFull, RingEmpty
<1>16. ASSUME NEW t \in Thread, SingleConsHead(t) PROVE WindowInv'
  <2>1. \A u \in Thread : pc[u] # "c_cas"
    BY <1>16 DEF SingleConsHead, LockInv
  <2> QED
    BY <1>16, <2>1 DEF SingleConsHead, Goto, WindowInv
<1>17. ASSUME NEW t \in Thread, SingleTake(t) PROVE WindowInv'
  BY <1>17 DEF SingleTake, Goto, WindowInv, indices, RingFull, RingEmpty
<1>18. ASSUME NEW t \in Thread, SinglePublish(t) PROVE WindowInv'
  <2>1. br_cons_tail # br_cons_head /\ br_cons_tail = head[t]
    BY <1>18, ArcNotEmpty, SoloConsumer DEF ReserveInv, Reserved, Consuming,
                                            SinglePublish
  <2>2. Succ(br_prod_head) # br_cons_tail'
    BY <1>18, <2>1, MoveIndex DEF IndexInv, SinglePublish
  <2> QED
    BY <1>18, <2>2 DEF SinglePublish, Goto, Leave, WindowInv
<1>19. CASE UNCHANGED vars
  BY <1>19 DEF vars, indices, WindowInv, indices, RingFull, RingEmpty
<1> QED
  BY <1>1, <1>2, <1>3, <1>4, <1>5, <1>6, <1>7, <1>8, <1>9, <1>10, <1>11, <1>12,
     <1>13, <1>14, <1>15, <1>16, <1>17, <1>18, <1>19
     DEF Next, Step, Inside

\* Every step keeps the number of dequeues in progress.
LEMMA CountInvNext ==
  ASSUME TypeOK, WindowInv, LockInv, ReserveInv, IndexInv, CountInv, [Next]_vars
  PROVE  CountInv'
<1>0. RingFacts
  BY RingFactsHold
<1> USE <1>0 DEF RingFacts
<1>1. ASSUME NEW t \in Thread, QuietAction(t) PROVE CountInv'
  <2>1. QuietStep(t)
    BY <1>1, QuietActionIsQuiet
  <2>2. Consumers' = Consumers
    BY <2>1 DEF QuietStep, OthersKeep, Consumers
  <2> QED
    BY <2>1, <2>2 DEF QuietStep, CountInv, indices
<1>2. ASSUME NEW t \in Thread, CasProdHead(t), br_prod_head = head[t]
      PROVE  CountInv'
  <2>1. Consumers' = Consumers
    BY <1>2 DEF Consumers, Consuming, CasProdHead, Goto
  <2> QED
    BY <1>2, <2>1 DEF CountInv, CasProdHead, Goto
<1>3. ASSUME NEW t \in Thread, PublishProd(t) PROVE CountInv'
  <2>1. Consumers' = Consumers
    BY <1>3 DEF Consumers, Consuming, PublishProd, ProducersDone, Goto, Leave
  <2> QED
    BY <1>3, <2>1 DEF CountInv, PublishProd, ProducersDone, Goto, Leave
<1>4. ASSUME NEW t \in Thread, CasConsHead(t), br_cons_head = head[t]
      PROVE  CountInv'
  <2>1. Consumers' = Consumers \cup {t} /\ t \notin Consumers
    BY <1>4 DEF Consumers, Consuming, CasConsHead, Goto
  <2>2. Cardinality(Consumers') = Cardinality(Consumers) + 1 /\ IsFiniteSet(Consumers')
    BY <2>1, FS_AddElement DEF CountInv
  <2>3. Succ(br_cons_head) # br_cons_tail
    BY <1>4, MoveIndex DEF IndexInv, CasConsHead, WindowInv
  <2>4. br_cons_head' = Succ(br_cons_head) /\ br_cons_tail' = br_cons_tail
    BY <1>4 DEF CasConsHead, Goto
  <2> QED
    BY <2>2, <2>3, <2>4, GrowRight DEF CountInv
<1>5. ASSUME NEW t \in Thread, PublishCons(t) PROVE CountInv'
  <2>1. Consumers' = Consumers \ {t} /\ t \in Consumers
    BY <1>5 DEF Consumers, Consuming, PublishCons, ConsumersDone, Goto, Leave
  <2>2. Cardinality(Consumers') = Cardinality(Consumers) - 1 /\ IsFiniteSet(Consumers')
    BY <2>1, FS_RemoveElement DEF CountInv
  <2>3. br_cons_tail # br_cons_head /\ br_cons_tail = head[t]
    BY <1>5, ArcNotEmpty DEF ReserveInv, Reserved, Consuming, PublishCons,
                             ConsumersDone, Goto, Leave
  <2>4. br_cons_tail' = Succ(br_cons_tail) /\ br_cons_head' = br_cons_head
    BY <1>5, <2>3 DEF PublishCons, ConsumersDone, Goto, Leave
  <2> QED
    BY <2>2, <2>3, <2>4, ShrinkLeft DEF CountInv
<1>6. ASSUME NEW t \in Thread, SingleConsHead(t) PROVE CountInv'
  <2>1. Consumers' = Consumers \cup {t} /\ t \notin Consumers
    BY <1>6 DEF Consumers, Consuming, SingleConsHead, Goto
  <2>2. Cardinality(Consumers') = Cardinality(Consumers) + 1 /\ IsFiniteSet(Consumers')
    BY <2>1, FS_AddElement DEF CountInv
  <2>3. Succ(br_cons_head) # br_cons_tail
    BY <1>6, MoveIndex DEF IndexInv, SingleConsHead, buf_ring_empty
  <2>4. br_cons_head' = Succ(br_cons_head) /\ br_cons_tail' = br_cons_tail
    BY <1>6 DEF SingleConsHead, Goto
  <2> QED
    BY <2>2, <2>3, <2>4, GrowRight DEF CountInv
<1>7. ASSUME NEW t \in Thread, SinglePublish(t) PROVE CountInv'
  <2>1. Consumers' = Consumers \ {t} /\ t \in Consumers
    BY <1>7 DEF Consumers, Consuming, SinglePublish, Goto, Leave
  <2>2. Cardinality(Consumers') = Cardinality(Consumers) - 1 /\ IsFiniteSet(Consumers')
    BY <2>1, FS_RemoveElement DEF CountInv
  <2>3. br_cons_tail # br_cons_head /\ br_cons_tail = head[t]
    BY <1>7, ArcNotEmpty, SoloConsumer DEF ReserveInv, Reserved, Consuming,
                                           SinglePublish, Goto, Leave
  <2>4. br_cons_tail' = Succ(br_cons_tail) /\ br_cons_head' = br_cons_head
    BY <1>7, <2>3 DEF SinglePublish, Goto, Leave
  <2> QED
    BY <2>2, <2>3, <2>4, ShrinkLeft DEF CountInv
<1>8. CASE UNCHANGED vars
  BY <1>8 DEF vars, indices, CountInv, Consumers
<1> QED
  BY <1>1, <1>2, <1>3, <1>4, <1>5, <1>6, <1>7, <1>8
     DEF Next, Step, Inside, QuietAction

\* Reservations to fill, reservations to empty, the queue and the free slots do not overlap.
LEMMA SlotsApart ==
  ASSUME TypeOK, IndexInv, ReserveInv
  PROVE  /\ \A t \in Thread : pc[t] \in Filling =>
              /\ ~In(br_cons_head, head[t], br_prod_tail)
              /\ In(br_cons_tail, head[t], br_prod_head)
         /\ \A t \in Thread : pc[t] \in Consuming =>
              /\ ~In(br_cons_head, head[t], br_prod_tail)
              /\ In(br_cons_tail, head[t], br_prod_head)
         /\ \A t, u \in Thread : pc[t] \in Filling \cup Consuming /\ pc[u] \in Filling \cup Consuming
                                 /\ head[t] = head[u] => t = u
<1>0. RingFacts
  BY RingFactsHold
<1>1. \A i \in Slot :
        /\ In(br_cons_tail, i, br_prod_head) <=> \/ In(br_cons_tail, i, br_cons_head)
                                                \/ In(br_cons_head, i, br_prod_tail)
                                                \/ In(br_prod_tail, i, br_prod_head)
        /\ ~(In(br_cons_tail, i, br_cons_head) /\ In(br_cons_head, i, br_prod_tail))
        /\ ~(In(br_cons_tail, i, br_cons_head) /\ In(br_prod_tail, i, br_prod_head))
        /\ ~(In(br_cons_head, i, br_prod_tail) /\ In(br_prod_tail, i, br_prod_head))
  BY <1>0, FourArcs DEF RingFacts, IndexInv, InOrder
<1>2. \A t \in Thread : head[t] \in Slot
  BY <1>0 DEF RingFacts
<1> QED
  BY <1>1, <1>2 DEF ReserveInv, Reserved

\* Every step keeps what the slots hold.
LEMMA RingInvNext ==
  ASSUME TypeOK, WindowInv, LockInv, ReserveInv, IndexInv, RingInv, [Next]_vars
  PROVE  RingInv'
<1>0. RingFacts
  BY RingFactsHold
<1> USE <1>0 DEF RingFacts
<1>1. ASSUME NEW t \in Thread, NEW b \in Buf, Enqueue(t, b) PROVE RingInv'
  <2>1. UNCHANGED <<indices, br_ring>>
    BY <1>1 DEF indices, Enqueue, Goto
  <2> QED
    BY <1>1, <2>1 DEF RingInv, indices, Producing, Enqueue, Goto
<1>2. ASSUME NEW t \in Thread, ReadConsTail(t) PROVE RingInv'
  <2>1. UNCHANGED <<indices, br_ring>>
    BY <1>2 DEF indices, ReadConsTail, Goto, Leave
  <2> QED
    BY <1>2, <2>1 DEF RingInv, indices, Producing, ReadConsTail, Goto, Leave
<1>3. ASSUME NEW t \in Thread, CasProdHead(t), br_prod_head = head[t]
      PROVE  RingInv'
  <2>1. Succ(br_prod_head) # br_cons_tail
    BY <1>3 DEF CasProdHead, WindowInv
  <2>2. /\ ~In(br_cons_tail, br_prod_head, br_prod_head)
        /\ \A i \in Slot : In(br_cons_tail, i, br_prod_head) => In(br_cons_tail, i, Succ(br_prod_head))
    BY <2>1, GrowRight
  <2> QED
    BY <1>3, <2>2 DEF CasProdHead, Goto, RingInv, Producing
<1>4. ASSUME NEW t \in Thread, CasProdHead(t), br_prod_head # head[t]
      PROVE  RingInv'
  <2>1. UNCHANGED <<indices, br_ring>>
    BY <1>4 DEF indices, CasProdHead, Goto
  <2> QED
    BY <1>4, <2>1 DEF RingInv, indices, Producing, CasProdHead, Goto
<1>5. ASSUME NEW t \in Thread, StoreSlot(t) PROVE RingInv'
  <2>1. /\ pc[t] \in Filling /\ br_ring' = [br_ring EXCEPT ![head[t]] = buf[t]] /\ buf[t] # NULL
        /\ \A u \in Thread : pc'[u] = IF u = t THEN "p_publish" ELSE pc[u]
        /\ UNCHANGED <<indices, head, buf>>
    BY <1>5 DEF StoreSlot, Goto, Filling, RingInv, Producing
  <2>2. \A u \in Thread \ {t} : pc[u] \in Filling \cup Consuming => head[u] # head[t]
    BY <2>1, SlotsApart
  <2>3. ~In(br_cons_head, head[t], br_prod_tail) /\ In(br_cons_tail, head[t], br_prod_head)
    BY <2>1, SlotsApart
  <2>4. \A i \in Slot : br_ring'[i] = IF i = head[t] THEN buf[t] ELSE br_ring[i]
    BY <2>1
  <2>5. \A u \in Thread \ {t} : pc[u] \in Filling \cup Consuming => br_ring'[head[u]] = br_ring[head[u]]
    BY <2>2, <2>4
  <2> QED
    BY <2>1, <2>3, <2>4, <2>5 DEF RingInv, Filling, Consuming, Producing,
                                  indices
<1>6. ASSUME NEW t \in Thread, PublishProd(t) PROVE RingInv'
  <2>1. br_prod_tail # br_prod_head /\ br_prod_tail = head[t]
    BY <1>6, ArcNotEmpty DEF ReserveInv, Reserved, Filling, PublishProd,
                             ProducersDone
  <2>2. Succ(br_prod_tail) # br_cons_head
    BY <2>1, MoveIndex DEF IndexInv
  <2>3. \A i \in Slot : In(br_cons_head, i, Succ(br_prod_tail)) <=> In(br_cons_head, i, br_prod_tail) \/ i = br_prod_tail
    BY <2>2, GrowRight
  <2>4. br_ring[br_prod_tail] # NULL
    BY <1>6, <2>1 DEF PublishProd, RingInv, Producing
  <2> QED
    BY <1>6, <2>1, <2>3, <2>4 DEF PublishProd, Goto, Leave, RingInv, Producing
<1>7. ASSUME NEW t \in Thread, ReadConsHead(t) PROVE RingInv'
  <2>1. UNCHANGED <<indices, br_ring>>
    BY <1>7 DEF indices, ReadConsHead, Goto
  <2> QED
    BY <1>7, <2>1 DEF RingInv, indices, Producing, ReadConsHead, Goto
<1>8. ASSUME NEW t \in Thread, ReadProdTail(t) PROVE RingInv'
  <2>1. UNCHANGED <<indices, br_ring>>
    BY <1>8 DEF indices, ReadProdTail, Goto, Leave
  <2> QED
    BY <1>8, <2>1 DEF RingInv, indices, Producing, ReadProdTail, Goto, Leave
<1>9. ASSUME NEW t \in Thread, CasConsHead(t), br_cons_head = head[t]
      PROVE  RingInv'
  <2>1. br_cons_head # br_prod_tail
    BY <1>9 DEF CasConsHead, WindowInv
  <2>2. /\ In(br_cons_head, br_cons_head, br_prod_tail)
        /\ \A i \in Slot : In(Succ(br_cons_head), i, br_prod_tail) => In(br_cons_head, i, br_prod_tail)
    BY <2>1, ShrinkLeft
  <2> QED
    BY <1>9, <2>2 DEF CasConsHead, Goto, RingInv, Producing
<1>10. ASSUME NEW t \in Thread, CasConsHead(t), br_cons_head # head[t]
       PROVE  RingInv'
  <2>1. UNCHANGED <<indices, br_ring>>
    BY <1>10 DEF indices, CasConsHead, Goto
  <2> QED
    BY <1>10, <2>1 DEF RingInv, indices, Producing, CasConsHead, Goto
<1>11. ASSUME NEW t \in Thread, TakeSlot(t) PROVE RingInv'
  <2>1. /\ pc[t] \in Consuming /\ br_ring' = [br_ring EXCEPT ![head[t]] = NULL]
        /\ \A u \in Thread : pc'[u] = IF u = t THEN "c_publish" ELSE pc[u]
        /\ \A u \in Thread \ {t} : buf'[u] = buf[u]
        /\ UNCHANGED <<indices, head>>
    BY <1>11 DEF TakeSlot, Goto, Consuming
  <2>2. \A u \in Thread \ {t} : pc[u] \in Filling \cup Consuming => head[u] # head[t]
    BY <2>1, SlotsApart
  <2>3. ~In(br_cons_head, head[t], br_prod_tail)
    BY <2>1, SlotsApart
  <2>4. \A i \in Slot : br_ring'[i] = IF i = head[t] THEN NULL ELSE br_ring[i]
    BY <2>1
  <2>5. \A u \in Thread \ {t} : pc[u] \in Filling \cup Consuming => br_ring'[head[u]] = br_ring[head[u]]
    BY <2>2, <2>4
  <2> QED
    BY <2>1, <2>3, <2>4, <2>5 DEF RingInv, Filling, Consuming, Producing,
                                  indices
<1>12. ASSUME NEW t \in Thread, PublishCons(t) PROVE RingInv'
  <2>1. br_cons_tail # br_cons_head /\ br_cons_tail = head[t]
    BY <1>12, ArcNotEmpty DEF ReserveInv, Reserved, Consuming, PublishCons,
                              ConsumersDone, Goto, Leave
  <2>2. br_cons_tail # br_prod_head
    <3>1. In(br_cons_tail, br_cons_tail, br_prod_head)
      BY <1>12, <2>1, SlotsApart DEF PublishCons, ConsumersDone, Goto, Leave,
                                     Consuming
    <3> QED
      BY <3>1, ArcNotEmpty
  <2>3. \A i \in Slot : In(Succ(br_cons_tail), i, br_prod_head) <=> In(br_cons_tail, i, br_prod_head) /\ i # br_cons_tail
    BY <2>2, ShrinkLeft
  <2>4. br_ring[br_cons_tail] = NULL
    BY <1>12, <2>1 DEF PublishCons, ConsumersDone, Goto, Leave, RingInv
  <2> QED
    BY <1>12, <2>1, <2>3, <2>4 DEF PublishCons, ConsumersDone, Goto, Leave,
                                   RingInv, Producing
<1>13. ASSUME NEW t \in Thread, LockRing(t) PROVE RingInv'
  <2>1. UNCHANGED <<indices, br_ring>>
    BY <1>13 DEF indices, LockRing
  <2> QED
    BY <1>13, <2>1 DEF RingInv, indices, Producing, LockRing
<1>14. ASSUME NEW t \in Thread, UnlockRing(t) PROVE RingInv'
  <2>1. UNCHANGED <<indices, br_ring>>
    BY <1>14 DEF indices, UnlockRing
  <2> QED
    BY <1>14, <2>1 DEF RingInv, indices, Producing, UnlockRing
<1>15. ASSUME NEW t \in Thread, buf_ring_peek(t) PROVE RingInv'
  <2>1. UNCHANGED <<indices, br_ring>>
    BY <1>15 DEF indices, buf_ring_peek
  <2> QED
    BY <1>15, <2>1 DEF RingInv, indices, Producing, buf_ring_peek
<1>16. ASSUME NEW t \in Thread, SingleConsHead(t) PROVE RingInv'
  <2>1. br_cons_head # br_prod_tail
    BY <1>16 DEF SingleConsHead, buf_ring_empty
  <2>2. /\ In(br_cons_head, br_cons_head, br_prod_tail)
        /\ \A i \in Slot : In(Succ(br_cons_head), i, br_prod_tail) => In(br_cons_head, i, br_prod_tail)
    BY <2>1, ShrinkLeft
  <2> QED
    BY <1>16, <2>2 DEF SingleConsHead, Goto, RingInv, Producing
<1>17. ASSUME NEW t \in Thread, SingleTake(t) PROVE RingInv'
  <2>1. /\ pc[t] \in Consuming /\ br_ring' = [br_ring EXCEPT ![head[t]] = NULL]
        /\ \A u \in Thread : pc'[u] = IF u = t THEN "s_publish" ELSE pc[u]
        /\ \A u \in Thread \ {t} : buf'[u] = buf[u]
        /\ UNCHANGED <<indices, head>>
    BY <1>17 DEF SingleTake, Goto, Consuming
  <2>2. \A u \in Thread \ {t} : pc[u] \in Filling \cup Consuming => head[u] # head[t]
    BY <2>1, SlotsApart
  <2>3. ~In(br_cons_head, head[t], br_prod_tail)
    BY <2>1, SlotsApart
  <2>4. \A i \in Slot : br_ring'[i] = IF i = head[t] THEN NULL ELSE br_ring[i]
    BY <2>1
  <2>5. \A u \in Thread \ {t} : pc[u] \in Filling \cup Consuming => br_ring'[head[u]] = br_ring[head[u]]
    BY <2>2, <2>4
  <2> QED
    BY <2>1, <2>3, <2>4, <2>5 DEF RingInv, Filling, Consuming, Producing,
                                  indices
<1>18. ASSUME NEW t \in Thread, SinglePublish(t) PROVE RingInv'
  <2>1. br_cons_tail # br_cons_head /\ br_cons_tail = head[t]
    BY <1>18, ArcNotEmpty, SoloConsumer DEF ReserveInv, Reserved, Consuming,
                                            SinglePublish, Goto, Leave
  <2>2. br_cons_tail # br_prod_head
    <3>1. In(br_cons_tail, br_cons_tail, br_prod_head)
      BY <1>18, <2>1, SlotsApart DEF SinglePublish, Goto, Leave, Consuming
    <3> QED
      BY <3>1, ArcNotEmpty
  <2>3. \A i \in Slot : In(Succ(br_cons_tail), i, br_prod_head) <=> In(br_cons_tail, i, br_prod_head) /\ i # br_cons_tail
    BY <2>2, ShrinkLeft
  <2>4. br_ring[br_cons_tail] = NULL
    BY <1>18, <2>1 DEF SinglePublish, Goto, Leave, RingInv
  <2> QED
    BY <1>18, <2>1, <2>3, <2>4 DEF SinglePublish, Goto, Leave, RingInv,
                                   Producing
<1>19. CASE UNCHANGED vars
  BY <1>19 DEF vars, indices, RingInv
<1> QED
  BY <1>1, <1>2, <1>3, <1>4, <1>5, <1>6, <1>7, <1>8, <1>9, <1>10, <1>11, <1>12,
     <1>13, <1>14, <1>15, <1>16, <1>17, <1>18, <1>19
     DEF Next, Step, Inside

\* No step runs into a panic.
LEMMA NoPanicNext ==
  ASSUME TypeOK, LockInv, ReserveInv, IndexInv, RingInv, NoPanic, [Next]_vars
  PROVE  NoPanic'
<1>0. RingFacts
  BY RingFactsHold
<1> USE <1>0 DEF RingFacts
<1>1. ASSUME NEW t \in Thread, NEW b \in Buf, Enqueue(t, b) PROVE NoPanic'
  <2>1. SUFFICES ASSUME AlreadyEnqueued(b) PROVE FALSE
    BY <1>1 DEF NoPanic, Enqueue
  <2>2. PICK k \in Slot : /\ k < Distance(br_cons_head, br_prod_head)
                          /\ br_ring[(br_cons_head + k) % Size] = b
    BY <2>1 DEF AlreadyEnqueued
  <2>3. (br_cons_head + k) % Size \in Slot
    BY PlusIs
  <2> QED
    BY <1>1, <2>2, <2>3 DEF Enqueue, Loose
<1>2. ASSUME NEW t \in Thread, ReadConsTail(t) PROVE NoPanic'
  BY <1>2 DEF NoPanic, ReadConsTail, Goto, Leave
<1>3. ASSUME NEW t \in Thread, CasProdHead(t), br_prod_head = head[t]
      PROVE  NoPanic'
  BY <1>3 DEF NoPanic, CasProdHead, Goto
<1>4. ASSUME NEW t \in Thread, CasProdHead(t), br_prod_head # head[t]
      PROVE  NoPanic'
  BY <1>4 DEF NoPanic, CasProdHead, Goto
<1>5. ASSUME NEW t \in Thread, StoreSlot(t) PROVE NoPanic'
  BY <1>5 DEF NoPanic, StoreSlot, RingInv
<1>6. ASSUME NEW t \in Thread, PublishProd(t) PROVE NoPanic'
  BY <1>6 DEF NoPanic, PublishProd, ProducersDone, Goto, Leave
<1>7. ASSUME NEW t \in Thread, ReadConsHead(t) PROVE NoPanic'
  BY <1>7 DEF NoPanic, ReadConsHead, Goto
<1>8. ASSUME NEW t \in Thread, ReadProdTail(t) PROVE NoPanic'
  BY <1>8 DEF NoPanic, ReadProdTail, Goto, Leave
<1>9. ASSUME NEW t \in Thread, CasConsHead(t), br_cons_head = head[t]
      PROVE  NoPanic'
  BY <1>9 DEF NoPanic, CasConsHead, Goto
<1>10. ASSUME NEW t \in Thread, CasConsHead(t), br_cons_head # head[t]
       PROVE  NoPanic'
  BY <1>10 DEF NoPanic, CasConsHead, Goto
<1>11. ASSUME NEW t \in Thread, TakeSlot(t) PROVE NoPanic'
  BY <1>11 DEF NoPanic, TakeSlot, Goto
<1>12. ASSUME NEW t \in Thread, PublishCons(t) PROVE NoPanic'
  BY <1>12 DEF NoPanic, PublishCons, ConsumersDone, Goto, Leave
<1>13. ASSUME NEW t \in Thread, LockRing(t) PROVE NoPanic'
  BY <1>13 DEF NoPanic, LockRing
<1>14. ASSUME NEW t \in Thread, UnlockRing(t) PROVE NoPanic'
  BY <1>14 DEF NoPanic, UnlockRing
<1>15. ASSUME NEW t \in Thread, buf_ring_peek(t) PROVE NoPanic'
  BY <1>15 DEF NoPanic, buf_ring_peek
<1>16. ASSUME NEW t \in Thread, SingleConsHead(t) PROVE NoPanic'
  BY <1>16 DEF NoPanic, SingleConsHead, Goto
<1>17. ASSUME NEW t \in Thread, SingleTake(t) PROVE NoPanic'
  <2>1. br_cons_tail = head[t] /\ br_owner = t
    BY <1>17, SoloConsumer DEF SingleTake, LockInv
  <2> QED
    BY <1>17, <2>1 DEF NoPanic, SingleTake
<1>18. ASSUME NEW t \in Thread, SinglePublish(t) PROVE NoPanic'
  BY <1>18 DEF NoPanic, SinglePublish, Goto, Leave
<1>19. CASE UNCHANGED vars
  BY <1>19 DEF vars, indices, NoPanic
<1> QED
  BY <1>1, <1>2, <1>3, <1>4, <1>5, <1>6, <1>7, <1>8, <1>9, <1>10, <1>11, <1>12,
     <1>13, <1>14, <1>15, <1>16, <1>17, <1>18, <1>19
     DEF Next, Step, Inside

\* Every step keeps a peeked buffer the next one to be dequeued.
LEMMA PeekInvNext ==
  ASSUME TypeOK, WindowInv, LockInv, ReserveInv, IndexInv, RingInv, PeekInv, [Next]_vars
  PROVE  PeekInv'
<1>0. RingFacts
  BY RingFactsHold
<1> USE <1>0 DEF RingFacts
<1>1. ASSUME NEW t \in Thread, NEW b \in Buf, Enqueue(t, b) PROVE PeekInv'
  <2>1. \A u \in Thread : peeked[u] # NULL => pc[u] \in {"idle", "s_take", "s_publish"} /\ u # t
    BY <1>1 DEF PeekInv, PeekStaysFirst, LockInv, Enqueue, Goto
  <2>2. UNCHANGED <<indices, br_ring, br_owner, peeked>>
    BY <1>1 DEF indices, Enqueue, Goto
  <2>3. \A u \in Thread \ {t} : pc'[u] = pc[u] /\ head'[u] = head[u] /\ buf'[u] = buf[u]
    BY <1>1 DEF Enqueue, Goto
  <2> QED
    BY <2>1, <2>2, <2>3 DEF PeekInv, PeekStaysFirst, indices, buf_ring_empty
<1>2. ASSUME NEW t \in Thread, ReadConsTail(t) PROVE PeekInv'
  <2>1. \A u \in Thread : peeked[u] # NULL => pc[u] \in {"idle", "s_take", "s_publish"} /\ u # t
    BY <1>2 DEF PeekInv, PeekStaysFirst, LockInv, ReadConsTail, Goto, Leave
  <2>2. UNCHANGED <<indices, br_ring, br_owner, peeked>>
    BY <1>2 DEF indices, ReadConsTail, Goto, Leave
  <2>3. \A u \in Thread \ {t} : pc'[u] = pc[u] /\ head'[u] = head[u] /\ buf'[u] = buf[u]
    BY <1>2 DEF ReadConsTail, Goto, Leave
  <2> QED
    BY <2>1, <2>2, <2>3 DEF PeekInv, PeekStaysFirst, indices, buf_ring_empty
<1>3. ASSUME NEW t \in Thread, CasProdHead(t), br_prod_head = head[t]
      PROVE  PeekInv'
  <2>1. \A u \in Thread : peeked[u] # NULL => pc[u] \in {"idle", "s_take", "s_publish"} /\ u # t
    BY <1>3 DEF PeekInv, PeekStaysFirst, LockInv, CasProdHead, Goto
  <2>2. UNCHANGED <<br_prod_tail, br_cons_head, br_cons_tail, br_ring, br_owner, peeked>>
    BY <1>3 DEF CasProdHead, Goto
  <2>3. \A u \in Thread \ {t} : pc'[u] = pc[u] /\ head'[u] = head[u] /\ buf'[u] = buf[u]
    BY <1>3 DEF CasProdHead, Goto
  <2> QED
    BY <2>1, <2>2, <2>3 DEF PeekInv, PeekStaysFirst, buf_ring_empty
<1>4. ASSUME NEW t \in Thread, CasProdHead(t), br_prod_head # head[t]
      PROVE  PeekInv'
  <2>1. \A u \in Thread : peeked[u] # NULL => pc[u] \in {"idle", "s_take", "s_publish"} /\ u # t
    BY <1>4 DEF PeekInv, PeekStaysFirst, LockInv, CasProdHead, Goto
  <2>2. UNCHANGED <<indices, br_ring, br_owner, peeked>>
    BY <1>4 DEF indices, CasProdHead, Goto
  <2>3. \A u \in Thread \ {t} : pc'[u] = pc[u] /\ head'[u] = head[u] /\ buf'[u] = buf[u]
    BY <1>4 DEF CasProdHead, Goto
  <2> QED
    BY <2>1, <2>2, <2>3 DEF PeekInv, PeekStaysFirst, indices, buf_ring_empty
<1>5. ASSUME NEW t \in Thread, StoreSlot(t) PROVE PeekInv'
  <2>1. \A u \in Thread : peeked[u] # NULL => pc[u] \in {"idle", "s_take", "s_publish"} /\ u # t
    BY <1>5 DEF PeekInv, PeekStaysFirst, LockInv, StoreSlot, Goto
  <2>2. UNCHANGED <<indices, br_owner, peeked>> /\ br_ring' = [br_ring EXCEPT ![head[t]] = buf[t]]
    BY <1>5 DEF StoreSlot, Goto
  <2>3. \A u \in Thread \ {t} : pc'[u] = pc[u] /\ head'[u] = head[u] /\ buf'[u] = buf[u]
    BY <1>5 DEF StoreSlot, Goto
  <2>4. br_cons_head # br_prod_tail => head[t] # br_cons_head
    BY <1>5, SlotsApart, ShrinkLeft DEF Filling, StoreSlot, Goto
  <2>5. \A u \in Thread \ {t} : pc[u] = "s_take" => head[t] # head[u]
    BY <1>5, SlotsApart DEF Filling, Consuming, StoreSlot, Goto
  <2> QED
    BY <2>1, <2>2, <2>3, <2>4, <2>5 DEF PeekInv, PeekStaysFirst, indices,
                                        buf_ring_empty
<1>6. ASSUME NEW t \in Thread, PublishProd(t) PROVE PeekInv'
  <2>1. \A u \in Thread : peeked[u] # NULL => pc[u] \in {"idle", "s_take", "s_publish"} /\ u # t
    BY <1>6 DEF PeekInv, PeekStaysFirst, LockInv, PublishProd, ProducersDone,
                Goto, Leave
  <2>2. UNCHANGED <<br_cons_head, br_ring, br_owner, peeked>>
    BY <1>6 DEF PublishProd, ProducersDone, Goto, Leave
  <2>3. \A u \in Thread \ {t} : pc'[u] = pc[u] /\ head'[u] = head[u] /\ buf'[u] = buf[u]
    BY <1>6 DEF PublishProd, ProducersDone, Goto, Leave
  <2>4. br_prod_tail # br_prod_head
    BY <1>6, ArcNotEmpty DEF ReserveInv, Reserved, Filling, PublishProd,
                             ProducersDone, Goto, Leave
  <2>5. br_cons_head # br_prod_tail'
    BY <1>6, <2>4, MoveIndex DEF IndexInv, PublishProd, ProducersDone, Goto,
                                 Leave
  <2> QED
    BY <2>1, <2>2, <2>3, <2>5 DEF PeekInv, PeekStaysFirst, buf_ring_empty
<1>7. ASSUME NEW t \in Thread, ReadConsHead(t) PROVE PeekInv'
  <2>1. \A u \in Thread : peeked[u] # NULL => pc[u] \in {"idle", "s_take", "s_publish"} /\ u # t
    BY <1>7 DEF PeekInv, PeekStaysFirst, LockInv, ReadConsHead, Goto
  <2>2. UNCHANGED <<indices, br_ring, br_owner, peeked>>
    BY <1>7 DEF indices, ReadConsHead, Goto
  <2>3. \A u \in Thread \ {t} : pc'[u] = pc[u] /\ head'[u] = head[u] /\ buf'[u] = buf[u]
    BY <1>7 DEF ReadConsHead, Goto
  <2> QED
    BY <2>1, <2>2, <2>3 DEF PeekInv, PeekStaysFirst, indices, buf_ring_empty
<1>8. ASSUME NEW t \in Thread, ReadProdTail(t) PROVE PeekInv'
  <2>1. \A u \in Thread : peeked[u] # NULL => pc[u] \in {"idle", "s_take", "s_publish"} /\ u # t
    BY <1>8 DEF PeekInv, PeekStaysFirst, LockInv, ReadProdTail, Goto, Leave
  <2>2. UNCHANGED <<indices, br_ring, br_owner, peeked>>
    BY <1>8 DEF indices, ReadProdTail, Goto, Leave
  <2>3. \A u \in Thread \ {t} : pc'[u] = pc[u] /\ head'[u] = head[u] /\ buf'[u] = buf[u]
    BY <1>8 DEF ReadProdTail, Goto, Leave
  <2> QED
    BY <2>1, <2>2, <2>3 DEF PeekInv, PeekStaysFirst, indices, buf_ring_empty
<1>9. ASSUME NEW t \in Thread, CasConsHead(t), br_cons_head = head[t]
      PROVE  PeekInv'
  <2>1. \A u \in Thread : peeked[u] = NULL
    BY <1>9 DEF PeekInv, LockInv, CasConsHead, Goto
  <2> QED
    BY <1>9, <2>1 DEF PeekInv, PeekStaysFirst, CasConsHead, Goto
<1>10. ASSUME NEW t \in Thread, CasConsHead(t), br_cons_head # head[t]
       PROVE  PeekInv'
  <2>1. \A u \in Thread : peeked[u] # NULL => pc[u] \in {"idle", "s_take", "s_publish"} /\ u # t
    BY <1>10 DEF PeekInv, PeekStaysFirst, LockInv, CasConsHead, Goto
  <2>2. UNCHANGED <<indices, br_ring, br_owner, peeked>>
    BY <1>10 DEF indices, CasConsHead, Goto
  <2>3. \A u \in Thread \ {t} : pc'[u] = pc[u] /\ head'[u] = head[u] /\ buf'[u] = buf[u]
    BY <1>10 DEF CasConsHead, Goto
  <2> QED
    BY <2>1, <2>2, <2>3 DEF PeekInv, PeekStaysFirst, indices, buf_ring_empty
<1>11. ASSUME NEW t \in Thread, TakeSlot(t) PROVE PeekInv'
  <2>1. \A u \in Thread : peeked[u] = NULL
    BY <1>11 DEF PeekInv, LockInv, TakeSlot, Goto
  <2> QED
    BY <1>11, <2>1 DEF PeekInv, PeekStaysFirst, TakeSlot, Goto
<1>12. ASSUME NEW t \in Thread, PublishCons(t) PROVE PeekInv'
  <2>1. \A u \in Thread : peeked[u] = NULL
    BY <1>12 DEF PeekInv, LockInv, PublishCons, ConsumersDone, Goto, Leave
  <2> QED
    BY <1>12, <2>1 DEF PeekInv, PeekStaysFirst, PublishCons, ConsumersDone,
                       Goto, Leave
<1>13. ASSUME NEW t \in Thread, LockRing(t) PROVE PeekInv'
  <2>1. \A u \in Thread : peeked[u] = NULL
    BY <1>13 DEF PeekInv, LockInv, LockRing
  <2> QED
    BY <1>13, <2>1 DEF PeekInv, PeekStaysFirst, LockRing
<1>14. ASSUME NEW t \in Thread, UnlockRing(t) PROVE PeekInv'
  <2>1. \A u \in Thread \ {t} : peeked[u] = NULL
    BY <1>14 DEF PeekInv, LockInv, UnlockRing
  <2> QED
    BY <1>14, <2>1 DEF PeekInv, PeekStaysFirst, buf_ring_empty, indices,
                       UnlockRing
<1>15. ASSUME NEW t \in Thread, buf_ring_peek(t) PROVE PeekInv'
  <2>1. \A u \in Thread \ {t} : peeked[u] = NULL
    BY <1>15 DEF PeekInv, LockInv, buf_ring_peek
  <2> QED
    BY <1>15, <2>1 DEF PeekInv, PeekStaysFirst, buf_ring_empty, indices,
                       buf_ring_peek
<1>16. ASSUME NEW t \in Thread, SingleConsHead(t) PROVE PeekInv'
  <2>1. \A u \in Thread \ {t} : peeked[u] = NULL
    BY <1>16 DEF PeekInv, LockInv, SingleConsHead, Goto
  <2> QED
    BY <1>16, <2>1 DEF PeekInv, PeekStaysFirst, buf_ring_empty, indices,
                       SingleConsHead, Goto
<1>17. ASSUME NEW t \in Thread, SingleTake(t) PROVE PeekInv'
  <2>1. \A u \in Thread \ {t} : peeked[u] = NULL
    BY <1>17 DEF PeekInv, LockInv, SingleTake, Goto
  <2> QED
    BY <1>17, <2>1 DEF PeekInv, PeekStaysFirst, buf_ring_empty, indices,
                       SingleTake, Goto
<1>18. ASSUME NEW t \in Thread, SinglePublish(t) PROVE PeekInv'
  <2>1. \A u \in Thread \ {t} : peeked[u] = NULL
    BY <1>18 DEF PeekInv, LockInv, SinglePublish, Goto, Leave
  <2> QED
    BY <1>18, <2>1 DEF PeekInv, PeekStaysFirst, buf_ring_empty, indices,
                       SinglePublish, Goto, Leave
<1>19. CASE UNCHANGED vars
  BY <1>19 DEF vars, indices, PeekInv, PeekStaysFirst, buf_ring_empty
<1> QED
  BY <1>1, <1>2, <1>3, <1>4, <1>5, <1>6, <1>7, <1>8, <1>9, <1>10, <1>11, <1>12,
     <1>13, <1>14, <1>15, <1>16, <1>17, <1>18, <1>19
     DEF Next, Step, Inside

\* The inductive invariant of the ring.
BrInv ==
  TypeOK /\ LockInv /\ IndexInv /\ ReserveInv /\ CountInv /\ WindowInv /\ RingInv
  /\ NoPanic /\ PeekInv

\* A ring that has just been allocated satisfies the invariant.
LEMMA BrInvInit == Init => BrInv
<1> SUFFICES ASSUME Init PROVE BrInv
  OBVIOUS
<1>0. 0 \in Slot /\ Distance(0, 0) = 0 /\ Size > 0 /\ Size \in Nat
  BY SlotIs, ArcRoom DEF Slot
<1>1. ASSUME NEW i \in Slot PROVE ~In(0, i, 0)
  BY <1>0, ArcRoom DEF In
<1>2. \A t \in Thread : pc[t] = "idle" /\ peeked[t] = NULL
  BY DEF Init
<1>3. TypeOK
  BY <1>0 DEF Init, TypeOK
<1>4. LockInv
  BY <1>2, NULLAssumption DEF Init, LockInv
<1>5. IndexInv
  BY <1>0 DEF Init, IndexInv, InOrder
<1>6. ReserveInv
  BY <1>1, <1>2 DEF Init, ReserveInv, Reserved, Filling, Consuming
<1>7. CountInv
  <2>1. Consumers = {}
    BY <1>2 DEF Consumers, Consuming
  <2> QED
    BY <1>0, <2>1, FS_EmptySet DEF Init, CountInv
<1>8. WindowInv
  BY <1>2 DEF WindowInv
<1>9. RingInv
  BY <1>1, <1>2 DEF Init, RingInv, Producing
<1>10. NoPanic /\ PeekInv
  BY <1>2 DEF Init, NoPanic, PeekInv, PeekStaysFirst
<1> QED
  BY <1>3, <1>4, <1>5, <1>6, <1>7, <1>8, <1>9, <1>10 DEF BrInv

\* The invariant is inductive.
LEMMA BrInvNext ==
  ASSUME ~MayLap, BrInv, [Next]_vars
  PROVE  BrInv'
BY TypeNext, LockInvNext, IndexInvNext, ReserveInvNext, CountInvNext,
   WindowInvNext,
   RingInvNext, NoPanicNext, PeekInvNext DEF BrInv

\* The set of slots between two indices, as an arc.
LEMMA BetweenIs ==
  ASSUME NEW i \in Slot, NEW j \in Slot
  PROVE  {(i + k) % Size : k \in {n \in Slot : n < Distance(i, j)}} = {s \in Slot : In(i, s, j)}
<1>1. ASSUME NEW k \in Slot, k < Distance(i, j)
      PROVE  (i + k) % Size \in Slot /\ In(i, (i + k) % Size, j)
  BY <1>1, PlusIs, PlusDistance DEF In
<1>2. ASSUME NEW s \in Slot, In(i, s, j)
      PROVE  \E k \in Slot : k < Distance(i, j) /\ s = (i + k) % Size
  BY <1>2, DistanceIs, DistancePlus DEF In
<1> QED
  BY <1>1, <1>2

\* The indices stay in order, every slot between a tail and its head is reserved
\* by exactly one thread, buf_ring_count is the length of the queue plus the
\* dequeues in progress, and no panic of the debug build is reached: for any
\* number of producers and consumers, of either kind, and a ring of any
\* size.  MayLap bounds the runs and the theorem alike: if the ring could go
\* round under a thread, its compare-and-set could succeed on a stale index.
THEOREM ReservationsAreExact ==
  ASSUME ~MayLap
  PROVE  Spec => []ReservationsExact
<1>1. ASSUME BrInv PROVE ReservationsExact
  <2>0. RingFacts /\ TypeOK /\ NoPanic /\ IndexInv /\ ReserveInv /\ CountInv
    BY <1>1, RingFactsHold DEF BrInv
  <2>2. ASSUME NEW L, NEW a, NEW b, Reserved(pc, head, L, a, b)
        PROVE  {head[t] : t \in {u \in Thread : pc[u] \in L}} = {s \in Slot : In(a, s, b)}
    BY <2>0, <2>2 DEF Reserved, RingFacts
  <2>3. {head[t] : t \in {u \in Thread : pc[u] \in {"p_store", "p_publish"}}}
        = {(br_prod_tail + k) % Size : k \in {n \in Slot : n < Distance(br_prod_tail, br_prod_head)}}
    <3>1. Reserved(pc, head, Filling, br_prod_tail, br_prod_head)
      BY <2>0 DEF ReserveInv
    <3>2. {head[t] : t \in {u \in Thread : pc[u] \in Filling}} = {s \in Slot : In(br_prod_tail, s, br_prod_head)}
      BY <2>2, <3>1
    <3>3. br_prod_tail \in Slot /\ br_prod_head \in Slot
      BY <2>0 DEF RingFacts
    <3>4. {(br_prod_tail + k) % Size : k \in {n \in Slot : n < Distance(br_prod_tail, br_prod_head)}} = {s \in Slot : In(br_prod_tail, s, br_prod_head)}
      BY <3>3, BetweenIs
    <3> QED
      BY <3>2, <3>4 DEF Filling
  <2>4. {head[t] : t \in {u \in Thread : pc[u] \in Consuming}}
        = {(br_cons_tail + k) % Size : k \in {n \in Slot : n < Distance(br_cons_tail, br_cons_head)}}
    <3>1. Reserved(pc, head, Consuming, br_cons_tail, br_cons_head)
      BY <2>0 DEF ReserveInv
    <3>2. {head[t] : t \in {u \in Thread : pc[u] \in Consuming}} = {s \in Slot : In(br_cons_tail, s, br_cons_head)}
      BY <2>2, <3>1
    <3>3. br_cons_tail \in Slot /\ br_cons_head \in Slot
      BY <2>0 DEF RingFacts
    <3>4. {(br_cons_tail + k) % Size : k \in {n \in Slot : n < Distance(br_cons_tail, br_cons_head)}} = {s \in Slot : In(br_cons_tail, s, br_cons_head)}
      BY <3>3, BetweenIs
    <3> QED
      BY <3>2, <3>4
  <2>5. buf_ring_count = Distance(br_cons_head, br_prod_tail) + Cardinality({t \in Thread : pc[t] \in Consuming})
    <3>1. buf_ring_count = Distance(br_cons_tail, br_prod_tail)
      BY DEF buf_ring_count, Distance
    <3>2. Distance(br_cons_tail, br_prod_tail) = Distance(br_cons_tail, br_cons_head) + Distance(br_cons_head, br_prod_tail)
      BY <2>0, FourArcs DEF IndexInv, InOrder, RingFacts
    <3>3. Cardinality({t \in Thread : pc[t] \in Consuming}) = Distance(br_cons_tail, br_cons_head)
      BY <2>0 DEF CountInv, Consumers
    <3>4. Distance(br_cons_tail, br_cons_head) \in Nat /\ Distance(br_cons_head, br_prod_tail) \in Nat
      BY <2>0, ArcRoom DEF RingFacts
    <3> QED
      BY <3>1, <3>2, <3>3, <3>4
  <2> QED
    BY <2>0, <2>3, <2>4, <2>5 DEF ReservationsExact, IndexInv, InOrder
<1> QED
  BY <1>1, BrInvInit, BrInvNext, PTL DEF Spec

\* What buf_ring_peek returned under br_lock is what the next dequeue returns.
THEOREM PeekIsStable ==
  ASSUME ~MayLap
  PROVE  Spec => []PeekStaysFirst
<1>1. BrInv => PeekStaysFirst
  BY DEF BrInv, PeekInv
<1> QED
  BY <1>1, BrInvInit, BrInvNext, PTL DEF Spec

\* The abstract variables of the refinement, named.
FifoPut == [t \in Thread |-> IF pc[t] \in Producing THEN buf[t] ELSE NULL]
FifoGot == [t \in Thread |->
              CASE pc[t] \in {"c_take", "s_take"} -> br_ring[head[t]]
                [] pc[t] \in {"c_publish", "s_publish"} -> buf[t]
                [] OTHER -> NULL]

\* A step of the queue, or none.
FifoStep == [Fifo!Next]_<<Queue, FifoPut, FifoGot>>

\* The steps of the abstract queue, in terms of the named variables.
LEMMA StutterStep ==
  ASSUME Queue' = Queue, FifoPut' = FifoPut, FifoGot' = FifoGot
  PROVE  FifoStep
BY DEF FifoStep

\* A buffer is offered.
LEMMA OfferStep ==
  ASSUME NEW t \in Thread, NEW b \in Buf, FifoPut[t] = NULL, Queue' = Queue,
         FifoPut' = [FifoPut EXCEPT ![t] = b], FifoGot' = FifoGot
  PROVE  FifoStep
BY DEF FifoStep, Fifo!Next, Fifo!Offer, FifoPut, FifoGot

\* A buffer is queued.
LEMMA AcceptStep ==
  ASSUME NEW t \in Thread, FifoPut[t] # NULL, Len(Queue) < Size - 1,
         Queue' = Append(Queue, FifoPut[t]),
         FifoPut' = [FifoPut EXCEPT ![t] = NULL], FifoGot' = FifoGot
  PROVE  FifoStep
BY DEF FifoStep, Fifo!Next, Fifo!Accept, FifoPut, FifoGot

\* A buffer is refused.
LEMMA RefuseStep ==
  ASSUME NEW t \in Thread, Queue' = Queue, FifoPut' = [FifoPut EXCEPT ![t] = NULL], FifoGot' = FifoGot
  PROVE  FifoStep
BY DEF FifoStep, Fifo!Next, Fifo!Refuse, FifoPut, FifoGot

\* The oldest buffer is taken.
LEMMA TakeStep ==
  ASSUME NEW t \in Thread, Queue # <<>>, FifoGot[t] = NULL, Queue' = Tail(Queue),
         FifoPut' = FifoPut, FifoGot' = [FifoGot EXCEPT ![t] = Head(Queue)]
  PROVE  FifoStep
BY DEF FifoStep, Fifo!Next, Fifo!Take, FifoPut, FifoGot

\* A dequeue returns.
LEMMA ReturnStep ==
  ASSUME NEW t \in Thread, Queue' = Queue, FifoPut' = FifoPut, FifoGot' = [FifoGot EXCEPT ![t] = NULL]
  PROVE  FifoStep
BY DEF FifoStep, Fifo!Next, Fifo!Return, FifoPut, FifoGot

\* Every step of the ring is a step of the abstract queue or none of its.
LEMMA FifoStepNext ==
  ASSUME TypeOK, LockInv, WindowInv, IndexInv, ReserveInv, RingInv, [Next]_vars
  PROVE  FifoStep
<1>0. RingFacts
  BY RingFactsHold
<1> USE <1>0 DEF RingFacts
<1>1. ASSUME NEW t \in Thread, NEW b \in Buf, Enqueue(t, b) PROVE FifoStep
  <2>1. Queue' = Queue
    BY <1>1 DEF Queue, indices, Enqueue, Goto
  <2>2. FifoPut' = [FifoPut EXCEPT ![t] = b] /\ FifoPut[t] = NULL
    BY <1>1 DEF FifoPut, Producing, Enqueue, Goto
  <2>3. FifoGot' = FifoGot
    BY <1>1 DEF FifoGot, Enqueue, Goto
  <2> QED
    BY <1>1, <2>1, <2>2, <2>3, OfferStep
<1>2. ASSUME NEW t \in Thread, ReadConsTail(t) PROVE FifoStep
  <2>1. Queue' = Queue
    BY <1>2 DEF Queue, indices, ReadConsTail, Goto, Leave
  <2>2. CASE RingFull(t)
    <3>1. FifoPut' = [FifoPut EXCEPT ![t] = NULL]
      BY <1>2, <2>2 DEF FifoPut, Producing, ReadConsTail, Goto, Leave
    <3>2. FifoGot' = FifoGot
      BY <1>2, <2>2 DEF FifoGot, ReadConsTail, Goto, Leave
    <3> QED
      BY <2>1, <3>1, <3>2, RefuseStep
  <2>3. CASE ~RingFull(t)
    <3>1. FifoPut' = FifoPut
      BY <1>2, <2>3 DEF FifoPut, Producing, ReadConsTail, Goto, Leave
    <3>2. FifoGot' = FifoGot
      BY <1>2, <2>3 DEF FifoGot, ReadConsTail, Goto, Leave
    <3> QED
      BY <2>1, <3>1, <3>2, StutterStep
  <2> QED
    BY <2>2, <2>3
<1>3. ASSUME NEW t \in Thread, CasProdHead(t), br_prod_head = head[t]
      PROVE  FifoStep
  <2>1. Queue' = Queue
    BY <1>3 DEF Queue, indices, CasProdHead, Goto
  <2>2. FifoPut' = FifoPut
    BY <1>3 DEF FifoPut, Producing, CasProdHead, Goto
  <2>3. FifoGot' = FifoGot
    BY <1>3 DEF FifoGot, CasProdHead, Goto
  <2> QED
    BY <1>3, <2>1, <2>2, <2>3, StutterStep
<1>4. ASSUME NEW t \in Thread, CasProdHead(t), br_prod_head # head[t]
      PROVE  FifoStep
  <2>1. Queue' = Queue
    BY <1>4 DEF Queue, indices, CasProdHead, Goto
  <2>2. FifoPut' = FifoPut
    BY <1>4 DEF FifoPut, Producing, CasProdHead, Goto
  <2>3. FifoGot' = FifoGot
    BY <1>4 DEF FifoGot, CasProdHead, Goto
  <2> QED
    BY <1>4, <2>1, <2>2, <2>3, StutterStep
<1>5. ASSUME NEW t \in Thread, StoreSlot(t) PROVE FifoStep
  <2>1. Queue' = Queue
    <3>1. SameArc(br_ring, br_ring', br_cons_head, br_prod_tail)
      BY <1>5, SlotsApart DEF SameArc, Filling, Consuming, StoreSlot, Goto
    <3>2. Queue' = QueueOf(br_ring', br_cons_head, Distance(br_cons_head, br_prod_tail))
      BY <1>5 DEF Queue, QueueOf, indices, StoreSlot, Goto
    <3>3. Queue = QueueOf(br_ring, br_cons_head, Distance(br_cons_head, br_prod_tail))
      BY DEF Queue, QueueOf
    <3> QED
      BY <3>1, <3>2, <3>3, QueueSame
  <2>2. FifoPut' = FifoPut
    BY <1>5 DEF FifoPut, Producing, StoreSlot, Goto
  <2>3. FifoGot' = FifoGot
    <3>1. \A u \in Thread \ {t} : pc[u] \in {"c_take", "s_take"} => br_ring'[head[u]] = br_ring[head[u]]
      BY <1>5, SlotsApart DEF Filling, Consuming, StoreSlot, Goto
    <3>2. ASSUME NEW u \in Thread PROVE FifoGot'[u] = FifoGot[u]
      BY <1>5, <3>1 DEF FifoGot, StoreSlot, Goto
    <3> QED
      BY <3>2 DEF FifoGot
  <2> QED
    BY <1>5, <2>1, <2>2, <2>3, StutterStep
<1>6. ASSUME NEW t \in Thread, PublishProd(t) PROVE FifoStep
  <2>0. br_prod_tail # br_prod_head /\ br_prod_tail = head[t]
    BY <1>6, ArcNotEmpty DEF ReserveInv, Reserved, Filling, PublishProd,
                             ProducersDone
  <2>4. Succ(br_prod_tail) # br_cons_head
    BY <2>0, MoveIndex DEF IndexInv
  <2> DEFINE n == Distance(br_cons_head, br_prod_tail)
  <2>5. n \in Nat /\ n < Size - 1 /\ Distance(br_cons_head, Succ(br_prod_tail)) = n + 1
    BY <2>4, ArcRoom, GrowRight
  <2>6. br_ring[(br_cons_head + n) % Size] = FifoPut[t] /\ FifoPut[t] # NULL
    <3>1. (br_cons_head + n) % Size = br_prod_tail
      BY DistancePlus
    <3>2. br_ring[head[t]] = buf[t] /\ buf[t] # NULL
      BY <1>6 DEF PublishProd, RingInv, Producing
    <3> QED
      BY <1>6, <2>0, <3>1, <3>2 DEF PublishProd, FifoPut, Producing
  <2>7. Queue = QueueOf(br_ring, br_cons_head, n)
    BY DEF Queue, QueueOf
  <2>8. Queue' = QueueOf(br_ring, br_cons_head, n + 1)
    BY <1>6, <2>0, <2>5 DEF Queue, QueueOf, PublishProd
  <2> HIDE DEF n
  <2>9. n \in 0..(Size - 1) /\ n \in 0..Size
    BY <2>5, SlotIs
  <2>10. Len(Queue) = n
    BY <2>7, <2>9, QueueOfIs DEF IsQueue, Value
  <2>11. br_ring \in [Slot -> Value]
    BY DEF Value
  <2>12. QueueOf(br_ring, br_cons_head, n + 1) = Append(QueueOf(br_ring, br_cons_head, n), br_ring[(br_cons_head + n) % Size])
    BY <2>9, <2>11, QueuePush
  <2>1. Queue' = Append(Queue, FifoPut[t]) /\ Len(Queue) < Size - 1
    BY <2>5, <2>6, <2>7, <2>8, <2>10, <2>12
  <2>2. FifoPut' = [FifoPut EXCEPT ![t] = NULL]
    BY <1>6 DEF FifoPut, Producing, PublishProd, ProducersDone, Goto, Leave
  <2>3. FifoGot' = FifoGot
    BY <1>6 DEF FifoGot, PublishProd, ProducersDone, Goto, Leave
  <2> QED
    BY <2>1, <2>2, <2>3, <2>6, AcceptStep
<1>7. ASSUME NEW t \in Thread, ReadConsHead(t) PROVE FifoStep
  <2>1. Queue' = Queue
    BY <1>7 DEF Queue, indices, ReadConsHead, Goto
  <2>2. FifoPut' = FifoPut
    BY <1>7 DEF FifoPut, Producing, ReadConsHead, Goto
  <2>3. FifoGot' = FifoGot
    BY <1>7 DEF FifoGot, ReadConsHead, Goto
  <2> QED
    BY <1>7, <2>1, <2>2, <2>3, StutterStep
<1>8. ASSUME NEW t \in Thread, ReadProdTail(t) PROVE FifoStep
  <2>1. Queue' = Queue
    BY <1>8 DEF Queue, indices, ReadProdTail, Goto, Leave
  <2>2. FifoPut' = FifoPut
    BY <1>8 DEF FifoPut, Producing, ReadProdTail, Goto, Leave
  <2>3. FifoGot' = FifoGot
    BY <1>8 DEF FifoGot, ReadProdTail, Goto, Leave
  <2> QED
    BY <1>8, <2>1, <2>2, <2>3, StutterStep
<1>9. ASSUME NEW t \in Thread, CasConsHead(t), br_cons_head = head[t]
      PROVE  FifoStep
  <2>0. br_cons_head # br_prod_tail
    BY <1>9 DEF CasConsHead, WindowInv
  <2> DEFINE n == Distance(br_cons_head, br_prod_tail)
  <2>4. n \in Nat /\ n # 0 /\ n < Size /\ Distance(Succ(br_cons_head), br_prod_tail) = n - 1
    BY <2>0, ArcRoom, ShrinkLeft
  <2>5. Queue = QueueOf(br_ring, br_cons_head, n)
    BY DEF Queue, QueueOf
  <2>6. Queue' = QueueOf(br_ring, Succ(br_cons_head), n - 1)
    BY <1>9, <2>4 DEF Queue, QueueOf, CasConsHead, Goto
  <2> HIDE DEF n
  <2>7. n \in 1..(Size - 1)
    BY <2>4, SlotIs
  <2>1. Queue # <<>> /\ Head(Queue) = br_ring[br_cons_head] /\ Queue' = Tail(Queue)
    <3>1. br_ring \in [Slot -> Value]
      BY DEF Value
    <3> QED
      BY <2>5, <2>6, <2>7, <3>1, QueuePop, SMTT(40)
  <2>2. FifoPut' = FifoPut
    BY <1>9 DEF FifoPut, Producing, CasConsHead, Goto
  <2>3. FifoGot[t] = NULL /\ FifoGot' = [FifoGot EXCEPT ![t] = br_ring[br_cons_head]]
    BY <1>9 DEF FifoGot, CasConsHead, Goto
  <2> QED
    BY <2>1, <2>2, <2>3, TakeStep
<1>10. ASSUME NEW t \in Thread, CasConsHead(t), br_cons_head # head[t]
       PROVE  FifoStep
  <2>1. Queue' = Queue
    BY <1>10 DEF Queue, indices, CasConsHead, Goto
  <2>2. FifoPut' = FifoPut
    BY <1>10 DEF FifoPut, Producing, CasConsHead, Goto
  <2>3. FifoGot' = FifoGot
    BY <1>10 DEF FifoGot, CasConsHead, Goto
  <2> QED
    BY <1>10, <2>1, <2>2, <2>3, StutterStep
<1>11. ASSUME NEW t \in Thread, TakeSlot(t) PROVE FifoStep
  <2>1. Queue' = Queue
    <3>1. SameArc(br_ring, br_ring', br_cons_head, br_prod_tail)
      BY <1>11, SlotsApart DEF SameArc, Filling, Consuming, TakeSlot, Goto
    <3>2. Queue' = QueueOf(br_ring', br_cons_head, Distance(br_cons_head, br_prod_tail))
      BY <1>11 DEF Queue, QueueOf, indices, TakeSlot, Goto
    <3>3. Queue = QueueOf(br_ring, br_cons_head, Distance(br_cons_head, br_prod_tail))
      BY DEF Queue, QueueOf
    <3> QED
      BY <3>1, <3>2, <3>3, QueueSame
  <2>2. FifoPut' = FifoPut
    BY <1>11 DEF FifoPut, Producing, TakeSlot, Goto
  <2>3. FifoGot' = FifoGot
    <3>1. \A u \in Thread \ {t} : pc[u] \in {"c_take", "s_take"} => br_ring'[head[u]] = br_ring[head[u]]
      BY <1>11, SlotsApart DEF Filling, Consuming, TakeSlot, Goto
    <3>2. ASSUME NEW u \in Thread PROVE FifoGot'[u] = FifoGot[u]
      BY <1>11, <3>1 DEF FifoGot, TakeSlot, Goto
    <3> QED
      BY <3>2 DEF FifoGot
  <2> QED
    BY <1>11, <2>1, <2>2, <2>3, StutterStep
<1>12. ASSUME NEW t \in Thread, PublishCons(t) PROVE FifoStep
  <2>1. Queue' = Queue
    BY <1>12 DEF Queue, indices, PublishCons, ConsumersDone, Goto, Leave
  <2>2. FifoPut' = FifoPut
    BY <1>12 DEF FifoPut, Producing, PublishCons, ConsumersDone, Goto, Leave
  <2>3. FifoGot' = [FifoGot EXCEPT ![t] = NULL]
    BY <1>12 DEF FifoGot, PublishCons, ConsumersDone, Goto, Leave
  <2> QED
    BY <1>12, <2>1, <2>2, <2>3, ReturnStep
<1>13. ASSUME NEW t \in Thread, LockRing(t) PROVE FifoStep
  <2>1. Queue' = Queue
    BY <1>13 DEF Queue, indices, LockRing
  <2>2. FifoPut' = FifoPut
    BY <1>13 DEF FifoPut, Producing, LockRing
  <2>3. FifoGot' = FifoGot
    BY <1>13 DEF FifoGot, LockRing
  <2> QED
    BY <1>13, <2>1, <2>2, <2>3, StutterStep
<1>14. ASSUME NEW t \in Thread, UnlockRing(t) PROVE FifoStep
  <2>1. Queue' = Queue
    BY <1>14 DEF Queue, indices, UnlockRing
  <2>2. FifoPut' = FifoPut
    BY <1>14 DEF FifoPut, Producing, UnlockRing
  <2>3. FifoGot' = FifoGot
    BY <1>14 DEF FifoGot, UnlockRing
  <2> QED
    BY <1>14, <2>1, <2>2, <2>3, StutterStep
<1>15. ASSUME NEW t \in Thread, buf_ring_peek(t) PROVE FifoStep
  <2>1. Queue' = Queue
    BY <1>15 DEF Queue, indices, buf_ring_peek
  <2>2. FifoPut' = FifoPut
    BY <1>15 DEF FifoPut, Producing, buf_ring_peek
  <2>3. FifoGot' = FifoGot
    BY <1>15 DEF FifoGot, buf_ring_peek
  <2> QED
    BY <1>15, <2>1, <2>2, <2>3, StutterStep
<1>16. ASSUME NEW t \in Thread, SingleConsHead(t) PROVE FifoStep
  <2>0. br_cons_head # br_prod_tail
    BY <1>16 DEF SingleConsHead, buf_ring_empty
  <2> DEFINE n == Distance(br_cons_head, br_prod_tail)
  <2>4. n \in Nat /\ n # 0 /\ n < Size /\ Distance(Succ(br_cons_head), br_prod_tail) = n - 1
    BY <2>0, ArcRoom, ShrinkLeft
  <2>5. Queue = QueueOf(br_ring, br_cons_head, n)
    BY DEF Queue, QueueOf
  <2>6. Queue' = QueueOf(br_ring, Succ(br_cons_head), n - 1)
    BY <1>16, <2>4 DEF Queue, QueueOf, SingleConsHead, Goto
  <2> HIDE DEF n
  <2>7. n \in 1..(Size - 1)
    BY <2>4, SlotIs
  <2>1. Queue # <<>> /\ Head(Queue) = br_ring[br_cons_head] /\ Queue' = Tail(Queue)
    <3>1. br_ring \in [Slot -> Value]
      BY DEF Value
    <3> QED
      BY <2>5, <2>6, <2>7, <3>1, QueuePop, SMTT(40)
  <2>2. FifoPut' = FifoPut
    BY <1>16 DEF FifoPut, Producing, SingleConsHead, Goto
  <2>3. FifoGot[t] = NULL /\ FifoGot' = [FifoGot EXCEPT ![t] = br_ring[br_cons_head]]
    BY <1>16 DEF FifoGot, SingleConsHead, Goto
  <2> QED
    BY <2>1, <2>2, <2>3, TakeStep
<1>17. ASSUME NEW t \in Thread, SingleTake(t) PROVE FifoStep
  <2>1. Queue' = Queue
    <3>1. SameArc(br_ring, br_ring', br_cons_head, br_prod_tail)
      BY <1>17, SlotsApart DEF SameArc, Filling, Consuming, SingleTake, Goto
    <3>2. Queue' = QueueOf(br_ring', br_cons_head, Distance(br_cons_head, br_prod_tail))
      BY <1>17 DEF Queue, QueueOf, indices, SingleTake, Goto
    <3>3. Queue = QueueOf(br_ring, br_cons_head, Distance(br_cons_head, br_prod_tail))
      BY DEF Queue, QueueOf
    <3> QED
      BY <3>1, <3>2, <3>3, QueueSame
  <2>2. FifoPut' = FifoPut
    BY <1>17 DEF FifoPut, Producing, SingleTake, Goto
  <2>3. FifoGot' = FifoGot
    <3>1. \A u \in Thread \ {t} : pc[u] \in {"c_take", "s_take"} => br_ring'[head[u]] = br_ring[head[u]]
      BY <1>17, SlotsApart DEF Filling, Consuming, SingleTake, Goto
    <3>2. ASSUME NEW u \in Thread PROVE FifoGot'[u] = FifoGot[u]
      BY <1>17, <3>1 DEF FifoGot, SingleTake, Goto
    <3> QED
      BY <3>2 DEF FifoGot
  <2> QED
    BY <1>17, <2>1, <2>2, <2>3, StutterStep
<1>18. ASSUME NEW t \in Thread, SinglePublish(t) PROVE FifoStep
  <2>1. Queue' = Queue
    BY <1>18 DEF Queue, indices, SinglePublish, Goto, Leave
  <2>2. FifoPut' = FifoPut
    BY <1>18 DEF FifoPut, Producing, SinglePublish, Goto, Leave
  <2>3. FifoGot' = [FifoGot EXCEPT ![t] = NULL]
    BY <1>18 DEF FifoGot, SinglePublish, Goto, Leave
  <2> QED
    BY <1>18, <2>1, <2>2, <2>3, ReturnStep
<1>19. CASE UNCHANGED vars
  <2>1. Queue' = Queue /\ FifoPut' = FifoPut /\ FifoGot' = FifoGot
    BY <1>19 DEF vars, indices, Queue, FifoPut, FifoGot
  <2> QED
    BY <2>1, StutterStep
<1> QED
  BY <1>1, <1>2, <1>3, <1>4, <1>5, <1>6, <1>7, <1>8, <1>9, <1>10, <1>11, <1>12,
     <1>13, <1>14, <1>15, <1>16, <1>17, <1>18, <1>19
     DEF Next, Step, Inside

\* The ring implements a bounded first-in first-out queue: a buffer is queued
\* when br_prod_tail moves past it and taken when br_cons_head does; nothing is
\* lost, duplicated or reordered by any interleaving.
THEOREM RingIsFifo ==
  ASSUME ~MayLap
  PROVE  Spec => ImplementsFifo
<1>1. Init => Fifo!Init
  <2> SUFFICES ASSUME Init PROVE Fifo!Init
    OBVIOUS
  <2>1. Distance(0, 0) = 0
    BY SlotIs, ArcRoom DEF Slot
  <2>2. Queue = <<>>
    BY <2>1 DEF Init, Queue
  <2> QED
    BY <2>2 DEF Init, Fifo!Init, Producing
<1>2. BrInv /\ [Next]_vars => FifoStep
  BY FifoStepNext DEF BrInv
<1> QED
  BY <1>1, <1>2, BrInvInit, BrInvNext, PTL
     DEF Spec, ImplementsFifo, Fifo!Spec, FifoStep, FifoPut, FifoGot
=============================================================================
