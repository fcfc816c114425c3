---------------------------- MODULE CalloutProofs ----------------------------
(***************************************************************************)
(* Proofs about module Callout, for any number of CPUs, clients and        *)
(* callouts, any wheel and any width of ticks.                             *)
(***************************************************************************)
EXTENDS Callout, SequenceLemmas

-----------------------------------------------------------------------------
(***************************************************************************)
(* Arithmetic of ticks.                                                    *)
(***************************************************************************)
Half == TICK_MOD \div 2

LEMMA Sizes ==
  /\ TICK_MOD \in Nat /\ TICK_MOD > 0 /\ WHEEL \in Nat /\ WHEEL > 0 /\ MAX_LAG \in Nat
  /\ Half \in Nat /\ (TICK_MOD = 2 * Half \/ TICK_MOD = 2 * Half + 1)
  /\ WHEEL + MAX_LAG <= Half /\ WHEEL + MAX_LAG < TICK_MOD - Half
  /\ \A d \in Delays : d \in Int /\ d + MAX_LAG < TICK_MOD - Half /\ d + MAX_LAG <= Half
<1>1. /\ TICK_MOD \in Nat /\ TICK_MOD > 0 /\ WHEEL \in Nat /\ WHEEL > 0 /\ MAX_LAG \in Nat
      /\ 2 * (WHEEL + MAX_LAG) < TICK_MOD
      /\ \A d \in Delays : d \in Int /\ 2 * (d + MAX_LAG) < TICK_MOD
  BY CalloutAssumption
<1> DEFINE m == TICK_MOD  h == m \div 2
<1>2. m \in Nat
  BY <1>1
<1>3. h \in Nat /\ (m = 2 * h \/ m = 2 * h + 1)
  <2> HIDE DEF m
  <2> QED
    BY <1>2
<1>4. Half = h
  BY DEF Half
<1> HIDE DEF h
<1> QED
  BY <1>1, <1>3, <1>4

\* The remainder of a number that is not far from the first turn.
LEMMA ModTurn ==
  ASSUME NEW x \in Int, NEW n \in Nat, n > 0, 0 - n <= x, x < 2 * n
  PROVE  /\ x % n \in 0 .. (n - 1)
         /\ x % n = IF x < 0 THEN x + n ELSE IF x < n THEN x ELSE x - n
<1>1. x % n \in 0 .. (n - 1)
  BY Z3
<1>2. CASE x < 0
  BY <1>2, Z3
<1>3. CASE 0 <= x /\ x < n
  BY <1>3, Z3
<1>4. CASE n <= x
  BY <1>4, Z3
<1> QED
  BY <1>1, <1>2, <1>3, <1>4

LEMMA PlusIs ==
  ASSUME NEW a \in Ticks, NEW n \in Nat, n <= TICK_MOD
  PROVE  /\ Plus(a, n) \in Ticks
         /\ Plus(a, n) = IF a + n < TICK_MOD THEN a + n ELSE a + n - TICK_MOD
<1> DEFINE x == a + n
<1>1. x \in Int /\ 0 <= x /\ x < 2 * TICK_MOD /\ TICK_MOD \in Nat /\ TICK_MOD > 0 /\ 0 - TICK_MOD <= x
  BY Sizes DEF Ticks
<1>2. Plus(a, n) = x % TICK_MOD
  BY DEF Plus
<1> HIDE DEF x
<1>3. /\ x % TICK_MOD \in 0 .. (TICK_MOD - 1)
      /\ x % TICK_MOD = IF x < 0 THEN x + TICK_MOD ELSE IF x < TICK_MOD THEN x ELSE x - TICK_MOD
  BY <1>1, ModTurn
<1>4. x = a + n
  BY DEF x
<1> QED
  BY <1>1, <1>2, <1>3, <1>4 DEF Ticks

\* The signed difference, without the modulus.
LEMMA DiffIs ==
  ASSUME NEW a \in Ticks, NEW b \in Ticks
  PROVE  /\ Diff(a, b) \in Int /\ 0 - Half <= Diff(a, b) /\ Diff(a, b) < TICK_MOD - Half
         /\ Diff(a, b) = IF a - b < 0 - Half THEN a - b + TICK_MOD
                         ELSE IF a - b < TICK_MOD - Half THEN a - b ELSE a - b - TICK_MOD
<1> DEFINE x == a - b + Half  m == x % TICK_MOD
<1>1. a \in Int /\ b \in Int /\ 0 <= a /\ a < TICK_MOD /\ 0 <= b /\ b < TICK_MOD
  BY Sizes DEF Ticks
<1>2. /\ TICK_MOD \in Nat /\ TICK_MOD > 0 /\ Half \in Nat /\ Half <= TICK_MOD
      /\ (TICK_MOD = 2 * Half \/ TICK_MOD = 2 * Half + 1)
  BY Sizes
<1>3. x \in Int /\ 0 - TICK_MOD <= x /\ x < 2 * TICK_MOD
  BY <1>1, <1>2
<1>4. Diff(a, b) = m - Half
  BY DEF Diff, Half
<1>5. x = a - b + Half
  OBVIOUS
<1> HIDE DEF x
<1>6. m \in 0 .. (TICK_MOD - 1) /\ m = IF x < 0 THEN x + TICK_MOD ELSE IF x < TICK_MOD THEN x ELSE x - TICK_MOD
  BY <1>2, <1>3, ModTurn
<1> HIDE DEF m
<1> QED
  BY <1>1, <1>2, <1>3, <1>4, <1>5, <1>6

\* Differences add up, as long as they stay below half a turn.
LEMMA DiffAdds ==
  ASSUME NEW a \in Ticks, NEW b \in Ticks, NEW e \in Ticks,
         0 - Half <= Diff(a, b) + Diff(b, e), Diff(a, b) + Diff(b, e) < TICK_MOD - Half
  PROVE  Diff(a, e) = Diff(a, b) + Diff(b, e)
<1>1. a \in Int /\ b \in Int /\ e \in Int /\ 0 <= a /\ a < TICK_MOD /\ 0 <= b /\ b < TICK_MOD /\ 0 <= e /\ e < TICK_MOD
  BY Sizes DEF Ticks
<1>2. TICK_MOD \in Nat /\ Half \in Nat
  BY Sizes
<1> DEFINE u == Diff(a, b)  v == Diff(b, e)  w == Diff(a, e)
<1>3. u \in Int /\ (u = a - b \/ u = a - b + TICK_MOD \/ u = a - b - TICK_MOD)
  BY DiffIs
<1>4. v \in Int /\ (v = b - e \/ v = b - e + TICK_MOD \/ v = b - e - TICK_MOD)
  BY DiffIs
<1>5. /\ w \in Int /\ (w = a - e \/ w = a - e + TICK_MOD \/ w = a - e - TICK_MOD)
      /\ 0 - Half <= w /\ w < TICK_MOD - Half
  BY DiffIs
<1>6. 0 - Half <= u + v /\ u + v < TICK_MOD - Half
  OBVIOUS
<1> HIDE DEF u, v, w
<1>7. w = u + v
  BY <1>1, <1>2, <1>3, <1>4, <1>5, <1>6
<1> QED
  BY <1>7 DEF u, v, w

\* The difference to a time n ticks on.
LEMMA DiffPlus ==
  ASSUME NEW a \in Ticks, NEW n \in Nat, n < TICK_MOD - Half
  PROVE  /\ Plus(a, n) \in Ticks
         /\ Diff(Plus(a, n), a) = n /\ Diff(a, a) = 0
         /\ n <= Half => Diff(a, Plus(a, n)) = 0 - n
<1>1. a \in Int /\ 0 <= a /\ a < TICK_MOD
  BY Sizes DEF Ticks
<1>2. TICK_MOD \in Nat /\ Half \in Nat /\ TICK_MOD > 0 /\ (TICK_MOD = 2 * Half \/ TICK_MOD = 2 * Half + 1)
  BY Sizes
<1> DEFINE b == Plus(a, n)
<1>3. b \in Ticks /\ b = IF a + n < TICK_MOD THEN a + n ELSE a + n - TICK_MOD
  BY <1>2, PlusIs
<1> HIDE DEF b
<1>4. Diff(b, a) = n
  <2>1. Diff(b, a) = IF b - a < 0 - Half THEN b - a + TICK_MOD
                     ELSE IF b - a < TICK_MOD - Half THEN b - a ELSE b - a - TICK_MOD
    BY <1>3, DiffIs
  <2> QED
    BY <1>1, <1>2, <1>3, <2>1
<1>5. n <= Half => Diff(a, b) = 0 - n
  <2>1. Diff(a, b) = IF a - b < 0 - Half THEN a - b + TICK_MOD
                     ELSE IF a - b < TICK_MOD - Half THEN a - b ELSE a - b - TICK_MOD
    BY <1>3, DiffIs
  <2> QED
    BY <1>1, <1>2, <1>3, <2>1
<1>6. Diff(a, a) = 0
  <2>1. Diff(a, a) = IF a - a < 0 - Half THEN a - a + TICK_MOD
                     ELSE IF a - a < TICK_MOD - Half THEN a - a ELSE a - a - TICK_MOD
    BY DiffIs
  <2> QED
    BY <1>1, <1>2, <2>1
<1> QED
  BY <1>3, <1>4, <1>5, <1>6 DEF b

\* A difference of zero is no difference, and a time is its difference on.
LEMMA DiffBack ==
  ASSUME NEW a \in Ticks, NEW b \in Ticks, Diff(a, b) >= 0
  PROVE  Plus(b, Diff(a, b)) = a /\ (Diff(a, b) = 0 => a = b)
<1>1. a \in Int /\ b \in Int /\ 0 <= a /\ a < TICK_MOD /\ 0 <= b /\ b < TICK_MOD
  BY Sizes DEF Ticks
<1>2. TICK_MOD \in Nat /\ Half \in Nat /\ (TICK_MOD = 2 * Half \/ TICK_MOD = 2 * Half + 1)
  BY Sizes
<1> DEFINE n == Diff(a, b)
<1>3. /\ n \in Int /\ n >= 0 /\ n < TICK_MOD - Half
      /\ n = IF a - b < 0 - Half THEN a - b + TICK_MOD
             ELSE IF a - b < TICK_MOD - Half THEN a - b ELSE a - b - TICK_MOD
  BY DiffIs
<1> HIDE DEF n
<1>4. n \in Nat /\ n <= TICK_MOD
  BY <1>2, <1>3
<1>5. Plus(b, n) = IF b + n < TICK_MOD THEN b + n ELSE b + n - TICK_MOD
  BY <1>4, PlusIs
<1> QED
  BY <1>1, <1>2, <1>3, <1>5 DEF n

-----------------------------------------------------------------------------
(***************************************************************************)
(* The order of a bucket.                                                  *)
(***************************************************************************)

\* y comes before z in q, or is z.
Before(q, y, z) == \E i, j \in DOMAIN q : i <= j /\ q[i] = y /\ q[j] = z

\* A callout comes before itself, and both are in the bucket.
LEMMA BeforeIn ==
  ASSUME NEW q \in Seq(Calls)
  PROVE  /\ \A y, z : Before(q, y, z) => y \in ToSet(q) /\ z \in ToSet(q)
         /\ \A y \in ToSet(q) : Before(q, y, y) /\ y \in Calls /\ y # NULL
<1>1. \A i \in DOMAIN q : q[i] \in ToSet(q)
  BY DEF ToSet
<1>2. Len(q) \in Nat /\ DOMAIN q = 1..Len(q)
  BY SetOfSeq
<1>3. \A y, z : Before(q, y, z) => y \in ToSet(q) /\ z \in ToSet(q)
  BY <1>1 DEF Before
<1>4. ASSUME NEW y \in ToSet(q)
      PROVE  Before(q, y, y) /\ y \in Calls /\ y # NULL
  <2>1. PICK i \in 1..Len(q) : q[i] = y
    BY SetOfSeq
  <2>2. y \in Calls
    BY SetOfSeq
  <2>3. i <= i
    BY <1>2
  <2> QED
    BY <1>2, <2>1, <2>2, <2>3, CalloutAssumption DEF Before
<1> QED
  BY <1>3, <1>4

\* The bucket's first callout comes before every other.
LEMMA FirstIsFirst ==
  ASSUME NEW q \in Seq(Calls)
  PROVE  /\ First(q) # NULL => First(q) \in ToSet(q)
         /\ First(q) \in Calls \cup {NULL}
         /\ \A z \in ToSet(q) : First(q) # NULL /\ Before(q, First(q), z)
<1>1. /\ Len(q) \in Nat /\ DOMAIN q = 1..Len(q)
      /\ \A i \in 1..Len(q) : q[i] \in Calls /\ q[i] \in ToSet(q)
  BY SetOfSeq
<1>2. CASE q = <<>>
  <2>1. ToSet(q) = {} /\ First(q) = NULL
    BY <1>2, EmptySeqIs DEF First
  <2> QED
    BY <2>1
<1>3. CASE q # <<>>
  <2>1. Len(q) # 0
    BY <1>3, EmptySeqIs
  <2>2. 1 \in 1..Len(q) /\ First(q) = q[1]
    BY <1>1, <1>3, <2>1 DEF First
  <2>3. First(q) \in Calls /\ First(q) \in ToSet(q) /\ First(q) # NULL
    BY <1>1, <2>2, CalloutAssumption
  <2>4. ASSUME NEW z \in ToSet(q) PROVE Before(q, First(q), z)
    <3>1. PICK j \in 1..Len(q) : q[j] = z
      BY SetOfSeq
    <3>2. 1 <= j
      OBVIOUS
    <3> QED
      BY <1>1, <2>2, <3>1, <3>2 DEF Before
  <2> QED
    BY <2>3, <2>4
<1> QED
  BY <1>2, <1>3

\* The place after a callout.
LEMMA NextInIs ==
  ASSUME NEW q \in Seq(Calls), NEW x \in ToSet(q), NEW n \in 1..Len(q), q[n] = x, Injective(q)
  PROVE  NextIn(q, x) = IF n < Len(q) THEN q[n + 1] ELSE NULL
<1>1. Len(q) \in Nat /\ DOMAIN q = 1..Len(q)
  BY SetOfSeq
<1> DEFINE i == CHOOSE j \in DOMAIN q : q[j] = x
<1>2. i \in DOMAIN q /\ q[i] = x
  BY <1>1
<1>3. NextIn(q, x) = IF i < Len(q) THEN q[i + 1] ELSE NULL
  BY Zenon DEF NextIn
<1> HIDE DEF i
<1>4. i = n
  BY <1>1, <1>2 DEF Injective
<1> QED
  BY <1>3, <1>4

\* What follows a callout follows it still when one comes to its successor.
LEMMA NextFollows ==
  ASSUME NEW q \in Seq(Calls), NEW x \in ToSet(q), Injective(q)
  PROVE  /\ NextIn(q, x) \in Calls \cup {NULL} /\ NextIn(q, x) # x
         /\ NextIn(q, x) # NULL => NextIn(q, x) \in ToSet(q)
         /\ \A z : z # x /\ Before(q, x, z) =>
              NextIn(q, x) # NULL /\ Before(q, NextIn(q, x), z)
<1>1. /\ Len(q) \in Nat /\ DOMAIN q = 1..Len(q) /\ x # NULL
      /\ \A i \in 1..Len(q) : q[i] \in Calls /\ q[i] \in ToSet(q) /\ q[i] # NULL
  BY SetOfSeq, CalloutAssumption
<1>2. PICK n \in 1..Len(q) : q[n] = x
  BY SetOfSeq
<1>3. NextIn(q, x) = IF n < Len(q) THEN q[n + 1] ELSE NULL
  BY <1>2, NextInIs
<1>4. \A i, j \in 1..Len(q) : q[i] = q[j] => i = j
  BY <1>1 DEF Injective
<1>5. CASE n < Len(q)
  <2>1. n + 1 \in 1..Len(q) /\ n + 1 # n
    BY <1>1, <1>5
  <2>2. /\ NextIn(q, x) \in Calls /\ NextIn(q, x) # x /\ NextIn(q, x) \in ToSet(q)
        /\ NextIn(q, x) # NULL
    BY <1>1, <1>2, <1>3, <1>4, <1>5, <2>1
  <2>3. ASSUME NEW z, z # x, Before(q, x, z) PROVE Before(q, NextIn(q, x), z)
    <3>1. PICK i \in 1..Len(q), j \in 1..Len(q) : i <= j /\ q[i] = x /\ q[j] = z
      BY <1>1, <2>3 DEF Before
    <3>2. i = n /\ j # n
      BY <1>2, <1>4, <2>3, <3>1
    <3>3. n + 1 <= j
      BY <1>1, <3>1, <3>2
    <3> QED
      BY <1>1, <1>3, <1>5, <2>1, <3>1, <3>3 DEF Before
  <2> QED
    BY <2>2, <2>3
<1>6. CASE ~(n < Len(q))
  <2>1. NextIn(q, x) = NULL
    BY <1>3, <1>6
  <2>2. ASSUME NEW z, z # x, Before(q, x, z) PROVE FALSE
    <3>1. PICK i \in 1..Len(q), j \in 1..Len(q) : i <= j /\ q[i] = x /\ q[j] = z
      BY <1>1, <2>2 DEF Before
    <3>2. i = n /\ j # n
      BY <1>2, <1>4, <2>2, <3>1
    <3> QED
      BY <1>1, <1>6, <3>1, <3>2
  <2> QED
    BY <1>1, <2>1, <2>2
<1> QED
  BY <1>5, <1>6

\* Taking a callout out of a bucket keeps the order of the others.
LEMMA RemoveKeepsOrder ==
  ASSUME NEW q \in Seq(Calls), NEW x \in ToSet(q), Injective(q)
  PROVE  LET r == RemoveFirst(q, x)
         IN  /\ \A y, z : y # x /\ z # x /\ Before(q, y, z) => Before(r, y, z)
             /\ \A z : z # x /\ Before(q, x, z) =>
                  NextIn(q, x) # NULL /\ Before(r, NextIn(q, x), z)
<1>1. Len(q) \in Nat /\ DOMAIN q = 1..Len(q)
  BY SetOfSeq
<1>2. PICK n \in 1..Len(q) : q[n] = x /\ RemoveFirst(q, x) = RemoveAt(q, n)
  BY RemoveFirstTakesOut
<1> DEFINE r == RemoveAt(q, n)
<1>3. r \in Seq(Calls) /\ Len(r) = Len(q) - 1 /\ TakenOut(q, r, n)
  BY RemoveAtTakesOut
<1> HIDE DEF r
<1>4. DOMAIN r = 1..(Len(q) - 1)
  BY <1>3, SetOfSeq
<1>5. \A i \in 1..(Len(q) - 1) : r[i] = IF i < n THEN q[i] ELSE q[i + 1]
  BY <1>3 DEF TakenOut
<1>6. ASSUME NEW i \in 1..Len(q), i # n
      PROVE  \E k \in 1..(Len(q) - 1) : r[k] = q[i] /\ k = IF i < n THEN i ELSE i - 1
  <2>1. CASE i < n
    <3>1. i \in 1..(Len(q) - 1) /\ r[i] = q[i]
      BY <1>1, <1>5, <2>1
    <3> QED
      BY <2>1, <3>1
  <2>2. CASE i > n
    <3>1. i - 1 \in 1..(Len(q) - 1) /\ ~(i - 1 < n) /\ (i - 1) + 1 = i
      BY <1>1, <2>2
    <3>2. r[i - 1] = q[i]
      BY <1>5, <3>1
    <3> QED
      BY <2>2, <3>1, <3>2
  <2> QED
    BY <1>1, <1>6, <2>1, <2>2
<1>7. ASSUME NEW y, NEW z, y # x, z # x, Before(q, y, z) PROVE Before(r, y, z)
  <2>1. PICK i \in 1..Len(q), j \in 1..Len(q) : i <= j /\ q[i] = y /\ q[j] = z
    BY <1>1, <1>7 DEF Before
  <2>2. i # n /\ j # n
    BY <1>2, <1>7, <2>1
  <2>3. PICK k \in 1..(Len(q) - 1) : r[k] = q[i] /\ k = IF i < n THEN i ELSE i - 1
    BY <1>6, <2>2
  <2>4. PICK l \in 1..(Len(q) - 1) : r[l] = q[j] /\ l = IF j < n THEN j ELSE j - 1
    BY <1>6, <2>2
  <2>5. k <= l
    BY <1>1, <2>1, <2>2, <2>3, <2>4
  <2> QED
    BY <1>4, <2>1, <2>3, <2>4, <2>5 DEF Before
<1>8. ASSUME NEW z, z # x, Before(q, x, z)
      PROVE  NextIn(q, x) # NULL /\ Before(r, NextIn(q, x), z)
  <2>1. NextIn(q, x) # x /\ NextIn(q, x) # NULL /\ Before(q, NextIn(q, x), z)
    BY <1>8, NextFollows
  <2> QED
    BY <1>7, <1>8, <2>1
<1> QED
  BY <1>2, <1>7, <1>8 DEF r

\* Appending one does, too.
LEMMA AppendKeepsOrder ==
  ASSUME NEW q \in Seq(Calls), NEW x \in Calls, NEW y, NEW z, Before(q, y, z)
  PROVE  Before(Append(q, x), y, z)
<1>1. Len(q) \in Nat /\ DOMAIN q = 1..Len(q)
  BY SetOfSeq
<1> DEFINE r == Append(q, x)
<1>2. r \in Seq(Calls) /\ Len(r) = Len(q) + 1 /\ \A i \in 1..Len(q) : r[i] = q[i]
  BY AppendProperties
<1> HIDE DEF r
<1>3. DOMAIN r = 1..(Len(q) + 1)
  BY <1>2, SetOfSeq
<1>4. PICK i \in 1..Len(q), j \in 1..Len(q) : i <= j /\ q[i] = y /\ q[j] = z
  BY <1>1 DEF Before
<1>5. i \in DOMAIN r /\ j \in DOMAIN r
  BY <1>1, <1>3
<1>6. Before(r, y, z)
  BY <1>2, <1>4, <1>5 DEF Before
<1> QED
  BY <1>6 DEF r

-----------------------------------------------------------------------------
(***************************************************************************)
(* The wheels, without the variables that hold them: w is the wheels, pend *)
(* the pending callouts, time and cpu where they are, nx the bookmarks.    *)
(***************************************************************************)
Ix == 0..(WHEEL - 1)

LEMMA BucketIn ==
  ASSUME NEW n \in Ticks
  PROVE  Bucket(n) \in Ix
<1>1. n \in Int /\ WHEEL \in Nat /\ WHEEL > 0
  BY Sizes DEF Ticks
<1> DEFINE m == WHEEL
<1>2. m \in Nat /\ m > 0
  BY <1>1
<1> HIDE DEF m
<1>3. n % m \in 0..(m - 1)
  BY <1>1, <1>2, Z3
<1> QED
  BY <1>3 DEF Bucket, Ix, m

WellPut(w, pend, time, cpu) ==
  /\ w \in [Cpu -> [Ix -> Seq(Calls)]]
  /\ pend \in [Calls -> BOOLEAN] /\ time \in [Calls -> Ticks] /\ cpu \in [Calls -> Cpu]
  /\ \A p \in Cpu, b \in Ix :
       /\ Injective(w[p][b])
       /\ \A x \in Calls : x \in ToSet(w[p][b]) <=>
                             pend[x] /\ p = cpu[x] /\ b = Bucket(time[x])

\* Every bookmark is in the bucket of its walk.
Marks(w, nx) ==
  /\ nx \in [Cpu -> Calls \cup {NULL}]
  /\ \A p \in Cpu : ~cc_lock[p] /\ nx[p] # NULL =>
       nx[p] \in ToSet(w[p][Bucket(curticks[p])])

\* What the bookmarks had still to come to they have still to come to, except x; a
\* wheel that softclock() has locked is left alone.
Keeps(w, nx, w2, nx2, x) ==
  \A p \in Cpu :
    /\ cc_lock[p] => w2[p] = w[p] /\ nx2[p] = nx[p]
    /\ nx[p] = NULL => nx2[p] = NULL
    /\ ~cc_lock[p] => \A z \in Calls :
         z # x /\ nx[p] # NULL /\ Before(w[p][Bucket(curticks[p])], nx[p], z) =>
           nx2[p] # NULL /\ Before(w2[p][Bucket(curticks[p])], nx2[p], z)

LEMMA OffEffect ==
  ASSUME NEW w, NEW pend, NEW time, NEW cpu, NEW nx, NEW x \in Calls,
         WellPut(w, pend, time, cpu), Marks(w, nx), pend[x],
         NEW time2 \in [Calls -> Ticks], NEW cpu2 \in [Calls -> Cpu],
         \A y \in Calls \ {x} : time2[y] = time[y] /\ cpu2[y] = cpu[y],
         curticks \in [Cpu -> Ticks]
  PROVE  LET w2 == [w EXCEPT ![cpu[x]][Bucket(time[x])] = RemoveFirst(@, x)]
             nx2 == [nx EXCEPT ![cpu[x]] =
                       IF @ = x THEN NextIn(w[cpu[x]][Bucket(time[x])], x) ELSE @]
         IN  /\ WellPut(w2, [pend EXCEPT ![x] = FALSE], time2, cpu2)
             /\ Marks(w2, nx2) /\ (~cc_lock[cpu[x]] => Keeps(w, nx, w2, nx2, x))
<1> DEFINE P == cpu[x]
           B == Bucket(time[x])
           q == w[P][B]
           r == RemoveFirst(q, x)
           w2 == [w EXCEPT ![P][B] = RemoveFirst(@, x)]
           nx2 == [nx EXCEPT ![P] = IF @ = x THEN NextIn(w[P][B], x) ELSE @]
           pend2 == [pend EXCEPT ![x] = FALSE]
<1>1. /\ w \in [Cpu -> [Ix -> Seq(Calls)]] /\ P \in Cpu /\ nx \in [Cpu -> Calls \cup {NULL}]
      /\ pend \in [Calls -> BOOLEAN]
  BY DEF WellPut, Marks
<1>2. B \in Ix
  <2>1. time[x] \in Ticks
    BY DEF WellPut
  <2> QED
    BY <2>1, BucketIn
<1>3. q \in Seq(Calls) /\ Injective(q) /\ x \in ToSet(q)
  BY <1>1, <1>2 DEF WellPut
<1>4. r \in Seq(Calls) /\ ToSet(r) = ToSet(q) \ {x} /\ Injective(r)
  BY <1>3, RemoveFirstLeaves
<1>5. /\ NextIn(q, x) \in Calls \cup {NULL} /\ NextIn(q, x) # x
      /\ NextIn(q, x) # NULL => NextIn(q, x) \in ToSet(q)
  BY <1>3, NextFollows
<1>6. /\ \A y, z : y # x /\ z # x /\ Before(q, y, z) => Before(r, y, z)
      /\ \A z : z # x /\ Before(q, x, z) => NextIn(q, x) # NULL /\ Before(r, NextIn(q, x), z)
  BY <1>3, RemoveKeepsOrder
<1>7. /\ w2 \in [Cpu -> [Ix -> Seq(Calls)]] /\ w2[P][B] = r
      /\ \A p \in Cpu, b \in Ix : p # P \/ b # B => w2[p][b] = w[p][b]
      /\ \A p \in Cpu : p # P => w2[p] = w[p]
  <2> HIDE DEF P, B
  <2> QED
    BY <1>1, <1>2, <1>4
<1>8. nx2 \in [Cpu -> Calls \cup {NULL}] /\ nx2[P] = (IF nx[P] = x THEN NextIn(q, x) ELSE nx[P])
  BY <1>1, <1>5
<1>9. \A p \in Cpu : p # P => nx2[p] = nx[p]
  BY <1>1
<1>10. /\ pend2 \in [Calls -> BOOLEAN] /\ pend2[x] = FALSE
       /\ \A y \in Calls : y # x => pend2[y] = pend[y]
  BY <1>1
<1>11. \A p \in Cpu, b \in Ix : x \in ToSet(w[p][b]) <=> p = P /\ b = B
  BY DEF WellPut
<1> HIDE DEF w2, nx2, r, q, pend2
<1>12. ASSUME NEW p \in Cpu, NEW b \in Ix
       PROVE  Injective(w2[p][b]) /\ ToSet(w2[p][b]) = ToSet(w[p][b]) \ {x}
  <2>1. CASE p = P /\ b = B
    BY <1>4, <1>7, <2>1 DEF q
  <2>2. CASE p # P \/ b # B
    BY <1>7, <1>11, <2>2 DEF WellPut
  <2> QED
    BY <2>1, <2>2
<1>13. WellPut(w2, pend2, time2, cpu2)
  <2>1. ASSUME NEW p \in Cpu, NEW b \in Ix, NEW y \in Calls
        PROVE  y \in ToSet(w2[p][b]) <=> pend2[y] /\ p = cpu2[y] /\ b = Bucket(time2[y])
    <3>1. CASE y = x
      BY <1>10, <1>12, <3>1
    <3>2. CASE y # x
      <4>1. time2[y] = time[y] /\ cpu2[y] = cpu[y] /\ pend2[y] = pend[y]
        BY <1>10, <3>2
      <4>2. y \in ToSet(w[p][b]) <=> pend[y] /\ p = cpu[y] /\ b = Bucket(time[y])
        BY DEF WellPut
      <4>3. y \in ToSet(w2[p][b]) <=> y \in ToSet(w[p][b])
        BY <1>12, <3>2
      <4> QED
        BY <4>1, <4>2, <4>3
    <3> QED
      BY <3>1, <3>2
  <2> QED
    BY <1>7, <1>10, <1>12, <2>1 DEF WellPut
<1>14. \A p \in Cpu : Bucket(curticks[p]) \in Ix
  BY BucketIn
<1>15. Marks(w2, nx2)
  <2>1. ASSUME NEW p \in Cpu, ~cc_lock[p], nx2[p] # NULL
        PROVE  nx2[p] \in ToSet(w2[p][Bucket(curticks[p])])
    <3> DEFINE b == Bucket(curticks[p])
    <3>1. b \in Ix /\ ToSet(w2[p][b]) = ToSet(w[p][b]) \ {x}
      BY <1>12, <1>14
    <3>2. nx[p] # NULL => nx[p] \in ToSet(w[p][b])
      BY <2>1 DEF Marks
    <3> HIDE DEF b
    <3>3. CASE nx[p] = x
      <4>1. p = P /\ b = B
        BY <1>11, <3>1, <3>2, <3>3, CalloutAssumption
      <4> QED
        BY <1>5, <1>8, <2>1, <3>1, <3>3, <4>1 DEF b, q
    <3>4. CASE nx[p] # x
      <4>1. nx2[p] = nx[p]
        BY <1>8, <1>9, <3>4
      <4> QED
        BY <2>1, <3>1, <3>2, <3>4, <4>1 DEF b
    <3> QED
      BY <3>3, <3>4
  <2> QED
    BY <1>8, <2>1 DEF Marks
<1>16. ASSUME ~cc_lock[P] PROVE Keeps(w, nx, w2, nx2, x)
  <2>1. ASSUME NEW p \in Cpu, cc_lock[p] PROVE w2[p] = w[p] /\ nx2[p] = nx[p]
    BY <1>7, <1>9, <1>16, <2>1
  <2>2. ASSUME NEW p \in Cpu, ~cc_lock[p], NEW z \in Calls, z # x, nx[p] # NULL,
               Before(w[p][Bucket(curticks[p])], nx[p], z)
        PROVE  nx2[p] # NULL /\ Before(w2[p][Bucket(curticks[p])], nx2[p], z)
    <3> DEFINE b == Bucket(curticks[p])
    <3>1. b \in Ix /\ Before(w[p][b], nx[p], z) /\ nx[p] \in ToSet(w[p][b])
      BY <1>14, <2>2 DEF Marks
    <3> HIDE DEF b
    <3>2. CASE p = P /\ b = B
      <4>1. w[p][b] = q /\ w2[p][b] = r
        BY <1>7, <3>2 DEF q
      <4> QED
        BY <1>6, <1>8, <2>2, <3>1, <3>2, <4>1 DEF b
    <3>3. CASE p # P \/ b # B
      <4>1. w2[p][b] = w[p][b] /\ nx[p] # x
        BY <1>7, <1>11, <3>1, <3>3
      <4>2. nx2[p] = nx[p]
        BY <1>8, <1>9, <4>1
      <4> QED
        BY <2>2, <3>1, <4>1, <4>2 DEF b
    <3> QED
      BY <3>2, <3>3
  <2>3. ASSUME NEW p \in Cpu, nx[p] = NULL PROVE nx2[p] = NULL
    BY <1>8, <1>9, <2>3, CalloutAssumption
  <2> QED
    BY <2>1, <2>2, <2>3 DEF Keeps
<1> QED
  BY <1>13, <1>15, <1>16 DEF w2, nx2, pend2

LEMMA OnEffect ==
  ASSUME NEW w, NEW pend, NEW time, NEW cpu, NEW nx, NEW x \in Calls, NEW n \in Ticks,
         WellPut(w, pend, time, cpu), Marks(w, nx), ~pend[x], ~cc_lock[cpu[x]],
         curticks \in [Cpu -> Ticks]
  PROVE  LET w2 == [w EXCEPT ![cpu[x]][Bucket(n)] = Append(@, x)]
         IN  /\ WellPut(w2, [pend EXCEPT ![x] = TRUE], [time EXCEPT ![x] = n], cpu)
             /\ Marks(w2, nx) /\ Keeps(w, nx, w2, nx, x)
<1> DEFINE P == cpu[x]
           B == Bucket(n)
           q == w[P][B]
           r == Append(q, x)
           w2 == [w EXCEPT ![P][B] = Append(@, x)]
           time2 == [time EXCEPT ![x] = n]
           pend2 == [pend EXCEPT ![x] = TRUE]
<1>1. /\ w \in [Cpu -> [Ix -> Seq(Calls)]] /\ P \in Cpu /\ nx \in [Cpu -> Calls \cup {NULL}]
      /\ pend \in [Calls -> BOOLEAN] /\ time \in [Calls -> Ticks]
  BY DEF WellPut, Marks
<1>2. B \in Ix
  BY BucketIn
<1>3. q \in Seq(Calls) /\ Injective(q) /\ x \notin ToSet(q)
  BY <1>1, <1>2 DEF WellPut
<1>4. r \in Seq(Calls) /\ ToSet(r) = ToSet(q) \cup {x} /\ Injective(r)
  BY <1>3, AppendJoins
<1>5. \A y, z : Before(q, y, z) => Before(r, y, z)
  BY <1>3, AppendKeepsOrder
<1>7. /\ w2 \in [Cpu -> [Ix -> Seq(Calls)]] /\ w2[P][B] = r
      /\ \A p \in Cpu, b \in Ix : p # P \/ b # B => w2[p][b] = w[p][b]
      /\ \A p \in Cpu : p # P => w2[p] = w[p]
  <2> HIDE DEF P, B
  <2> QED
    BY <1>1, <1>2, <1>4
<1>8. /\ pend2 \in [Calls -> BOOLEAN] /\ pend2[x] = TRUE
      /\ \A y \in Calls : y # x => pend2[y] = pend[y]
  BY <1>1
<1>9. /\ time2 \in [Calls -> Ticks] /\ time2[x] = n
      /\ \A y \in Calls : y # x => time2[y] = time[y]
  BY <1>1
<1> HIDE DEF w2, r, q, pend2, time2
<1>10. ASSUME NEW p \in Cpu, NEW b \in Ix
       PROVE  Injective(w2[p][b]) /\ (p = P /\ b = B => ToSet(w2[p][b]) = ToSet(w[p][b]) \cup {x})
  <2>1. CASE p = P /\ b = B
    BY <1>4, <1>7, <2>1 DEF q
  <2>2. CASE p # P \/ b # B
    BY <1>7, <2>2 DEF WellPut
  <2> QED
    BY <2>1, <2>2
<1>11. WellPut(w2, pend2, time2, cpu)
  <2>1. ASSUME NEW p \in Cpu, NEW b \in Ix, NEW y \in Calls
        PROVE  y \in ToSet(w2[p][b]) <=> pend2[y] /\ p = cpu[y] /\ b = Bucket(time2[y])
    <3>1. CASE y = x /\ p = P /\ b = B
      BY <1>8, <1>9, <1>10, <3>1
    <3>2. CASE y = x /\ (p # P \/ b # B)
      <4>1. w2[p][b] = w[p][b] /\ y \notin ToSet(w[p][b])
        BY <1>7, <3>2 DEF WellPut
      <4> QED
        BY <1>8, <1>9, <3>2, <4>1
    <3>3. CASE y # x
      <4>1. y \in ToSet(w2[p][b]) <=> y \in ToSet(w[p][b])
        <5>1. CASE p = P /\ b = B
          <6>1. ToSet(w2[p][b]) = ToSet(w[p][b]) \cup {x}
            BY <1>10, <5>1
          <6> QED
            BY <3>3, <6>1, Zenon
        <5>2. CASE p # P \/ b # B
          <6>1. w2[p][b] = w[p][b]
            BY <1>7, <5>2
          <6> QED
            BY <6>1
        <5> QED
          BY <5>1, <5>2
      <4> QED
        BY <1>8, <1>9, <3>3, <4>1 DEF WellPut
    <3> QED
      BY <3>1, <3>2, <3>3
  <2>2. cpu \in [Calls -> Cpu]
    BY DEF WellPut
  <2> QED
    BY <1>7, <1>8, <1>9, <1>10, <2>1, <2>2 DEF WellPut
<1>12. \A p \in Cpu : Bucket(curticks[p]) \in Ix
  BY BucketIn
<1>13. \A p \in Cpu, b \in Ix : \A y : y \in ToSet(w[p][b]) => y \in ToSet(w2[p][b])
  BY <1>7, <1>10
<1>14. Marks(w2, nx)
  BY <1>1, <1>12, <1>13 DEF Marks
<1>15. \A p \in Cpu, b \in Ix : \A y, z : Before(w[p][b], y, z) => Before(w2[p][b], y, z)
  BY <1>5, <1>7 DEF q
<1>16. Keeps(w, nx, w2, nx, x)
  BY <1>7, <1>12, <1>15 DEF Keeps
<1> QED
  BY <1>11, <1>14, <1>16 DEF w2, pend2, time2

-----------------------------------------------------------------------------
(***************************************************************************)
(* The first part of the inductive invariant.                              *)
(***************************************************************************)
Current == {"getlock", "check", "arm", "handler", "unlocked", "done"}

\* A walk of softclock(): when it holds cc_lock, and what is its current callout.
WalkOf(p) ==
  /\ pc[p] \in SoftPoints
  /\ cc_lock[p] <=> pc[p] = "scan"
  /\ cc_curr[p] = IF pc[p] \in Current THEN c[p] ELSE NULL
  /\ pc[p] \in Current => c[p] # NULL
  /\ pc[p] \in {"idle", "relock", "wakeup"} => c[p] = NULL
  /\ pc[p] = "idle" => cc_next[p] = NULL

ClientOf(t) ==
  /\ pc[t] \in ClientPoints
  /\ pc[t] # "idle" => c[t] # NULL /\ c[t] \notin local

WalkInv == (\A p \in Cpu : WalkOf(p)) /\ (\A t \in Client : ClientOf(t))

\* The wheels and the bookmarks, and where a walk is that holds cc_lock.
WheelInv ==
  /\ WellPut(cc_callwheel, c_pending, c_time, c_cpu)
  /\ Marks(cc_callwheel, cc_next)

ScanInv ==
  \A p \in Cpu : cc_lock[p] /\ c[p] # NULL =>
    c[p] \in ToSet(cc_callwheel[p][Bucket(curticks[p])])

\* No softclock thread lags more than MAX_LAG ticks behind, or is ahead.
LagInv == \A p \in Cpu : Diff(ticks, cc_softticks[p]) \in 0..MAX_LAG

Core == TypeOK /\ WalkInv /\ WheelInv /\ ScanInv /\ LagInv

\* What a step that takes callout x off its wheel, or puts it on one, does to the
\* wheels.
Requeued(x) ==
  /\ ~cc_lock[c_cpu[x]]
  /\ WellPut(cc_callwheel', c_pending', c_time', c_cpu')
  /\ Marks(cc_callwheel', cc_next')
  /\ Keeps(cc_callwheel, cc_next, cc_callwheel', cc_next', x)
  /\ \A y \in Calls \ {x} : /\ c_pending'[y] = c_pending[y]
                            /\ c_time'[y] = c_time[y] /\ c_cpu'[y] = c_cpu[y]
  /\ c_pending'[x] =>
       \/ UNCHANGED wheelVars /\ UNCHANGED cc_next
       \/ /\ c_cpu'[x] = c_cpu[x]
          /\ \E n \in Nat : n > 0 /\ n + MAX_LAG <= Half /\ n + MAX_LAG < TICK_MOD - Half
                                  /\ c_time'[x] = Plus(ticks, n)

LEMMA ZeroTick == 0 \in Ticks
BY Sizes DEF Ticks

LEMMA DequeueRequeues ==
  ASSUME Core, NEW x \in Calls, c_pending[x], ~cc_lock[c_cpu[x]], Dequeue(x), UNCHANGED c_cpu
  PROVE  Requeued(x) /\ ~c_pending'[x]
<1>1. /\ WellPut(cc_callwheel, c_pending, c_time, c_cpu) /\ Marks(cc_callwheel, cc_next)
      /\ c_time \in [Calls -> Ticks] /\ c_cpu \in [Calls -> Cpu]
      /\ curticks \in [Cpu -> Ticks] /\ c_pending \in [Calls -> BOOLEAN]
  BY DEF Core, WheelInv, TypeOK
<1>2. /\ c_time' \in [Calls -> Ticks] /\ c_cpu' \in [Calls -> Cpu]
      /\ \A y \in Calls \ {x} : c_time'[y] = c_time[y] /\ c_cpu'[y] = c_cpu[y]
  BY <1>1, ZeroTick DEF Dequeue
<1>3. /\ cc_callwheel' = [cc_callwheel EXCEPT ![c_cpu[x]][Bucket(c_time[x])] = RemoveFirst(@, x)]
      /\ cc_next' = [cc_next EXCEPT ![c_cpu[x]] =
                       IF @ = x THEN NextIn(cc_callwheel[c_cpu[x]][Bucket(c_time[x])], x) ELSE @]
      /\ c_pending' = [c_pending EXCEPT ![x] = FALSE]
  BY DEF Dequeue, Unlink, NextPast
<1>4. /\ WellPut(cc_callwheel', c_pending', c_time', c_cpu')
      /\ Marks(cc_callwheel', cc_next')
      /\ Keeps(cc_callwheel, cc_next, cc_callwheel', cc_next', x)
  BY <1>1, <1>2, <1>3, OffEffect
<1>5. ~c_pending'[x] /\ \A y \in Calls \ {x} : c_pending'[y] = c_pending[y]
  BY <1>1, <1>3
<1> QED
  BY <1>2, <1>4, <1>5 DEF Requeued

LEMMA KeepsTrans ==
  ASSUME NEW w, NEW nx, NEW w1, NEW nx1, NEW w2, NEW nx2, NEW x,
         Keeps(w, nx, w1, nx1, x), Keeps(w1, nx1, w2, nx2, x)
  PROVE  Keeps(w, nx, w2, nx2, x)
BY DEF Keeps

LEMMA KeepsSame ==
  ASSUME NEW w, NEW nx, NEW x
  PROVE  Keeps(w, nx, w, nx, x)
BY DEF Keeps

LEMMA ResetRequeues ==
  ASSUME Core, NEW t \in Thread, NEW x \in Calls, NEW to_ticks \in Delays, NEW cpu \in Cpu,
         ResetPass(t, x, to_ticks, cpu)
  PROVE  Requeued(x)
<1> DEFINE p == c_cpu[x]
           to == IF to_ticks <= 0 THEN 1 ELSE to_ticks
           time == Plus(ticks, to)
           wheel == IF c_pending[x] THEN Unlink(x) ELSE cc_callwheel
           next == IF c_pending[x] THEN NextPast(x) ELSE cc_next
           pend1 == [c_pending EXCEPT ![x] = FALSE]
<1>1. /\ WellPut(cc_callwheel, c_pending, c_time, c_cpu) /\ Marks(cc_callwheel, cc_next)
      /\ c_time \in [Calls -> Ticks] /\ c_cpu \in [Calls -> Cpu]
      /\ curticks \in [Cpu -> Ticks] /\ c_pending \in [Calls -> BOOLEAN] /\ ticks \in Ticks
  BY DEF Core, WheelInv, TypeOK
<1>2. ~cc_lock[p]
  BY DEF ResetPass
<1>3. /\ to \in Nat /\ to > 0 /\ to + MAX_LAG <= Half /\ to + MAX_LAG < TICK_MOD - Half
      /\ time \in Ticks
  <2>1. to \in Nat /\ to > 0 /\ to + MAX_LAG <= Half /\ to + MAX_LAG < TICK_MOD - Half
    BY Sizes
  <2>2. to <= TICK_MOD
    BY <2>1, Sizes
  <2> HIDE DEF to
  <2> QED
    BY <1>1, <2>1, <2>2, PlusIs
<1>4. ASSUME NEW time2 \in [Calls -> Ticks], NEW cpu2 \in [Calls -> Cpu],
             \A y \in Calls \ {x} : time2[y] = c_time[y] /\ cpu2[y] = c_cpu[y]
      PROVE  /\ WellPut(wheel, pend1, time2, cpu2) /\ Marks(wheel, next)
             /\ Keeps(cc_callwheel, cc_next, wheel, next, x)
  <2>1. CASE c_pending[x]
    <3>1. /\ wheel = [cc_callwheel EXCEPT ![c_cpu[x]][Bucket(c_time[x])] = RemoveFirst(@, x)]
          /\ next = [cc_next EXCEPT ![c_cpu[x]] =
                       IF @ = x THEN NextIn(cc_callwheel[c_cpu[x]][Bucket(c_time[x])], x) ELSE @]
      BY <2>1 DEF Unlink, NextPast
    <3> HIDE DEF wheel, next
    <3> QED
      BY <1>1, <1>2, <1>4, <2>1, <3>1, OffEffect
  <2>2. CASE ~c_pending[x]
    <3>1. wheel = cc_callwheel /\ next = cc_next /\ pend1 = c_pending
      BY <1>1, <2>2
    <3>2. \A q \in Cpu, b \in Ix, y \in Calls :
            y \in ToSet(cc_callwheel[q][b]) <=> c_pending[y] /\ q = cpu2[y] /\ b = Bucket(time2[y])
      <4>1. SUFFICES ASSUME NEW q \in Cpu, NEW b \in Ix, NEW y \in Calls
                     PROVE  y \in ToSet(cc_callwheel[q][b]) <=>
                              c_pending[y] /\ q = cpu2[y] /\ b = Bucket(time2[y])
        OBVIOUS
      <4>2. y \in ToSet(cc_callwheel[q][b]) <=> c_pending[y] /\ q = c_cpu[y] /\ b = Bucket(c_time[y])
        BY <1>1 DEF WellPut
      <4>3. y # x => time2[y] = c_time[y] /\ cpu2[y] = c_cpu[y]
        BY <1>4
      <4> QED
        BY <2>2, <4>2, <4>3
    <3>3. WellPut(cc_callwheel, c_pending, time2, cpu2)
      BY <1>1, <1>4, <3>2 DEF WellPut
    <3> HIDE DEF wheel, next, pend1
    <3> QED
      BY <1>1, <3>1, <3>3, KeepsSame
  <2> QED
    BY <2>1, <2>2
<1> DEFINE refused == cc_curr[p] = x /\ cc_waiting[p]
<1>5. CASE UNCHANGED <<wheelVars, cc_next>>
  <2>1. UNCHANGED <<cc_callwheel, c_pending, c_time, c_cpu, cc_next>>
    BY <1>5 DEF wheelVars
  <2> QED
    BY <1>1, <1>2, <1>5, <2>1, KeepsSame DEF Requeued
<1>6. CASE /\ cc_next' = next /\ cc_callwheel' = wheel
           /\ c_pending' = [c_pending EXCEPT ![x] = FALSE]
           /\ c_time' = [c_time EXCEPT ![x] = 0]
           /\ c_cpu' = [c_cpu EXCEPT ![x] = cpu]
  <2>1. /\ c_time' \in [Calls -> Ticks] /\ c_cpu' \in [Calls -> Cpu]
        /\ \A y \in Calls \ {x} : c_time'[y] = c_time[y] /\ c_cpu'[y] = c_cpu[y]
    BY <1>1, <1>6, ZeroTick
  <2>2. ~c_pending'[x] /\ \A y \in Calls \ {x} : c_pending'[y] = c_pending[y]
    BY <1>1, <1>6
  <2> HIDE DEF wheel, next
  <2>3. /\ WellPut(cc_callwheel', c_pending', c_time', c_cpu') /\ Marks(cc_callwheel', cc_next')
        /\ Keeps(cc_callwheel, cc_next, cc_callwheel', cc_next', x)
    BY <1>4, <1>6, <2>1
  <2> QED
    BY <1>2, <2>1, <2>2, <2>3 DEF Requeued
<1>7. CASE /\ cc_next' = next
           /\ cc_callwheel' = [wheel EXCEPT ![p][Bucket(time)] = Append(@, x)]
           /\ c_pending' = [c_pending EXCEPT ![x] = TRUE]
           /\ c_time' = [c_time EXCEPT ![x] = time]
           /\ c_cpu' = c_cpu
  <2>1. /\ c_time' \in [Calls -> Ticks] /\ c_time'[x] = time
        /\ \A y \in Calls \ {x} : c_time'[y] = c_time[y] /\ c_cpu'[y] = c_cpu[y]
    BY <1>1, <1>3, <1>7
  <2>2. /\ pend1[x] = FALSE /\ c_pending' = [pend1 EXCEPT ![x] = TRUE]
        /\ \A y \in Calls \ {x} : c_pending'[y] = c_pending[y]
    BY <1>1, <1>7
  <2> HIDE DEF wheel, next, time, pend1, to
  <2>3. WellPut(wheel, pend1, c_time, c_cpu) /\ Marks(wheel, next) /\ Keeps(cc_callwheel, cc_next, wheel, next, x)
    BY <1>1, <1>4
  <2>4. /\ WellPut(cc_callwheel', c_pending', c_time', c_cpu') /\ Marks(cc_callwheel', cc_next')
        /\ Keeps(wheel, next, cc_callwheel', cc_next', x)
    <3> DEFINE w2 == [wheel EXCEPT ![p][Bucket(time)] = Append(@, x)]
    <3>1. ~pend1[x]
      BY <2>2
    <3>2. /\ WellPut(w2, [pend1 EXCEPT ![x] = TRUE], [c_time EXCEPT ![x] = time], c_cpu)
          /\ Marks(w2, next) /\ Keeps(wheel, next, w2, next, x)
      BY <1>1, <1>2, <1>3, <2>3, <3>1, OnEffect
    <3> QED
      BY <1>7, <2>2, <3>2, Zenon
  <2>5. Keeps(cc_callwheel, cc_next, cc_callwheel', cc_next', x)
    BY <2>3, <2>4, KeepsTrans
  <2>6. c_cpu'[x] = c_cpu[x] /\ \E n \in Nat : n > 0 /\ n + MAX_LAG <= Half /\ n + MAX_LAG < TICK_MOD - Half
                                  /\ c_time'[x] = Plus(ticks, n)
    BY <1>3, <1>7, <2>1 DEF time
  <2> QED
    BY <1>2, <2>1, <2>2, <2>4, <2>5, <2>6 DEF Requeued
<1> QED
  BY <1>5, <1>6, <1>7, Zenon DEF ResetPass

-----------------------------------------------------------------------------
(***************************************************************************)
(* Every step keeps the first part of the invariant.                       *)
(***************************************************************************)

\* cc_softticks comes nearer to ticks.
LEMMA LagStep ==
  ASSUME NEW a \in Ticks, NEW b \in Ticks, Diff(a, b) \in 0..MAX_LAG,
         NEW k \in Nat, k <= Diff(a, b)
  PROVE  Plus(b, k) \in Ticks /\ Diff(a, Plus(b, k)) = Diff(a, b) - k
<1>1. k < TICK_MOD - Half /\ k <= Half /\ k <= MAX_LAG
  BY Sizes
<1>2. Plus(b, k) \in Ticks /\ Diff(b, Plus(b, k)) = 0 - k
  BY <1>1, DiffPlus
<1> DEFINE d == Diff(a, b)  e == Diff(b, Plus(b, k))
<1>3. d \in Int /\ e = 0 - k /\ 0 <= d + e /\ d + e <= MAX_LAG
  <2>1. d \in 0..MAX_LAG /\ k <= d /\ e = 0 - k /\ MAX_LAG \in Nat
    BY <1>2, Sizes
  <2> HIDE DEF d, e
  <2> QED
    BY <2>1
<1>4. 0 - Half <= d + e /\ d + e < TICK_MOD - Half
  <2> HIDE DEF d, e
  <2> QED
    BY <1>3, Sizes
<1>5. Diff(a, Plus(b, k)) = d + e
  BY <1>2, <1>4, DiffAdds
<1> QED
  BY <1>2, <1>3, <1>5

\* callout_tick() skips empty buckets, and never goes past ticks.
LEMMA TickSkips ==
  ASSUME Core, NEW p \in Cpu, callout_tick(p)
  PROVE  \E k \in Nat :
           /\ k <= Diff(ticks, cc_softticks[p])
           /\ cc_softticks' = [cc_softticks EXCEPT ![p] = Plus(@, k)]
           /\ \A n \in 0..(k - 1) :
                cc_callwheel[p][Bucket(Plus(cc_softticks[p], n))] = <<>>
<1> DEFINE D == Diff(ticks, cc_softticks[p])
           past == {n \in 0..MAX_LAG : n < D}
           full == {n \in past : cc_callwheel[p][Bucket(Plus(cc_softticks[p], n))] # <<>>}
           steps == IF full = {} THEN Cardinality(past)
                    ELSE CHOOSE n \in full : \A k \in full : n <= k
<1>1. D \in 0..MAX_LAG /\ MAX_LAG \in Nat
  BY Sizes DEF Core, LagInv
<1>2. cc_softticks' = [cc_softticks EXCEPT ![p] = Plus(@, steps)]
  BY DEF callout_tick
<1>3. CASE full = {}
  <2>1. past = 0..(D - 1)
    <3> HIDE DEF D
    <3> QED
      BY <1>1
  <2> HIDE DEF D
  <2>2. Cardinality(past) = D
    <3> HIDE DEF past
    <3>1. Cardinality(0..(D - 1)) = IF 0 > D - 1 THEN 0 ELSE (D - 1) - 0 + 1
      <4>1. 0 \in Int /\ D - 1 \in Int
        BY <1>1
      <4> QED
        BY <4>1, FS_Interval
    <3> QED
      BY <1>1, <2>1, <3>1
  <2>3. steps = D
    BY <1>3, <2>2
  <2>4. D \in Nat /\ D <= D
    BY <1>1
  <2>5. \A n \in 0..(D - 1) : cc_callwheel[p][Bucket(Plus(cc_softticks[p], n))] = <<>>
    BY <1>3, <2>1
  <2> HIDE DEF steps, past, full
  <2> QED
    BY <1>2, <2>3, <2>4, <2>5 DEF D
<1>4. CASE full # {}
  <2>1. full \in SUBSET Nat /\ \A n \in full : n < D
    BY <1>1
  <2>2. \A n \in past : n \notin full => cc_callwheel[p][Bucket(Plus(cc_softticks[p], n))] = <<>>
    OBVIOUS
  <2>3. \A n \in Nat : n < D => n \in past
    <3> HIDE DEF D
    <3> QED
      BY <1>1
  <2> HIDE DEF past, full, D
  <2>4. Min(full) \in full /\ \A k \in full : Min(full) <= k
    BY <1>4, <2>1, MinExists
  <2>5. steps \in full /\ \A k \in full : steps <= k
    BY <1>4, <2>4
  <2> HIDE DEF steps
  <2>6. steps \in Nat /\ steps < D
    BY <2>1, <2>5
  <2>7. \A n \in 0..(steps - 1) : cc_callwheel[p][Bucket(Plus(cc_softticks[p], n))] = <<>>
    <3> SUFFICES ASSUME NEW n \in 0..(steps - 1)
                 PROVE  cc_callwheel[p][Bucket(Plus(cc_softticks[p], n))] = <<>>
      OBVIOUS
    <3>1. n \in Nat /\ n < steps /\ n < D
      BY <1>1, <2>6
    <3>2. n \notin full
      BY <2>1, <2>5, <2>6, <3>1
    <3> QED
      BY <2>2, <2>3, <3>1, <3>2
  <2>8. steps <= D
    BY <1>1, <2>6
  <2> QED
    BY <1>2, <2>6, <2>7, <2>8 DEF D
<1> QED
  BY <1>3, <1>4

\* What is in a bucket.
LEMMA BucketIs ==
  ASSUME Core, NEW p \in Cpu, NEW n \in Ticks
  PROVE  LET q == cc_callwheel[p][Bucket(n)]
         IN  /\ q \in Seq(Calls) /\ Injective(q)
             /\ \A x \in Calls : x \in ToSet(q) <=>
                  c_pending[x] /\ p = c_cpu[x] /\ Bucket(n) = Bucket(c_time[x])
<1>1. Bucket(n) \in Ix /\ WellPut(cc_callwheel, c_pending, c_time, c_cpu)
  BY BucketIn DEF Core, WheelInv
<1> QED
  BY <1>1 DEF WellPut

\* A step that leaves the wheels, the bookmarks and the walks alone.
LEMMA QuietKeeps ==
  ASSUME Core, UNCHANGED <<cc_callwheel, c_pending, c_time, c_cpu, cc_next, cc_lock, curticks>>,
         \A p \in Cpu : c'[p] = c[p]
  PROVE  WheelInv' /\ ScanInv'
BY DEF Core, WheelInv, ScanInv, Marks, WellPut

\* A step that takes a callout off its wheel, or puts it on one.
LEMMA RequeuedKeeps ==
  ASSUME Core, NEW x \in Calls, Requeued(x), UNCHANGED <<cc_lock, curticks>>,
         \A p \in Cpu : c'[p] = c[p]
  PROVE  /\ WheelInv' /\ ScanInv'
         /\ cc_callwheel' \in [Cpu -> [0..(WHEEL - 1) -> Seq(Calls)]]
         /\ c_pending' \in [Calls -> BOOLEAN] /\ c_time' \in [Calls -> Ticks]
         /\ c_cpu' \in [Calls -> Cpu] /\ cc_next' \in [Cpu -> Calls \cup {NULL}]
         /\ \A p \in Cpu : cc_next[p] = NULL => cc_next'[p] = NULL
<1>1. WheelInv'
  BY DEF Requeued, Marks, WheelInv
<1>2. ScanInv'
  BY DEF Core, ScanInv, Requeued, Keeps
<1>3. \A p \in Cpu : cc_next[p] = NULL => cc_next'[p] = NULL
  BY DEF Requeued, Keeps
<1> QED
  BY <1>1, <1>2, <1>3 DEF Requeued, WellPut, Marks, Ix

LEMMA SameLag ==
  ASSUME Core, UNCHANGED <<ticks, cc_softticks>>
  PROVE  LagInv'
BY DEF Core, LagInv

\* The names of the threads, and what is said of them in one place.
LEMMA Threads ==
  /\ \A p \in Cpu : p \in Thread /\ p \notin Client
  /\ \A t \in Client : t \in Thread /\ t \notin Cpu
  /\ NULL \notin Calls /\ NULL \notin Thread /\ NULL \notin Lock /\ NULL \notin Cpu
BY CalloutAssumption DEF Thread

LEMMA SoftQuietStep ==
  ASSUME Core, NEW p \in Cpu, SoftGetLock(p) \/ SoftCheck(p) \/ SoftArm(p) \/ HandlerUnlock(p) \/ SoftReturn(p)
  PROVE  Core'
<1>1. /\ UNCHANGED <<cc_callwheel, c_pending, c_time, c_cpu, cc_next, cc_lock, curticks>>
      /\ UNCHANGED <<c, ticks, cc_softticks, cc_curr, local>>
  BY DEF SoftGetLock, SoftCheck, SoftArm, HandlerUnlock, SoftReturn, wheelVars, cpuVars, localVars, handleVars
<1>2. WheelInv' /\ ScanInv' /\ LagInv'
  BY <1>1, QuietKeeps, SameLag
<1>3. WalkInv'
  <2>1. PICK f : pc[p] \in Current /\ f \in Current /\ pc' = [pc EXCEPT ![p] = f]
    BY DEF SoftGetLock, SoftCheck, SoftArm, HandlerUnlock, SoftReturn, Goto, At, Current
  <2> QED
    BY <1>1, <2>1, Threads DEF Core, WalkInv, WalkOf, ClientOf, TypeOK, SoftPoints, Current
<1>4. ASSUME SoftGetLock(p) PROVE TypeOK'
  BY <1>4, Threads DEF Core, TypeOK, SoftGetLock, Goto, At, wheelVars, cpuVars, localVars, handleVars,
     tableVars, SoftPoints
<1>5. ASSUME SoftCheck(p) PROVE TypeOK'
  <2>1. \/ owner' = [owner EXCEPT ![LockOf(c[p])] = NULL] /\ pc' = [pc EXCEPT ![p] = "done"]
        \/ UNCHANGED owner /\ pc' = [pc EXCEPT ![p] = "arm"]
    BY <1>5 DEF SoftCheck, Goto
  <2>2. /\ owner' \in [Lock -> Thread \cup {NULL}]
        /\ pc' \in [Thread -> SoftPoints \cup ClientPoints]
    BY <2>1, Threads DEF Core, TypeOK, SoftPoints
  <2> QED
    BY <1>5, <2>2 DEF Core, TypeOK, SoftCheck, wheelVars, cpuVars, localVars, handleVars, tableVars
<1>6. ASSUME SoftArm(p) PROVE TypeOK'
  BY <1>6, Threads DEF Core, TypeOK, SoftArm, Goto, At, wheelVars, cpuVars, localVars, handleVars,
     tableVars, SoftPoints
<1>7. ASSUME SoftReturn(p) PROVE TypeOK'
  <2>1. /\ UNCHANGED owner \/ owner' = [l \in Lock |-> IF l = LockOf(c[p]) THEN NULL ELSE owner[l]]
        /\ pc' = [pc EXCEPT ![p] = "done"]
    BY <1>7 DEF SoftReturn, Goto
  <2>2. /\ owner' \in [Lock -> Thread \cup {NULL}]
        /\ pc' \in [Thread -> SoftPoints \cup ClientPoints]
    BY <2>1, Threads DEF Core, TypeOK, SoftPoints
  <2> QED
    BY <1>7, <2>2 DEF Core, TypeOK, SoftReturn, wheelVars, cpuVars, localVars, handleVars, tableVars
<1>8. ASSUME HandlerUnlock(p) PROVE TypeOK'
  BY <1>8, Threads DEF Core, TypeOK, HandlerUnlock, Goto, At, wheelVars, cpuVars, localVars, handleVars,
     tableVars, SoftPoints
<1> QED
  BY <1>2, <1>3, <1>4, <1>5, <1>6, <1>7, <1>8 DEF Core

LEMMA SoftWakeupStep ==
  ASSUME Core, NEW p \in Cpu, SoftWakeup(p)
  PROVE  Core'
<1>1. /\ UNCHANGED <<cc_callwheel, c_pending, c_time, c_cpu, cc_next, cc_lock, curticks>>
      /\ UNCHANGED <<c, ticks, cc_softticks, cc_curr, local>>
  BY DEF SoftWakeup, wheelVars, cpuVars, localVars, handleVars
<1>2. WheelInv' /\ ScanInv' /\ LagInv'
  BY <1>1, QuietKeeps, SameLag
<1>3. /\ pc[p] = "wakeup"
      /\ pc' = [t \in Thread |->
                  IF t = p THEN "relock"
                  ELSE IF pc[t] = "asleep" /\ dcc[t] = p THEN "woken" ELSE pc[t]]
  BY DEF SoftWakeup, At
<1>4. ASSUME NEW q \in Cpu PROVE WalkOf(q)'
  <2>0. WalkOf(q) /\ WalkOf(p) /\ q \in Thread /\ p \in Thread
    BY Threads DEF Core, WalkInv
  <2>1. CASE q = p
    BY <1>1, <1>3, <2>0, <2>1 DEF WalkOf, SoftPoints, Current
  <2>2. CASE q # p
    <3>1. pc'[q] = pc[q]
      BY <1>3, <2>0, <2>2 DEF WalkOf, SoftPoints
    <3> QED
      BY <1>1, <2>0, <3>1 DEF WalkOf
  <2> QED
    BY <2>1, <2>2
<1>5. ASSUME NEW t \in Client PROVE ClientOf(t)'
  <2>1. ClientOf(t) /\ t \in Thread /\ t # p
    BY Threads DEF Core, WalkInv
  <2>2. pc'[t] = pc[t] \/ (pc[t] = "asleep" /\ pc'[t] = "woken")
    BY <1>3, <2>1
  <2> QED
    BY <1>1, <2>1, <2>2 DEF ClientOf, ClientPoints
<1>6. pc' \in [Thread -> SoftPoints \cup ClientPoints]
  BY <1>3 DEF Core, TypeOK, SoftPoints, ClientPoints
<1>7. TypeOK'
  BY <1>6 DEF Core, TypeOK, SoftWakeup, wheelVars, cpuVars, localVars, handleVars, tableVars
<1> QED
  BY <1>2, <1>4, <1>5, <1>7 DEF Core, WalkInv

\* The walks and the clients, when a walk goes on at f with callout x.
LEMMA WalkMoves ==
  ASSUME Core, NEW p \in Cpu, NEW f, NEW x, TypeOK',
         pc' = [pc EXCEPT ![p] = f], c' = [c EXCEPT ![p] = x],
         \A q \in Cpu \ {p} : /\ cc_lock'[q] = cc_lock[q]
                              /\ cc_curr'[q] = cc_curr[q] /\ cc_next'[q] = cc_next[q],
         UNCHANGED local, WalkOf(p)'
  PROVE  WalkInv'
<1>1. /\ \A t \in Thread \ {p} : pc'[t] = pc[t] /\ c'[t] = c[t]
      /\ \A q \in Cpu : WalkOf(q)
      /\ \A t \in Client : ClientOf(t)
  BY DEF Core, WalkInv, TypeOK
<1>2. \A q \in Cpu : WalkOf(q)'
  <2> SUFFICES ASSUME NEW q \in Cpu, q # p PROVE WalkOf(q)'
    OBVIOUS
  <2>1. WalkOf(q) /\ pc'[q] = pc[q] /\ c'[q] = c[q]
    BY <1>1, Threads
  <2> QED
    BY <2>1 DEF WalkOf
<1>3. \A t \in Client : ClientOf(t)'
  <2> SUFFICES ASSUME NEW t \in Client PROVE ClientOf(t)'
    OBVIOUS
  <2>1. ClientOf(t) /\ pc'[t] = pc[t] /\ c'[t] = c[t]
    BY <1>1, Threads
  <2> QED
    BY <2>1 DEF ClientOf
<1> QED
  BY <1>2, <1>3 DEF WalkInv

LEMMA SoftStartStep ==
  ASSUME Core, NEW p \in Cpu, SoftStart(p)
  PROVE  Core'
<1>1. /\ UNCHANGED <<cc_callwheel, c_pending, c_time, c_cpu, cc_next, curticks>>
      /\ UNCHANGED <<c, ticks, cc_softticks, cc_curr, local>>
      /\ cc_lock' = [cc_lock EXCEPT ![p] = TRUE] /\ pc' = [pc EXCEPT ![p] = "scan"]
      /\ pc[p] = "idle"
  BY DEF SoftStart, wheelVars, localVars, handleVars, Goto, At
<1>2. TypeOK'
  BY Threads DEF Core, TypeOK, SoftStart, Goto, At, wheelVars, localVars, handleVars,
     tableVars, SoftPoints
<1>3. c[p] = NULL /\ c' = [c EXCEPT ![p] = NULL]
  BY <1>1, Threads DEF Core, WalkInv, WalkOf, TypeOK
<1>4. WalkOf(p) /\ WalkOf(p)'
  BY <1>1, <1>3, Threads DEF Core, WalkInv, WalkOf, TypeOK, SoftPoints, Current
<1>5. WalkInv'
  BY <1>1, <1>2, <1>3, <1>4, WalkMoves DEF Core, TypeOK
<1>6. \A q \in Cpu : q # p => cc_lock'[q] = cc_lock[q]
  BY <1>1 DEF Core, TypeOK
<1>7. WheelInv'
  BY <1>1, <1>4, <1>6 DEF Core, WheelInv, Marks, WalkOf
<1>8. ScanInv'
  BY <1>1, <1>3, <1>6 DEF Core, ScanInv
<1> QED
  BY <1>1, <1>2, <1>5, <1>7, <1>8, SameLag DEF Core

LEMMA SoftBucketStep ==
  ASSUME Core, NEW p \in Cpu, SoftBucket(p)
  PROVE  Core'
<1>1. /\ UNCHANGED <<cc_callwheel, c_pending, c_time, c_cpu, ticks, cc_curr, local>>
      /\ UNCHANGED <<req, dcc, handle, cc_callfree, c_func, cc_cancel, cc_waiting, swi, owner>>
      /\ UNCHANGED <<sq_lock, stopped>>
      /\ pc[p] = "scan" /\ c[p] = NULL
  BY DEF SoftBucket, wheelVars, handleVars, tableVars, At
<1>2. cc_softticks[p] \in Ticks /\ ticks \in Ticks /\ Bucket(cc_softticks[p]) \in Ix
  BY BucketIn DEF Core, TypeOK
<1> DEFINE q == cc_callwheel[p][Bucket(cc_softticks[p])]
<1>3. q \in Seq(Calls)
  BY <1>2, BucketIs
<1>4. CASE /\ cc_softticks[p] # ticks
           /\ curticks' = [curticks EXCEPT ![p] = cc_softticks[p]]
           /\ c' = [c EXCEPT ![p] = First(q)]
           /\ cc_softticks' = [cc_softticks EXCEPT ![p] = Plus(@, 1)]
           /\ UNCHANGED <<cc_lock, cc_next, pc>>
  <2>1. First(q) \in Calls \cup {NULL} /\ (First(q) # NULL => First(q) \in ToSet(q))
    BY <1>3, FirstIsFirst
  <2>2. Diff(ticks, cc_softticks[p]) \in 0..MAX_LAG /\ Diff(ticks, cc_softticks[p]) # 0
    BY <1>2, <1>4, DiffBack DEF Core, LagInv
  <2>3. 1 <= Diff(ticks, cc_softticks[p])
    <3> DEFINE d == Diff(ticks, cc_softticks[p])
    <3>1. d \in 0..MAX_LAG /\ d # 0 /\ MAX_LAG \in Nat
      BY <2>2, Sizes
    <3> HIDE DEF d
    <3>2. 1 <= d
      BY <3>1
    <3> QED
      BY <3>2 DEF d
  <2>4. /\ Plus(cc_softticks[p], 1) \in Ticks
        /\ Diff(ticks, Plus(cc_softticks[p], 1)) = Diff(ticks, cc_softticks[p]) - 1
    BY <1>2, <2>2, <2>3, LagStep
  <2>5. cc_softticks' \in [Cpu -> Ticks] /\ cc_softticks'[p] = Plus(cc_softticks[p], 1)
        /\ \A r \in Cpu : r # p => cc_softticks'[r] = cc_softticks[r]
    BY <1>4, <2>4 DEF Core, TypeOK
  <2>6. c' \in [Thread -> Calls \cup {NULL}] /\ curticks' \in [Cpu -> Ticks]
    BY <1>2, <1>4, <2>1 DEF Core, TypeOK
  <2>7. TypeOK'
    BY <1>1, <1>4, <2>5, <2>6 DEF Core, TypeOK
  <2>8. LagInv'
    <3> DEFINE d == Diff(ticks, cc_softticks[p])
    <3>1. d \in 0..MAX_LAG /\ 1 <= d /\ MAX_LAG \in Nat
      BY <2>2, <2>3, Sizes
    <3>2. Diff(ticks', cc_softticks'[p]) = d - 1
      BY <1>1, <2>4, <2>5
    <3> HIDE DEF d
    <3>3. d - 1 \in 0..MAX_LAG
      BY <3>1
    <3> QED
      BY <1>1, <2>5, <3>2, <3>3 DEF Core, LagInv
  <2>9. WalkInv'
    <3>1. pc' = [pc EXCEPT ![p] = "scan"]
      BY <1>1, <1>4 DEF Core, TypeOK
    <3>2. WalkOf(p)'
      BY <1>1, <1>4 DEF Core, WalkInv, WalkOf, Current, SoftPoints
    <3> HIDE DEF q
    <3> QED
      BY <1>1, <1>4, <2>7, <3>1, <3>2, WalkMoves
  <2>10. /\ \A r \in Cpu : r # p => curticks'[r] = curticks[r] /\ c'[r] = c[r]
         /\ curticks'[p] = cc_softticks[p] /\ c'[p] = First(q)
    BY <1>4, Threads DEF Core, TypeOK
  <2>11. cc_lock[p]
    BY <1>1 DEF Core, WalkInv, WalkOf
  <2>12. WheelInv'
    BY <1>1, <1>4, <2>10, <2>11 DEF Core, WheelInv, Marks
  <2>13. ScanInv'
    BY <1>1, <1>4, <2>1, <2>10 DEF Core, ScanInv
  <2> QED
    BY <2>7, <2>8, <2>9, <2>12, <2>13 DEF Core
<1>5. CASE /\ cc_softticks[p] = ticks
           /\ cc_next' = [cc_next EXCEPT ![p] = NULL]
           /\ cc_lock' = [cc_lock EXCEPT ![p] = FALSE]
           /\ pc' = [pc EXCEPT ![p] = "idle"]
           /\ curticks' = [curticks EXCEPT ![p] = 0]
           /\ UNCHANGED <<cc_softticks, c>>
  <2>1. TypeOK'
    BY <1>1, <1>5, Threads, ZeroTick DEF Core, TypeOK, SoftPoints
  <2>2. c' = [c EXCEPT ![p] = NULL]
    BY <1>1, <1>5, Threads DEF Core, TypeOK
  <2>3. /\ \A r \in Cpu : r # p => /\ curticks'[r] = curticks[r] /\ cc_lock'[r] = cc_lock[r]
                                   /\ cc_next'[r] = cc_next[r]
        /\ cc_next'[p] = NULL /\ ~cc_lock'[p] /\ pc'[p] = "idle" /\ c'[p] = NULL
    BY <1>1, <1>5, Threads DEF Core, TypeOK
  <2>4. WalkOf(p)'
    BY <1>1, <2>3 DEF Core, WalkInv, WalkOf, Current, SoftPoints
  <2>5. WalkInv'
    BY <1>1, <1>5, <2>1, <2>2, <2>3, <2>4, WalkMoves
  <2>6. WheelInv'
    BY <1>1, <2>1, <2>3 DEF Core, WheelInv, Marks, TypeOK
  <2>7. ScanInv'
    BY <1>1, <1>5, <2>3 DEF Core, ScanInv
  <2> QED
    BY <1>1, <1>5, <2>1, <2>5, <2>6, <2>7, SameLag DEF Core
<1> QED
  BY <1>4, <1>5, Zenon DEF SoftBucket, Goto

\* The callout of a walk is pending on its CPU, in the bucket of the walk.
LEMMA Scanned ==
  ASSUME Core, NEW p \in Cpu, pc[p] = "scan", c[p] # NULL
  PROVE  LET q == cc_callwheel[p][Bucket(curticks[p])]
         IN  /\ c[p] \in Calls /\ q \in Seq(Calls) /\ Injective(q) /\ c[p] \in ToSet(q)
             /\ c_pending[c[p]] /\ c_cpu[c[p]] = p /\ Bucket(c_time[c[p]]) = Bucket(curticks[p])
             /\ cc_lock[p] /\ curticks[p] \in Ticks
<1>1. cc_lock[p] /\ c[p] \in Calls /\ curticks[p] \in Ticks
  BY Threads DEF Core, WalkInv, WalkOf, TypeOK
<1>2. c[p] \in ToSet(cc_callwheel[p][Bucket(curticks[p])])
  BY <1>1 DEF Core, ScanInv
<1> QED
  BY <1>1, <1>2, BucketIs

LEMMA SoftSkipStep ==
  ASSUME Core, NEW p \in Cpu, SoftSkip(p)
  PROVE  Core'
<1> DEFINE q == cc_callwheel[p][Bucket(curticks[p])]
           x == NextIn(q, c[p])
<1>1. /\ UNCHANGED <<cc_callwheel, c_pending, c_time, c_cpu, ticks, cc_softticks, cc_curr, local>>
      /\ UNCHANGED <<req, dcc, handle, cc_callfree, c_func, cc_cancel, cc_waiting, swi, owner>>
      /\ UNCHANGED <<sq_lock, stopped, curticks>>
      /\ pc[p] = "scan" /\ c[p] # NULL
  BY DEF SoftSkip, wheelVars, handleVars, tableVars, At
<1>2. q \in Seq(Calls) /\ Injective(q) /\ c[p] \in ToSet(q) /\ cc_lock[p]
  BY <1>1, Scanned
<1>3. x \in Calls \cup {NULL} /\ (x # NULL => x \in ToSet(q))
  BY <1>2, NextFollows
<1>4. CASE c' = [c EXCEPT ![p] = x] /\ UNCHANGED <<cc_lock, cc_next, pc>>
  <2>1. /\ c' \in [Thread -> Calls \cup {NULL}] /\ c'[p] = x
        /\ \A r \in Cpu : r # p => c'[r] = c[r]
    BY <1>3, <1>4, Threads DEF Core, TypeOK
  <2>2. TypeOK'
    BY <1>1, <1>4, <2>1 DEF Core, TypeOK
  <2>3. pc' = [pc EXCEPT ![p] = "scan"]
    BY <1>1, <1>4 DEF Core, TypeOK
  <2>4. WalkOf(p)'
    BY <1>1, <1>4 DEF Core, WalkInv, WalkOf, Current, SoftPoints
  <2>5. ScanInv'
    BY <1>1, <1>3, <1>4, <2>1 DEF Core, ScanInv
  <2> HIDE DEF x
  <2>6. WalkInv'
    BY <1>1, <1>4, <2>2, <2>3, <2>4, WalkMoves
  <2>7. WheelInv'
    BY <1>1, <1>4 DEF Core, WheelInv, Marks
  <2> QED
    BY <1>1, <2>2, <2>5, <2>6, <2>7, SameLag DEF Core
<1>5. CASE /\ cc_next' = [cc_next EXCEPT ![p] = x]
           /\ cc_lock' = [cc_lock EXCEPT ![p] = FALSE]
           /\ c' = [c EXCEPT ![p] = NULL]
           /\ pc' = [pc EXCEPT ![p] = "relock"]
  <2>0. /\ cc_next' \in [Cpu -> Calls \cup {NULL}] /\ cc_next'[p] = x
        /\ \A r \in Cpu : r # p => cc_next'[r] = cc_next[r]
    BY <1>3, <1>5 DEF Core, TypeOK
  <2>1. /\ \A r \in Cpu : r # p => cc_lock'[r] = cc_lock[r] /\ c'[r] = c[r]
        /\ ~cc_lock'[p] /\ pc'[p] = "relock" /\ c'[p] = NULL
    BY <1>5, Threads DEF Core, TypeOK
  <2>2. WheelInv'
    BY <1>1, <1>3, <2>0, <2>1 DEF Core, WheelInv, Marks
  <2> HIDE DEF x
  <2>3. TypeOK'
    BY <1>1, <1>5, <2>0, Threads DEF Core, TypeOK, SoftPoints
  <2>4. WalkOf(p)'
    BY <1>1, <2>1 DEF Core, WalkInv, WalkOf, Current, SoftPoints
  <2>5. WalkInv'
    BY <1>1, <1>5, <2>0, <2>1, <2>3, <2>4, WalkMoves
  <2>6. ScanInv'
    BY <1>1, <2>1 DEF Core, ScanInv
  <2> QED
    BY <1>1, <2>2, <2>3, <2>5, <2>6, SameLag DEF Core
<1> QED
  BY <1>4, <1>5, Zenon DEF SoftSkip, Goto

\* A walk takes cc_lock again and goes on at its bookmark.
LEMMA Relocks ==
  ASSUME Core, NEW p \in Cpu, ~cc_lock[p], TypeOK',
         UNCHANGED <<cc_callwheel, c_pending, c_time, c_cpu, ticks, cc_softticks, cc_next, curticks, local>>,
         cc_lock' = [cc_lock EXCEPT ![p] = TRUE], c' = [c EXCEPT ![p] = cc_next[p]],
         pc' = [pc EXCEPT ![p] = "scan"], cc_curr'[p] = NULL,
         \A r \in Cpu \ {p} : cc_curr'[r] = cc_curr[r]
  PROVE  Core'
<1>1. /\ \A r \in Cpu : r # p => cc_lock'[r] = cc_lock[r] /\ c'[r] = c[r]
      /\ cc_lock'[p] = TRUE /\ pc'[p] = "scan" /\ c'[p] = cc_next[p]
  BY Threads DEF Core, TypeOK
<1>2. WalkOf(p)'
  BY <1>1 DEF WalkOf, Current, SoftPoints
<1>3. WalkInv'
  BY <1>1, <1>2, WalkMoves
<1>4. WheelInv'
  BY <1>1 DEF Core, WheelInv, Marks
<1>5. ScanInv'
  BY <1>1 DEF Core, ScanInv, WheelInv, Marks
<1> QED
  BY <1>3, <1>4, <1>5, SameLag DEF Core

LEMMA SoftRelockStep ==
  ASSUME Core, NEW p \in Cpu, SoftRelock(p)
  PROVE  Core'
<1>1. /\ UNCHANGED <<cc_callwheel, c_pending, c_time, c_cpu, ticks, cc_softticks, cc_next, curticks, local>>
      /\ cc_lock' = [cc_lock EXCEPT ![p] = TRUE] /\ c' = [c EXCEPT ![p] = cc_next[p]]
      /\ pc' = [pc EXCEPT ![p] = "scan"] /\ UNCHANGED cc_curr /\ ~cc_lock[p] /\ pc[p] = "relock"
  BY DEF SoftRelock, Goto, At, wheelVars, handleVars
<1>2. cc_curr[p] = NULL
  BY <1>1 DEF Core, WalkInv, WalkOf, Current
<1>3. TypeOK'
  BY Threads DEF Core, TypeOK, SoftRelock, Goto, At, wheelVars, handleVars, tableVars, SoftPoints
<1> QED
  BY <1>1, <1>2, <1>3, Relocks

\* The free list stays a list of entries of the table.
LEMMA ReleaseTypes ==
  ASSUME TypeOK, NEW x \in Calls, Release(x), UNCHANGED local
  PROVE  /\ c_func' \in [Calls -> Request \cup {NULL}] /\ cc_callfree' \in Seq(local)
         /\ x \notin local => UNCHANGED <<c_func, cc_callfree>>
         /\ x \in local => /\ c_func' = [c_func EXCEPT ![x] = NULL]
                           /\ cc_callfree' = <<x>> \o cc_callfree
<1>1. c_func \in [Calls -> Request \cup {NULL}] /\ cc_callfree \in Seq(local)
  BY DEF TypeOK
<1>2. CASE x \in local
  <2>1. c_func' = [c_func EXCEPT ![x] = NULL] /\ cc_callfree' = <<x>> \o cc_callfree
    BY <1>2 DEF Release
  <2>2. cc_callfree' \in Seq(local)
    BY <1>1, <1>2, <2>1
  <2>3. c_func' \in [Calls -> Request \cup {NULL}]
    BY <1>1, <2>1
  <2> QED
    BY <1>2, <2>1, <2>2, <2>3
<1>3. CASE x \notin local
  BY <1>1, <1>3 DEF Release, tableVars
<1> QED
  BY <1>2, <1>3

LEMMA SoftDoneStep ==
  ASSUME Core, NEW p \in Cpu, SoftDone(p)
  PROVE  Core'
<1>1. /\ UNCHANGED <<cc_callwheel, c_pending, c_time, c_cpu, ticks, cc_softticks, cc_next, curticks, local>>
      /\ UNCHANGED <<req, dcc, handle, cc_cancel, swi, owner, sq_lock, stopped>>
      /\ pc[p] = "done" /\ Release(c[p]) /\ ~cc_lock[p]
      /\ cc_curr' = [cc_curr EXCEPT ![p] = NULL]
      /\ cc_waiting' = [cc_waiting EXCEPT ![p] = FALSE]
  BY DEF SoftDone, wheelVars, At
<1>2. c[p] \in Calls
  BY <1>1, Threads DEF Core, WalkInv, WalkOf, Current, TypeOK
<1>3. c_func' \in [Calls -> Request \cup {NULL}] /\ cc_callfree' \in Seq(local)
  BY <1>1, <1>2, ReleaseTypes DEF Core
<1>4. /\ cc_curr' \in [Cpu -> Calls \cup {NULL}] /\ cc_waiting' \in [Cpu -> BOOLEAN]
      /\ cc_curr'[p] = NULL /\ \A r \in Cpu \ {p} : cc_curr'[r] = cc_curr[r]
  BY <1>1 DEF Core, TypeOK
<1>5. CASE c' = [c EXCEPT ![p] = NULL] /\ pc' = [pc EXCEPT ![p] = "wakeup"] /\ UNCHANGED cc_lock
  <2>1. TypeOK'
    BY <1>1, <1>3, <1>4, <1>5, Threads DEF Core, TypeOK, SoftPoints
  <2>2. /\ \A r \in Cpu : r # p => c'[r] = c[r]
        /\ pc'[p] = "wakeup" /\ c'[p] = NULL
    BY <1>5, Threads DEF Core, TypeOK
  <2>3. WalkOf(p)'
    BY <1>1, <1>4, <1>5, <2>2 DEF WalkOf, Current, SoftPoints, Core, WalkInv
  <2>4. WalkInv'
    BY <1>1, <1>4, <1>5, <2>1, <2>3, WalkMoves
  <2>5. WheelInv' /\ ScanInv'
    BY <1>1, <1>5, <2>2 DEF Core, WheelInv, Marks, ScanInv
  <2> QED
    BY <1>1, <2>1, <2>4, <2>5, SameLag DEF Core
<1>6. CASE /\ c' = [c EXCEPT ![p] = cc_next[p]] /\ cc_lock' = [cc_lock EXCEPT ![p] = TRUE]
           /\ pc' = [pc EXCEPT ![p] = "scan"]
  <2>1. TypeOK'
    BY <1>1, <1>3, <1>4, <1>6, Threads DEF Core, TypeOK, SoftPoints
  <2> QED
    BY <1>1, <1>4, <1>6, <2>1, Relocks
<1> QED
  BY <1>5, <1>6, Zenon DEF SoftDone, Goto

\* The callout that fires leaves its bucket; the bookmark goes to the next one.
LEMMA FireEffect ==
  ASSUME Core, NEW p \in Cpu, SoftFire(p)
  PROVE  /\ pc[p] = "scan" /\ c[p] \in Calls /\ cc_lock[p]
         /\ c_pending[c[p]] /\ c_cpu[c[p]] = p
         /\ WellPut(cc_callwheel', c_pending', c_time', c_cpu')
         /\ cc_next' \in [Cpu -> Calls \cup {NULL}]
         /\ cc_next'[p] # NULL => cc_next'[p] \in ToSet(cc_callwheel'[p][Bucket(curticks[p])])
         /\ \A r \in Cpu \ {p} : cc_callwheel'[r] = cc_callwheel[r] /\ cc_next'[r] = cc_next[r]
         /\ \A z \in Calls : z # c[p] /\ Before(cc_callwheel[p][Bucket(curticks[p])], c[p], z) =>
              cc_next'[p] # NULL /\ Before(cc_callwheel'[p][Bucket(curticks[p])], cc_next'[p], z)
         /\ \A y \in Calls \ {c[p]} : c_pending'[y] = c_pending[y] /\ c_time'[y] = c_time[y]
         /\ ~c_pending'[c[p]] /\ UNCHANGED c_cpu
<1> DEFINE x == c[p]
           b == Bucket(curticks[p])
           q == cc_callwheel[p][b]
           r == RemoveFirst(q, x)
<1>1. /\ pc[p] = "scan" /\ x # NULL
      /\ cc_next' = [cc_next EXCEPT ![p] = NextIn(q, x)]
      /\ cc_callwheel' = [cc_callwheel EXCEPT ![p][b] = r]
      /\ c_pending' = [c_pending EXCEPT ![x] = FALSE]
      /\ c_time' = [c_time EXCEPT ![x] = 0] /\ UNCHANGED c_cpu
  BY DEF SoftFire, At
<1>2. /\ x \in Calls /\ q \in Seq(Calls) /\ Injective(q) /\ x \in ToSet(q)
      /\ c_pending[x] /\ c_cpu[x] = p /\ Bucket(c_time[x]) = b
      /\ cc_lock[p] /\ curticks[p] \in Ticks
  BY <1>1, Scanned
<1>3. b \in Ix
  BY <1>2, BucketIn
<1>4. /\ cc_callwheel \in [Cpu -> [Ix -> Seq(Calls)]] /\ cc_next \in [Cpu -> Calls \cup {NULL}]
      /\ WellPut(cc_callwheel, c_pending, c_time, c_cpu) /\ Marks(cc_callwheel, cc_next)
      /\ curticks \in [Cpu -> Ticks] /\ c_time \in [Calls -> Ticks] /\ c_cpu \in [Calls -> Cpu]
      /\ c_pending \in [Calls -> BOOLEAN]
  BY DEF Core, WheelInv, WellPut, Marks, TypeOK
<1>5. c_time' \in [Calls -> Ticks] /\ c_cpu' \in [Calls -> Cpu]
      /\ \A y \in Calls \ {x} : c_time'[y] = c_time[y] /\ c_cpu'[y] = c_cpu[y]
  BY <1>1, <1>4, ZeroTick
<1>6. ~c_pending'[x] /\ \A y \in Calls \ {x} : c_pending'[y] = c_pending[y]
  BY <1>1, <1>2, <1>4
<1>7. r \in Seq(Calls) /\ ToSet(r) = ToSet(q) \ {x}
  BY <1>2, RemoveFirstLeaves
<1>8. /\ NextIn(q, x) \in Calls \cup {NULL} /\ NextIn(q, x) # x
      /\ NextIn(q, x) # NULL => NextIn(q, x) \in ToSet(q)
  BY <1>2, NextFollows
<1>9. \A z : z # x /\ Before(q, x, z) => NextIn(q, x) # NULL /\ Before(r, NextIn(q, x), z)
  BY <1>2, RemoveKeepsOrder
<1>10. cc_callwheel' = [cc_callwheel EXCEPT ![c_cpu[x]][Bucket(c_time[x])] = RemoveFirst(@, x)]
  <2> HIDE DEF b, x
  <2>1. [cc_callwheel EXCEPT ![p][b] = r] = [cc_callwheel EXCEPT ![p][b] = RemoveFirst(@, x)]
    BY <1>3, <1>4 DEF r, q
  <2> QED
    BY <1>1, <1>2, <2>1
<1>11. WellPut(cc_callwheel', c_pending', c_time', c_cpu')
  <2> DEFINE w2 == [cc_callwheel EXCEPT ![c_cpu[x]][Bucket(c_time[x])] = RemoveFirst(@, x)]
  <2>1. WellPut(w2, [c_pending EXCEPT ![x] = FALSE], c_time', c_cpu')
    <3> HIDE DEF x
    <3> QED
      BY <1>2, <1>4, <1>5, OffEffect
  <2> QED
    BY <1>1, <1>10, <2>1, Zenon
<1>12. /\ cc_callwheel'[p][b] = r
       /\ \A s \in Cpu \ {p} : cc_callwheel'[s] = cc_callwheel[s]
  <2> HIDE DEF b, r
  <2> QED
    BY <1>1, <1>3, <1>4
<1>13. /\ cc_next' \in [Cpu -> Calls \cup {NULL}] /\ cc_next'[p] = NextIn(q, x)
       /\ \A s \in Cpu \ {p} : cc_next'[s] = cc_next[s]
  BY <1>1, <1>4, <1>8
<1>14. cc_next'[p] # NULL => cc_next'[p] \in ToSet(cc_callwheel'[p][b])
  BY <1>7, <1>8, <1>12, <1>13
<1>15. \A z \in Calls : z # x /\ Before(q, x, z) =>
         cc_next'[p] # NULL /\ Before(cc_callwheel'[p][b], cc_next'[p], z)
  BY <1>9, <1>12, <1>13
<1> HIDE DEF r
<1> QED
  BY <1>1, <1>2, <1>5, <1>6, <1>11, <1>12, <1>13, <1>14, <1>15

LEMMA SoftFireStep ==
  ASSUME Core, NEW p \in Cpu, SoftFire(p)
  PROVE  Core'
<1>1. /\ pc[p] = "scan" /\ c[p] \in Calls /\ cc_lock[p]
      /\ WellPut(cc_callwheel', c_pending', c_time', c_cpu')
      /\ cc_next' \in [Cpu -> Calls \cup {NULL}]
      /\ cc_next'[p] # NULL => cc_next'[p] \in ToSet(cc_callwheel'[p][Bucket(curticks[p])])
      /\ \A r \in Cpu \ {p} : cc_callwheel'[r] = cc_callwheel[r] /\ cc_next'[r] = cc_next[r]
  BY FireEffect
<1>2. /\ UNCHANGED <<ticks, cc_softticks, cc_waiting, swi, owner, sq_lock, c, curticks, req, dcc>>
      /\ UNCHANGED <<local, cc_callfree, c_func, handle, stopped>>
      /\ cc_curr' = [cc_curr EXCEPT ![p] = c[p]]
      /\ cc_cancel' = [cc_cancel EXCEPT ![p] = FALSE]
      /\ cc_lock' = [cc_lock EXCEPT ![p] = FALSE]
  BY DEF SoftFire, localVars, handleVars, tableVars
<1>3. PICK f \in {"getlock", "handler"} : pc' = [pc EXCEPT ![p] = f]
  BY DEF SoftFire, Goto
<1>4. /\ cc_callwheel' \in [Cpu -> [0..(WHEEL - 1) -> Seq(Calls)]]
      /\ c_pending' \in [Calls -> BOOLEAN] /\ c_time' \in [Calls -> Ticks] /\ c_cpu' \in [Calls -> Cpu]
  BY <1>1 DEF WellPut, Ix
<1>5. TypeOK'
  BY <1>1, <1>2, <1>3, <1>4, Threads DEF Core, TypeOK, SoftPoints
<1>6. /\ cc_curr'[p] = c[p] /\ ~cc_lock'[p] /\ pc'[p] = f /\ c' = [c EXCEPT ![p] = c[p]]
      /\ \A r \in Cpu \ {p} : cc_lock'[r] = cc_lock[r] /\ cc_curr'[r] = cc_curr[r]
  BY <1>2, <1>3, Threads DEF Core, TypeOK
<1>7. WalkOf(p)'
  BY <1>1, <1>2, <1>6, Threads DEF WalkOf, Current, SoftPoints
<1>8. WalkInv'
  <2>1. UNCHANGED local
    BY <1>2
  <2>2. \A r \in Cpu \ {p} : /\ cc_lock'[r] = cc_lock[r]
                             /\ cc_curr'[r] = cc_curr[r] /\ cc_next'[r] = cc_next[r]
    BY <1>1, <1>6
  <2> QED
    BY <1>3, <1>5, <1>6, <1>7, <2>1, <2>2, WalkMoves
<1>9. WheelInv'
  BY <1>1, <1>2, <1>6 DEF Core, WheelInv, Marks
<1>10. ScanInv'
  BY <1>1, <1>2, <1>6 DEF Core, ScanInv
<1> QED
  BY <1>2, <1>5, <1>8, <1>9, <1>10, SameLag DEF Core

\* A step that leaves the walks alone keeps what is said of them, as long as it
\* leaves NULL in the bookmarks that are NULL.
LEMMA WalksKept ==
  ASSUME Core, UNCHANGED <<cc_lock, cc_curr, local>>,
         \A p \in Cpu : pc'[p] = pc[p] /\ c'[p] = c[p],
         \A p \in Cpu : cc_next[p] = NULL => cc_next'[p] = NULL,
         \A t \in Client : ClientOf(t)'
  PROVE  WalkInv'
<1>1. ASSUME NEW p \in Cpu PROVE WalkOf(p)'
  <2>1. WalkOf(p) /\ pc'[p] = pc[p] /\ c'[p] = c[p] /\ (cc_next[p] = NULL => cc_next'[p] = NULL)
    BY DEF Core, WalkInv
  <2> QED
    BY <2>1 DEF WalkOf
<1> QED
  BY <1>1 DEF WalkInv

LEMMA HardTickStep ==
  ASSUME Core, HardTick
  PROVE  Core'
<1>1. /\ UNCHANGED <<cc_callwheel, c_pending, c_time, c_cpu, cc_next, cc_lock, curticks>>
      /\ UNCHANGED <<c, cc_softticks, cc_curr, local, pc>>
      /\ ticks' = Plus(ticks, 1) /\ \A p \in Cpu : Diff(ticks, cc_softticks[p]) < MAX_LAG
  BY DEF HardTick, wheelVars, cpuVars, localVars, handleVars
<1>2. WheelInv' /\ ScanInv'
  BY <1>1, QuietKeeps
<1>3. WalkInv'
  BY <1>1 DEF Core, WalkInv, WalkOf, ClientOf
<1>4. /\ ticks \in Ticks /\ \A p \in Cpu : cc_softticks[p] \in Ticks
      /\ \A p \in Cpu : Diff(ticks, cc_softticks[p]) \in 0..MAX_LAG
  BY DEF Core, TypeOK, LagInv
<1>5. 1 \in Nat /\ 1 < TICK_MOD - Half
  BY Sizes
<1>6. ticks' \in Ticks /\ Diff(ticks', ticks) = 1
  BY <1>1, <1>4, <1>5, DiffPlus
<1>7. ASSUME NEW p \in Cpu PROVE Diff(ticks', cc_softticks[p]) \in 0..MAX_LAG
  <2> DEFINE d == Diff(ticks, cc_softticks[p])  e == Diff(ticks', ticks)
  <2>1. d \in 0..MAX_LAG /\ d < MAX_LAG /\ e = 1
    BY <1>1, <1>4, <1>6
  <2>2. 0 - Half <= e + d /\ e + d < TICK_MOD - Half /\ e + d \in 0..MAX_LAG
    <3> HIDE DEF d, e
    <3> QED
      BY <2>1, Sizes
  <2>3. Diff(ticks', cc_softticks[p]) = e + d
    BY <1>4, <1>6, <2>2, DiffAdds
  <2> QED
    BY <2>2, <2>3
<1>8. LagInv'
  BY <1>1, <1>7 DEF LagInv
<1>9. TypeOK'
  BY <1>6 DEF Core, TypeOK, HardTick, wheelVars, cpuVars, localVars, handleVars, tableVars
<1> QED
  BY <1>2, <1>3, <1>8, <1>9 DEF Core

LEMMA CalloutTickStep ==
  ASSUME Core, NEW p \in Cpu, callout_tick(p)
  PROVE  Core'
<1>1. /\ UNCHANGED <<cc_callwheel, c_pending, c_time, c_cpu, cc_next, cc_lock, curticks>>
      /\ UNCHANGED <<c, ticks, cc_curr, local, pc, cc_cancel, cc_waiting, owner, sq_lock>>
      /\ UNCHANGED <<req, dcc, cc_callfree, c_func, handle, stopped>>
  BY DEF callout_tick, wheelVars, localVars, handleVars, tableVars
<1>2. WheelInv' /\ ScanInv'
  BY <1>1, QuietKeeps
<1>3. WalkInv'
  BY <1>1 DEF Core, WalkInv, WalkOf, ClientOf
<1>4. PICK k \in Nat : /\ k <= Diff(ticks, cc_softticks[p])
                       /\ cc_softticks' = [cc_softticks EXCEPT ![p] = Plus(@, k)]
  BY TickSkips
<1>5. /\ ticks \in Ticks /\ cc_softticks[p] \in Ticks
      /\ Diff(ticks, cc_softticks[p]) \in 0..MAX_LAG
  BY DEF Core, TypeOK, LagInv
<1>6. /\ Plus(cc_softticks[p], k) \in Ticks
      /\ Diff(ticks, Plus(cc_softticks[p], k)) = Diff(ticks, cc_softticks[p]) - k
  BY <1>4, <1>5, LagStep
<1>7. /\ cc_softticks' \in [Cpu -> Ticks] /\ cc_softticks'[p] = Plus(cc_softticks[p], k)
      /\ \A r \in Cpu : r # p => cc_softticks'[r] = cc_softticks[r]
  BY <1>4, <1>6 DEF Core, TypeOK
<1>8. Diff(ticks, Plus(cc_softticks[p], k)) \in 0..MAX_LAG
  <2> DEFINE d == Diff(ticks, cc_softticks[p])
  <2>1. d \in 0..MAX_LAG /\ k <= d /\ MAX_LAG \in Nat
    BY <1>4, <1>5, Sizes
  <2> HIDE DEF d
  <2>2. d - k \in 0..MAX_LAG
    BY <2>1
  <2> QED
    BY <1>6, <2>2 DEF d
<1>9. LagInv'
  BY <1>1, <1>7, <1>8 DEF Core, LagInv
<1>10. swi' \in [Cpu -> BOOLEAN]
  BY DEF Core, TypeOK, callout_tick
<1>11. TypeOK'
  BY <1>1, <1>7, <1>10 DEF Core, TypeOK
<1> QED
  BY <1>2, <1>3, <1>9, <1>11 DEF Core

LEMMA ResetStep ==
  ASSUME Core, NEW t \in Thread, NEW x \in Calls, NEW to \in Delays, NEW cpu \in Cpu,
         ResetPass(t, x, to, cpu), UNCHANGED local, cc_callfree' \in Seq(local),
         c_func' \in [Calls -> Request \cup {NULL}], handle' \in [Request -> local \cup {NULL}]
  PROVE  Core'
<1>1. /\ UNCHANGED <<ticks, cc_softticks, cc_lock, cc_curr, cc_waiting, swi, owner, sq_lock, pc, c>>
      /\ UNCHANGED <<curticks, dcc>>
  BY DEF ResetPass
<1>2. Requeued(x)
  BY ResetRequeues
<1>3. /\ WheelInv' /\ ScanInv'
      /\ cc_callwheel' \in [Cpu -> [0..(WHEEL - 1) -> Seq(Calls)]]
      /\ c_pending' \in [Calls -> BOOLEAN] /\ c_time' \in [Calls -> Ticks]
      /\ c_cpu' \in [Calls -> Cpu] /\ cc_next' \in [Cpu -> Calls \cup {NULL}]
      /\ \A p \in Cpu : cc_next[p] = NULL => cc_next'[p] = NULL
  BY <1>1, <1>2, RequeuedKeeps
<1>4. cc_cancel' \in [Cpu -> BOOLEAN]
  BY DEF Core, TypeOK, ResetPass
<1>5. req' \in [Thread -> [c : Calls, to : Delays, cpu : Cpu] \cup {NULL}]
  <2>1. req \in [Thread -> [c : Calls, to : Delays, cpu : Cpu] \cup {NULL}]
    BY DEF Core, TypeOK
  <2>2. \/ req' = [req EXCEPT ![t] = NULL]
        \/ req' = [req EXCEPT ![t] = [c |-> x, to |-> to, cpu |-> cpu]]
    BY DEF ResetPass
  <2>3. [c |-> x, to |-> to, cpu |-> cpu] \in [c : Calls, to : Delays, cpu : Cpu]
    OBVIOUS
  <2> QED
    BY <2>1, <2>2, <2>3
<1>6. stopped' \in [Calls -> BOOLEAN]
  BY DEF Core, TypeOK, ResetPass
<1>7. TypeOK'
  BY <1>1, <1>3, <1>4, <1>5, <1>6 DEF Core, TypeOK
<1>8. \A u \in Client : ClientOf(u)'
  BY <1>1 DEF Core, WalkInv, ClientOf
<1>9. WalkInv'
  BY <1>1, <1>3, <1>8, WalksKept
<1> QED
  BY <1>1, <1>3, <1>7, <1>9, SameLag DEF Core

LEMMA StopStep ==
  ASSUME Core, NEW t \in Client, NEW x \in Calls, Stop(t, x)
  PROVE  Core'
<1>1. /\ UNCHANGED <<ticks, c_cpu, cc_softticks, cc_lock, cc_curr, cc_waiting, swi, owner, sq_lock>>
      /\ UNCHANGED <<pc, c, curticks, req, dcc, local, handle>> /\ ~cc_lock[c_cpu[x]]
      /\ stopped' = [stopped EXCEPT ![x] = @ \/ Holds(t, LockOf(x))]
  BY DEF Stop, localVars
<1>2. \A u \in Client : ClientOf(u)'
  BY <1>1 DEF Core, WalkInv, ClientOf
<1>3. stopped' \in [Calls -> BOOLEAN]
  BY <1>1 DEF Core, TypeOK
<1>4. CASE c_pending[x] /\ Dequeue(x) /\ UNCHANGED cc_cancel
  <2>1. Requeued(x)
    BY <1>1, <1>4, DequeueRequeues
  <2>2. /\ WheelInv' /\ ScanInv'
        /\ cc_callwheel' \in [Cpu -> [0..(WHEEL - 1) -> Seq(Calls)]]
        /\ c_pending' \in [Calls -> BOOLEAN] /\ c_time' \in [Calls -> Ticks]
        /\ c_cpu' \in [Calls -> Cpu] /\ cc_next' \in [Cpu -> Calls \cup {NULL}]
        /\ \A p \in Cpu : cc_next[p] = NULL => cc_next'[p] = NULL
    BY <1>1, <2>1, RequeuedKeeps
  <2>3. c_func' \in [Calls -> Request \cup {NULL}] /\ cc_callfree' \in Seq(local)
    BY <1>1, <1>4, ReleaseTypes DEF Core, Dequeue
  <2>4. TypeOK'
    BY <1>1, <1>3, <1>4, <2>2, <2>3 DEF Core, TypeOK
  <2>5. WalkInv'
    BY <1>1, <1>2, <2>2, WalksKept
  <2> QED
    BY <1>1, <2>2, <2>4, <2>5, SameLag DEF Core
<1>5. CASE /\ UNCHANGED <<cc_callwheel, cc_next, c_pending, c_time, tableVars>>
           /\ \E b \in BOOLEAN : cc_cancel' = [cc_cancel EXCEPT ![c_cpu[x]] = @ \/ b]
  <2>1. WheelInv' /\ ScanInv'
    BY <1>1, <1>5, QuietKeeps
  <2>2. cc_cancel' \in [Cpu -> BOOLEAN]
    BY <1>5 DEF Core, TypeOK
  <2>3. TypeOK'
    BY <1>1, <1>3, <1>5, <2>2 DEF Core, TypeOK, tableVars
  <2>4. WalkInv'
    BY <1>1, <1>2, <1>5, WalksKept
  <2> QED
    BY <1>1, <2>1, <2>3, <2>4, SameLag DEF Core
<1> QED
  <2> DEFINE b == cc_curr[c_cpu[x]] = x /\ LockOf(x) # NULL /\ owner[LockOf(x)] = t
  <2>1. b \in BOOLEAN
    OBVIOUS
  <2>2. \/ c_pending[x] /\ Dequeue(x) /\ UNCHANGED cc_cancel
        \/ /\ UNCHANGED <<cc_callwheel, cc_next, c_pending, c_time, tableVars>>
           /\ cc_cancel' = [cc_cancel EXCEPT ![c_cpu[x]] = @ \/ b]
    BY Zenon DEF Stop
  <2> HIDE DEF b
  <2> QED
    BY <1>4, <1>5, <2>1, <2>2

\* A client goes on at f with callout x.
LEMMA ClientMoves ==
  ASSUME Core, NEW t \in Client, NEW f \in ClientPoints, NEW x \in Calls \cup {NULL},
         pc' = [pc EXCEPT ![t] = f], c' = [c EXCEPT ![t] = x], UNCHANGED local,
         f # "idle" => x # NULL /\ x \notin local
  PROVE  /\ pc' \in [Thread -> SoftPoints \cup ClientPoints]
         /\ c' \in [Thread -> Calls \cup {NULL}]
         /\ \A p \in Cpu : pc'[p] = pc[p] /\ c'[p] = c[p]
         /\ \A u \in Client : ClientOf(u)'
         /\ \A u \in Thread : u # t => pc'[u] = pc[u] /\ c'[u] = c[u]
         /\ pc'[t] = f /\ c'[t] = x
<1>1. /\ pc' \in [Thread -> SoftPoints \cup ClientPoints]
      /\ c' \in [Thread -> Calls \cup {NULL}]
      /\ \A u \in Thread : u # t => pc'[u] = pc[u] /\ c'[u] = c[u]
      /\ pc'[t] = f /\ c'[t] = x
  BY Threads DEF Core, TypeOK
<1>2. \A p \in Cpu : pc'[p] = pc[p] /\ c'[p] = c[p]
  BY <1>1, Threads
<1>3. ASSUME NEW u \in Client PROVE ClientOf(u)'
  <2>1. CASE u = t
    BY <1>1, <2>1 DEF ClientOf
  <2>2. CASE u # t
    BY <1>1, <2>2, Threads DEF ClientOf, Core, WalkInv
  <2> QED
    BY <2>1, <2>2
<1> QED
  BY <1>1, <1>2, <1>3

\* The ways a pass of callout_drain() ends.
DrainLeave(t) ==
  /\ UNCHANGED cc_waiting /\ DrainReturn(t)
  /\ SleepqRelease(t, c_cpu[c[t]])

DrainStay(t) ==
  /\ cc_curr[c_cpu[c[t]]] = c[t] /\ UNCHANGED c
  /\ dcc' = [dcc EXCEPT ![t] = c_cpu[c[t]]]
  /\ \/ /\ pc[t] = "drain" /\ pc' = [pc EXCEPT ![t] = "drain_sq"]
        /\ UNCHANGED <<cc_waiting, sq_lock>>
     \/ /\ pc[t] = "drain_locked" /\ pc' = [pc EXCEPT ![t] = "asleep"]
        /\ cc_waiting' = [cc_waiting EXCEPT ![c_cpu[c[t]]] = TRUE]
        /\ SleepqRelease(t, c_cpu[c[t]])

LEMMA DrainForms ==
  ASSUME NEW t \in Client, Drain(t)
  PROVE  /\ UNCHANGED <<ticks, c_cpu, cc_softticks, cc_lock, cc_curr, cc_cancel, swi, owner>>
         /\ UNCHANGED <<curticks, req, local, handle, stopped>> /\ ~cc_lock[c_cpu[c[t]]]
         /\ pc[t] \in {"drain", "drain_locked"}
         /\ \/ c_pending[c[t]] /\ Dequeue(c[t]) /\ DrainLeave(t)
            \/ /\ ~c_pending[c[t]]
               /\ UNCHANGED <<cc_callwheel, cc_next, c_pending, c_time, cc_callfree, c_func>>
               /\ (cc_curr[c_cpu[c[t]]] # c[t] /\ DrainLeave(t)) \/ DrainStay(t)
BY DEF Drain, DrainLeave, DrainStay, At, Goto, tableVars

LEMMA DrainTypes ==
  ASSUME Core, NEW t \in Client, c[t] \in Calls, c[t] \notin local, UNCHANGED local,
         DrainLeave(t) \/ DrainStay(t)
  PROVE  /\ pc' \in [Thread -> SoftPoints \cup ClientPoints]
         /\ c' \in [Thread -> Calls \cup {NULL}]
         /\ cc_waiting' \in [Cpu -> BOOLEAN] /\ sq_lock' \in [Cpu -> Client \cup {NULL}]
         /\ dcc' \in [Client -> Cpu]
         /\ \A p \in Cpu : pc'[p] = pc[p] /\ c'[p] = c[p]
         /\ \A u \in Client : ClientOf(u)'
<1>1. /\ sq_lock \in [Cpu -> Client \cup {NULL}] /\ dcc \in [Client -> Cpu]
      /\ cc_waiting \in [Cpu -> BOOLEAN] /\ c_cpu[c[t]] \in Cpu /\ timeout_cpu \in Cpu
      /\ c \in [Thread -> Calls \cup {NULL}] /\ t \in Thread
  BY Threads, CalloutAssumption DEF Core, TypeOK
<1>2. sq_lock' \in [Cpu -> Client \cup {NULL}]
  BY <1>1 DEF DrainLeave, DrainStay, SleepqRelease
<1>3. dcc' \in [Client -> Cpu] /\ cc_waiting' \in [Cpu -> BOOLEAN]
  BY <1>1 DEF DrainLeave, DrainStay, DrainReturn
<1>4. PICK f \in ClientPoints, x \in Calls \cup {NULL} :
        /\ pc' = [pc EXCEPT ![t] = f] /\ c' = [c EXCEPT ![t] = x]
        /\ f # "idle" => x = c[t]
  <2>1. CASE DrainLeave(t)
    BY <2>1 DEF DrainLeave, DrainReturn, Goto, ClientPoints
  <2>2. CASE DrainStay(t)
    <3>1. c' = [c EXCEPT ![t] = c[t]]
      BY <1>1, <2>2 DEF DrainStay
    <3> QED
      BY <2>2, <3>1 DEF DrainStay, ClientPoints
  <2> QED
    BY <2>1, <2>2
<1>5. f # "idle" => x # NULL /\ x \notin local
  BY <1>4, Threads
<1> QED
  BY <1>2, <1>3, <1>4, <1>5, ClientMoves

LEMMA DrainStep ==
  ASSUME Core, NEW t \in Client, Drain(t)
  PROVE  Core'
<1>1. /\ UNCHANGED <<ticks, c_cpu, cc_softticks, cc_lock, cc_curr, cc_cancel, swi, owner>>
      /\ UNCHANGED <<curticks, req, local, handle, stopped>> /\ ~cc_lock[c_cpu[c[t]]]
      /\ pc[t] \in {"drain", "drain_locked"} /\ (DrainLeave(t) \/ DrainStay(t))
  BY DrainForms
<1>2. c[t] \in Calls /\ c[t] \notin local
  BY <1>1, Threads DEF Core, WalkInv, ClientOf, TypeOK
<1>3. /\ pc' \in [Thread -> SoftPoints \cup ClientPoints]
      /\ c' \in [Thread -> Calls \cup {NULL}]
      /\ cc_waiting' \in [Cpu -> BOOLEAN] /\ sq_lock' \in [Cpu -> Client \cup {NULL}]
      /\ dcc' \in [Client -> Cpu]
      /\ \A p \in Cpu : pc'[p] = pc[p] /\ c'[p] = c[p]
      /\ \A u \in Client : ClientOf(u)'
  BY <1>1, <1>2, DrainTypes
<1>4. CASE c_pending[c[t]] /\ Dequeue(c[t])
  <2>1. Requeued(c[t])
    BY <1>1, <1>2, <1>4, DequeueRequeues
  <2>2. /\ WheelInv' /\ ScanInv'
        /\ cc_callwheel' \in [Cpu -> [0..(WHEEL - 1) -> Seq(Calls)]]
        /\ c_pending' \in [Calls -> BOOLEAN] /\ c_time' \in [Calls -> Ticks]
        /\ c_cpu' \in [Calls -> Cpu] /\ cc_next' \in [Cpu -> Calls \cup {NULL}]
        /\ \A p \in Cpu : cc_next[p] = NULL => cc_next'[p] = NULL
    BY <1>1, <1>2, <1>3, <2>1, RequeuedKeeps
  <2>3. c_func' \in [Calls -> Request \cup {NULL}] /\ cc_callfree' \in Seq(local)
    BY <1>1, <1>2, <1>4, ReleaseTypes DEF Core, Dequeue
  <2>4. TypeOK'
    BY <1>1, <1>3, <2>2, <2>3 DEF Core, TypeOK
  <2>5. WalkInv'
    BY <1>1, <1>3, <2>2, WalksKept
  <2> QED
    BY <1>1, <2>2, <2>4, <2>5, SameLag DEF Core
<1>5. CASE UNCHANGED <<cc_callwheel, cc_next, c_pending, c_time, cc_callfree, c_func>>
  <2>1. WheelInv' /\ ScanInv'
    BY <1>1, <1>3, <1>5, QuietKeeps
  <2>2. TypeOK'
    BY <1>1, <1>3, <1>5 DEF Core, TypeOK
  <2>3. WalkInv'
    BY <1>1, <1>3, <1>5, WalksKept
  <2> QED
    BY <1>1, <2>1, <2>2, <2>3, SameLag DEF Core
<1> QED
  BY <1>4, <1>5, DrainForms

LEMMA ClientStep ==
  ASSUME Core, NEW t \in Client,
         \/ DrainSq(t) \/ DrainWoken(t) \/ (\E x \in Calls : DrainCall(t, x))
         \/ (\E l \in Lock : ClientLock(t, l) \/ ClientUnlock(t, l))
  PROVE  Core'
<1>1. /\ UNCHANGED <<cc_callwheel, c_pending, c_time, c_cpu, cc_next, cc_lock, curticks>>
      /\ UNCHANGED <<ticks, cc_softticks, cc_curr, cc_cancel, cc_waiting, swi, req>>
      /\ UNCHANGED <<local, cc_callfree, c_func, handle, stopped>>
  BY DEF DrainSq, DrainWoken, DrainCall, ClientLock, ClientUnlock, wheelVars, cpuVars, localVars,
     handleVars, tableVars
<1>2. /\ owner \in [Lock -> Thread \cup {NULL}] /\ sq_lock \in [Cpu -> Client \cup {NULL}]
      /\ dcc \in [Client -> Cpu] /\ timeout_cpu \in Cpu /\ t \in Thread /\ ClientOf(t)
      /\ c \in [Thread -> Calls \cup {NULL}] /\ pc \in [Thread -> SoftPoints \cup ClientPoints]
  BY Threads, CalloutAssumption DEF Core, TypeOK, WalkInv
<1>3. /\ owner' \in [Lock -> Thread \cup {NULL}] /\ sq_lock' \in [Cpu -> Client \cup {NULL}]
      /\ dcc' \in [Client -> Cpu]
      /\ \E f \in ClientPoints, x \in Calls \cup {NULL} :
           /\ pc' = [pc EXCEPT ![t] = f] /\ c' = [c EXCEPT ![t] = x]
           /\ f # "idle" => x # NULL /\ x \notin local
  <2>0. c[t] \in Calls \cup {NULL} /\ c = [c EXCEPT ![t] = c[t]] /\ pc = [pc EXCEPT ![t] = pc[t]]
    BY <1>2
  <2>1. CASE DrainSq(t)
    BY <1>2, <2>0, <2>1 DEF DrainSq, At, Goto, localVars, ClientOf, ClientPoints
  <2>2. CASE DrainWoken(t)
    BY <1>2, <2>0, <2>2 DEF DrainWoken, DrainReturn, At, Goto, ClientOf, ClientPoints
  <2>3. CASE \E x \in Calls : DrainCall(t, x)
    <3>1. PICK x \in Calls : DrainCall(t, x)
      BY <2>3
    <3>2. /\ UNCHANGED <<owner, sq_lock, dcc>> /\ x \notin local
          /\ pc' = [pc EXCEPT ![t] = "drain"] /\ c' = [c EXCEPT ![t] = x]
      BY <3>1 DEF DrainCall, Goto
    <3> QED
      BY <1>2, <3>2, Threads DEF ClientPoints
  <2>4. CASE \E l \in Lock : ClientLock(t, l)
    <3>1. /\ UNCHANGED <<sq_lock, pc, c, dcc>>
          /\ \E l \in Lock : owner' = [owner EXCEPT ![l] = t]
      BY <2>4 DEF ClientLock, localVars
    <3> QED
      BY <1>2, <2>0, <3>1 DEF ClientOf
  <2>5. CASE \E l \in Lock : ClientUnlock(t, l)
    <3>1. /\ UNCHANGED <<sq_lock, pc, c, dcc>>
          /\ \E l \in Lock : owner' = [owner EXCEPT ![l] = NULL]
      BY <2>5 DEF ClientUnlock, localVars
    <3> QED
      BY <1>2, <2>0, <3>1 DEF ClientOf
  <2> QED
    BY <2>1, <2>2, <2>3, <2>4, <2>5
<1>4. /\ pc' \in [Thread -> SoftPoints \cup ClientPoints]
      /\ c' \in [Thread -> Calls \cup {NULL}]
      /\ \A p \in Cpu : pc'[p] = pc[p] /\ c'[p] = c[p]
      /\ \A u \in Client : ClientOf(u)'
  BY <1>1, <1>3, ClientMoves
<1>5. WheelInv' /\ ScanInv' /\ LagInv'
  BY <1>1, <1>4, QuietKeeps, SameLag
<1>6. TypeOK'
  BY <1>1, <1>3, <1>4 DEF Core, TypeOK
<1>7. WalkInv'
  BY <1>1, <1>4, WalksKept
<1> QED
  BY <1>5, <1>6, <1>7 DEF Core

-----------------------------------------------------------------------------
\* SetToSeq of SequencesExt lists a finite set, each element once.
LEMMA SetToSeqLists ==
  ASSUME NEW S, IsFiniteSet(S)
  PROVE  SetToSeq(S) \in Seq(S) /\ Injective(SetToSeq(S)) /\ ToSet(SetToSeq(S)) = S
<1> DEFINE n == Cardinality(S)
           F == {f \in [1..n -> S] : IsInjective(f)}
<1>1. n \in Nat /\ ExistsBijection(1..n, S)
  BY FS_CardinalityType
<1> HIDE DEF n
<1>2. PICK g \in Bijection(1..n, S) : TRUE
  BY <1>1 DEF ExistsBijection
<1>3. g \in [1..n -> S] /\ IsInjective(g)
  BY <1>2 DEF Bijection, Injection, IsInjective
<1> DEFINE s == SetToSeq(S)
<1>4. s = CHOOSE f \in [1..n -> S] : IsInjective(f)
  BY DEF SetToSeq, n
<1> HIDE DEF s
<1>5. s \in [1..n -> S] /\ IsInjective(s)
  BY <1>3, <1>4
<1>6. s \in Seq(S) /\ Len(s) = n
  BY <1>1, <1>5
<1>7. Injective(s)
  BY <1>5 DEF Injective, IsInjective
<1>8. ToSet(s) \subseteq S
  BY <1>5 DEF ToSet
<1>9. ToSet(s) = S
  <2>1. s \in Bijection(1..n, ToSet(s))
    BY <1>5 DEF Bijection, Injection, Surjection, IsInjective, ToSet
  <2>2. Cardinality(ToSet(s)) = n
    BY <1>1, <2>1, FS_CountingElements DEF ExistsBijection
  <2> QED
    BY <1>8, <2>2, FS_Subset DEF n
<1> QED
  BY <1>6, <1>7, <1>9 DEF s

-----------------------------------------------------------------------------
LEMMA InitCore == Init => Core
<1> SUFFICES ASSUME Init PROVE Core
  OBVIOUS
<1>1. ticks \in Ticks /\ 0 \in Ticks /\ timeout_cpu \in Cpu
  <2>1. ticks \in {0, TICK_MOD - 1} /\ timeout_cpu \in Cpu
    BY CalloutAssumption DEF Init
  <2> QED
    BY <2>1, Sizes DEF Ticks
<1>2. cc_callfree \in Seq(local) /\ local \subseteq Calls
  <2>1. local \subseteq Calls
    BY CalloutAssumption DEF Init
  <2>2. IsFiniteSet(local)
    BY <2>1, CalloutAssumption, FS_Subset
  <2> QED
    BY <2>1, <2>2, SetToSeqLists DEF Init
<1>3. /\ cc_callwheel = [p \in Cpu |-> [b \in Ix |-> <<>>]]
      /\ \A p \in Cpu, b \in Ix : cc_callwheel[p][b] = <<>>
      /\ cc_callwheel \in [Cpu -> [Ix -> Seq(Calls)]]
  BY DEF Init, Ix
<1>4. TypeOK
  BY <1>1, <1>2, <1>3 DEF Init, TypeOK, Ix, SoftPoints
<1>5. WalkInv
  BY Threads DEF Init, WalkInv, WalkOf, ClientOf, SoftPoints, ClientPoints, Current
<1>6. Injective(<<>>) /\ ToSet(<<>>) = {}
  <2>1. <<>> \in Seq(Calls)
    OBVIOUS
  <2> QED
    BY <2>1, EmptySeqIs
<1>7. /\ c_pending \in [Calls -> BOOLEAN] /\ c_time \in [Calls -> Ticks] /\ c_cpu \in [Calls -> Cpu]
      /\ \A x \in Calls : ~c_pending[x]
  BY <1>1 DEF Init
<1>8. WellPut(cc_callwheel, c_pending, c_time, c_cpu)
  BY <1>3, <1>6, <1>7 DEF WellPut
<1>9. WheelInv /\ ScanInv
  BY <1>8 DEF Init, WheelInv, ScanInv, Marks
<1>10. LagInv
  <2>1. Diff(ticks, ticks) = 0
    <3>1. 0 \in Nat /\ 0 < TICK_MOD - Half
      BY Sizes
    <3> QED
      BY <1>1, <3>1, DiffPlus
  <2>2. 0 \in 0..MAX_LAG
    BY Sizes
  <2> QED
    BY <2>1, <2>2 DEF Init, LagInv
<1> QED
  BY <1>4, <1>5, <1>9, <1>10 DEF Core

\* The steps, with the pass of a reset that three of them share.
LEMMA Steps ==
  ASSUME Core, Next
  PROVE  \/ HardTick
         \/ \E p \in Cpu : callout_tick(p) \/ Soft(p)
         \/ \E t \in Client : \/ Drain(t) \/ DrainSq(t) \/ DrainWoken(t)
                              \/ \E x \in Calls : DrainCall(t, x)
                              \/ \E l \in Lock : ClientLock(t, l) \/ ClientUnlock(t, l)
         \/ \E t \in Client, x \in Calls : Stop(t, x)
         \/ \E t \in Thread, x \in Calls, to \in Delays, cpu \in Cpu :
              /\ ResetPass(t, x, to, cpu)
              /\ \/ UNCHANGED handleVars
                 \/ \E r \in Request : timeout(t, r, to) /\ x = Head(cc_callfree) /\ cpu = c_cpu[x]
<1>1. CASE \E t \in Thread : ResetRetry(t)
  <2>1. PICK t \in Thread : ResetRetry(t)
    BY <1>1
  <2>2. req[t] \in [c : Calls, to : Delays, cpu : Cpu]
    BY <2>1 DEF ResetRetry, Core, TypeOK
  <2>3. req[t].c \in Calls /\ req[t].to \in Delays /\ req[t].cpu \in Cpu
    BY <2>2
  <2> QED
    BY <2>1, <2>3 DEF ResetRetry
<1>2. CASE \E t \in Client, x \in Calls : callout_stop(t, x)
  BY <1>2 DEF callout_stop
<1>3. CASE \E t \in Client, r \in Request : untimeout(t, r)
  <2>1. PICK t \in Client, r \in Request : untimeout(t, r)
    BY <1>3
  <2>2. handle[r] \in Calls
    BY <2>1, CalloutAssumption DEF Core, TypeOK, untimeout
  <2> QED
    BY <2>1, <2>2 DEF untimeout
<1>4. CASE \E t \in Thread, x \in Calls, to \in Delays, cpu \in Targets : Reset(t, x, to, cpu)
  <2>1. PICK t \in Thread, x \in Calls, to \in Delays, cpu \in Targets : Reset(t, x, to, cpu)
    BY <1>4
  <2>2. cpu \in Cpu
    BY CalloutAssumption
  <2> QED
    BY <2>1, <2>2 DEF Reset
<1>5. CASE \E t \in Thread, r \in Request, to \in Delays : timeout(t, r, to)
  <2>1. PICK t \in Thread, r \in Request, to \in Delays : timeout(t, r, to)
    BY <1>5
  <2> DEFINE x == Head(cc_callfree)
  <2>2. x \in Calls
    <3>1. cc_callfree \in Seq(local) /\ cc_callfree # <<>> /\ local \subseteq Calls
      BY <2>1, CalloutAssumption DEF Core, TypeOK, timeout
    <3> QED
      BY <3>1
  <2>3. c_cpu[x] \in Cpu
    BY <2>2 DEF Core, TypeOK
  <2>4. ResetPass(t, x, to, c_cpu[x])
    BY <2>1 DEF timeout
  <2> QED
    BY <2>1, <2>2, <2>3, <2>4
<1> QED
  BY <1>1, <1>2, <1>3, <1>4, <1>5 DEF Next, Step, Call

\* timeout() takes the first entry of the free list.
LEMMA TimeoutTakes ==
  ASSUME Core, NEW t \in Thread, NEW r \in Request, NEW to \in Delays, timeout(t, r, to)
  PROVE  LET x == Head(cc_callfree)
         IN  /\ x \in local /\ x \in Calls /\ x \in ToSet(cc_callfree) /\ UNCHANGED local
             /\ cc_callfree' = Tail(cc_callfree) /\ cc_callfree' \in Seq(local)
             /\ c_func' = [c_func EXCEPT ![x] = r] /\ c_func' \in [Calls -> Request \cup {NULL}]
             /\ handle' \in [Request -> local \cup {NULL}]
<1> DEFINE x == Head(cc_callfree)
<1>1. /\ cc_callfree \in Seq(local) /\ cc_callfree # <<>> /\ local \subseteq Calls
      /\ c_func \in [Calls -> Request \cup {NULL}] /\ handle \in [Request -> local \cup {NULL}]
  BY CalloutAssumption DEF Core, TypeOK, timeout
<1>2. /\ cc_callfree' = Tail(cc_callfree) /\ UNCHANGED local
      /\ c_func' = [c_func EXCEPT ![x] = r] /\ handle' = [handle EXCEPT ![r] = x]
  BY DEF timeout
<1>3. x \in local /\ cc_callfree' \in Seq(local)
  BY <1>1, <1>2
<1>4. x \in ToSet(cc_callfree)
  <2>1. Len(cc_callfree) # 0 /\ Len(cc_callfree) \in Nat
    BY <1>1, EmptySeqIs, SetOfSeq
  <2>2. 1 \in 1..Len(cc_callfree) /\ x = cc_callfree[1]
    BY <1>1, <2>1
  <2> QED
    BY <1>1, <2>2, SetOfSeq
<1> HIDE DEF x
<1>5. c_func' \in [Calls -> Request \cup {NULL}] /\ handle' \in [Request -> local \cup {NULL}]
  BY <1>1, <1>2, <1>3
<1> QED
  BY <1>1, <1>2, <1>3, <1>4, <1>5 DEF x

LEMMA NextCore ==
  ASSUME Core, [Next]_vars
  PROVE  Core'
<1>1. CASE UNCHANGED vars
  <2>1. /\ UNCHANGED <<ticks, cc_callwheel, c_pending, c_time, c_cpu, cc_softticks, cc_lock, cc_next>>
        /\ UNCHANGED <<cc_curr, cc_cancel, cc_waiting, swi, owner, sq_lock, pc, c, curticks, req, dcc>>
        /\ UNCHANGED <<local, cc_callfree, c_func, handle, stopped>>
    BY <1>1 DEF vars, wheelVars, cpuVars, localVars, handleVars, tableVars
  <2>2. TypeOK' /\ LagInv'
    BY <2>1 DEF Core, TypeOK, LagInv
  <2>3. WheelInv' /\ ScanInv'
    BY <2>1, QuietKeeps
  <2>4. WalkInv'
    BY <2>1 DEF Core, WalkInv, WalkOf, ClientOf
  <2> QED
    BY <2>2, <2>3, <2>4 DEF Core
<1>2. CASE HardTick
  BY <1>2, HardTickStep
<1>3. ASSUME NEW p \in Cpu, callout_tick(p) \/ Soft(p) PROVE Core'
  BY <1>3, CalloutTickStep, SoftQuietStep, SoftWakeupStep, SoftStartStep, SoftBucketStep,
     SoftSkipStep, SoftRelockStep, SoftDoneStep, SoftFireStep DEF Soft
<1>4. ASSUME NEW t \in Client,
             \/ Drain(t) \/ DrainSq(t) \/ DrainWoken(t) \/ \E x \in Calls : DrainCall(t, x)
             \/ \E l \in Lock : ClientLock(t, l) \/ ClientUnlock(t, l)
      PROVE  Core'
  BY <1>4, DrainStep, ClientStep
<1>5. ASSUME NEW t \in Client, NEW x \in Calls, Stop(t, x) PROVE Core'
  BY <1>5, StopStep
<1>6. ASSUME NEW t \in Thread, NEW x \in Calls, NEW to \in Delays, NEW cpu \in Cpu,
             ResetPass(t, x, to, cpu),
             \/ UNCHANGED handleVars
             \/ \E r \in Request : timeout(t, r, to) /\ x = Head(cc_callfree) /\ cpu = c_cpu[x]
      PROVE  Core'
  <2>1. CASE UNCHANGED handleVars
    <3>1. /\ UNCHANGED local /\ cc_callfree' \in Seq(local)
          /\ c_func' \in [Calls -> Request \cup {NULL}] /\ handle' \in [Request -> local \cup {NULL}]
      BY <2>1 DEF handleVars, tableVars, Core, TypeOK
    <3> QED
      BY <1>6, <3>1, ResetStep
  <2>2. CASE \E r \in Request : timeout(t, r, to)
    <3>1. /\ UNCHANGED local /\ cc_callfree' \in Seq(local)
          /\ c_func' \in [Calls -> Request \cup {NULL}] /\ handle' \in [Request -> local \cup {NULL}]
      BY <2>2, TimeoutTakes
    <3> QED
      BY <1>6, <3>1, ResetStep
  <2> QED
    BY <1>6, <2>1, <2>2
<1>7. CASE Next
  BY <1>2, <1>3, <1>4, <1>5, <1>6, <1>7, Steps, Zenon
<1> QED
  BY <1>1, <1>7

\* The first part of the inductive invariant of the callouts: types, the walks of
\* softclock(), the wheels and the bookmarks, and how far the walks lag behind.
THEOREM CoreHolds == Spec => []Core
<1>1. Init => Core
  BY InitCore
<1>2. Core /\ [Next]_vars => Core'
  BY NextCore
<1> QED
  BY <1>1, <1>2, PTL DEF Spec

\* WheelWellFormed: every pending callout is on one wheel, once, in the bucket of
\* its time, and the bookmark of softclock() is valid, for any number of CPUs,
\* clients and callouts and however resets, stops and migrations interleave with the
\* walks of softclock().
THEOREM WheelWellFormedHolds == Spec => []WheelWellFormed
<1>1. ASSUME Core PROVE WheelWellFormed
  <2>1. TypeOK
    BY <1>1 DEF Core
  <2>2. BookmarkValid
    BY <1>1 DEF Core, WheelInv, Marks, BookmarkValid
  <2>3. ASSUME NEW x \in Calls, NEW p \in Cpu, NEW b \in 0..(WHEEL - 1)
        PROVE  Cardinality({i \in DOMAIN cc_callwheel[p][b] : cc_callwheel[p][b][i] = x}) =
                 IF c_pending[x] /\ p = c_cpu[x] /\ b = Bucket(c_time[x]) THEN 1 ELSE 0
    <3> DEFINE q == cc_callwheel[p][b]
    <3>1. b \in Ix /\ WellPut(cc_callwheel, c_pending, c_time, c_cpu)
      BY <1>1 DEF Core, WheelInv, Ix
    <3>2. /\ q \in Seq(Calls) /\ Injective(q)
          /\ x \in ToSet(q) <=> c_pending[x] /\ p = c_cpu[x] /\ b = Bucket(c_time[x])
      BY <3>1 DEF WellPut
    <3> HIDE DEF q
    <3>3. Cardinality({i \in DOMAIN q : q[i] = x}) = IF x \in ToSet(q) THEN 1 ELSE 0
      BY <3>2, CountInSeq
    <3> QED
      BY <3>2, <3>3 DEF q
  <2> QED
    BY <2>1, <2>2, <2>3 DEF WheelWellFormed
<1> QED
  BY <1>1, CoreHolds, PTL

-----------------------------------------------------------------------------
(***************************************************************************)
(* A callout that was stopped with its lock held.                          *)
(***************************************************************************)

\* A walk with a callout that has a lock: from the moment the callout is reset,
\* moved or stopped cc_cancel is set, until the walk has looked at it.
StopOf(p) ==
  /\ pc[p] \in {"getlock", "check", "arm"} => LockOf(c[p]) # NULL
  /\ pc[p] \in {"check", "arm", "handler"} => Holds(p, LockOf(c[p]))
  /\ /\ pc[p] \in {"getlock", "check"}
     /\ c_cpu[c[p]] # p \/ c_pending[c[p]] \/ stopped[c[p]]
     => cc_cancel[p]
  /\ pc[p] \in {"arm", "handler"} /\ LockOf(c[p]) # NULL => ~stopped[c[p]]

StopInv ==
  /\ \A x \in Calls : stopped[x] => ~c_pending[x]
  /\ \A p \in Cpu : StopOf(p)

Busy == {"getlock", "check", "arm", "handler"}

\* A callout that is being called.
LEMMA BusyWith ==
  ASSUME Core, NEW p \in Cpu, pc[p] \in Busy
  PROVE  c[p] \in Calls /\ cc_curr[p] = c[p] /\ LockOf(c[p]) \in Lock \cup {NULL}
<1>1. c[p] \in Calls /\ cc_curr[p] = c[p]
  BY Threads DEF Core, WalkInv, WalkOf, TypeOK, Busy, Current
<1> QED
  BY <1>1, CalloutAssumption DEF LockOf

\* A step that takes callouts off the wheels at most.
LEMMA StopQuiet ==
  ASSUME Core, StopInv, UNCHANGED <<c_cpu, stopped, cc_cancel, owner, local>>,
         \A y \in Calls : c_pending'[y] => c_pending[y],
         \A p \in Cpu : \/ pc'[p] = pc[p] /\ c'[p] = c[p]
                        \/ pc'[p] \notin Busy
  PROVE  StopInv'
<1>1. ASSUME NEW p \in Cpu PROVE StopOf(p)'
  <2>1. CASE pc'[p] \notin Busy
    BY <2>1 DEF StopOf, Busy
  <2>2. CASE pc'[p] \in Busy
    <3>1. pc'[p] = pc[p] /\ c'[p] = c[p] /\ c[p] \in Calls /\ StopOf(p)
      BY <2>2, BusyWith DEF StopInv
    <3> QED
      BY <3>1 DEF StopOf, LockOf, Holds
  <2> QED
    BY <2>1, <2>2
<1> QED
  BY <1>1 DEF StopInv

\* What a step of one thread leaves to the walks of the other CPUs.
LEMMA StopOthers ==
  ASSUME Core, StopInv, NEW p \in Cpu, UNCHANGED <<c_cpu, stopped, local>>,
         \A y \in Calls : c_pending'[y] => c_pending[y],
         \A q \in Cpu \ {p} : pc'[q] = pc[q] /\ c'[q] = c[q] /\ cc_cancel'[q] = cc_cancel[q],
         \A l \in Lock, q \in Cpu \ {p} : owner[l] = q => owner'[l] = q,
         StopOf(p)'
  PROVE  StopInv'
<1>1. ASSUME NEW q \in Cpu, q # p PROVE StopOf(q)'
  <2>0. StopOf(q) /\ pc'[q] = pc[q] /\ c'[q] = c[q] /\ cc_cancel'[q] = cc_cancel[q]
    BY <1>1 DEF StopInv
  <2>1. CASE pc[q] \notin Busy
    BY <2>0, <2>1 DEF StopOf, Busy
  <2>2. CASE pc[q] \in Busy
    <3>1. c[q] \in Calls /\ LockOf(c[q]) \in Lock \cup {NULL} /\ LockOf(c[q])' = LockOf(c[q])
      BY <2>0, <2>2, BusyWith DEF LockOf
    <3>2. Holds(q, LockOf(c[q])) => Holds(q, LockOf(c[q]))'
      BY <1>1, <3>1 DEF Holds
    <3> QED
      BY <2>0, <3>1, <3>2 DEF StopOf
  <2> QED
    BY <2>1, <2>2
<1> QED
  BY <1>1 DEF StopInv

LEMMA SoftStops ==
  ASSUME Core, StopInv, NEW p \in Cpu, Soft(p)
  PROVE  StopInv'
<1>1. CASE SoftStart(p) \/ SoftBucket(p) \/ SoftSkip(p) \/ SoftRelock(p) \/ SoftDone(p) \/ SoftWakeup(p)
  <2>1. UNCHANGED <<c_cpu, c_pending, stopped, cc_cancel, owner, local>>
    BY <1>1 DEF SoftStart, SoftBucket, SoftSkip, SoftRelock, SoftDone, SoftWakeup, wheelVars, cpuVars,
       localVars, handleVars
  <2>2. \A q \in Cpu \ {p} : c'[q] = c[q]
    <3>1. UNCHANGED c \/ \E x : c' = [c EXCEPT ![p] = x]
      BY <1>1 DEF SoftStart, SoftBucket, SoftSkip, SoftRelock, SoftDone, SoftWakeup, localVars
    <3> QED
      BY <3>1, Threads DEF Core, TypeOK
  <2>3. pc'[p] \notin Busy /\ \A q \in Cpu \ {p} : pc'[q] = pc[q]
    <3>1. CASE SoftWakeup(p)
      <4>1. \A q \in Cpu : pc[q] # "asleep" /\ q \in Thread
        BY Threads DEF Core, WalkInv, WalkOf, SoftPoints
      <4> QED
        BY <3>1, <4>1 DEF SoftWakeup, At, Busy
    <3>2. CASE ~SoftWakeup(p)
      <4>1. \/ UNCHANGED pc /\ pc[p] = "scan"
            \/ \E f \in {"scan", "idle", "relock", "wakeup"} : pc' = [pc EXCEPT ![p] = f]
        BY <1>1, <3>2 DEF SoftStart, SoftBucket, SoftSkip, SoftRelock, SoftDone, Goto, At
      <4> QED
        BY <4>1, Threads DEF Core, TypeOK, Busy
    <3> QED
      BY <3>1, <3>2
  <2> QED
    BY <2>1, <2>2, <2>3, StopQuiet
<1>2. CASE SoftFire(p)
  <2>1. /\ pc[p] = "scan" /\ c[p] \in Calls /\ c_pending[c[p]] /\ c_cpu[c[p]] = p
        /\ \A y \in Calls \ {c[p]} : c_pending'[y] = c_pending[y]
        /\ ~c_pending'[c[p]] /\ UNCHANGED c_cpu
    BY <1>2, FireEffect
  <2>2. /\ UNCHANGED <<stopped, local, owner, c>>
        /\ cc_cancel' = [cc_cancel EXCEPT ![p] = FALSE]
        /\ pc' = [pc EXCEPT ![p] = IF LockOf(c[p]) # NULL THEN "getlock" ELSE "handler"]
    BY <1>2 DEF SoftFire, localVars, handleVars, Goto
  <2>3. /\ \A q \in Cpu \ {p} : pc'[q] = pc[q] /\ c'[q] = c[q] /\ cc_cancel'[q] = cc_cancel[q]
        /\ pc'[p] = IF LockOf(c[p]) # NULL THEN "getlock" ELSE "handler"
    BY <2>2, Threads DEF Core, TypeOK
  <2>4. ~stopped[c[p]]
    BY <2>1 DEF StopInv
  <2>5. StopOf(p)'
    BY <2>1, <2>2, <2>3, <2>4 DEF StopOf, LockOf, Holds
  <2> QED
    BY <2>1, <2>2, <2>3, <2>5, StopOthers
<1>3. CASE SoftGetLock(p) \/ SoftCheck(p) \/ SoftArm(p) \/ HandlerUnlock(p) \/ (SoftReturn(p) /\ pc[p] # "unlocked")
  <2>1. UNCHANGED <<c_cpu, c_pending, stopped, c, local>> /\ pc[p] \in Busy
    BY <1>3 DEF SoftGetLock, SoftCheck, SoftArm, HandlerUnlock, SoftReturn, wheelVars, localVars, handleVars, At, Busy
  <2>2. c[p] \in Calls /\ LockOf(c[p]) \in Lock \cup {NULL} /\ StopOf(p) /\ p \in Thread
        /\ LockOf(c[p])' = LockOf(c[p])
    BY <2>1, BusyWith, Threads DEF StopInv, LockOf
  <2>3. /\ owner \in [Lock -> Thread \cup {NULL}] /\ pc \in [Thread -> SoftPoints \cup ClientPoints]
        /\ cc_cancel \in [Cpu -> BOOLEAN]
    BY DEF Core, TypeOK
  <2>4. CASE SoftGetLock(p)
    <3>1. /\ UNCHANGED cc_cancel /\ pc' = [pc EXCEPT ![p] = "check"] /\ owner[LockOf(c[p])] = NULL
          /\ owner' = [owner EXCEPT ![LockOf(c[p])] = p] /\ pc[p] = "getlock"
      BY <2>4 DEF SoftGetLock, cpuVars, Goto, At
    <3>2. LockOf(c[p]) # NULL
      BY <2>2, <3>1 DEF StopOf
    <3>3. owner'[LockOf(c[p])] = p /\ \A l \in Lock, q \in Cpu \ {p} : owner[l] = q => owner'[l] = q
      BY <2>2, <2>3, <3>1, <3>2, Threads
    <3>4. pc'[p] = "check" /\ \A q \in Cpu \ {p} : pc'[q] = pc[q]
      BY <2>2, <2>3, <3>1, Threads
    <3>5. StopOf(p)'
      BY <2>1, <2>2, <3>1, <3>2, <3>3, <3>4 DEF StopOf, Holds
    <3> QED
      BY <2>1, <3>1, <3>3, <3>4, <3>5, StopOthers
  <2>5. CASE SoftCheck(p)
    <3>1. /\ UNCHANGED cc_cancel /\ pc[p] = "check"
          /\ \/ /\ owner' = [owner EXCEPT ![LockOf(c[p])] = NULL] /\ pc' = [pc EXCEPT ![p] = "done"]
             \/ ~cc_cancel[p] /\ pc' = [pc EXCEPT ![p] = "arm"] /\ UNCHANGED owner
      BY <2>5 DEF SoftCheck, cpuVars, Goto, At
    <3>2. LockOf(c[p]) \in Lock /\ owner[LockOf(c[p])] = p
      BY <2>2, <3>1 DEF StopOf, Holds
    <3>3. \A l \in Lock, q \in Cpu \ {p} : owner[l] = q => owner'[l] = q
      BY <2>3, <3>1, <3>2
    <3>4. pc'[p] \in {"done", "arm"} /\ \A q \in Cpu \ {p} : pc'[q] = pc[q]
      BY <2>2, <2>3, <3>1, Threads
    <3>5. pc'[p] = "arm" => ~cc_cancel[p] /\ UNCHANGED owner
      BY <2>2, <2>3, <3>1
    <3>6. StopOf(p)'
      BY <2>1, <2>2, <3>1, <3>2, <3>4, <3>5 DEF StopOf, Holds
    <3> QED
      BY <2>1, <3>1, <3>3, <3>4, <3>6, StopOthers
  <2>6. CASE SoftArm(p)
    <3>1. /\ cc_cancel' = [cc_cancel EXCEPT ![p] = TRUE] /\ pc[p] = "arm"
          /\ pc' = [pc EXCEPT ![p] = "handler"] /\ UNCHANGED owner
      BY <2>6 DEF SoftArm, Goto, At
    <3>2. /\ pc'[p] = "handler"
          /\ \A q \in Cpu \ {p} : pc'[q] = pc[q] /\ cc_cancel'[q] = cc_cancel[q]
      BY <2>2, <2>3, <3>1, Threads
    <3>3. StopOf(p)'
      BY <2>1, <2>2, <3>1, <3>2 DEF StopOf, Holds
    <3> QED
      BY <2>1, <3>1, <3>2, <3>3, StopOthers
  <2>7. CASE SoftReturn(p) /\ pc[p] # "unlocked"
    <3>1. /\ UNCHANGED cc_cancel /\ pc[p] = "handler" /\ pc' = [pc EXCEPT ![p] = "done"]
          /\ owner' = [l \in Lock |-> IF l = LockOf(c[p]) THEN NULL ELSE owner[l]]
      BY <2>7 DEF SoftReturn, cpuVars, Goto, At
    <3>2. LockOf(c[p]) # NULL => owner[LockOf(c[p])] = p
      BY <2>2, <3>1 DEF StopOf, Holds
    <3>3. \A l \in Lock, q \in Cpu \ {p} : owner[l] = q => owner'[l] = q
      BY <2>3, <3>1, <3>2, Threads
    <3>4. pc'[p] = "done" /\ \A q \in Cpu \ {p} : pc'[q] = pc[q]
      BY <2>2, <2>3, <3>1, Threads
    <3>5. StopOf(p)'
      BY <3>4 DEF StopOf
    <3> QED
      BY <2>1, <3>1, <3>3, <3>4, <3>5, StopOthers
  <2>8. CASE HandlerUnlock(p)
    <3>1. /\ UNCHANGED cc_cancel /\ pc[p] = "handler" /\ pc' = [pc EXCEPT ![p] = "unlocked"]
          /\ owner' = [owner EXCEPT ![LockOf(c[p])] = NULL]
      BY <2>8 DEF HandlerUnlock, cpuVars, Goto, At
    <3>2. LockOf(c[p]) # NULL => owner[LockOf(c[p])] = p
      BY <2>2, <3>1 DEF StopOf, Holds
    <3>3. \A l \in Lock, q \in Cpu \ {p} : owner[l] = q => owner'[l] = q
      BY <2>3, <3>1, <3>2, Threads
    <3>4. pc'[p] = "unlocked" /\ \A q \in Cpu \ {p} : pc'[q] = pc[q]
      BY <2>2, <2>3, <3>1, Threads
    <3>5. StopOf(p)'
      BY <3>4 DEF StopOf
    <3> QED
      BY <2>1, <3>1, <3>3, <3>4, <3>5, StopOthers
  <2> QED
    BY <1>3, <2>4, <2>5, <2>6, <2>7, <2>8
<1>4. CASE SoftReturn(p) /\ pc[p] = "unlocked"
  <2>1. /\ UNCHANGED <<c_cpu, c_pending, c, stopped, cc_cancel, owner, local>>
        /\ pc' = [pc EXCEPT ![p] = "done"]
    BY <1>4 DEF SoftReturn, wheelVars, cpuVars, localVars, handleVars, Goto, At
  <2>2. pc'[p] \notin Busy /\ \A q \in Cpu \ {p} : pc'[q] = pc[q]
    BY <2>1, Threads DEF Core, TypeOK, Busy
  <2> QED
    BY <2>1, <2>2, StopQuiet
<1> QED
  BY <1>1, <1>2, <1>3, <1>4 DEF Soft

LEMMA ClientStops ==
  ASSUME Core, StopInv, NEW t \in Client,
         \/ Drain(t) \/ DrainSq(t) \/ DrainWoken(t) \/ (\E x \in Calls : DrainCall(t, x))
         \/ (\E l \in Lock : ClientLock(t, l) \/ ClientUnlock(t, l))
  PROVE  StopInv'
<1>1. UNCHANGED <<c_cpu, stopped, cc_cancel, local>>
  <2>1. CASE Drain(t)
    BY <2>1, DrainForms
  <2>2. CASE ~Drain(t)
    BY <2>2 DEF DrainSq, DrainWoken, DrainCall, ClientLock, ClientUnlock, wheelVars, cpuVars, handleVars
  <2> QED
    BY <2>1, <2>2
<1>2. \A p \in Cpu : pc'[p] = pc[p] /\ c'[p] = c[p]
  <2>1. CASE Drain(t)
    <3>1. UNCHANGED local /\ pc[t] \in {"drain", "drain_locked"} /\ (DrainLeave(t) \/ DrainStay(t))
      BY <2>1, DrainForms
    <3>2. c[t] \in Calls /\ c[t] \notin local
      BY <3>1, Threads DEF Core, WalkInv, ClientOf, TypeOK
    <3> QED
      BY <3>1, <3>2, DrainTypes
  <2>2. CASE ~Drain(t)
    <3>1. /\ UNCHANGED pc \/ \E f : pc' = [pc EXCEPT ![t] = f]
          /\ UNCHANGED c \/ \E x : c' = [c EXCEPT ![t] = x]
      BY <2>2 DEF DrainSq, DrainWoken, DrainReturn, DrainCall, ClientLock, ClientUnlock, localVars, Goto
    <3> QED
      BY <3>1, Threads DEF Core, TypeOK
  <2> QED
    BY <2>1, <2>2
<1>3. \A y \in Calls : c_pending'[y] => c_pending[y]
  <2>1. CASE Drain(t)
    <3>1. \/ UNCHANGED c_pending
          \/ c_pending' = [c_pending EXCEPT ![c[t]] = FALSE]
      BY <2>1, DrainForms DEF Dequeue
    <3> QED
      BY <3>1 DEF Core, TypeOK
  <2>2. CASE ~Drain(t)
    BY <2>2 DEF DrainSq, DrainWoken, DrainCall, ClientLock, ClientUnlock, wheelVars
  <2> QED
    BY <2>1, <2>2
<1>4. CASE \E l \in Lock : ClientLock(t, l) \/ ClientUnlock(t, l)
  <2>1. PICK l \in Lock : /\ owner[l] \in {NULL, t}
                          /\ owner' = [owner EXCEPT ![l] = NULL] \/ owner' = [owner EXCEPT ![l] = t]
    BY <1>4 DEF ClientLock, ClientUnlock
  <2>2. \A k \in Lock, q \in Cpu : owner[k] = q => owner'[k] = q
    BY <2>1, Threads DEF Core, TypeOK
  <2>3. ASSUME NEW p \in Cpu PROVE StopOf(p)'
    <3>1. StopOf(p)
      BY DEF StopInv
    <3>2. CASE pc[p] \notin Busy
      BY <1>2, <3>2 DEF StopOf, Busy
    <3>3. CASE pc[p] \in Busy
      <4>1. c[p] \in Calls /\ LockOf(c[p]) \in Lock \cup {NULL} /\ LockOf(c[p])' = LockOf(c[p])
        BY <1>1, <1>2, <3>3, BusyWith DEF LockOf
      <4>2. Holds(p, LockOf(c[p])) => Holds(p, LockOf(c[p]))'
        BY <2>2, <4>1 DEF Holds
      <4> QED
        BY <1>1, <1>2, <1>3, <3>1, <4>1, <4>2 DEF StopOf
    <3> QED
      BY <3>2, <3>3
  <2> QED
    BY <1>1, <1>3, <2>3 DEF StopInv
<1>5. CASE \/ Drain(t) \/ DrainSq(t) \/ DrainWoken(t) \/ \E x \in Calls : DrainCall(t, x)
  <2>1. UNCHANGED owner
    <3>1. CASE Drain(t)
      BY <3>1, DrainForms
    <3>2. CASE ~Drain(t)
      BY <1>5, <3>2 DEF DrainSq, DrainWoken, DrainCall
    <3> QED
      BY <3>1, <3>2
  <2> QED
    BY <1>1, <1>2, <1>3, <2>1, StopQuiet
<1> QED
  BY <1>4, <1>5

\* The walks that are busy with x, when a client or a handler cancels x: on the
\* CPU of x cc_cancel is set, and on another one it was set before.
LEMMA StopChanges ==
  ASSUME Core, StopInv, NEW x \in Calls, UNCHANGED <<pc, c, local, owner>>,
         \A p \in Cpu : cc_cancel[p] => cc_cancel'[p],
         \A y \in Calls \ {x} : /\ c_pending'[y] => c_pending[y]
                                /\ c_cpu'[y] = c_cpu[y] /\ stopped'[y] = stopped[y],
         stopped'[x] => ~c_pending'[x],
         \A p \in Cpu : pc[p] \in {"getlock", "check"} /\ c[p] = x /\ c_cpu[x] = p =>
                          \/ cc_cancel'[p]
                          \/ c_cpu'[x] = p /\ ~c_pending'[x] /\ stopped'[x] = stopped[x],
         \A p \in Cpu : pc[p] \in {"arm", "handler"} /\ c[p] = x /\ LockOf(x) # NULL => ~stopped'[x]
  PROVE  StopInv'
<1>1. ASSUME NEW p \in Cpu PROVE StopOf(p)'
  <2>0. StopOf(p) /\ pc'[p] = pc[p] /\ c'[p] = c[p] /\ (cc_cancel[p] => cc_cancel'[p])
    BY DEF StopInv
  <2>1. CASE pc[p] \notin Busy
    BY <2>0, <2>1 DEF StopOf, Busy
  <2>2. CASE pc[p] \in Busy
    <3>1. c[p] \in Calls /\ LockOf(c[p])' = LockOf(c[p])
      BY <2>2, BusyWith DEF LockOf
    <3>2. CASE c[p] = x
      BY <2>0, <3>1, <3>2 DEF StopOf, Holds
    <3>3. CASE c[p] # x
      BY <2>0, <3>1, <3>3 DEF StopOf, Holds
    <3> QED
      BY <3>2, <3>3
  <2> QED
    BY <2>1, <2>2
<1> QED
  BY <1>1 DEF StopInv

LEMMA StopStops ==
  ASSUME Core, StopInv, NEW t \in Client, NEW x \in Calls, Stop(t, x)
  PROVE  StopInv'
<1> DEFINE use == cc_curr[c_cpu[x]] = x /\ LockOf(x) # NULL /\ owner[LockOf(x)] = t
           held == Holds(t, LockOf(x))
<1>1. /\ UNCHANGED <<pc, c, local, owner, c_cpu>> /\ stopped' = [stopped EXCEPT ![x] = @ \/ held]
  BY DEF Stop, localVars
<1>2. /\ stopped \in [Calls -> BOOLEAN] /\ c_pending \in [Calls -> BOOLEAN]
      /\ cc_cancel \in [Cpu -> BOOLEAN] /\ c_cpu[x] \in Cpu
  BY DEF Core, TypeOK
<1>3. \/ c_pending[x] /\ c_pending' = [c_pending EXCEPT ![x] = FALSE] /\ UNCHANGED cc_cancel
      \/ /\ ~c_pending[x] /\ UNCHANGED c_pending
         /\ cc_cancel' = [cc_cancel EXCEPT ![c_cpu[x]] = @ \/ use]
  BY DEF Stop, Dequeue
<1> HIDE DEF use, held
<1>4. ~c_pending'[x] /\ \A y \in Calls \ {x} : c_pending'[y] = c_pending[y] /\ stopped'[y] = stopped[y]
  BY <1>1, <1>2, <1>3
<1>5. (stopped'[x] = stopped[x] \/ stopped'[x] = held) /\ stopped'[x] \in BOOLEAN
      /\ (~held => stopped'[x] = stopped[x])
  BY <1>1, <1>2 DEF held
<1>6. \A p \in Cpu : cc_cancel[p] => cc_cancel'[p]
  BY <1>2, <1>3
<1>7. ASSUME NEW p \in Cpu, pc[p] \in {"getlock", "check"}, c[p] = x, c_cpu[x] = p, ~cc_cancel'[p]
      PROVE  c_cpu'[x] = p /\ ~c_pending'[x] /\ stopped'[x] = stopped[x]
  <2>1. /\ LockOf(x) # NULL /\ cc_curr[p] = x /\ StopOf(p)
    BY <1>7, BusyWith DEF StopInv, StopOf, Busy
  <2>2. ~cc_cancel[p] /\ ~c_pending[x]
    BY <1>6, <1>7, <2>1 DEF StopOf
  <2>3. ~use
    BY <1>2, <1>3, <1>7, <2>2
  <2>4. ~held
    BY <1>7, <2>1, <2>3 DEF use, held, Holds
  <2> QED
    BY <1>1, <1>4, <1>5, <1>7, <2>4
<1>8. ASSUME NEW p \in Cpu, pc[p] \in {"arm", "handler"}, c[p] = x, LockOf(x) # NULL
      PROVE  ~stopped'[x]
  <2>1. StopOf(p)
    BY DEF StopInv
  <2>2. owner[LockOf(x)] = p /\ ~stopped[x]
    BY <1>8, <2>1 DEF StopOf, Holds
  <2>3. ~held
    BY <1>8, <2>2, Threads DEF held, Holds
  <2> QED
    BY <1>5, <2>2, <2>3
<1> QED
  BY <1>1, <1>4, <1>6, <1>7, <1>8, StopChanges

LEMMA ResetStops ==
  ASSUME Core, StopInv, NEW t \in Thread, NEW x \in Calls, NEW to \in Delays, NEW cpu \in Cpu,
         ResetPass(t, x, to, cpu), UNCHANGED local
  PROVE  StopInv'
<1> DEFINE p == c_cpu[x]
           hit == cc_curr[p] = x /\ LockOf(x) # NULL
<1>1. UNCHANGED <<pc, c, owner>> /\ cc_cancel' = [cc_cancel EXCEPT ![p] = @ \/ hit]
  BY DEF ResetPass
<1>2. /\ stopped \in [Calls -> BOOLEAN] /\ c_pending \in [Calls -> BOOLEAN]
      /\ cc_cancel \in [Cpu -> BOOLEAN] /\ p \in Cpu /\ c_cpu \in [Calls -> Cpu]
  BY DEF Core, TypeOK
<1>3. \/ UNCHANGED <<c_pending, c_cpu, stopped>>
      \/ /\ c_pending' = [c_pending EXCEPT ![x] = FALSE] /\ c_cpu' = [c_cpu EXCEPT ![x] = cpu]
         /\ UNCHANGED stopped
      \/ /\ c_pending' = [c_pending EXCEPT ![x] = TRUE] /\ stopped' = [stopped EXCEPT ![x] = FALSE]
         /\ UNCHANGED c_cpu
  BY DEF ResetPass, wheelVars
<1> HIDE DEF hit
<1>4. \A y \in Calls \ {x} : /\ c_pending'[y] = c_pending[y]
                             /\ c_cpu'[y] = c_cpu[y] /\ stopped'[y] = stopped[y]
  BY <1>2, <1>3
<1>5. stopped'[x] => ~c_pending'[x] /\ stopped[x]
  BY <1>2, <1>3 DEF StopInv
<1>6. \A q \in Cpu : cc_cancel[q] => cc_cancel'[q]
  BY <1>1, <1>2
<1>7. ASSUME NEW q \in Cpu, pc[q] \in {"getlock", "check"}, c[q] = x, c_cpu[x] = q
      PROVE  cc_cancel'[q]
  <2>1. LockOf(x) # NULL /\ cc_curr[q] = x
    BY <1>7, BusyWith DEF StopInv, StopOf, Busy
  <2> QED
    BY <1>1, <1>2, <1>7, <2>1 DEF hit
<1>8. ASSUME NEW q \in Cpu, pc[q] \in {"arm", "handler"}, c[q] = x, LockOf(x) # NULL
      PROVE  ~stopped'[x]
  BY <1>5, <1>8 DEF StopInv, StopOf
<1> QED
  BY <1>1, <1>4, <1>5, <1>6, <1>7, <1>8, StopChanges

LEMMA NextStops ==
  ASSUME Core, StopInv, [Next]_vars
  PROVE  StopInv'
<1>1. CASE UNCHANGED vars \/ HardTick \/ \E p \in Cpu : callout_tick(p)
  <2>1. UNCHANGED <<c_cpu, stopped, cc_cancel, owner, local, c_pending, pc, c>>
    BY <1>1 DEF vars, HardTick, callout_tick, wheelVars, cpuVars, localVars, handleVars
  <2> QED
    BY <2>1, StopQuiet
<1>2. CASE \E p \in Cpu : Soft(p)
  BY <1>2, SoftStops
<1>3. CASE \E t \in Client : \/ Drain(t) \/ DrainSq(t) \/ DrainWoken(t)
                             \/ \E x \in Calls : DrainCall(t, x)
                             \/ \E l \in Lock : ClientLock(t, l) \/ ClientUnlock(t, l)
  BY <1>3, ClientStops
<1>4. CASE \E t \in Client, x \in Calls : Stop(t, x)
  BY <1>4, StopStops
<1>5. ASSUME NEW t \in Thread, NEW x \in Calls, NEW to \in Delays, NEW cpu \in Cpu,
             ResetPass(t, x, to, cpu),
             \/ UNCHANGED handleVars
             \/ \E r \in Request : timeout(t, r, to) /\ x = Head(cc_callfree) /\ cpu = c_cpu[x]
      PROVE  StopInv'
  <2>1. UNCHANGED local
    BY <1>5 DEF handleVars, timeout
  <2> QED
    BY <1>5, <2>1, ResetStops
<1> QED
  BY <1>1, <1>2, <1>3, <1>4, <1>5, Steps, Zenon

\* StoppedStaysStopped: a callout that was stopped with its lock held is not called
\* before it is reset, although softclock() may have taken it off the wheel and be
\* waiting for that very lock, and although the callout may be on another CPU by then.
THEOREM StoppedStaysStoppedHolds == Spec => []StoppedStaysStopped
<1>1. Init => StopInv
  BY Threads DEF Init, StopInv, StopOf
<1>2. Core /\ StopInv /\ [Next]_vars => StopInv'
  BY NextStops
<1>3. StopInv => StoppedStaysStopped
  BY DEF StopInv, StopOf, StoppedStaysStopped
<1> QED
  BY <1>1, <1>2, <1>3, CoreHolds, PTL DEF Spec

-----------------------------------------------------------------------------
(***************************************************************************)
(* No callout is forgotten, and none is called early.                      *)
(***************************************************************************)

\* A remainder is known by its range.
LEMMA Remainder ==
  ASSUME NEW n \in Nat, n > 0, NEW q \in Int, NEW r \in 0..(n - 1), NEW x \in Int, x = n * q + r
  PROVE  x % n = r
<1> DEFINE d == x \div n  m == x % n
<1>1. d \in Int /\ m \in 0..(n - 1) /\ x = n * d + m
  BY Z3
<1> HIDE DEF d, m
<1>2. n * (d - q) = r - m
  BY <1>1, Z3
<1>3. d - q \in Int /\ n * (d - q) < n /\ 0 - n < n * (d - q)
  BY <1>1, <1>2, Z3
<1>4. \A k \in Int : n * k < n /\ 0 - n < n * k => k = 0
  BY Z3
<1>5. d - q = 0
  BY <1>3, <1>4, Z3
<1>6. r = m
  BY <1>1, <1>2, <1>5, Z3
<1> QED
  BY <1>6 DEF m

\* A turn of the wheel later is the same bucket, also when ticks wraps.
LEMMA BucketTurn ==
  ASSUME NEW a \in Ticks
  PROVE  Bucket(Plus(a, WHEEL)) = Bucket(a)
<1> DEFINE n == WHEEL  t == TICK_MOD  d == a \div n  m == a % n  e == t \div n  b == Plus(a, WHEEL)
<1>1. /\ n \in Nat /\ n > 0 /\ t \in Nat /\ a \in Int /\ n <= t
      /\ t % n = 0
  BY Sizes, CalloutAssumption DEF Ticks
<1>2. b \in Ticks /\ b = (IF a + n < t THEN a + n ELSE a + n - t)
  BY <1>1, PlusIs
<1>3. b \in Int
  BY <1>2 DEF Ticks
<1>4. Bucket(a) = m /\ Bucket(b) = b % n
  BY DEF Bucket
<1> HIDE DEF n, t, b
<1>5. d \in Int /\ m \in 0..(n - 1) /\ a = n * d + m
  BY <1>1, Z3
<1>6. e \in Int /\ t = n * e
  BY <1>1, Z3
<1> HIDE DEF d, m, e
<1>7. \E q \in Int : b = n * q + m
  <2>1. CASE a + n < t
    <3>1. b = n * (d + 1) + m /\ d + 1 \in Int
      BY <1>1, <1>2, <1>5, <2>1, Z3
    <3> QED
      BY <3>1
  <2>2. CASE ~(a + n < t)
    <3>1. b = n * (d + 1 - e) + m /\ d + 1 - e \in Int
      BY <1>1, <1>2, <1>5, <1>6, <2>2, Z3
    <3> QED
      BY <3>1
  <2> QED
    BY <2>1, <2>2
<1>8. b % n = m
  BY <1>1, <1>3, <1>5, <1>7, Remainder
<1> QED
  BY <1>4, <1>8 DEF b

\* The difference to a time k ticks on, and no farther than it.
LEMMA DiffLess ==
  ASSUME NEW a \in Ticks, NEW b \in Ticks, NEW k \in Nat, k <= Diff(a, b)
  PROVE  Plus(b, k) \in Ticks /\ Diff(a, Plus(b, k)) = Diff(a, b) - k
<1> DEFINE d == Diff(a, b)  e == Diff(b, Plus(b, k))
<1>1. d \in Int /\ d < TICK_MOD - Half /\ k <= d
  BY DiffIs
<1>2. k < TICK_MOD - Half /\ k <= Half
  <2> HIDE DEF d
  <2> QED
    BY <1>1, Sizes
<1>3. Plus(b, k) \in Ticks /\ e = 0 - k
  BY <1>2, DiffPlus
<1>4. 0 - Half <= d + e /\ d + e < TICK_MOD - Half
  <2> HIDE DEF d, e
  <2> QED
    BY <1>1, <1>3, Sizes
<1>5. Diff(a, Plus(b, k)) = d + e
  BY <1>3, <1>4, DiffAdds
<1>6. d + e = d - k
  <2> HIDE DEF d, e
  <2> QED
    BY <1>1, <1>3
<1> QED
  BY <1>3, <1>5, <1>6

\* Times that follow each other.
LEMMA PlusPlus ==
  ASSUME NEW a \in Ticks, NEW k \in Nat, NEW l \in Nat, k + l <= TICK_MOD
  PROVE  Plus(Plus(a, k), l) = Plus(a, k + l)
<1>1. a \in Int /\ 0 <= a /\ a < TICK_MOD /\ TICK_MOD \in Nat
  BY Sizes DEF Ticks
<1> DEFINE b == Plus(a, k)
<1>2. b \in Ticks /\ b = IF a + k < TICK_MOD THEN a + k ELSE a + k - TICK_MOD
  BY <1>1, PlusIs
<1> HIDE DEF b
<1>3. Plus(b, l) = IF b + l < TICK_MOD THEN b + l ELSE b + l - TICK_MOD
  BY <1>1, <1>2, PlusIs
<1>4. Plus(a, k + l) = IF a + (k + l) < TICK_MOD THEN a + (k + l) ELSE a + (k + l) - TICK_MOD
  <2>1. k + l \in Nat
    OBVIOUS
  <2> QED
    BY <2>1, PlusIs
<1> QED
  BY <1>1, <1>2, <1>3, <1>4 DEF b

\* The callout a walk is at, or will go on at.
Mark(p) == IF cc_lock[p] THEN c[p] ELSE cc_next[p]

\* The walk of CPU p has still to come to x.
Ahead(p, x) == Mark(p) # NULL /\ Before(cc_callwheel[p][Bucket(curticks[p])], Mark(p), x)

\* The bucket of a walk that is not finished is at most a turn behind cc_softticks.
SpanInv ==
  \A p \in Cpu : Mark(p) # NULL => Diff(cc_softticks[p], curticks[p]) \in 1..WHEEL

MissInv ==
  \A x \in Calls : c_pending[x] =>
    \/ Diff(c_time[x], cc_softticks[c_cpu[x]]) >= 0
    \/ c_time[x] = curticks[c_cpu[x]] /\ Ahead(c_cpu[x], x)

TimeInv == SpanInv /\ MissInv

\* A step that leaves the wheels and the bookmarks alone.
LEMMA TimeQuiet ==
  ASSUME Core, TimeInv, UNCHANGED <<cc_softticks, curticks, cc_callwheel, c_pending, c_time, c_cpu>>,
         \A p \in Cpu : Mark(p)' = Mark(p)
  PROVE  TimeInv'
<1>1. SpanInv'
  BY DEF TimeInv, SpanInv
<1>2. \A x \in Calls : c_cpu[x] \in Cpu
  BY DEF Core, TypeOK
<1>3. MissInv'
  BY <1>2 DEF TimeInv, MissInv, Ahead
<1> QED
  BY <1>1, <1>3 DEF TimeInv

\* A step that takes callout x off its wheel, or puts it on one.
LEMMA TimeRequeued ==
  ASSUME Core, TimeInv, NEW x \in Calls, Requeued(x), UNCHANGED <<cc_softticks, curticks, cc_lock>>,
         \A p \in Cpu : c'[p] = c[p]
  PROVE  TimeInv'
<1>1. \A p \in Cpu : Mark(p) = NULL => Mark(p)' = NULL
  BY DEF Mark, Requeued, Keeps
<1>2. SpanInv'
  BY <1>1 DEF TimeInv, SpanInv
<1>3. \A p \in Cpu, z \in Calls : z # x /\ Ahead(p, z) => Ahead(p, z)'
  BY DEF Mark, Ahead, Requeued, Keeps
<1>4. c_cpu \in [Calls -> Cpu] /\ ticks \in Ticks /\ cc_softticks \in [Cpu -> Ticks]
  BY DEF Core, TypeOK
<1>5. ASSUME NEW z \in Calls, c_pending'[z]
      PROVE  \/ Diff(c_time'[z], cc_softticks'[c_cpu'[z]]) >= 0
             \/ c_time'[z] = curticks'[c_cpu'[z]] /\ Ahead(c_cpu[z], z)'
  <2>1. CASE z # x
    <3>1. c_pending[z] /\ c_time'[z] = c_time[z] /\ c_cpu'[z] = c_cpu[z] /\ c_cpu[z] \in Cpu
      BY <1>4, <1>5, <2>1 DEF Requeued
    <3>2. Ahead(c_cpu[z], z) => Ahead(c_cpu[z], z)'
      <4>1. PICK P \in Cpu : P = c_cpu[z]
        BY <3>1
      <4>2. Ahead(P, z) => Ahead(P, z)'
        BY <1>3, <2>1
      <4> QED
        BY <3>1, <4>1, <4>2 DEF Ahead, Mark
    <3> QED
      BY <3>1, <3>2 DEF TimeInv, MissInv
  <2>2. CASE z = x
    <3>1. CASE UNCHANGED wheelVars /\ UNCHANGED cc_next
      <4>1. UNCHANGED <<cc_callwheel, c_pending, c_time, c_cpu, cc_next>>
        BY <3>1 DEF wheelVars
      <4>2. Mark(c_cpu[z])' = Mark(c_cpu[z])
        BY <1>4, <4>1 DEF Mark
      <4> QED
        BY <1>4, <1>5, <4>1, <4>2 DEF TimeInv, MissInv, Ahead
    <3>2. CASE c_cpu'[x] = c_cpu[x] /\ \E n \in Nat : n > 0 /\ n + MAX_LAG <= Half
                 /\ n + MAX_LAG < TICK_MOD - Half /\ c_time'[x] = Plus(ticks, n)
      <4>1. PICK n \in Nat : n > 0 /\ n + MAX_LAG <= Half
                 /\ n + MAX_LAG < TICK_MOD - Half /\ c_time'[x] = Plus(ticks, n)
        BY <3>2
      <4> DEFINE s == cc_softticks[c_cpu[x]]  a == Plus(ticks, n)  d == Diff(ticks, s)  e == Diff(a, ticks)
      <4>2. s \in Ticks /\ d \in 0..MAX_LAG /\ MAX_LAG \in Nat
        BY <1>4, Sizes DEF Core, LagInv
      <4>3. n < TICK_MOD - Half
        BY <4>1, Sizes
      <4>4. a \in Ticks /\ e = n
        BY <1>4, <4>3, DiffPlus
      <4>5. 0 - Half <= e + d /\ e + d < TICK_MOD - Half /\ e + d >= 0
        <5> HIDE DEF d, e
        <5> QED
          BY <4>1, <4>2, <4>4, Sizes
      <4>6. Diff(a, s) = e + d
        BY <1>4, <4>2, <4>4, <4>5, DiffAdds
      <4> QED
        BY <2>2, <3>2, <4>1, <4>5, <4>6
    <3> QED
      BY <1>5, <2>2, <3>1, <3>2 DEF Requeued
  <2> QED
    BY <2>1, <2>2
<1>6. MissInv'
  BY <1>5 DEF MissInv
<1> QED
  BY <1>2, <1>6 DEF TimeInv

\* A walk of one CPU moves: what it had to come to it has still to come to, except
\* a callout that is no longer pending or not of the time of its bucket.
LEMMA TimeWalks ==
  ASSUME Core, TimeInv, NEW p \in Cpu, UNCHANGED <<cc_softticks, curticks, c_cpu>>,
         \A y \in Calls : c_pending'[y] => c_pending[y] /\ c_time'[y] = c_time[y],
         Mark(p) # NULL,
         \A q \in Cpu \ {p} : Mark(q)' = Mark(q) /\ cc_callwheel'[q] = cc_callwheel[q],
         \A z \in Calls : c_pending'[z] /\ c_time[z] = curticks[p] /\ Ahead(p, z) => Ahead(p, z)'
  PROVE  TimeInv'
<1>1. SpanInv'
  BY DEF TimeInv, SpanInv
<1>2. ASSUME NEW z \in Calls, c_pending'[z]
      PROVE  \/ Diff(c_time[z], cc_softticks[c_cpu[z]])' >= 0
             \/ (c_time[z] = curticks[c_cpu[z]] /\ Ahead(c_cpu[z], z))'
  <2>1. c_pending[z] /\ c_time'[z] = c_time[z]
    BY <1>2
  <2>2. PICK q \in Cpu : q = c_cpu[z] /\ q = c_cpu'[z]
    BY DEF Core, TypeOK
  <2>3. c_time[z] = curticks[q] /\ Ahead(q, z) => Ahead(q, z)'
    <3>1. CASE q = p
      BY <1>2, <3>1
    <3>2. CASE q # p
      <4>1. Mark(q)' = Mark(q) /\ cc_callwheel'[q] = cc_callwheel[q]
        BY <3>2
      <4> QED
        BY <4>1 DEF Ahead
    <3> QED
      BY <3>1, <3>2
  <2>4. Diff(c_time[z], cc_softticks[q]) >= 0 \/ (c_time[z] = curticks[q] /\ Ahead(q, z))
    BY <2>1, <2>2 DEF TimeInv, MissInv
  <2> QED
    BY <2>1, <2>2, <2>3, <2>4 DEF Ahead, Mark
<1>3. MissInv'
  BY <1>2 DEF MissInv
<1> QED
  BY <1>1, <1>3 DEF TimeInv

\* The wheels as a walk sees them.
LEMMA SoftTimes ==
  ASSUME Core, TimeInv, NEW p \in Cpu, Soft(p), ~SoftBucket(p)
  PROVE  TimeInv'
<1>1. UNCHANGED <<cc_softticks, curticks, c_cpu>>
  BY DEF Soft, SoftStart, SoftSkip, SoftRelock, SoftFire, SoftGetLock, SoftCheck, SoftArm, HandlerUnlock, SoftReturn,
     SoftDone, SoftWakeup, wheelVars, cpuVars, localVars
<1>2. CASE SoftFire(p)
  <2>1. /\ pc[p] = "scan" /\ c[p] \in Calls /\ cc_lock[p]
        /\ \A r \in Cpu \ {p} : cc_callwheel'[r] = cc_callwheel[r] /\ cc_next'[r] = cc_next[r]
        /\ \A z \in Calls : z # c[p] /\ Before(cc_callwheel[p][Bucket(curticks[p])], c[p], z) =>
              cc_next'[p] # NULL /\ Before(cc_callwheel'[p][Bucket(curticks[p])], cc_next'[p], z)
        /\ \A y \in Calls \ {c[p]} : c_pending'[y] = c_pending[y] /\ c_time'[y] = c_time[y]
        /\ ~c_pending'[c[p]]
    BY <1>2, FireEffect
  <2>2. UNCHANGED c /\ cc_lock' = [cc_lock EXCEPT ![p] = FALSE]
    BY <1>2 DEF SoftFire, localVars
  <2>3. ~cc_lock'[p] /\ \A q \in Cpu \ {p} : cc_lock'[q] = cc_lock[q]
    BY <2>2 DEF Core, TypeOK
  <2>4. Mark(p) = c[p] /\ Mark(p) # NULL /\ Mark(p)' = cc_next'[p]
    BY <2>1, <2>3, Threads DEF Mark
  <2>5. \A q \in Cpu \ {p} : Mark(q)' = Mark(q)
    BY <2>1, <2>2, <2>3 DEF Mark
  <2>6. ASSUME NEW z \in Calls, c_pending'[z], Ahead(p, z) PROVE Ahead(p, z)'
    <3>1. z # c[p]
      BY <2>1, <2>6
    <3> QED
      BY <1>1, <2>1, <2>4, <2>6, <3>1 DEF Ahead
  <2>7. \A y \in Calls : c_pending'[y] => c_pending[y] /\ c_time'[y] = c_time[y]
    BY <2>1
  <2> QED
    BY <1>1, <2>1, <2>4, <2>5, <2>6, <2>7, TimeWalks
<1>3. CASE SoftSkip(p)
  <2> DEFINE q == cc_callwheel[p][Bucket(curticks[p])]
             x == NextIn(q, c[p])
  <2>1. /\ UNCHANGED <<cc_callwheel, c_pending, c_time>> /\ pc[p] = "scan" /\ c[p] # NULL
        /\ c_time[c[p]] # curticks[p]
        /\ \/ c' = [c EXCEPT ![p] = x] /\ UNCHANGED <<cc_lock, cc_next>>
           \/ /\ cc_next' = [cc_next EXCEPT ![p] = x] /\ cc_lock' = [cc_lock EXCEPT ![p] = FALSE]
              /\ c' = [c EXCEPT ![p] = NULL]
    BY <1>3 DEF SoftSkip, wheelVars, At, Due
  <2>2. q \in Seq(Calls) /\ Injective(q) /\ c[p] \in ToSet(q) /\ cc_lock[p]
    BY <2>1, Scanned
  <2>3. \A z : z # c[p] /\ Before(q, c[p], z) => x # NULL /\ Before(q, x, z)
    BY <2>2, NextFollows
  <2> HIDE DEF x
  <2>4. Mark(p) = c[p] /\ Mark(p) # NULL /\ Mark(p)' = x
        /\ \A r \in Cpu \ {p} : Mark(r)' = Mark(r)
    BY <2>1, <2>2, Threads DEF Mark, Core, TypeOK
  <2>5. ASSUME NEW z \in Calls, c_time[z] = curticks[p], Ahead(p, z) PROVE Ahead(p, z)'
    <3>1. z # c[p] /\ cc_callwheel'[p][Bucket(curticks'[p])] = q
      BY <1>1, <2>1, <2>5
    <3> QED
      BY <2>3, <2>4, <2>5, <3>1 DEF Ahead
  <2> QED
    BY <1>1, <2>1, <2>4, <2>5, TimeWalks
<1>4. CASE \/ SoftStart(p) \/ SoftRelock(p) \/ SoftDone(p) \/ SoftGetLock(p) \/ SoftCheck(p)
           \/ SoftArm(p) \/ HandlerUnlock(p) \/ SoftReturn(p) \/ SoftWakeup(p)
  <2>1. UNCHANGED <<cc_callwheel, c_pending, c_time, cc_next>>
    BY <1>4 DEF SoftStart, SoftRelock, SoftDone, SoftGetLock, SoftCheck, SoftArm, HandlerUnlock, SoftReturn, SoftWakeup,
       wheelVars, cpuVars
  <2>2. CASE UNCHANGED <<c, cc_lock>>
    BY <1>1, <2>1, <2>2, TimeQuiet DEF Mark
  <2>3. CASE ~UNCHANGED <<c, cc_lock>>
    <3>1. \/ /\ UNCHANGED c /\ cc_lock' = [cc_lock EXCEPT ![p] = TRUE] /\ pc[p] = "idle"
          \/ /\ c' = [c EXCEPT ![p] = cc_next[p]] /\ cc_lock' = [cc_lock EXCEPT ![p] = TRUE]
             /\ ~cc_lock[p]
          \/ c' = [c EXCEPT ![p] = NULL] /\ UNCHANGED cc_lock /\ ~cc_lock[p]
      BY <1>4, <2>3 DEF SoftStart, SoftRelock, SoftDone, SoftGetLock, SoftCheck, SoftArm, HandlerUnlock, SoftReturn,
         SoftWakeup, cpuVars, localVars, At
    <3>2. pc[p] = "idle" => c[p] = NULL /\ cc_next[p] = NULL /\ ~cc_lock[p]
      BY DEF Core, WalkInv, WalkOf
    <3>3. Mark(p)' = Mark(p)
      BY <2>1, <3>1, <3>2, Threads DEF Mark, Core, TypeOK
    <3>4. \A r \in Cpu \ {p} : Mark(r)' = Mark(r)
      BY <2>1, <3>1, Threads DEF Mark, Core, TypeOK
    <3> QED
      BY <1>1, <2>1, <3>3, <3>4, TimeQuiet
  <2> QED
    BY <2>2, <2>3
<1> QED
  BY <1>2, <1>3, <1>4 DEF Soft

LEMMA BucketTimes ==
  ASSUME Core, TimeInv, NEW p \in Cpu, SoftBucket(p)
  PROVE  TimeInv'
<1> DEFINE s == cc_softticks[p]
           q == cc_callwheel[p][Bucket(s)]
<1>1. UNCHANGED <<cc_callwheel, c_pending, c_time, c_cpu>> /\ pc[p] = "scan" /\ c[p] = NULL
  BY DEF SoftBucket, wheelVars, At
<1>2. cc_lock[p] /\ Mark(p) = NULL
  BY <1>1 DEF Core, WalkInv, WalkOf, Mark
<1>3. s \in Ticks /\ ticks \in Ticks /\ c_cpu \in [Calls -> Cpu] /\ c_time \in [Calls -> Ticks]
  BY DEF Core, TypeOK
<1>4. \A x \in Calls : c_pending[x] /\ c_cpu[x] = p => Diff(c_time[x], s) >= 0
  BY <1>2 DEF TimeInv, MissInv, Ahead
<1>5. CASE /\ s # ticks
           /\ curticks' = [curticks EXCEPT ![p] = s]
           /\ c' = [c EXCEPT ![p] = First(q)]
           /\ cc_softticks' = [cc_softticks EXCEPT ![p] = Plus(@, 1)]
           /\ UNCHANGED <<cc_lock, cc_next, pc>>
  <2>1. /\ curticks'[p] = s /\ c'[p] = First(q) /\ cc_softticks'[p] = Plus(s, 1)
        /\ \A r \in Cpu \ {p} : /\ curticks'[r] = curticks[r] /\ c'[r] = c[r]
                                /\ cc_softticks'[r] = cc_softticks[r]
    BY <1>5, Threads DEF Core, TypeOK
  <2>2. Mark(p)' = First(q) /\ \A r \in Cpu \ {p} : Mark(r)' = Mark(r)
    BY <1>2, <1>5, <2>1 DEF Mark
  <2>3. Plus(s, 1) \in Ticks /\ Diff(Plus(s, 1), s) = 1 /\ 1 \in 1..WHEEL
    <3>1. 1 \in Nat /\ 1 < TICK_MOD - Half /\ 1 \in 1..WHEEL
      BY Sizes
    <3> QED
      BY <1>3, <3>1, DiffPlus
  <2>4. SpanInv'
    <3>1. Diff(cc_softticks'[p], curticks'[p]) \in 1..WHEEL
      BY <2>1, <2>3
    <3>2. \A r \in Cpu \ {p} : Mark(r)' # NULL => Diff(cc_softticks'[r], curticks'[r]) \in 1..WHEEL
      BY <2>1, <2>2 DEF TimeInv, SpanInv
    <3> QED
      BY <3>1, <3>2 DEF SpanInv
  <2>5. ASSUME NEW x \in Calls, c_pending[x], c_cpu[x] = p
        PROVE  Diff(c_time[x], Plus(s, 1)) >= 0 \/ (c_time[x] = s /\ Ahead(p, x)')
    <3> DEFINE d == Diff(c_time[x], s)
    <3>1. d \in Int /\ d >= 0
      BY <1>3, <1>4, <2>5, DiffIs
    <3>2. CASE d = 0
      <4>1. c_time[x] = s
        BY <1>3, <3>2, DiffBack
      <4>2. q \in Seq(Calls) /\ x \in ToSet(q)
        BY <1>3, <2>5, <4>1, BucketIs
      <4>3. First(q) # NULL /\ Before(q, First(q), x)
        BY <4>2, FirstIsFirst
      <4>4. Ahead(p, x)'
        BY <1>1, <2>1, <2>2, <4>3 DEF Ahead
      <4> QED
        BY <4>1, <4>4
    <3>3. CASE d # 0
      <4>1. 1 <= d /\ 1 \in Nat
        <5> HIDE DEF d
        <5> QED
          BY <3>1, <3>3
      <4>2. Diff(c_time[x], Plus(s, 1)) = d - 1
        BY <1>3, <4>1, DiffLess
      <4>3. d - 1 >= 0
        <5> HIDE DEF d
        <5> QED
          BY <3>1, <4>1
      <4> QED
        BY <4>2, <4>3
    <3> QED
      BY <3>2, <3>3
  <2>6. ASSUME NEW x \in Calls, c_pending'[x]
        PROVE  \/ Diff(c_time[x], cc_softticks[c_cpu[x]])' >= 0
               \/ (c_time[x] = curticks[c_cpu[x]] /\ Ahead(c_cpu[x], x))'
    <3>1. PICK r \in Cpu : r = c_cpu[x] /\ r = c_cpu'[x]
      BY <1>1, <1>3
    <3>2. CASE r = p
      BY <1>1, <2>1, <2>5, <2>6, <3>1, <3>2 DEF Ahead, Mark
    <3>3. CASE r # p
      <4>1. /\ Mark(r)' = Mark(r) /\ curticks'[r] = curticks[r] /\ cc_softticks'[r] = cc_softticks[r]
        BY <2>1, <2>2, <3>3
      <4>2. Diff(c_time[x], cc_softticks[r]) >= 0 \/ (c_time[x] = curticks[r] /\ Ahead(r, x))
        BY <1>1, <2>6, <3>1 DEF TimeInv, MissInv
      <4>3. Ahead(r, x) => Ahead(r, x)'
        BY <1>1, <4>1 DEF Ahead
      <4> QED
        BY <1>1, <3>1, <4>1, <4>2, <4>3 DEF Ahead, Mark
    <3> QED
      BY <3>2, <3>3
  <2> QED
    BY <2>4, <2>6 DEF TimeInv, MissInv
<1>6. CASE /\ s = ticks
           /\ cc_next' = [cc_next EXCEPT ![p] = NULL]
           /\ cc_lock' = [cc_lock EXCEPT ![p] = FALSE]
           /\ curticks' = [curticks EXCEPT ![p] = 0]
           /\ UNCHANGED <<cc_softticks, c>>
  <2>1. /\ cc_next'[p] = NULL /\ ~cc_lock'[p]
        /\ \A r \in Cpu \ {p} : /\ curticks'[r] = curticks[r] /\ cc_next'[r] = cc_next[r]
                                /\ cc_lock'[r] = cc_lock[r]
    BY <1>6 DEF Core, TypeOK
  <2>2. Mark(p)' = NULL /\ \A r \in Cpu \ {p} : Mark(r)' = Mark(r)
    BY <1>6, <2>1 DEF Mark
  <2>3. SpanInv'
    BY <1>6, <2>1, <2>2 DEF TimeInv, SpanInv
  <2>4. ASSUME NEW x \in Calls, c_pending'[x]
        PROVE  \/ Diff(c_time[x], cc_softticks[c_cpu[x]])' >= 0
               \/ (c_time[x] = curticks[c_cpu[x]] /\ Ahead(c_cpu[x], x))'
    <3>1. PICK r \in Cpu : r = c_cpu[x] /\ r = c_cpu'[x]
      BY <1>1, <1>3
    <3>2. CASE r = p
      BY <1>1, <1>4, <1>6, <2>4, <3>1, <3>2
    <3>3. CASE r # p
      <4>1. Mark(r)' = Mark(r) /\ curticks'[r] = curticks[r]
        BY <2>1, <2>2, <3>3
      <4>2. Diff(c_time[x], cc_softticks[r]) >= 0 \/ (c_time[x] = curticks[r] /\ Ahead(r, x))
        BY <1>1, <2>4, <3>1 DEF TimeInv, MissInv
      <4>3. Ahead(r, x) => Ahead(r, x)'
        BY <1>1, <4>1 DEF Ahead
      <4> QED
        BY <1>1, <1>6, <3>1, <4>1, <4>2, <4>3 DEF Ahead, Mark
    <3> QED
      BY <3>2, <3>3
  <2> QED
    BY <2>3, <2>4 DEF TimeInv, MissInv
<1> QED
  BY <1>5, <1>6, Zenon DEF SoftBucket, Goto

\* The clock interrupt skips empty buckets: neither the bucket of a walk that is not
\* finished, nor one with a callout whose time has come.
LEMMA TickTimes ==
  ASSUME Core, TimeInv, NEW p \in Cpu, callout_tick(p)
  PROVE  TimeInv'
<1>1. UNCHANGED <<cc_callwheel, c_pending, c_time, c_cpu, cc_next, cc_lock, curticks, c>> /\ ~cc_lock[p]
  BY DEF callout_tick, wheelVars, localVars
<1> DEFINE s == cc_softticks[p]
<1>2. PICK k \in Nat : /\ k <= Diff(ticks, s)
                       /\ cc_softticks' = [cc_softticks EXCEPT ![p] = Plus(@, k)]
                       /\ \A n \in 0..(k - 1) : cc_callwheel[p][Bucket(Plus(s, n))] = <<>>
  BY TickSkips
<1>3. /\ s \in Ticks /\ ticks \in Ticks /\ c_cpu \in [Calls -> Cpu] /\ c_time \in [Calls -> Ticks]
      /\ Diff(ticks, s) \in 0..MAX_LAG /\ curticks[p] \in Ticks
  BY DEF Core, TypeOK, LagInv
<1>4. k <= MAX_LAG /\ MAX_LAG \in Nat
  <2> DEFINE d == Diff(ticks, s)
  <2>1. d \in 0..MAX_LAG /\ k <= d /\ MAX_LAG \in Nat
    BY <1>2, <1>3, Sizes
  <2> HIDE DEF d
  <2> QED
    BY <2>1
<1>5. cc_softticks'[p] = Plus(s, k) /\ \A r \in Cpu \ {p} : cc_softticks'[r] = cc_softticks[r]
  BY <1>2 DEF Core, TypeOK
<1>6. \A r \in Cpu : Mark(r)' = Mark(r)
  BY <1>1 DEF Mark
<1>7. ASSUME NEW n \in 0..(k - 1), NEW x \in ToSet(cc_callwheel[p][Bucket(Plus(s, n))])
      PROVE  FALSE
  <2>1. ToSet(<<>>) = {}
    <3>1. <<>> \in Seq(Calls)
      OBVIOUS
    <3> QED
      BY <3>1, EmptySeqIs
  <2> QED
    BY <1>2, <1>7, <2>1
<1>8. ASSUME Mark(p) # NULL PROVE Diff(Plus(s, k), curticks[p]) \in 1..WHEEL
  <2> DEFINE u == curticks[p]  d == Diff(s, u)
  <2>1. d \in 1..WHEEL
    BY <1>8 DEF TimeInv, SpanInv
  <2>2. Mark(p) \in ToSet(cc_callwheel[p][Bucket(u)])
    BY <1>1, <1>8 DEF Mark, Core, WheelInv, Marks
  <2>3. s = Plus(u, d)
    <3>1. d >= 0
      <4> HIDE DEF d
      <4> QED
        BY <2>1, Sizes
    <3> QED
      BY <1>3, <3>1, DiffBack
  <2>4. d + k <= WHEEL
    <3> SUFFICES ASSUME ~(d + k <= WHEEL) PROVE FALSE
      OBVIOUS
    <3> DEFINE n == WHEEL - d
    <3>1. n \in Nat /\ n \in 0..(k - 1) /\ d \in Nat /\ d + n = WHEEL /\ d + n <= TICK_MOD
      <4> HIDE DEF d
      <4> QED
        BY <2>1, Sizes
    <3>2. Plus(s, n) = Plus(u, WHEEL)
      <4> HIDE DEF n, d, u
      <4>1. u \in Ticks
        BY <1>3 DEF u
      <4> QED
        BY <2>3, <3>1, <4>1, PlusPlus
    <3>3. Bucket(Plus(s, n)) = Bucket(u)
      BY <1>3, <3>2, BucketTurn
    <3> QED
      BY <1>7, <2>2, <3>1, <3>3
  <2>5. d \in Nat /\ d + k < TICK_MOD - Half /\ d + k <= TICK_MOD /\ d + k \in Nat /\ d + k \in 1..WHEEL
    <3> HIDE DEF d
    <3> QED
      BY <1>4, <2>1, <2>4, Sizes
  <2>6. Plus(s, k) = Plus(u, d + k)
    <3> HIDE DEF d, u
    <3>1. u \in Ticks
      BY <1>3 DEF u
    <3> QED
      BY <2>3, <2>5, <3>1, PlusPlus
  <2>7. Diff(Plus(u, d + k), u) = d + k
    <3> HIDE DEF d
    <3> QED
      BY <1>3, <2>5, DiffPlus
  <2> QED
    BY <2>5, <2>6, <2>7
<1>9. ASSUME NEW x \in Calls, c_pending[x], c_cpu[x] = p, Diff(c_time[x], s) >= 0
      PROVE  Diff(c_time[x], Plus(s, k)) >= 0
  <2> DEFINE d == Diff(c_time[x], s)
  <2>1. d \in Int /\ d >= 0 /\ Plus(s, d) = c_time[x]
    BY <1>3, <1>9, DiffIs, DiffBack
  <2>2. k <= d
    <3> SUFFICES ASSUME ~(k <= d) PROVE FALSE
      OBVIOUS
    <3>1. d \in 0..(k - 1)
      <4> HIDE DEF d
      <4> QED
        BY <2>1
    <3>2. x \in ToSet(cc_callwheel[p][Bucket(c_time[x])])
      BY <1>3, <1>9, BucketIs
    <3> HIDE DEF d
    <3> QED
      BY <1>7, <2>1, <3>1, <3>2
  <2>3. Diff(c_time[x], Plus(s, k)) = d - k
    BY <1>3, <2>2, DiffLess
  <2>4. d - k >= 0
    <3> HIDE DEF d
    <3> QED
      BY <2>1, <2>2
  <2> QED
    BY <2>3, <2>4
<1>10. SpanInv'
  BY <1>1, <1>5, <1>6, <1>8 DEF TimeInv, SpanInv
<1>11. ASSUME NEW x \in Calls, c_pending'[x]
       PROVE  \/ Diff(c_time[x], cc_softticks[c_cpu[x]])' >= 0
              \/ (c_time[x] = curticks[c_cpu[x]] /\ Ahead(c_cpu[x], x))'
  <2>1. PICK r \in Cpu : r = c_cpu[x] /\ r = c_cpu'[x]
    BY <1>1, <1>3
  <2>2. Diff(c_time[x], cc_softticks[r]) >= 0 \/ (c_time[x] = curticks[r] /\ Ahead(r, x))
    BY <1>1, <1>11, <2>1 DEF TimeInv, MissInv
  <2>3. Ahead(r, x) => Ahead(r, x)'
    BY <1>1, <1>6 DEF Ahead
  <2>4. Diff(c_time[x], cc_softticks[r]) >= 0 => Diff(c_time[x], cc_softticks'[r]) >= 0
    BY <1>1, <1>5, <1>9, <1>11, <2>1
  <2> QED
    BY <1>1, <2>1, <2>2, <2>3, <2>4 DEF Ahead, Mark
<1> QED
  BY <1>10, <1>11 DEF TimeInv, MissInv

LEMMA ClientTimes ==
  ASSUME Core, TimeInv, NEW t \in Client,
         \/ Drain(t) \/ DrainSq(t) \/ DrainWoken(t) \/ (\E x \in Calls : DrainCall(t, x))
         \/ (\E l \in Lock : ClientLock(t, l) \/ ClientUnlock(t, l))
  PROVE  TimeInv'
<1>1. CASE Drain(t)
  <2>1. /\ UNCHANGED <<c_cpu, cc_softticks, cc_lock, curticks, local>> /\ ~cc_lock[c_cpu[c[t]]]
        /\ pc[t] \in {"drain", "drain_locked"} /\ (DrainLeave(t) \/ DrainStay(t))
        /\ \/ c_pending[c[t]] /\ Dequeue(c[t])
           \/ UNCHANGED <<cc_callwheel, cc_next, c_pending, c_time>>
    BY <1>1, DrainForms
  <2>2. c[t] \in Calls /\ c[t] \notin local
    BY <2>1, Threads DEF Core, WalkInv, ClientOf, TypeOK
  <2>3. \A p \in Cpu : c'[p] = c[p]
    BY <2>1, <2>2, DrainTypes
  <2>4. CASE c_pending[c[t]] /\ Dequeue(c[t])
    <3>1. Requeued(c[t])
      BY <2>1, <2>2, <2>4, DequeueRequeues
    <3> QED
      BY <2>1, <2>2, <2>3, <3>1, TimeRequeued
  <2>5. CASE UNCHANGED <<cc_callwheel, cc_next, c_pending, c_time>>
    BY <2>1, <2>3, <2>5, TimeQuiet DEF Mark
  <2> QED
    BY <2>1, <2>4, <2>5
<1>2. CASE ~Drain(t)
  <2>1. /\ UNCHANGED <<cc_softticks, curticks, cc_callwheel, c_pending, c_time, c_cpu, cc_lock, cc_next>>
        /\ UNCHANGED c \/ \E x : c' = [c EXCEPT ![t] = x]
    BY <1>2 DEF DrainSq, DrainWoken, DrainReturn, DrainCall, ClientLock, ClientUnlock, wheelVars, cpuVars,
       localVars
  <2>2. \A p \in Cpu : c'[p] = c[p]
    BY <2>1, Threads DEF Core, TypeOK
  <2> QED
    BY <2>1, <2>2, TimeQuiet DEF Mark
<1> QED
  BY <1>1, <1>2

LEMMA NextTimes ==
  ASSUME Core, TimeInv, [Next]_vars
  PROVE  TimeInv'
<1>1. CASE UNCHANGED vars \/ HardTick
  <2>1. UNCHANGED <<cc_softticks, curticks, cc_callwheel, c_pending, c_time, c_cpu, cc_lock, cc_next, c>>
    BY <1>1 DEF vars, HardTick, wheelVars, cpuVars, localVars
  <2> QED
    BY <2>1, TimeQuiet DEF Mark
<1>2. CASE \E p \in Cpu : callout_tick(p) \/ Soft(p)
  BY <1>2, TickTimes, SoftTimes, BucketTimes
<1>3. CASE \E t \in Client : \/ Drain(t) \/ DrainSq(t) \/ DrainWoken(t)
                             \/ \E x \in Calls : DrainCall(t, x)
                             \/ \E l \in Lock : ClientLock(t, l) \/ ClientUnlock(t, l)
  BY <1>3, ClientTimes
<1>4. ASSUME NEW t \in Client, NEW x \in Calls, Stop(t, x) PROVE TimeInv'
  <2>1. /\ UNCHANGED <<cc_softticks, cc_lock, curticks, c, c_cpu>> /\ ~cc_lock[c_cpu[x]]
        /\ \/ c_pending[x] /\ Dequeue(x)
           \/ UNCHANGED <<cc_callwheel, cc_next, c_pending, c_time>>
    BY <1>4 DEF Stop, localVars
  <2>2. CASE c_pending[x] /\ Dequeue(x)
    BY <2>1, <2>2, DequeueRequeues, TimeRequeued
  <2>3. CASE UNCHANGED <<cc_callwheel, cc_next, c_pending, c_time>>
    BY <2>1, <2>3, TimeQuiet DEF Mark
  <2> QED
    BY <2>1, <2>2, <2>3
<1>5. ASSUME NEW t \in Thread, NEW x \in Calls, NEW to \in Delays, NEW cpu \in Cpu,
             ResetPass(t, x, to, cpu)
      PROVE  TimeInv'
  <2>1. UNCHANGED <<cc_softticks, cc_lock, curticks, c>>
    BY <1>5 DEF ResetPass
  <2>2. Requeued(x)
    BY <1>5, ResetRequeues
  <2> QED
    BY <2>1, <2>2, TimeRequeued
<1> QED
  BY <1>1, <1>2, <1>3, <1>4, <1>5, Steps, Zenon

\* The second part of the inductive invariant: where the times of the pending
\* callouts and the buckets of the walks are, relative to cc_softticks.
THEOREM TimeHolds == Spec => [](Core /\ TimeInv)
<1>1. Init => TimeInv
  BY Threads DEF Init, TimeInv, SpanInv, MissInv, Mark
<1>2. Core /\ TimeInv /\ [Next]_vars => TimeInv'
  BY NextTimes
<1> QED
  BY <1>1, <1>2, CoreHolds, PTL DEF Spec

\* NoMissedCallout: the time of a pending callout is not behind cc_softticks, unless
\* softclock() is on its way to it, although the clock interrupt skips buckets while
\* softclock() has dropped the lock, and although ticks wraps.
THEOREM NoMissedCalloutHolds == Spec => []NoMissedCallout
<1>1. ASSUME Core, TimeInv PROVE NoMissedCallout
  <2> SUFFICES ASSUME NEW x \in Calls, c_pending[x],
                      ~(Diff(c_time[x], cc_softticks[c_cpu[x]]) >= 0)
               PROVE  StillAhead(c_cpu[x], x)
    BY DEF NoMissedCallout
  <2>1. c_cpu[x] \in Cpu /\ c_time[x] = curticks[c_cpu[x]] /\ Ahead(c_cpu[x], x)
    BY <1>1 DEF Core, TypeOK, TimeInv, MissInv
  <2>2. pc[c_cpu[x]] # "idle"
    BY <1>1, <2>1 DEF Core, WalkInv, WalkOf, Ahead, Mark
  <2> QED
    BY <2>1, <2>2 DEF StillAhead, At, Ahead, Mark, Before
<1> QED
  BY <1>1, TimeHolds, PTL

\* NotEarly: softclock() makes a callout its current one only when its time is past.
THEOREM NotEarlyHolds == Spec => NotEarly
<1>1. ASSUME Core, TimeInv, Next, NEW p \in Cpu, cc_curr'[p] # cc_curr[p], cc_curr'[p] # NULL
      PROVE  Diff(ticks, c_time[cc_curr'[p]]) > 0
  <2>1. SoftFire(p)
    <3>1. PICK q \in Cpu : Soft(q)
      <4>1. HardTick => UNCHANGED cc_curr
        BY DEF HardTick, cpuVars
      <4>2. \A q \in Cpu : callout_tick(q) => UNCHANGED cc_curr
        BY DEF callout_tick
      <4>3. \A t \in Client : Drain(t) => UNCHANGED cc_curr
        BY DEF Drain
      <4>4. \A t \in Client : \/ DrainSq(t) \/ DrainWoken(t) \/ (\E x \in Calls : DrainCall(t, x))
                              \/ (\E l \in Lock : ClientLock(t, l) \/ ClientUnlock(t, l))
                              => UNCHANGED cc_curr
        BY DEF DrainSq, DrainWoken, DrainCall, ClientLock, ClientUnlock, cpuVars
      <4>5. \A t \in Client, x \in Calls : Stop(t, x) => UNCHANGED cc_curr
        BY DEF Stop
      <4>6. \A t \in Thread, x \in Calls, to \in Delays, cpu \in Cpu :
              ResetPass(t, x, to, cpu) => UNCHANGED cc_curr
        BY DEF ResetPass
      <4> QED
        BY <1>1, <4>1, <4>2, <4>3, <4>4, <4>5, <4>6, Steps
    <3>2. \/ UNCHANGED cc_curr
          \/ cc_curr' = [cc_curr EXCEPT ![q] = NULL]
          \/ SoftFire(q) /\ cc_curr' = [cc_curr EXCEPT ![q] = c[q]]
      BY <3>1 DEF Soft, SoftStart, SoftBucket, SoftSkip, SoftRelock, SoftFire, SoftGetLock, SoftCheck,
         SoftArm, HandlerUnlock, SoftReturn, SoftDone, SoftWakeup, cpuVars
    <3> QED
      BY <1>1, <3>2 DEF Core, TypeOK
  <2>2. /\ pc[p] = "scan" /\ c[p] # NULL /\ c_time[c[p]] = curticks[p]
        /\ cc_curr' = [cc_curr EXCEPT ![p] = c[p]]
    BY <2>1 DEF SoftFire, At, Due
  <2>3. cc_curr'[p] = c[p] /\ cc_lock[p]
    BY <1>1, <2>2 DEF Core, TypeOK, WalkInv, WalkOf
  <2> DEFINE s == cc_softticks[p]  u == curticks[p]  d == Diff(ticks, s)  e == Diff(s, u)
  <2>4. e \in 1..WHEEL /\ d \in 0..MAX_LAG
    BY <1>1, <2>2, <2>3 DEF TimeInv, SpanInv, Mark, Core, LagInv
  <2>5. ticks \in Ticks /\ s \in Ticks /\ u \in Ticks
    BY <1>1 DEF Core, TypeOK
  <2>6. 0 - Half <= d + e /\ d + e < TICK_MOD - Half /\ d + e > 0
    <3> HIDE DEF d, e
    <3> QED
      BY <2>4, Sizes
  <2>7. Diff(ticks, u) = d + e
    BY <2>5, <2>6, DiffAdds
  <2> QED
    BY <2>2, <2>3, <2>6, <2>7
<1>2. ASSUME Core, TimeInv, [Next]_vars
      PROVE  [\A p \in Cpu : (cc_curr'[p] # cc_curr[p] /\ cc_curr'[p] # NULL) =>
                Diff(ticks, c_time[cc_curr'[p]]) > 0]_vars
  BY <1>1, <1>2
<1> QED
  BY <1>2, TimeHolds, PTL DEF Spec, NotEarly
-----------------------------------------------------------------------------
(***************************************************************************)
(* The table of timeout().                                                 *)
(***************************************************************************)

\* An entry goes back to the head of the free list.
LEMMA PrependJoins ==
  ASSUME NEW T, NEW q \in Seq(T), NEW x \in T
  PROVE  /\ <<x>> \o q \in Seq(T) /\ ToSet(<<x>> \o q) = ToSet(q) \cup {x}
         /\ Injective(q) /\ x \notin ToSet(q) => Injective(<<x>> \o q)
<1> DEFINE r == <<x>> \o q
<1>1. <<x>> \in Seq(T) /\ Len(<<x>>) = 1 /\ <<x>>[1] = x
  OBVIOUS
<1>2. Len(q) \in Nat /\ \A i \in 1..Len(q) : q[i] \in T
  BY SetOfSeq
<1>3. r \in Seq(T) /\ Len(r) = Len(q) + 1
  BY <1>1, <1>2, ConcatProperties
<1>4. \A i \in 1..(Len(q) + 1) : r[i] = IF i = 1 THEN x ELSE q[i - 1]
  BY <1>1, <1>2, ConcatProperties
<1> HIDE DEF r
<1>5. 1 \in 1..(Len(q) + 1) /\ PutIn(q, r, 1, x)
  BY <1>2, <1>4 DEF PutIn
<1>6. ToSet(r) = ToSet(q) \cup {x} /\ (Injective(q) /\ x \notin ToSet(q) => Injective(r))
  BY <1>3, <1>5, PutInJoins
<1> QED
  BY <1>3, <1>6 DEF r

\* The first entry is taken from the free list.
LEMMA TailLeaves ==
  ASSUME NEW T, NEW q \in Seq(T), q # <<>>, Injective(q)
  PROVE  ToSet(Tail(q)) = ToSet(q) \ {Head(q)} /\ Injective(Tail(q))
<1> DEFINE r == Tail(q)
<1>1. Len(q) \in Nat /\ Len(q) # 0
  BY EmptySeqIs, SetOfSeq
<1>2. r \in Seq(T) /\ Len(r) = Len(q) - 1 /\ Head(q) = q[1]
  BY <1>1
<1>3. \A i \in 1..(Len(q) - 1) : r[i] = q[i + 1]
  BY <1>1
<1> HIDE DEF r
<1>4. 1 \in 1..Len(q) /\ TakenOut(q, r, 1)
  BY <1>1, <1>3 DEF TakenOut
<1>5. ToSet(r) = ToSet(q) \ {q[1]} /\ Injective(r)
  BY <1>2, <1>4, TakenOutLeaves
<1> QED
  BY <1>2, <1>5 DEF r

\* An entry never moves; it is free unless it is pending or current; and it has a
\* function unless it is free.
EntryOf(x) ==
  /\ c_cpu[x] = timeout_cpu
  /\ x \in ToSet(cc_callfree) <=> ~c_pending[x] /\ \A p \in Cpu : cc_curr[p] # x
  /\ c_func[x] = NULL <=> x \in ToSet(cc_callfree)
  /\ \A p \in Cpu : cc_curr[p] = x => p = timeout_cpu /\ ~c_pending[x]

TableInv ==
  /\ \A x \in local : EntryOf(x)
  /\ Injective(cc_callfree)
  /\ \A t \in Thread : req[t] # NULL => req[t].c \notin local

\* A step that concerns no entry of the table.
LEMMA TableOthers ==
  ASSUME Core, TableInv, UNCHANGED <<local, cc_callfree, c_func>>,
         \A y \in local : /\ c_pending'[y] = c_pending[y] /\ c_cpu'[y] = c_cpu[y]
                          /\ \A p \in Cpu : cc_curr'[p] = y <=> cc_curr[p] = y,
         \A t \in Thread : req'[t] # NULL => req'[t] = req[t] \/ req'[t].c \notin local
  PROVE  TableInv'
<1>1. ASSUME NEW x \in local PROVE EntryOf(x)'
  BY DEF TableInv, EntryOf
<1>2. Injective(cc_callfree)'
  BY DEF TableInv
<1>3. ASSUME NEW t \in Thread, req'[t] # NULL PROVE req'[t].c \notin local
  BY <1>3 DEF TableInv
<1> QED
  BY <1>1, <1>2, <1>3 DEF TableInv

\* A step that gives entry x back: pending or current before, neither after.
LEMMA TableReleases ==
  ASSUME Core, TableInv, NEW x \in Calls, Release(x), UNCHANGED <<local, c_cpu, req>>,
         c_pending[x] \/ \E p \in Cpu : cc_curr[p] = x,
         \A y \in Calls \ {x} : /\ c_pending'[y] = c_pending[y]
                                /\ \A p \in Cpu : cc_curr'[p] = y <=> cc_curr[p] = y,
         x \in local => ~c_pending'[x] /\ \A p \in Cpu : cc_curr'[p] # x
  PROVE  TableInv'
<1>1. CASE x \notin local
  <2>1. UNCHANGED <<c_func, cc_callfree>>
    BY <1>1, ReleaseTypes DEF Core
  <2>2. \A y \in local : y \in Calls \ {x}
    BY <1>1, CalloutAssumption DEF Core, TypeOK
  <2> QED
    BY <2>1, <2>2, TableOthers
<1>2. CASE x \in local
  <2>1. /\ c_func' = [c_func EXCEPT ![x] = NULL] /\ cc_callfree' = <<x>> \o cc_callfree
        /\ cc_callfree \in Seq(local) /\ c_func \in [Calls -> Request \cup {NULL}]
        /\ local \subseteq Calls
    BY <1>2, CalloutAssumption DEF Core, TypeOK, Release
  <2>2. x \notin ToSet(cc_callfree) /\ Injective(cc_callfree)
    BY <1>2 DEF TableInv, EntryOf
  <2>3. ToSet(cc_callfree') = ToSet(cc_callfree) \cup {x} /\ Injective(cc_callfree')
    BY <1>2, <2>1, <2>2, PrependJoins
  <2>4. c_func'[x] = NULL /\ \A y \in Calls \ {x} : c_func'[y] = c_func[y]
    BY <2>1
  <2>5. EntryOf(x)'
    BY <1>2, <2>3, <2>4 DEF TableInv, EntryOf
  <2>6. ASSUME NEW y \in local, y # x PROVE EntryOf(y)'
    <3>1. EntryOf(y) /\ y \in Calls \ {x} /\ c_func'[y] = c_func[y]
          /\ (y \in ToSet(cc_callfree') <=> y \in ToSet(cc_callfree))
      BY <2>1, <2>3, <2>4, <2>6 DEF TableInv
    <3> QED
      BY <3>1 DEF EntryOf
  <2> QED
    BY <2>3, <2>5, <2>6 DEF TableInv
<1> QED
  BY <1>1, <1>2

LEMMA SoftTables ==
  ASSUME Core, TableInv, NEW p \in Cpu, Soft(p)
  PROVE  TableInv'
<1>1. CASE SoftDone(p)
  <2>1. /\ UNCHANGED <<local, c_cpu, req, c_pending>> /\ pc[p] = "done" /\ Release(c[p])
        /\ cc_curr' = [cc_curr EXCEPT ![p] = NULL]
    BY <1>1 DEF SoftDone, wheelVars, At
  <2>2. c[p] \in Calls /\ cc_curr[p] = c[p] /\ cc_curr \in [Cpu -> Calls \cup {NULL}]
    BY <2>1, Threads DEF Core, WalkInv, WalkOf, Current, TypeOK
  <2>3. /\ cc_curr'[p] = NULL /\ \A r \in Cpu \ {p} : cc_curr'[r] = cc_curr[r]
        /\ NULL \notin Calls
    BY <2>1, <2>2, Threads
  <2>4. \A y \in Calls \ {c[p]}, r \in Cpu : cc_curr'[r] = y <=> cc_curr[r] = y
    BY <2>2, <2>3
  <2>5. ASSUME c[p] \in local PROVE ~c_pending'[c[p]] /\ \A r \in Cpu : cc_curr'[r] # c[p]
    <3>1. /\ p = timeout_cpu /\ ~c_pending[c[p]]
          /\ \A r \in Cpu : cc_curr[r] = c[p] => r = timeout_cpu
      BY <2>2, <2>5 DEF TableInv, EntryOf
    <3> QED
      BY <2>1, <2>2, <2>3, <3>1
  <2>6. PICK x \in Calls : x = c[p]
    BY <2>2
  <2> QED
    BY <2>1, <2>2, <2>4, <2>5, <2>6, TableReleases
<1>2. CASE SoftFire(p)
  <2>1. /\ pc[p] = "scan" /\ c[p] \in Calls /\ c_pending[c[p]] /\ c_cpu[c[p]] = p
        /\ \A y \in Calls \ {c[p]} : c_pending'[y] = c_pending[y]
        /\ ~c_pending'[c[p]] /\ UNCHANGED c_cpu
    BY <1>2, FireEffect
  <2>2. /\ UNCHANGED <<local, cc_callfree, c_func, req>> /\ cc_curr' = [cc_curr EXCEPT ![p] = c[p]]
    BY <1>2 DEF SoftFire, localVars, handleVars, tableVars
  <2>3. cc_curr[p] = NULL /\ NULL \notin Calls /\ local \subseteq Calls
    BY <2>1, Threads, CalloutAssumption DEF Core, WalkInv, WalkOf, Current, TypeOK
  <2>4. cc_curr'[p] = c[p] /\ \A r \in Cpu \ {p} : cc_curr'[r] = cc_curr[r]
    BY <2>2 DEF Core, TypeOK
  <2>5. ASSUME NEW y \in local, y # c[p] PROVE EntryOf(y)'
    <3>1. EntryOf(y) /\ c_pending'[y] = c_pending[y] /\ \A r \in Cpu : cc_curr'[r] = y <=> cc_curr[r] = y
      BY <2>1, <2>3, <2>4, <2>5 DEF TableInv
    <3> QED
      BY <2>1, <2>2, <3>1 DEF EntryOf
  <2>6. ASSUME NEW y \in local, y = c[p] PROVE EntryOf(y)'
    <3>1. EntryOf(y) /\ ~c_pending'[y] /\ c_pending[y] /\ cc_curr'[p] = y /\ p = timeout_cpu
      BY <2>1, <2>4, <2>6 DEF TableInv, EntryOf
    <3>2. \A r \in Cpu : cc_curr'[r] = y => r = timeout_cpu
      BY <2>4, <3>1 DEF EntryOf
    <3> QED
      BY <2>1, <2>2, <3>1, <3>2 DEF EntryOf
  <2> QED
    BY <2>2, <2>5, <2>6 DEF TableInv
<1>3. CASE ~SoftDone(p) /\ ~SoftFire(p)
  <2>1. UNCHANGED <<local, c_cpu, req, c_pending, cc_curr, cc_callfree, c_func>>
    BY <1>3 DEF Soft, SoftStart, SoftBucket, SoftSkip, SoftRelock, SoftGetLock, SoftCheck, SoftArm,
       HandlerUnlock, SoftReturn, SoftWakeup, wheelVars, cpuVars, localVars, handleVars, tableVars
  <2> QED
    BY <2>1, TableOthers
<1> QED
  BY <1>1, <1>2, <1>3

LEMMA StopTables ==
  ASSUME Core, TableInv, NEW x \in Calls, ~cc_lock[c_cpu[x]], UNCHANGED <<local, c_cpu, req, cc_curr>>,
         \/ c_pending[x] /\ Dequeue(x)
         \/ UNCHANGED <<c_pending, cc_callfree, c_func>>
  PROVE  TableInv'
<1>1. CASE c_pending[x] /\ Dequeue(x)
  <2>1. c_pending' = [c_pending EXCEPT ![x] = FALSE] /\ Release(x)
    BY <1>1 DEF Dequeue
  <2>2. ~c_pending'[x] /\ \A y \in Calls \ {x} : c_pending'[y] = c_pending[y]
    BY <2>1 DEF Core, TypeOK
  <2>3. x \in local => \A p \in Cpu : cc_curr'[p] # x
    BY <1>1 DEF TableInv, EntryOf
  <2> QED
    BY <1>1, <2>1, <2>2, <2>3, TableReleases
<1>2. CASE UNCHANGED <<c_pending, cc_callfree, c_func>>
  BY <1>2, TableOthers
<1> QED
  BY <1>1, <1>2

\* A reset that is not timeout()'s is of a callout outside the table.
LEMMA ResetTables ==
  ASSUME Core, TableInv, NEW t \in Thread, NEW x \in Calls, x \notin local, NEW to \in Delays,
         NEW cpu \in Cpu, ResetPass(t, x, to, cpu), UNCHANGED handleVars
  PROVE  TableInv'
<1>1. UNCHANGED <<local, cc_callfree, c_func, cc_curr>>
  BY DEF ResetPass, handleVars, tableVars
<1>2. \A y \in Calls \ {x} : c_pending'[y] = c_pending[y] /\ c_cpu'[y] = c_cpu[y]
  BY ResetRequeues DEF Requeued
<1>3. \A y \in local : y \in Calls \ {x}
  BY CalloutAssumption DEF Core, TypeOK
<1>4. \/ req' = [req EXCEPT ![t] = NULL]
      \/ req' = [req EXCEPT ![t] = [c |-> x, to |-> to, cpu |-> cpu]]
  BY DEF ResetPass
<1>5. \A s \in Thread : req'[s] # NULL => req'[s] = req[s] \/ req'[s].c \notin local
  BY <1>4 DEF Core, TypeOK
<1> QED
  BY <1>1, <1>2, <1>3, <1>5, TableOthers

\* timeout() takes a free entry: it is not pending or current, so the reset is neither
\* refused nor cancels anything, and goes to the CPU the entry is on.
LEMMA TimeoutTables ==
  ASSUME Core, TableInv, NEW t \in Thread, NEW r \in Request, NEW to \in Delays, timeout(t, r, to)
  PROVE  TableInv'
<1>0. PICK x \in local : x = Head(cc_callfree)
  BY TimeoutTakes
<1>1. /\ x \in Calls /\ x \in ToSet(cc_callfree) /\ UNCHANGED local
      /\ cc_callfree' = Tail(cc_callfree) /\ c_func' = [c_func EXCEPT ![x] = r]
  BY <1>0, TimeoutTakes
<1>2. /\ ToSet(cc_callfree') = ToSet(cc_callfree) \ {x} /\ Injective(cc_callfree')
  <2>1. cc_callfree \in Seq(local) /\ cc_callfree # <<>> /\ Injective(cc_callfree)
    BY DEF Core, TypeOK, timeout, TableInv
  <2> QED
    BY <1>0, <1>1, <2>1, TailLeaves
<1>3. ResetPass(t, x, to, c_cpu[x])
  BY <1>0 DEF timeout
<1>4. EntryOf(x) /\ c_cpu[x] = timeout_cpu /\ timeout_cpu \in Cpu /\ cc_curr[timeout_cpu] # x
  BY <1>1, CalloutAssumption DEF TableInv, EntryOf
<1>5. /\ c_pending' = [c_pending EXCEPT ![x] = TRUE] /\ UNCHANGED <<c_cpu, cc_curr>>
      /\ req' = [req EXCEPT ![t] = NULL]
  BY <1>3, <1>4 DEF ResetPass
<1>6. c_pending'[x] /\ \A y \in Calls \ {x} : c_pending'[y] = c_pending[y]
  BY <1>1, <1>5 DEF Core, TypeOK
<1>7. c_func'[x] # NULL /\ \A y \in Calls \ {x} : c_func'[y] = c_func[y]
  BY <1>1, CalloutAssumption DEF Core, TypeOK
<1>8. EntryOf(x)'
  BY <1>1, <1>2, <1>4, <1>5, <1>6, <1>7 DEF EntryOf
<1>9. ASSUME NEW y \in local, y # x PROVE EntryOf(y)'
  <2>1. /\ EntryOf(y) /\ c_pending'[y] = c_pending[y] /\ c_func'[y] = c_func[y]
        /\ y \in ToSet(cc_callfree') <=> y \in ToSet(cc_callfree)
    BY <1>2, <1>6, <1>7, <1>9, CalloutAssumption DEF Core, TypeOK, TableInv
  <2> QED
    BY <1>5, <2>1 DEF EntryOf
<1>10. \A s \in Thread : req'[s] # NULL => req'[s].c \notin local
  BY <1>5 DEF Core, TypeOK, TableInv
<1> QED
  BY <1>1, <1>2, <1>8, <1>9, <1>10 DEF TableInv

\* The callers of callout_reset_on() other than timeout() keep out of the table.
LEMMA NextTables ==
  ASSUME Core, TableInv, [Next]_vars
  PROVE  TableInv'
<1>1. CASE UNCHANGED vars \/ HardTick \/ \E p \in Cpu : callout_tick(p)
  <2>1. UNCHANGED <<local, c_cpu, req, c_pending, cc_curr, cc_callfree, c_func>>
    BY <1>1 DEF vars, HardTick, callout_tick, wheelVars, cpuVars, localVars, handleVars, tableVars
  <2> QED
    BY <2>1, TableOthers
<1>2. CASE \E p \in Cpu : Soft(p)
  BY <1>2, SoftTables
<1>3. ASSUME NEW t \in Client, Drain(t) PROVE TableInv'
  <2>1. c[t] \in Calls
    BY <1>3, DrainForms, Threads DEF Core, WalkInv, ClientOf, TypeOK
  <2>2. PICK x \in Calls : x = c[t]
    BY <2>1
  <2>3. /\ UNCHANGED <<local, c_cpu, req, cc_curr>> /\ ~cc_lock[c_cpu[x]]
        /\ \/ c_pending[x] /\ Dequeue(x)
           \/ UNCHANGED <<c_pending, cc_callfree, c_func>>
    BY <1>3, <2>2, DrainForms
  <2> QED
    BY <2>3, StopTables
<1>4. ASSUME NEW t \in Client,
             \/ DrainSq(t) \/ DrainWoken(t) \/ \E x \in Calls : DrainCall(t, x)
             \/ \E l \in Lock : ClientLock(t, l) \/ ClientUnlock(t, l)
      PROVE  TableInv'
  <2>1. UNCHANGED <<local, c_cpu, req, c_pending, cc_curr, cc_callfree, c_func>>
    BY <1>4 DEF DrainSq, DrainWoken, DrainCall, ClientLock, ClientUnlock, wheelVars, cpuVars, localVars,
       handleVars, tableVars
  <2> QED
    BY <2>1, TableOthers
<1>5. ASSUME NEW t \in Client, NEW x \in Calls, Stop(t, x) PROVE TableInv'
  <2>1. /\ UNCHANGED <<local, c_cpu, req, cc_curr>> /\ ~cc_lock[c_cpu[x]]
        /\ \/ c_pending[x] /\ Dequeue(x)
           \/ UNCHANGED <<c_pending, cc_callfree, c_func>>
    BY <1>5 DEF Stop, localVars, tableVars
  <2> QED
    BY <2>1, StopTables
<1>6. ASSUME NEW t \in Thread, ResetRetry(t) PROVE TableInv'
  <2>1. req[t] \in [c : Calls, to : Delays, cpu : Cpu] /\ req[t].c \notin local
    BY <1>6 DEF ResetRetry, Core, TypeOK, TableInv
  <2>2. req[t].c \in Calls /\ req[t].to \in Delays /\ req[t].cpu \in Cpu
    BY <2>1
  <2>3. PICK x \in Calls, to \in Delays, cpu \in Cpu : x = req[t].c /\ to = req[t].to /\ cpu = req[t].cpu
    BY <2>2
  <2> QED
    BY <1>6, <2>1, <2>3, ResetTables DEF ResetRetry
<1>7. ASSUME NEW t \in Thread, NEW x \in Calls, NEW to \in Delays, NEW cpu \in Targets, Reset(t, x, to, cpu)
      PROVE  TableInv'
  <2>1. cpu \in Cpu /\ x \notin local /\ ResetPass(t, x, to, cpu) /\ UNCHANGED handleVars
    BY <1>7, CalloutAssumption DEF Reset
  <2> QED
    BY <2>1, ResetTables
<1>8. ASSUME NEW t \in Thread, NEW r \in Request, NEW to \in Delays, timeout(t, r, to) PROVE TableInv'
  BY <1>8, TimeoutTables
<1>9. ASSUME NEW t \in Client, NEW r \in Request, untimeout(t, r) PROVE TableInv'
  <2>1. handle[r] \in Calls
    BY <1>9, CalloutAssumption DEF Core, TypeOK, untimeout
  <2> QED
    BY <1>5, <1>9, <2>1 DEF untimeout
<1>10. ASSUME NEW t \in Client, NEW x \in Calls, callout_stop(t, x) PROVE TableInv'
  BY <1>5, <1>10 DEF callout_stop
<1> QED
  BY <1>1, <1>2, <1>3, <1>4, <1>6, <1>7, <1>8, <1>9, <1>10 DEF Next, Step, Call

\* TableConserved: an entry of timeout()'s table is on the free list, once and without
\* a function, exactly while it is neither pending nor current, whatever timeout(),
\* untimeout() with a stale handle and softclock() do in between.
THEOREM TableConservedHolds == Spec => []TableConserved
<1>1. Init => TableInv
  <2> SUFFICES ASSUME Init PROVE TableInv
    OBVIOUS
  <2>1. local \subseteq Calls /\ IsFiniteSet(local)
    <3>1. local \subseteq Calls
      BY CalloutAssumption DEF Init
    <3> QED
      BY <3>1, CalloutAssumption, FS_Subset
  <2>2. Injective(cc_callfree) /\ ToSet(cc_callfree) = local
    BY <2>1, SetToSeqLists DEF Init
  <2>3. \A x \in local : c_cpu[x] = timeout_cpu /\ c_func[x] = NULL /\ ~c_pending[x]
    BY <2>1 DEF Init
  <2>4. \A p \in Cpu, x \in local : cc_curr[p] # x
    BY <2>1, Threads DEF Init
  <2>5. \A t \in Thread : req[t] = NULL
    BY DEF Init
  <2> QED
    BY <2>2, <2>3, <2>4, <2>5 DEF TableInv, EntryOf
<1>2. Core /\ TableInv /\ [Next]_vars => TableInv'
  BY NextTables
<1>3. Core /\ TableInv => TableConserved
  <2> SUFFICES ASSUME Core, TableInv, NEW x \in local
               PROVE  /\ Cardinality({i \in DOMAIN cc_callfree : cc_callfree[i] = x}) =
                           IF c_pending[x] \/ (\E p \in Cpu : cc_curr[p] = x) THEN 0 ELSE 1
                      /\ c_func[x] = NULL <=> x \in ToSet(cc_callfree)
    BY DEF TableConserved
  <2>1. cc_callfree \in Seq(local) /\ Injective(cc_callfree) /\ EntryOf(x)
    BY DEF Core, TypeOK, TableInv
  <2>2. Cardinality({i \in DOMAIN cc_callfree : cc_callfree[i] = x}) = IF x \in ToSet(cc_callfree) THEN 1 ELSE 0
    BY <2>1, CountInSeq
  <2> QED
    BY <2>1, <2>2 DEF EntryOf
<1> QED
  BY <1>1, <1>2, <1>3, CoreHolds, PTL DEF Spec

-----------------------------------------------------------------------------
(***************************************************************************)
(* callout_drain(), where no callout is moved to another CPU.              *)
(***************************************************************************)
StayInv ==
  /\ \A x \in Calls : c_cpu[x] = timeout_cpu
  /\ \A t \in Thread : req[t] = NULL
  /\ \A p \in Cpu : cc_curr[p] # NULL => p = timeout_cpu
  /\ \A t \in Client : dcc[t] = timeout_cpu

LEMMA SoftStays ==
  ASSUME Core, StayInv, NEW p \in Cpu, Soft(p)
  PROVE  StayInv'
<1>1. UNCHANGED <<c_cpu, req, dcc>>
  BY DEF Soft, SoftStart, SoftBucket, SoftSkip, SoftRelock, SoftFire, SoftGetLock, SoftCheck, SoftArm,
     HandlerUnlock, SoftReturn, SoftDone, SoftWakeup, wheelVars, localVars
<1>2. \A q \in Cpu : cc_curr'[q] # NULL => q = timeout_cpu
  <2>1. CASE SoftFire(p)
    <3>1. c[p] \in Calls /\ c_cpu[c[p]] = p
      BY <2>1, FireEffect
    <3>2. cc_curr' = [cc_curr EXCEPT ![p] = c[p]] /\ p = timeout_cpu
      BY <2>1, <3>1 DEF SoftFire, StayInv
    <3> QED
      BY <3>2 DEF Core, TypeOK, StayInv
  <2>2. CASE ~SoftFire(p)
    <3>1. UNCHANGED cc_curr \/ cc_curr' = [cc_curr EXCEPT ![p] = NULL]
      BY <2>2 DEF Soft, SoftStart, SoftBucket, SoftSkip, SoftRelock, SoftGetLock, SoftCheck, SoftArm,
         HandlerUnlock, SoftReturn, SoftDone, SoftWakeup, cpuVars
    <3> QED
      BY <3>1 DEF Core, TypeOK, StayInv
  <2> QED
    BY <2>1, <2>2
<1> QED
  BY <1>1, <1>2 DEF StayInv

\* A pass of a reset stays on the one CPU, or is refused.
LEMMA ResetStays ==
  ASSUME Core, StayInv, NEW t \in Thread, NEW x \in Calls, NEW to \in Delays,
         ResetPass(t, x, to, timeout_cpu)
  PROVE  StayInv'
<1>1. c_cpu[x] = timeout_cpu
  BY DEF StayInv
<1>2. UNCHANGED <<cc_curr, dcc, c_cpu>> /\ req' = [req EXCEPT ![t] = NULL]
  BY <1>1 DEF ResetPass, wheelVars
<1>3. \A s \in Thread : req'[s] = NULL
  BY <1>2 DEF Core, TypeOK, StayInv
<1> QED
  BY <1>2, <1>3 DEF StayInv

LEMMA ClientStays ==
  ASSUME Core, StayInv, NEW t \in Client,
         \/ Drain(t) \/ DrainSq(t) \/ DrainWoken(t) \/ (\E x \in Calls : DrainCall(t, x))
         \/ (\E l \in Lock : ClientLock(t, l) \/ ClientUnlock(t, l))
  PROVE  StayInv'
<1>1. UNCHANGED <<c_cpu, req, cc_curr>>
  BY DEF Drain, DrainSq, DrainWoken, DrainCall, ClientLock, ClientUnlock, wheelVars, cpuVars, localVars
<1>2. UNCHANGED dcc \/ dcc' = [dcc EXCEPT ![t] = timeout_cpu]
  <2>1. CASE Drain(t)
    <3>1. pc[t] \in {"drain", "drain_locked"} /\ (DrainLeave(t) \/ DrainStay(t))
      BY <2>1, DrainForms
    <3>2. c[t] \in Calls
      BY <3>1, Threads DEF Core, WalkInv, ClientOf, TypeOK
    <3>3. c_cpu[c[t]] = timeout_cpu
      BY <3>2 DEF StayInv
    <3> QED
      BY <3>1, <3>3 DEF DrainLeave, DrainStay, DrainReturn
  <2>2. CASE ~Drain(t)
    BY <2>2 DEF DrainSq, DrainWoken, DrainReturn, DrainCall, ClientLock, ClientUnlock, localVars
  <2> QED
    BY <2>1, <2>2
<1>3. \A s \in Client : dcc'[s] = timeout_cpu
  BY <1>2 DEF Core, TypeOK, StayInv
<1> QED
  BY <1>1, <1>3 DEF StayInv

LEMMA NextStays ==
  ASSUME Targets \subseteq {timeout_cpu}, Core, StayInv, [Next]_vars
  PROVE  StayInv'
<1>1. CASE UNCHANGED vars \/ HardTick \/ \E p \in Cpu : callout_tick(p)
  <2>1. UNCHANGED <<c_cpu, req, cc_curr, dcc>>
    BY <1>1 DEF vars, HardTick, callout_tick, wheelVars, cpuVars, localVars
  <2> QED
    BY <2>1 DEF StayInv
<1>2. CASE \E p \in Cpu : Soft(p)
  BY <1>2, SoftStays
<1>3. CASE \E t \in Client : \/ Drain(t) \/ DrainSq(t) \/ DrainWoken(t)
                             \/ \E x \in Calls : DrainCall(t, x)
                             \/ \E l \in Lock : ClientLock(t, l) \/ ClientUnlock(t, l)
  BY <1>3, ClientStays
<1>4. ASSUME NEW t \in Client, NEW x \in Calls, Stop(t, x) PROVE StayInv'
  <2>1. UNCHANGED <<c_cpu, req, cc_curr, dcc>>
    BY <1>4 DEF Stop, localVars
  <2> QED
    BY <2>1 DEF StayInv
<1>5. ASSUME NEW t \in Thread, NEW x \in Calls, NEW to \in Delays, NEW cpu \in Targets, Reset(t, x, to, cpu)
      PROVE  StayInv'
  <2>1. ResetPass(t, x, to, timeout_cpu)
    BY <1>5 DEF Reset
  <2> QED
    BY <2>1, ResetStays
<1>6. ASSUME NEW t \in Thread, NEW r \in Request, NEW to \in Delays, timeout(t, r, to)
      PROVE  StayInv'
  <2>1. PICK x \in Calls : x = Head(cc_callfree)
    BY <1>6, TimeoutTakes
  <2>2. ResetPass(t, x, to, timeout_cpu)
    BY <1>6, <2>1 DEF timeout, StayInv
  <2> QED
    BY <2>2, ResetStays
<1>7. ASSUME NEW t \in Client, NEW r \in Request, untimeout(t, r) PROVE StayInv'
  <2>1. handle[r] \in Calls
    BY <1>7, CalloutAssumption DEF Core, TypeOK, untimeout
  <2> QED
    BY <1>4, <1>7, <2>1 DEF untimeout
<1>8. ASSUME NEW t \in Client, NEW x \in Calls, callout_stop(t, x) PROVE StayInv'
  BY <1>4, <1>8 DEF callout_stop
<1>9. \A t \in Thread : ~ResetRetry(t)
  BY DEF ResetRetry, StayInv
<1> QED
  BY <1>1, <1>2, <1>3, <1>5, <1>6, <1>7, <1>8, <1>9 DEF Next, Step, Call

\* Without resets for another CPU every callout stays on timeout_cpu, and so does
\* its handler.
THEOREM StayHolds ==
  ASSUME Targets \subseteq {timeout_cpu}
  PROVE  Spec => [](Core /\ StayInv)
<1>1. Init => StayInv
  BY Threads DEF Init, StayInv
<1>2. Core /\ StayInv /\ [Next]_vars => StayInv'
  BY NextStays
<1> QED
  BY <1>1, <1>2, CoreHolds, PTL DEF Spec

\* Who moves a client that is inside callout_drain().
LEMMA OnlyItself ==
  ASSUME Core, Next, NEW t \in Client, pc'[t] # pc[t], pc[t] # "asleep"
  PROVE  Drain(t) \/ DrainSq(t) \/ DrainWoken(t) \/ \E x \in Calls : DrainCall(t, x)
<1>0. pc \in [Thread -> SoftPoints \cup ClientPoints] /\ t \in Thread /\ t \notin Cpu
  BY Threads DEF Core, TypeOK
<1>1. ASSUME NEW p \in Cpu, Soft(p) PROVE pc'[t] = pc[t]
  <2>1. CASE SoftWakeup(p)
    <3>1. pc' = [s \in Thread |->
                   IF s = p THEN "relock"
                   ELSE IF At(s, "asleep") /\ dcc[s] = p THEN "woken" ELSE pc[s]]
      BY <2>1 DEF SoftWakeup
    <3> QED
      BY <1>0, <3>1 DEF At
  <2>2. CASE ~SoftWakeup(p)
    <3>1. UNCHANGED pc \/ \E f : pc' = [pc EXCEPT ![p] = f]
      BY <1>1, <2>2 DEF Soft, SoftStart, SoftBucket, SoftSkip, SoftRelock, SoftFire, SoftGetLock,
         SoftCheck, SoftArm, HandlerUnlock, SoftReturn, SoftDone, Goto
    <3> QED
      BY <1>0, <3>1
  <2> QED
    BY <2>1, <2>2
<1>2. ASSUME HardTick \/ \E p \in Cpu : callout_tick(p) PROVE UNCHANGED pc
  BY <1>2 DEF HardTick, callout_tick
<1>3. ASSUME NEW s \in Client, s # t,
             Drain(s) \/ DrainSq(s) \/ DrainWoken(s) \/ \E x \in Calls : DrainCall(s, x)
      PROVE  pc'[t] = pc[t]
  <2>1. \E f : pc' = [pc EXCEPT ![s] = f]
    BY <1>3 DEF Drain, DrainSq, DrainWoken, DrainReturn, DrainCall, Goto
  <2> QED
    BY <1>0, <1>3, <2>1
<1>4. ASSUME NEW s \in Client, \E l \in Lock : ClientLock(s, l) \/ ClientUnlock(s, l) PROVE UNCHANGED pc
  BY <1>4 DEF ClientLock, ClientUnlock
<1>5. ASSUME NEW s \in Client, NEW x \in Calls, Stop(s, x) PROVE UNCHANGED pc
  BY <1>5 DEF Stop
<1>6. ASSUME NEW s \in Thread, NEW x \in Calls, NEW to \in Delays, NEW cpu \in Cpu, ResetPass(s, x, to, cpu)
      PROVE  UNCHANGED pc
  BY <1>6 DEF ResetPass
<1> QED
  BY <1>1, <1>2, <1>3, <1>4, <1>5, <1>6, Steps

\* DrainWaited, where resets ask for no other CPU: a drainer that was woken returns
\* only when nobody executes the handler any more.
THEOREM DrainWaitedHolds ==
  ASSUME Targets \subseteq {timeout_cpu}
  PROVE  Spec => DrainWaited
<1>1. ASSUME Core, StayInv, Next, NEW t \in Client, At(t, "woken"), pc'[t] = "idle"
      PROVE  Executing(c[t]) = {}
  <2>1. DrainWoken(t)
    <3>1. pc[t] = "woken" /\ pc'[t] # pc[t] /\ pc[t] # "asleep"
      BY <1>1 DEF At
    <3>2. ~Drain(t) /\ ~DrainSq(t) /\ \A x \in Calls : ~DrainCall(t, x)
      BY <3>1 DEF Drain, DrainSq, DrainCall, At
    <3> QED
      BY <1>1, <3>1, <3>2, OnlyItself
  <2>2. cc_curr[dcc[t]] # c[t]
    <3>1. cc_curr[dcc[t]] = c[t] => pc' = [pc EXCEPT ![t] = "drain_sq"]
      BY <2>1 DEF DrainWoken, Goto
    <3> QED
      BY <1>1, <3>1, Threads DEF Core, TypeOK
  <2>3. ASSUME NEW p \in Cpu, pc[p] \in {"handler", "unlocked"}, c[p] = c[t] PROVE FALSE
    <3>1. c[p] \in Calls /\ cc_curr[p] = c[p]
      BY <1>1, <2>3, Threads DEF Core, WalkInv, WalkOf, TypeOK, Current
    <3>2. p = timeout_cpu /\ dcc[t] = timeout_cpu
      BY <1>1, <3>1, Threads DEF StayInv
    <3> QED
      BY <2>2, <2>3, <3>1, <3>2
  <2> QED
    BY <2>3 DEF Executing
<1>2. ASSUME Core, StayInv, [Next]_vars
      PROVE  [\A t \in Client : (At(t, "woken") /\ pc'[t] = "idle") => Executing(c[t]) = {}]_vars
  BY <1>1, <1>2
<1> QED
  BY <1>2, StayHolds, PTL DEF Spec, DrainWaited
=============================================================================
