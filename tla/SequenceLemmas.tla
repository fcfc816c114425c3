--------------------------- MODULE SequenceLemmas ---------------------------
(***************************************************************************)
(* Lemmas about sequences that the proofs of several modules rest on: what *)
(* inserting an element and taking one out do to the places and to the set *)
(* of the elements.                                                        *)
(***************************************************************************)
EXTENDS Naturals, Sequences, SequencesExt, FiniteSetTheorems,
        WellFoundedInduction, SequenceTheorems, TLAPS

\* Min of FiniteSetsExt picks the smallest number of a set of numbers.
LEMMA MinExists ==
  ASSUME NEW S \in SUBSET Nat, S # {}
  PROVE  Min(S) \in S /\ \A y \in S : Min(S) <= y
<1> DEFINE F == {0..n : n \in S}
<1>1. F \subseteq FiniteSubsetsOf(Nat) /\ F # {}
  <2>1. ASSUME NEW n \in S PROVE 0..n \in FiniteSubsetsOf(Nat)
    BY FS_Interval DEF FiniteSubsetsOf
  <2> QED
    BY <2>1
<1>2. PICK m \in F : \A y \in F : ~(<<y, m>> \in StrictSubsetOrdering(Nat))
  <2> HIDE DEF F
  <2> QED
    BY <1>1, FS_StrictSubsetOrderingWellFounded, WFMin
<1>3. PICK x \in S : m = 0..x
  OBVIOUS
<1>4. ASSUME NEW y \in S PROVE x <= y
  <2>1. SUFFICES ASSUME y < x PROVE FALSE
    OBVIOUS
  <2>2. 0..y \in SUBSET Nat /\ 0..x \in SUBSET Nat /\ 0..y \subseteq 0..x
    BY <2>1
  <2>3. x \in 0..x /\ x \notin 0..y
    BY <2>1
  <2>4. <<0..y, 0..x>> \in StrictSubsetOrdering(Nat)
    BY <2>2, <2>3 DEF StrictSubsetOrdering
  <2> QED
    BY <1>2, <1>3, <2>4
<1> QED
  BY <1>4 DEF Min

-----------------------------------------------------------------------------
\* Every element is in the sequence once.
Injective(q) == \A i, j \in DOMAIN q : q[i] = q[j] => i = j

\* r is q with k put in at n, and r is q with its n-th element taken out.
PutIn(q, r, n, k) ==
  \A i \in 1..(Len(q) + 1) :
    r[i] = IF i < n THEN q[i] ELSE IF i = n THEN k ELSE q[i - 1]
TakenOut(q, r, n) ==
  \A i \in 1..(Len(q) - 1) : r[i] = IF i < n THEN q[i] ELSE q[i + 1]

\* The elements of a sequence, by their places.
LEMMA SetOfSeq ==
  ASSUME NEW T, NEW q \in Seq(T)
  PROVE  /\ Len(q) \in Nat /\ DOMAIN q = 1..Len(q)
         /\ \A i \in 1..Len(q) : q[i] \in T /\ q[i] \in ToSet(q)
         /\ \A x \in ToSet(q) : x \in T /\ \E i \in 1..Len(q) : q[i] = x
BY LenProperties, ElementOfSeq DEF ToSet

\* InsertAt of SequencesExt puts an element in at a place.
LEMMA InsertAtPutsIn ==
  ASSUME NEW T, NEW q \in Seq(T), NEW n \in 1..(Len(q) + 1), NEW k \in T
  PROVE  /\ InsertAt(q, n, k) \in Seq(T)
         /\ Len(InsertAt(q, n, k)) = Len(q) + 1
         /\ PutIn(q, InsertAt(q, n, k), n, k)
<1> DEFINE N == Len(q)  a == SubSeq(q, 1, n - 1)  b == SubSeq(q, n, N)  c == a \o <<k>>
<1>0. N \in Nat /\ \A i \in 1..N : q[i] \in T
  BY LenProperties, ElementOfSeq
<1> HIDE DEF N
<1>1. a \in Seq(T) /\ Len(a) = n - 1 /\ \A i \in 1..(n - 1) : a[i] = q[i]
  BY <1>0, SubSeqProperties DEF N
<1>2. b \in Seq(T) /\ Len(b) = N - n + 1 /\ \A i \in 1..(N - n + 1) : b[i] = q[n + i - 1]
  BY <1>0, SubSeqProperties DEF N
<1> HIDE DEF a, b
<1>3. c \in Seq(T) /\ Len(c) = n /\ \A i \in 1..n : c[i] = IF i < n THEN q[i] ELSE k
  BY <1>1
<1> HIDE DEF c
<1> DEFINE d == c \o b
<1>4. InsertAt(q, n, k) = d
  BY DEF InsertAt, a, b, c, N
<1>5. /\ d \in Seq(T) /\ Len(d) = Len(c) + Len(b)
      /\ \A i \in 1..(Len(c) + Len(b)) : d[i] = IF i <= Len(c) THEN c[i] ELSE b[i - Len(c)]
  BY <1>2, <1>3, ConcatProperties
<1> HIDE DEF d
<1>6. Len(d) = N + 1
  BY <1>0, <1>2, <1>3, <1>5
<1>7. ASSUME NEW i \in 1..(N + 1)
      PROVE  d[i] = IF i < n THEN q[i] ELSE IF i = n THEN k ELSE q[i - 1]
  <2>1. CASE i <= n
    BY <1>0, <1>2, <1>3, <1>5, <2>1
  <2>2. CASE i > n
    <3>1. d[i] = b[i - n] /\ i - n \in 1..(N - n + 1)
      BY <1>0, <1>2, <1>3, <1>5, <2>2
    <3>2. n + (i - n) - 1 = i - 1
      BY <2>2
    <3> QED
      BY <1>2, <2>2, <3>1, <3>2
  <2> QED
    BY <1>0, <2>1, <2>2
<1> QED
  BY <1>4, <1>5, <1>6, <1>7 DEF PutIn, N

\* RemoveAt of SequencesExt takes out the element at a place.
LEMMA RemoveAtTakesOut ==
  ASSUME NEW T, NEW q \in Seq(T), NEW n \in 1..Len(q)
  PROVE  /\ RemoveAt(q, n) \in Seq(T)
         /\ Len(RemoveAt(q, n)) = Len(q) - 1
         /\ TakenOut(q, RemoveAt(q, n), n)
<1> DEFINE N == Len(q)  a == SubSeq(q, 1, n - 1)  b == SubSeq(q, n + 1, N)
<1>0. N \in Nat /\ \A i \in 1..N : q[i] \in T
  BY LenProperties, ElementOfSeq
<1> HIDE DEF N
<1>1. a \in Seq(T) /\ Len(a) = n - 1 /\ \A i \in 1..(n - 1) : a[i] = q[i]
  BY <1>0, SubSeqProperties DEF N
<1>2. b \in Seq(T) /\ Len(b) = N - n /\ \A i \in 1..(N - n) : b[i] = q[n + i]
  <2>1. n + 1 \in 1..(N + 1) /\ N \in (n + 1) - 1 .. N
    BY <1>0 DEF N
  <2>2. /\ b \in Seq(T) /\ Len(b) = N - (n + 1) + 1
        /\ \A i \in 1..(N - (n + 1) + 1) : b[i] = q[(n + 1) + i - 1]
    BY <1>0, <2>1, SubSeqProperties DEF N
  <2>3. N - (n + 1) + 1 = N - n /\ \A i \in 1..(N - n) : (n + 1) + i - 1 = n + i
    BY <1>0
  <2> QED
    BY <2>2, <2>3
<1> HIDE DEF a, b
<1> DEFINE d == a \o b
<1>4. RemoveAt(q, n) = d
  BY DEF RemoveAt, a, b, N
<1>5. /\ d \in Seq(T) /\ Len(d) = Len(a) + Len(b)
      /\ \A i \in 1..(Len(a) + Len(b)) : d[i] = IF i <= Len(a) THEN a[i] ELSE b[i - Len(a)]
  BY <1>1, <1>2, ConcatProperties
<1> HIDE DEF d
<1>6. Len(d) = N - 1 /\ n \in 1..N
  BY <1>0, <1>1, <1>2, <1>5 DEF N
<1>7. ASSUME NEW i \in 1..(N - 1)
      PROVE  d[i] = IF i < n THEN q[i] ELSE q[i + 1]
  <2>1. CASE i < n
    <3>1. i \in 1..(n - 1) /\ i \in 1..(Len(a) + Len(b)) /\ i <= Len(a)
      BY <1>0, <1>1, <1>2, <1>6, <2>1
    <3> QED
      BY <1>1, <1>5, <2>1, <3>1
  <2>2. CASE i >= n
    <3>1. d[i] = b[i - (n - 1)] /\ i - (n - 1) \in 1..(N - n)
      BY <1>0, <1>1, <1>2, <1>5, <1>6, <2>2
    <3>2. n + (i - (n - 1)) = i + 1
      BY <2>2
    <3> QED
      BY <1>2, <2>2, <3>1, <3>2
  <2> QED
    BY <1>0, <2>1, <2>2
<1> QED
  BY <1>4, <1>5, <1>6, <1>7 DEF TakenOut, N

\* What joins a sequence: the same elements and the new one, each of them once.
LEMMA PutInJoins ==
  ASSUME NEW T, NEW q \in Seq(T), NEW r \in Seq(T), NEW td \in T,
         NEW n \in 1..(Len(q) + 1), Len(r) = Len(q) + 1, PutIn(q, r, n, td)
  PROVE  /\ ToSet(r) = ToSet(q) \cup {td}
         /\ Injective(q) /\ td \notin ToSet(q) => Injective(r)
<1> DEFINE N == Len(q)
<1>0. /\ N \in Nat /\ DOMAIN q = 1..N /\ DOMAIN r = 1..(N + 1)
      /\ \A i \in 1..N : q[i] \in ToSet(q)
  BY LenProperties DEF ToSet
<1>1. \A i \in 1..(N + 1) : r[i] = IF i < n THEN q[i] ELSE IF i = n THEN td ELSE q[i - 1]
  BY DEF PutIn
<1> HIDE DEF N
<1>2. n \in 1..(N + 1)
  BY DEF N
<1>3. ASSUME NEW x \in ToSet(r) PROVE x \in ToSet(q) \cup {td}
  <2>1. PICK i \in 1..(N + 1) : r[i] = x
    BY <1>0 DEF ToSet
  <2> QED
    BY <2>1, <1>0, <1>1, <1>2
<1>4. ASSUME NEW x \in ToSet(q) PROVE x \in ToSet(r)
  <2>1. PICK i \in 1..N : q[i] = x
    BY <1>0 DEF ToSet
  <2>2. CASE i < n
    <3>1. i \in 1..(N + 1) /\ r[i] = x
      BY <1>0, <1>1, <2>1, <2>2
    <3> QED
      BY <3>1, <1>0 DEF ToSet
  <2>3. CASE i >= n
    <3>1. i + 1 \in 1..(N + 1) /\ ~(i + 1 < n) /\ i + 1 # n /\ (i + 1) - 1 = i
      BY <1>0, <1>2, <2>3
    <3>2. r[i + 1] = x
      BY <1>1, <2>1, <3>1
    <3> QED
      BY <3>1, <3>2, <1>0 DEF ToSet
  <2> QED
    BY <2>2, <2>3, <1>0, <1>2
<1>5. td \in ToSet(r)
  <2>1. r[n] = td /\ n \in DOMAIN r
    BY <1>0, <1>1, <1>2
  <2> QED
    BY <2>1 DEF ToSet
<1>6. ASSUME Injective(q), td \notin ToSet(q) PROVE Injective(r)
  <2> SUFFICES ASSUME NEW i \in 1..(N + 1), NEW j \in 1..(N + 1), r[i] = r[j]
               PROVE  i = j
    BY <1>0 DEF Injective
  <2>1. \A k, l \in 1..N : q[k] = q[l] => k = l
    BY <1>0, <1>6 DEF Injective
  <2>2. \A k \in 1..N : q[k] # td
    BY <1>0, <1>6
  <2> QED
    BY <1>0, <1>1, <1>2, <2>1, <2>2
<1> QED
  BY <1>3, <1>4, <1>5, <1>6

\* What leaves a sequence: the other elements stay, each of them once.
LEMMA TakenOutLeaves ==
  ASSUME NEW T, NEW q \in Seq(T), NEW r \in Seq(T), NEW n \in 1..Len(q),
         Len(r) = Len(q) - 1, TakenOut(q, r, n), Injective(q)
  PROVE  ToSet(r) = ToSet(q) \ {q[n]} /\ Injective(r)
<1> DEFINE N == Len(q)
<1>0. /\ N \in Nat /\ DOMAIN q = 1..N /\ DOMAIN r = 1..(N - 1)
      /\ \A i \in 1..N : q[i] \in ToSet(q)
  BY LenProperties DEF ToSet
<1>1. \A i \in 1..(N - 1) : r[i] = IF i < n THEN q[i] ELSE q[i + 1]
  BY DEF TakenOut
<1> HIDE DEF N
<1>2. n \in 1..N /\ \A i, j \in 1..N : q[i] = q[j] => i = j
  BY <1>0 DEF N, Injective
<1>3. ASSUME NEW x \in ToSet(r) PROVE x \in ToSet(q) \ {q[n]}
  <2>1. PICK i \in 1..(N - 1) : r[i] = x
    BY <1>0 DEF ToSet
  <2> QED
    BY <2>1, <1>0, <1>1, <1>2
<1>4. ASSUME NEW x \in ToSet(q) \ {q[n]} PROVE x \in ToSet(r)
  <2>1. PICK i \in 1..N : q[i] = x
    BY <1>0 DEF ToSet
  <2>2. CASE i < n
    <3>1. i \in 1..(N - 1) /\ r[i] = x
      BY <1>0, <1>1, <1>2, <2>1, <2>2
    <3> QED
      BY <3>1, <1>0 DEF ToSet
  <2>3. CASE i > n
    <3>1. i - 1 \in 1..(N - 1) /\ ~(i - 1 < n) /\ (i - 1) + 1 = i
      BY <1>0, <1>2, <2>3
    <3>2. r[i - 1] = x
      BY <1>1, <2>1, <3>1
    <3> QED
      BY <3>1, <3>2, <1>0 DEF ToSet
  <2> QED
    BY <2>1, <2>2, <2>3, <1>0, <1>2
<1>6. Injective(r)
  <2> SUFFICES ASSUME NEW i \in 1..(N - 1), NEW j \in 1..(N - 1), r[i] = r[j]
               PROVE  i = j
    BY <1>0 DEF Injective
  <2> QED
    BY <1>0, <1>1, <1>2
<1> QED
  BY <1>3, <1>4, <1>6

\* RemoveFirst of SequencesExt takes out an element of the sequence.
LEMMA RemoveFirstTakesOut ==
  ASSUME NEW T, NEW q \in Seq(T), NEW x \in ToSet(q)
  PROVE  \E n \in 1..Len(q) : /\ q[n] = x
                              /\ RemoveFirst(q, x) = RemoveAt(q, n)
<1> DEFINE I == {i \in 1..Len(q) : q[i] = x}
<1>1. Len(q) \in Nat /\ \E i \in 1..Len(q) : q[i] = x
  BY SetOfSeq
<1>2. I \in SUBSET Nat /\ I # {}
  BY <1>1
<1>3. RemoveFirst(q, x) = RemoveAt(q, Min(I))
  BY <1>1, <1>2 DEF RemoveFirst, SelectInSeq
<1>4. Min(I) \in I
  BY <1>2, MinExists
<1> QED
  BY <1>3, <1>4

\* What it leaves of a sequence without repetitions.
LEMMA RemoveFirstLeaves ==
  ASSUME NEW T, NEW q \in Seq(T), NEW x \in ToSet(q), Injective(q)
  PROVE  /\ RemoveFirst(q, x) \in Seq(T)
         /\ Len(RemoveFirst(q, x)) = Len(q) - 1
         /\ ToSet(RemoveFirst(q, x)) = ToSet(q) \ {x}
         /\ Injective(RemoveFirst(q, x))
<1>1. PICK n \in 1..Len(q) : q[n] = x /\ RemoveFirst(q, x) = RemoveAt(q, n)
  BY RemoveFirstTakesOut
<1> DEFINE r == RemoveAt(q, n)
<1>2. r \in Seq(T) /\ Len(r) = Len(q) - 1 /\ TakenOut(q, r, n)
  BY RemoveAtTakesOut
<1> HIDE DEF r
<1>3. ToSet(r) = ToSet(q) \ {q[n]} /\ Injective(r)
  BY <1>2, TakenOutLeaves
<1> QED
  BY <1>1, <1>2, <1>3 DEF r

\* Append adds an element at the end.
LEMMA AppendJoins ==
  ASSUME NEW T, NEW q \in Seq(T), NEW x \in T
  PROVE  /\ Append(q, x) \in Seq(T) /\ Len(Append(q, x)) = Len(q) + 1
         /\ ToSet(Append(q, x)) = ToSet(q) \cup {x}
         /\ Injective(q) /\ x \notin ToSet(q) => Injective(Append(q, x))
         /\ Append(q, x) # <<>>
<1> DEFINE r == Append(q, x)
<1>1. r \in Seq(T) /\ Len(r) = Len(q) + 1 /\ r # <<>> /\ Len(q) \in Nat
  BY AppendProperties, LenProperties
<1>2. PutIn(q, r, Len(q) + 1, x) /\ Len(q) + 1 \in 1..(Len(q) + 1)
  BY AppendProperties, LenProperties DEF PutIn
<1> HIDE DEF r
<1>3. ToSet(r) = ToSet(q) \cup {x} /\ (Injective(q) /\ x \notin ToSet(q) => Injective(r))
  BY <1>1, <1>2, PutInJoins
<1> QED
  BY <1>1, <1>3 DEF r

\* A sequence with a new first element.
LEMMA PrependEffect ==
  ASSUME NEW T, NEW s \in Seq(T), NEW e \in T
  PROVE  LET r == <<e>> \o s
         IN  /\ r \in Seq(T) /\ Len(r) = Len(s) + 1 /\ Len(s) \in Nat
             /\ DOMAIN r = 1..(Len(s) + 1) /\ DOMAIN s = 1..Len(s)
             /\ r[1] = e /\ \A i \in 1..Len(s) : r[i + 1] = s[i]
             /\ \A i \in 1..(Len(s) + 1) : i = 1 \/ (i - 1 \in 1..Len(s) /\ r[i] = s[i - 1])
             /\ ToSet(r) = ToSet(s) \cup {e}
<1> DEFINE a == <<e>>
           r == a \o s
<1>1. a \in Seq(T) /\ Len(a) = 1 /\ a[1] = e /\ Len(s) \in Nat
  BY LenProperties
<1> HIDE DEF a
<1>2. /\ r \in Seq(T) /\ Len(r) = Len(a) + Len(s)
      /\ \A i \in 1..(Len(a) + Len(s)) : r[i] = IF i <= Len(a) THEN a[i] ELSE s[i - Len(a)]
  BY <1>1, ConcatProperties
<1> HIDE DEF r
<1>3. /\ Len(r) = Len(s) + 1 /\ DOMAIN r = 1..(Len(s) + 1) /\ DOMAIN s = 1..Len(s)
  BY <1>1, <1>2, LenProperties
<1>4. r[1] = e
  BY <1>1, <1>2
<1>5. ASSUME NEW i \in 1..Len(s) PROVE r[i + 1] = s[i]
  BY <1>1, <1>2
<1>6. \A i \in 1..(Len(s) + 1) : i = 1 \/ (i - 1 \in 1..Len(s) /\ r[i] = s[i - 1])
  BY <1>1, <1>2
<1>7. ToSet(r) = ToSet(s) \cup {e}
  <2>1. ASSUME NEW x \in ToSet(r) PROVE x \in ToSet(s) \cup {e}
    <3>1. PICK i \in 1..(Len(s) + 1) : r[i] = x
      BY <1>3 DEF ToSet
    <3> QED
      BY <3>1, <1>3, <1>4, <1>6 DEF ToSet
  <2>2. ASSUME NEW x \in ToSet(s) PROVE x \in ToSet(r)
    <3>1. PICK i \in 1..Len(s) : s[i] = x
      BY <1>3 DEF ToSet
    <3>2. i + 1 \in DOMAIN r /\ r[i + 1] = x
      BY <3>1, <1>1, <1>3, <1>5
    <3> QED
      BY <3>2 DEF ToSet
  <2>3. e \in ToSet(r)
    <3>1. 1 \in DOMAIN r
      BY <1>1, <1>3
    <3> QED
      BY <3>1, <1>4 DEF ToSet
  <2> QED
    BY <2>1, <2>2, <2>3
<1> QED
  BY <1>1, <1>2, <1>3, <1>4, <1>5, <1>6, <1>7 DEF r, a

\* The elements of the empty sequence, and of no other.
LEMMA EmptySeqIs ==
  ASSUME NEW T, NEW q \in Seq(T)
  PROVE  /\ q = <<>> <=> ToSet(q) = {}
         /\ q = <<>> <=> Len(q) = 0
         /\ <<>> \in Seq(T) /\ Injective(<<>>) /\ ToSet(<<>>) = {}
<1>1. q = <<>> <=> Len(q) = 0
  BY EmptySeq, LenProperties
<1>2. Len(q) \in Nat /\ DOMAIN q = 1..Len(q)
  BY LenProperties
<1>3. ToSet(q) = {} <=> Len(q) = 0
  <2>1. ASSUME Len(q) # 0 PROVE ToSet(q) # {}
    <3>1. 1 \in DOMAIN q
      BY <1>2, <2>1
    <3> QED
      BY <3>1 DEF ToSet
  <2>2. ASSUME Len(q) = 0 PROVE ToSet(q) = {}
    <3>1. DOMAIN q = {}
      BY <1>2, <2>2
    <3> QED
      BY <3>1 DEF ToSet
  <2> QED
    BY <2>1, <2>2
<1> QED
  BY <1>1, <1>3 DEF Injective, ToSet

\* How often an element is in a sequence without repetitions.
LEMMA CountInSeq ==
  ASSUME NEW T, NEW q \in Seq(T), Injective(q), NEW x
  PROVE  Cardinality({i \in DOMAIN q : q[i] = x}) = IF x \in ToSet(q) THEN 1 ELSE 0
<1> DEFINE I == {i \in DOMAIN q : q[i] = x}
<1>1. CASE x \in ToSet(q)
  <2>1. PICK i \in DOMAIN q : q[i] = x
    BY <1>1, SetOfSeq
  <2>2. I = {i}
    BY <2>1 DEF Injective
  <2> QED
    BY <1>1, <2>2, FS_Singleton
<1>2. CASE x \notin ToSet(q)
  <2>1. I = {}
    BY <1>2 DEF ToSet
  <2> QED
    BY <1>2, <2>1, FS_EmptySet
<1> QED
  BY <1>1, <1>2

=============================================================================
