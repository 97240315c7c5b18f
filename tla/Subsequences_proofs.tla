-------------------------- MODULE Subsequences_proofs --------------------------
(***************************************************************************)
(* What the operators on sequences return: selections, the sequence of a   *)
(* set, concatenations, tails and prefixes, all for sequences that name    *)
(* nothing twice; and that a set of naturals has a least element.          *)
(***************************************************************************)
EXTENDS Subsequences, SequencesExt, FiniteSetTheorems, SequenceTheorems,
        WellFoundedInduction, TLAPS

\* A set of naturals that is not empty has a least element.
LEMMA LeastExists ==
    ASSUME NEW n \in Nat, NEW S \in SUBSET (0..n), S # {}
    PROVE  \E x \in S : \A y \in S : x <= y
<1> DEFINE Below(x) == {y \in S : y < x}
           T == {Below(x) : x \in S}
<1>1. IsFiniteSet(S)
  BY FS_BoundedSetOfNaturals
<1>2. \A x \in S : Below(x) \in FiniteSubsetsOf(S)
  BY <1>1, FS_Subset DEF FiniteSubsetsOf
<1>3. T \subseteq FiniteSubsetsOf(S) /\ T # {}
  BY <1>2
<1>4. PICK B \in T : \A C \in T : ~ (<<C, B>> \in StrictSubsetOrdering(S))
  <2> HIDE DEF T
  <2> QED
    BY <1>3, FS_StrictSubsetOrderingWellFounded, WFMin
<1>5. PICK x \in S : B = Below(x)
  BY <1>4
<1>6. SUFFICES ASSUME NEW y \in S, y < x
               PROVE  FALSE
  BY <1>5
<1>7. Below(y) \subseteq Below(x) /\ y \in Below(x) /\ y \notin Below(y)
  <2>1. \A z \in S : z \in Int
    OBVIOUS
  <2>2. \A z \in S : z < y => z < x
    BY <1>6, <2>1
  <2>3. ~ (y < y)
    BY <2>1
  <2>4. Below(y) \subseteq Below(x)
    BY <2>2
  <2> QED
    BY <1>6, <2>3, <2>4
<1>8. <<Below(y), Below(x)>> \in StrictSubsetOrdering(S)
  BY <1>7 DEF StrictSubsetOrdering
<1> QED
  BY <1>4, <1>5, <1>6, <1>8

\* The place of an element among those of a finite set of naturals.
LEMMA PlacesAreNumbered ==
    ASSUME NEW n \in Nat, NEW at \in SUBSET (1..n)
    PROVE  LET Place(m) == Cardinality({l \in at : l <= m}) IN
           /\ Cardinality(at) \in Nat
           /\ \A m \in at : Place(m) \in 1..Cardinality(at)
           /\ \A l, m \in at : Place(l) = Place(m) => l = m
           /\ \A k \in 1..Cardinality(at) : \E m \in at : Place(m) = k
<1> DEFINE Upto(m) == {l \in at : l <= m}
           Place(m) == Cardinality(Upto(m))
<1>1. IsFiniteSet(at) /\ Cardinality(at) \in Nat
  <2>1. \A m \in at : m \in Nat /\ m <= n
    OBVIOUS
  <2> QED
    BY <2>1, FS_BoundedSetOfNaturals, FS_CardinalityType
<1>2. \A m \in 0..n : IsFiniteSet(Upto(m)) /\ Place(m) \in Nat /\ Place(m) <= Cardinality(at)
  BY <1>1, FS_Subset, FS_CardinalityType
<1>0. \A m \in at : m \in 0..n /\ m \in Int /\ 1 <= m /\ m <= n
  OBVIOUS
<1>3. \A m \in at : m \in Upto(m)
  OBVIOUS
<1>4. \A m \in at : Place(m) # 0
  <2> HIDE DEF Upto
  <2> QED
    BY <1>2, <1>3, FS_EmptySet
<1>5. ASSUME NEW m \in at
      PROVE  Place(m) \in 1..Cardinality(at)
  <2>1. Place(m) \in Nat /\ Place(m) <= Cardinality(at) /\ Place(m) # 0
    <3> HIDE DEF Place
    <3> QED
      BY <1>0, <1>2, <1>4
  <2> HIDE DEF Place
  <2> QED
    BY <1>1, <2>1
<1>6. ASSUME NEW l \in at, NEW m \in at, l < m
      PROVE  Place(l) # Place(m)
  <2>1. Upto(l) \subseteq Upto(m) /\ m \notin Upto(l)
    <3>1. \A k \in at : k <= l => k <= m
      BY <1>0, <1>6
    <3>2. ~(m <= l)
      BY <1>0, <1>6
    <3> QED
      BY <3>1, <3>2
  <2> HIDE DEF Upto
  <2> QED
    BY <1>0, <1>2, <1>3, <2>1, FS_Subset
<1>7. \A l, m \in at : Place(l) = Place(m) => l = m
  <2>1. \A l, m \in at : l = m \/ l < m \/ m < l
    OBVIOUS
  <2> HIDE DEF Place
  <2> QED
    BY <1>6, <2>1
<1>8. ASSUME NEW k \in 1..Cardinality(at)
      PROVE  \E m \in at : Place(m) = k
  <2> DEFINE N == Cardinality(at)
             f == [m \in at |-> Place(m)]
  <2>1. f \in Injection(at, 1..N)
    <3> HIDE DEF Place, N
    <3> QED
      BY <1>5, <1>7 DEF Injection, IsInjective, N
  <2>2. IsFiniteSet(1..N) /\ Cardinality(1..N) = N
    BY <1>1, FS_Interval
  <2>3. f \in Surjection(at, 1..N)
    <3> HIDE DEF f
    <3> QED
      BY <2>1, <2>2, FS_Injection
  <2>4. PICK m \in at : f[m] = k
    BY <2>3 DEF Surjection
  <2> QED
    BY <2>4
<1> QED
  BY <1>1, <1>5, <1>7, <1>8

\* What a filter leaves of a sequence.
LEMMA AmongProperties ==
    ASSUME NEW T, NEW s \in Seq(T), NEW S
    PROVE  /\ Among(s, S) \in Seq(T)
           /\ \A x : Contains(Among(s, S), x) <=> Contains(s, x) /\ x \in S
           /\ Distinct(s) => Distinct(Among(s, S))
<1> DEFINE at == {n \in 1..Len(s) : s[n] \in S}
           Place(n) == Cardinality({m \in at : m <= n})
           Nth(k) == CHOOSE n \in at : Place(n) = k
           N == Cardinality(at)
<1>1. Len(s) \in Nat /\ at \in SUBSET (1..Len(s))
  OBVIOUS
<1>2. /\ N \in Nat
      /\ \A m \in at : Place(m) \in 1..N
      /\ \A l, m \in at : Place(l) = Place(m) => l = m
      /\ \A k \in 1..N : \E m \in at : Place(m) = k
  <2> HIDE DEF at
  <2> QED
    BY <1>1, PlacesAreNumbered
<1>3. Among(s, S) = [k \in 1..N |-> s[Nth(k)]]
  BY DEF Among
<1> HIDE DEF N, Place
<1>4. \A k \in 1..N : Nth(k) \in at /\ Place(Nth(k)) = k
  <2> HIDE DEF at
  <2> QED
    BY <1>2
<1> HIDE DEF Nth
<1>5. Among(s, S) \in Seq(T) /\ Len(Among(s, S)) = N
  <2>1. \A k \in 1..N : s[Nth(k)] \in T
    BY <1>4
  <2> QED
    BY <1>2, <1>3, <2>1
<1>6. ASSUME NEW x
      PROVE  Contains(Among(s, S), x) <=> Contains(s, x) /\ x \in S
  <2>1. ASSUME NEW k \in 1..N, Among(s, S)[k] = x
        PROVE  Contains(s, x) /\ x \in S
    BY <1>3, <1>4, <2>1 DEF Contains
  <2>2. ASSUME NEW n \in 1..Len(s), s[n] = x, x \in S
        PROVE  \E k \in 1..N : Among(s, S)[k] = x
    <3>1. n \in at
      BY <2>2
    <3>2. Place(n) \in 1..N /\ Nth(Place(n)) = n
      <4> HIDE DEF at
      <4> QED
        BY <1>2, <1>4, <3>1
    <3> QED
      BY <1>3, <2>2, <3>2
  <2> QED
    BY <1>5, <2>1, <2>2 DEF Contains
<1>7. ASSUME Distinct(s)
      PROVE  Distinct(Among(s, S))
  <2> SUFFICES ASSUME NEW k \in 1..N, NEW l \in 1..N, Among(s, S)[k] = Among(s, S)[l]
               PROVE  k = l
    BY <1>5 DEF Distinct
  <2>1. s[Nth(k)] = s[Nth(l)]
    BY <1>3
  <2>2. Nth(k) = Nth(l)
    BY <1>4, <1>7, <2>1 DEF Distinct
  <2> QED
    BY <1>4, <2>2
<1> QED
  BY <1>5, <1>6, <1>7

\* The elements of a finite set, each once.
LEMMA SetToSeqProperties ==
    ASSUME NEW S, IsFiniteSet(S)
    PROVE  /\ SetToSeq(S) \in Seq(S)
           /\ \A x : Contains(SetToSeq(S), x) <=> x \in S
           /\ Distinct(SetToSeq(S))
<1> DEFINE N == Cardinality(S)
           s == SetToSeq(S)
<1>1. N \in Nat
  BY FS_CardinalityType
<1>2. IsFiniteSet(1..N) /\ Cardinality(1..N) = N
  BY <1>1, FS_Interval
<1>3. \E f \in [1..N -> S] : IsInjective(f)
  <2>1. ExistsBijection(1..N, S)
    BY <1>2, FS_SameCardinalityBij
  <2> QED
    BY <2>1 DEF ExistsBijection, Bijection, Injection
<1>4. s \in [1..N -> S] /\ IsInjective(s)
  BY <1>3 DEF SetToSeq
<1>5. s \in Surjection(1..N, S)
  <2>1. s \in Injection(1..N, S)
    BY <1>4 DEF Injection
  <2> HIDE DEF s
  <2> QED
    BY <1>2, <2>1, FS_Injection
<1>6. s \in Seq(S) /\ Len(s) = N
  <2> HIDE DEF s, N
  <2> QED
    BY <1>1, <1>4
<1>7. \A x : Contains(s, x) <=> x \in S
  <2> HIDE DEF s, N
  <2> QED
    BY <1>4, <1>5, <1>6 DEF Contains, Surjection
<1>8. Distinct(s)
  <2> HIDE DEF s, N
  <2> QED
    BY <1>4, <1>6 DEF Distinct, IsInjective
<1> QED
  BY <1>6, <1>7, <1>8

\* Two sequences without a common element, one after the other.
LEMMA ConcatDistinct ==
    ASSUME NEW T, NEW s \in Seq(T), NEW t \in Seq(T)
    PROVE  /\ s \o t \in Seq(T)
           /\ \A x : Contains(s \o t, x) <=> Contains(s, x) \/ Contains(t, x)
           /\ /\ Distinct(s) /\ Distinct(t)
              /\ \A x : ~(Contains(s, x) /\ Contains(t, x))
              => Distinct(s \o t)
<1> DEFINE u == s \o t
<1>1. /\ u \in Seq(T) /\ Len(u) = Len(s) + Len(t)
      /\ \A i \in 1..(Len(s) + Len(t)) : u[i] = IF i <= Len(s) THEN s[i] ELSE t[i - Len(s)]
  BY ConcatProperties
<1>2. Len(s) \in Nat /\ Len(t) \in Nat
  OBVIOUS
<1> HIDE DEF u
<1>3. \A i \in 1..Len(s) : i \in 1..Len(u) /\ u[i] = s[i]
  BY <1>1, <1>2
<1>4. \A i \in 1..Len(t) : Len(s) + i \in 1..Len(u) /\ u[Len(s) + i] = t[i]
  <2> SUFFICES ASSUME NEW i \in 1..Len(t)
               PROVE  Len(s) + i \in 1..Len(u) /\ u[Len(s) + i] = t[i]
    OBVIOUS
  <2>1. /\ Len(s) + i \in 1..(Len(s) + Len(t))
        /\ ~(Len(s) + i <= Len(s))
        /\ (Len(s) + i) - Len(s) = i
    BY <1>2
  <2> QED
    BY <1>1, <2>1
<1>5. \A i \in 1..Len(u) : i \in 1..Len(s) \/ (i - Len(s) \in 1..Len(t) /\ i = Len(s) + (i - Len(s)))
  BY <1>1, <1>2
<1>6. ASSUME NEW x
      PROVE  Contains(u, x) <=> Contains(s, x) \/ Contains(t, x)
  <2>1. ASSUME NEW i \in 1..Len(u), u[i] = x
        PROVE  Contains(s, x) \/ Contains(t, x)
    BY <1>3, <1>4, <1>5, <2>1 DEF Contains
  <2> QED
    BY <1>3, <1>4, <2>1 DEF Contains
<1>7. ASSUME Distinct(s), Distinct(t), \A x : ~(Contains(s, x) /\ Contains(t, x)),
             NEW i \in 1..Len(u), NEW j \in 1..Len(u), u[i] = u[j]
      PROVE  i = j
  <2>0. \A k \in 1..Len(u) :
            \/ k \in 1..Len(s) /\ u[k] = s[k]
            \/ \E l \in 1..Len(t) : k = Len(s) + l /\ u[k] = t[l]
    BY <1>3, <1>4, <1>5
  <2>1. CASE i \in 1..Len(s) /\ u[i] = s[i]
    <3>1. Contains(s, u[i])
      BY <2>1 DEF Contains
    <3>2. j \in 1..Len(s) /\ u[j] = s[j]
      BY <1>7, <2>0, <3>1 DEF Contains
    <3> QED
      BY <1>7, <2>1, <3>2 DEF Distinct
  <2>2. CASE \E l \in 1..Len(t) : i = Len(s) + l /\ u[i] = t[l]
    <3>1. PICK l \in 1..Len(t) : i = Len(s) + l /\ u[i] = t[l]
      BY <2>2
    <3>2. Contains(t, u[i])
      BY <3>1 DEF Contains
    <3>3. PICK k \in 1..Len(t) : j = Len(s) + k /\ u[j] = t[k]
      BY <1>7, <2>0, <3>2 DEF Contains
    <3>4. k = l
      BY <1>7, <3>1, <3>3 DEF Distinct
    <3> QED
      BY <3>1, <3>3, <3>4
  <2> QED
    BY <2>0, <2>1, <2>2
<1> QED
  BY <1>1, <1>6, <1>7 DEF u, Distinct

LEMMA SetOfSequence ==
    ASSUME NEW T, NEW s \in Seq(T)
    PROVE  \A x : x \in ToSet(s) <=> Contains(s, x)
BY LenProperties DEF ToSet, Contains

\* What is left of a sequence without its head.
LEMMA TailDistinct ==
    ASSUME NEW T, NEW s \in Seq(T), s # <<>>
    PROVE  /\ Head(s) \in T /\ Contains(s, Head(s))
           /\ Tail(s) \in Seq(T)
           /\ \A x : x # Head(s) => (Contains(Tail(s), x) <=> Contains(s, x))
           /\ \A x : Contains(Tail(s), x) => Contains(s, x)
           /\ Distinct(s) => Distinct(Tail(s)) /\ ~Contains(Tail(s), Head(s))
<1> DEFINE t == Tail(s)
<1>1. /\ Head(s) = s[1] /\ Head(s) \in T /\ t \in Seq(T) /\ Len(t) = Len(s) - 1
      /\ \A i \in 1..Len(t) : t[i] = s[i + 1]
  BY HeadTailProperties
<1>2. Len(s) \in Nat /\ Len(s) # 0 /\ Len(t) \in Nat
  BY <1>1
<1> HIDE DEF t
<1>3. 1 \in 1..Len(s) /\ \A i \in 1..Len(t) : i + 1 \in 1..Len(s) /\ i + 1 # 1
  BY <1>1, <1>2
<1>4. \A i \in 1..Len(s) : i # 1 => i - 1 \in 1..Len(t) /\ t[i - 1] = s[i]
  BY <1>1, <1>2
<1>5. \A x : x # Head(s) => (Contains(t, x) <=> Contains(s, x))
  <2>1. ASSUME NEW x, x # Head(s), NEW i \in 1..Len(s), s[i] = x
        PROVE  Contains(t, x)
    BY <1>1, <1>4, <2>1 DEF Contains
  <2>2. ASSUME NEW x, NEW i \in 1..Len(t), t[i] = x
        PROVE  Contains(s, x)
    BY <1>1, <1>3, <2>2 DEF Contains
  <2> QED
    BY <2>1, <2>2 DEF Contains
<1>6. ASSUME Distinct(s)
      PROVE  Distinct(t) /\ ~Contains(t, Head(s))
  <2>1. ~Contains(t, Head(s))
    BY <1>1, <1>3, <1>6 DEF Distinct, Contains
  <2>2. ASSUME NEW i \in 1..Len(t), NEW j \in 1..Len(t), t[i] = t[j]
        PROVE  i = j
    <3>1. i + 1 = j + 1
      BY <1>1, <1>3, <1>6, <2>2 DEF Distinct
    <3> QED
      BY <1>2, <3>1
  <2> QED
    BY <2>1, <2>2 DEF Distinct
<1>7. \A x : Contains(t, x) => Contains(s, x)
  BY <1>1, <1>3, <1>5 DEF Contains
<1> QED
  BY <1>1, <1>3, <1>5, <1>6, <1>7 DEF Contains, t

\* The first elements of a sequence.
LEMMA PrefixDistinct ==
    ASSUME NEW T, NEW s \in Seq(T), NEW n \in Nat, n <= Len(s)
    PROVE  /\ SubSeq(s, 1, n) \in Seq(T)
           /\ \A x : Contains(SubSeq(s, 1, n), x) => Contains(s, x)
           /\ Distinct(s) => Distinct(SubSeq(s, 1, n))
<1> DEFINE t == SubSeq(s, 1, n)
<1>1. Len(s) \in Nat /\ \A i \in 1..n : i \in 1..Len(s) /\ s[i] \in T
  OBVIOUS
<1>2. t \in Seq(T) /\ Len(t) = n /\ \A i \in 1..n : t[i] = s[i]
  <2>1. /\ t \in Seq(T) /\ Len(t) = IF 1 <= n THEN n - 1 + 1 ELSE 0
        /\ \A i \in 1..(n - 1 + 1) : t[i] = s[1 + i - 1]
    <3>1. 1 \in Int /\ n \in Int
      OBVIOUS
    <3> QED
      BY <1>1, <3>1, SubSeqProperties
  <2>2. n - 1 + 1 = n /\ \A i \in 1..n : 1 + i - 1 = i
    OBVIOUS
  <2> HIDE DEF t
  <2> QED
    BY <2>1, <2>2
<1> HIDE DEF t
<1>3. \A x : Contains(t, x) => Contains(s, x)
  BY <1>1, <1>2 DEF Contains
<1>4. Distinct(s) => Distinct(t)
  BY <1>1, <1>2 DEF Distinct
<1> QED
  BY <1>2, <1>3, <1>4 DEF t

\* An element put at the end.
LEMMA AppendDistinct ==
    ASSUME NEW T, NEW s \in Seq(T), NEW e \in T
    PROVE  /\ Append(s, e) \in Seq(T)
           /\ \A x : Contains(Append(s, e), x) <=> Contains(s, x) \/ x = e
           /\ Distinct(s) /\ ~Contains(s, e) => Distinct(Append(s, e))
<1> DEFINE u == Append(s, e)
<1>1. /\ u \in Seq(T) /\ Len(u) = Len(s) + 1 /\ u[Len(s) + 1] = e /\ Len(s) \in Nat
      /\ \A i \in 1..Len(s) : u[i] = s[i]
  BY AppendProperties
<1> HIDE DEF u
<1>2. \A i \in 1..Len(u) : i \in 1..Len(s) \/ i = Len(s) + 1
  BY <1>1
<1>3. \A i \in 1..Len(s) : i \in 1..Len(u) /\ i # Len(s) + 1
  BY <1>1
<1>4. Len(s) + 1 \in 1..Len(u)
  BY <1>1
<1>5. \A x : Contains(u, x) <=> Contains(s, x) \/ x = e
  BY <1>1, <1>2, <1>3, <1>4 DEF Contains
<1>6. ASSUME Distinct(s), ~Contains(s, e), NEW i \in 1..Len(u), NEW j \in 1..Len(u), u[i] = u[j]
      PROVE  i = j
  <2>1. CASE i \in 1..Len(s) /\ j \in 1..Len(s)
    BY <1>1, <1>6, <2>1 DEF Distinct
  <2>2. CASE i = Len(s) + 1 /\ j = Len(s) + 1
    BY <2>2
  <2>3. ASSUME NEW a \in 1..Len(s), u[a] = u[Len(s) + 1]
        PROVE  FALSE
    BY <1>1, <1>6, <2>3 DEF Contains
  <2> QED
    BY <1>2, <1>6, <2>1, <2>2, <2>3
<1> QED
  BY <1>1, <1>5, <1>6 DEF u, Distinct

=============================================================================
