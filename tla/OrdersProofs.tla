----------------------------- MODULE OrdersProofs -----------------------------
(* What Orders and the recursive operators of the community modules compute.  *)
EXTENDS Orders, SequencesExt, FiniteSetTheorems, SequenceTheorems, WellFoundedInduction, TLAPS

-----------------------------------------------------------------------------
(* Induction, for sets in place of predicates *)

\* A set of numbers with a member has a least one.
LEMMA LeastNumber ==
  ASSUME NEW S \in SUBSET Nat, S # {}
  PROVE  \E least \in S : \A i \in S : least <= i
  <1> DEFINE UpTo(i) == 0..i
             T == {UpTo(i) : i \in S}
  <1>1. \A i \in S : UpTo(i) \in FiniteSubsetsOf(Nat) /\ UpTo(i) \in T
    BY FS_Interval DEF FiniteSubsetsOf
  <1>2. T # {} /\ T \subseteq FiniteSubsetsOf(Nat)
    BY <1>1
  <1>3. PICK low \in T : \A other \in T : ~(<<other, low>> \in StrictSubsetOrdering(Nat))
    <2> HIDE DEF T
    <2>1. QED
      BY <1>2, FS_StrictSubsetOrderingWellFounded, WFMin
  <1>4. PICK x \in S : low = UpTo(x)
    BY <1>3
  <1>5. ASSUME NEW y \in S
        PROVE  x <= y
    <2>1. UpTo(y) \in T /\ UpTo(y) \in SUBSET Nat /\ low \in SUBSET Nat
      BY <1>1, <1>4
    <2>2. ~(UpTo(y) \subseteq low /\ UpTo(y) # low)
      BY <1>3, <2>1 DEF StrictSubsetOrdering
    <2>3. CASE y < x
      <3>1. UpTo(y) \subseteq UpTo(x) /\ x \in UpTo(x) /\ x \notin UpTo(y)
        BY <2>3
      <3>2. QED
        BY <1>4, <2>2, <3>1
    <2>4. QED
      BY <2>3
  <1>6. QED
    BY <1>5

\* A set that has zero, and every next number up to n, has all of them.
LEMMA Upwards ==
  ASSUME NEW n \in Nat, NEW T, 0 \in T, \A i \in 1..n : i - 1 \in T => i \in T
  PROVE  \A i \in 0..n : i \in T
  <1> DEFINE Out == {i \in 0..n : i \notin T}
  <1> SUFFICES ASSUME NEW i \in 0..n, i \notin T
               PROVE  FALSE
    OBVIOUS
  <1>1. Out # {} /\ Out \in SUBSET Nat
    OBVIOUS
  <1>2. PICK low \in Out : \A k \in Out : low <= k
    <2> HIDE DEF Out
    <2>1. QED
      BY <1>1, LeastNumber
  <1>3. low \in 1..n /\ low - 1 \in 0..n /\ low - 1 \notin Out
    BY <1>2
  <1>4. QED
    BY <1>2, <1>3

\* Induction over the subsets of a finite set, for a set in place of a predicate.
LEMMA SubsetsUpwards ==
  ASSUME NEW S, IsFiniteSet(S), NEW T, {} \in T,
         \A s \in SUBSET S : s # {} /\ (\A x \in s : s \ {x} \in T) => s \in T
  PROVE  \A s \in SUBSET S : s \in T
  <1> DEFINE n == Cardinality(S)
             Good == {m \in 0..n : \A s \in SUBSET S : Cardinality(s) = m => s \in T}
  <1>1. n \in Nat
    BY FS_CardinalityType
  <1>2. \A s \in SUBSET S : IsFiniteSet(s) /\ Cardinality(s) \in 0..n
    BY FS_Subset, FS_CardinalityType
  <1>3. 0 \in Good
    <2>1. \A s \in SUBSET S : Cardinality(s) = 0 => s = {}
      BY <1>2, FS_EmptySet
    <2>2. \A s \in SUBSET S : Cardinality(s) = 0 => s \in T
      BY <2>1
    <2>3. 0 \in 0..n
      BY <1>1
    <2>4. QED
      BY <2>2, <2>3
  <1>4. ASSUME NEW m \in 1..n, m - 1 \in Good
        PROVE  m \in Good
    <2>1. ASSUME NEW s \in SUBSET S, Cardinality(s) = m
          PROVE  s \in T
      <3>1. s # {}
        <4>1. Cardinality({}) = 0
          BY FS_EmptySet
        <4>2. QED
          BY <1>1, <2>1, <4>1
      <3>2. ASSUME NEW x \in s
            PROVE  s \ {x} \in T
        <4>1. Cardinality(s \ {x}) = m - 1
          BY <1>2, <2>1, FS_RemoveElement
        <4>2. QED
          BY <1>4, <4>1
      <3>3. QED
        BY <3>1, <3>2
    <2>2. QED
      BY <1>1, <2>1
  <1>5. ASSUME NEW s \in SUBSET S
        PROVE  s \in T
    <2> HIDE DEF Good
    <2>1. Cardinality(s) \in Good
      BY <1>1, <1>2, <1>3, <1>4, Upwards
    <2>2. QED
      BY <2>1 DEF Good
  <1>6. QED
    BY <1>5

\* A finite set of numbers with a member has a greatest one.
LEMMA GreatestNumber ==
  ASSUME NEW S \in SUBSET Nat, IsFiniteSet(S), S # {}
  PROVE  \E most \in S : \A i \in S : i <= most
  <1> DEFINE T == {s \in SUBSET S : s # {} => \E most \in s : \A i \in s : i <= most}
  <1>1. {} \in T
    OBVIOUS
  <1>2. ASSUME NEW s \in SUBSET S, s # {}, \A x \in s : s \ {x} \in T
        PROVE  s \in T
    <2>1. PICK x : x \in s
      BY <1>2
    <2>2. CASE s = {x}
      BY <2>2
    <2>3. CASE s # {x}
      <3>1. PICK most \in s \ {x} : \A i \in s \ {x} : i <= most
        BY <1>2, <2>1, <2>3
      <3>2. \A i \in s : i <= (IF x <= most THEN most ELSE x)
        BY <2>1, <3>1
      <3>3. QED
        BY <2>1, <3>1, <3>2
    <2>4. QED
      BY <2>2, <2>3
  <1>3. S \in T
    <2> HIDE DEF T
    <2>1. QED
      BY <1>1, <1>2, SubsetsUpwards
  <1>4. QED
    BY <1>3

-----------------------------------------------------------------------------
(* Sorting *)

StrictOrder(R, S) ==
  /\ \A x \in S : <<x, x>> \notin R
  /\ \A x, y, z \in S : <<x, y>> \in R /\ <<y, z>> \in R => <<x, z>> \in R
  /\ \A x, y \in S : x = y \/ <<x, y>> \in R \/ <<y, x>> \in R

\* Sorting takes every member to one place, in the order.
LEMMA SortedPlaces ==
  ASSUME NEW S, IsFiniteSet(S), NEW R, StrictOrder(R, S)
  PROVE  LET s == Sorted(S, R) IN
         /\ s \in [1..Cardinality(S) -> S]
         /\ \A x \in S : \E i \in 1..Cardinality(S) : s[i] = x
         /\ \A i, j \in 1..Cardinality(S) : i < j <=> <<s[i], s[j]>> \in R
  <1> DEFINE n == Cardinality(S)
             Before(x) == {y \in S : <<y, x>> \in R}
             rank == [x \in S |-> Cardinality(Before(x))]
             s == Sorted(S, R)
  <1>1. n \in Nat
    BY FS_CardinalityType
  <1>2. ASSUME NEW x \in S
        PROVE  IsFiniteSet(Before(x)) /\ rank[x] \in 0..n - 1
    <2>1. Before(x) \in SUBSET S /\ Before(x) # S
      BY DEF StrictOrder
    <2>2. IsFiniteSet(Before(x)) /\ Cardinality(Before(x)) <= n /\ Cardinality(Before(x)) # n
      <3> HIDE DEF Before
      <3>1. QED
        BY <2>1, FS_Subset
    <2>3. Cardinality(Before(x)) \in Nat
      BY <2>2, FS_CardinalityType
    <2>4. QED
      BY <1>1, <2>2, <2>3
  <1>3. ASSUME NEW x \in S, NEW y \in S, <<x, y>> \in R
        PROVE  rank[x] < rank[y]
    <2>1. Before(x) \in SUBSET Before(y) /\ x \in Before(y) /\ x \notin Before(x)
      BY <1>3 DEF StrictOrder
    <2>2. Cardinality(Before(x)) <= Cardinality(Before(y)) /\ Cardinality(Before(x)) # Cardinality(Before(y))
      <3>1. IsFiniteSet(Before(y))
        BY <1>2
      <3> HIDE DEF Before
      <3>2. QED
        BY <2>1, <3>1, FS_Subset
    <2>3. Cardinality(Before(x)) \in Nat /\ Cardinality(Before(y)) \in Nat
      <3>1. IsFiniteSet(Before(x)) /\ IsFiniteSet(Before(y))
        BY <1>2
      <3> HIDE DEF Before
      <3>2. QED
        BY <3>1, FS_CardinalityType
    <2> HIDE DEF Before
    <2>4. QED
      BY <2>2, <2>3
  <1>4. \A x, y \in S : rank[x] = rank[y] => x = y
    <2> SUFFICES ASSUME NEW x \in S, NEW y \in S, x # y
                 PROVE  rank[x] # rank[y]
      OBVIOUS
    <2>1. <<x, y>> \in R \/ <<y, x>> \in R
      BY DEF StrictOrder
    <2>2. rank[x] \in Nat /\ rank[y] \in Nat
      <3>1. rank[x] \in 0..n - 1 /\ rank[y] \in 0..n - 1
        BY <1>2
      <3> HIDE DEF rank, n
      <3>2. QED
        BY <1>1, <3>1
    <2> HIDE DEF rank
    <2>3. QED
      BY <1>3, <2>1, <2>2
  <1>5. \A i \in 0..n - 1 : \E x \in S : rank[x] = i
    <2>1. rank \in [S -> 0..n - 1]
      BY <1>2
    <2>2. rank \in Injection(S, 0..n - 1)
      <3> HIDE DEF rank
      <3>1. QED
        BY <2>1, <1>4 DEF Injection, IsInjective
    <2>3. IsFiniteSet(0..n - 1) /\ Cardinality(0..n - 1) = n
      BY <1>1, FS_Interval
    <2>4. rank \in Surjection(S, 0..n - 1)
      <3> HIDE DEF rank, n
      <3> DEFINE m == n
      <3>1. Cardinality(S) = n
        BY DEF n
      <3>2. QED
        BY <2>2, <2>3, <3>1, FS_Injection
    <2> HIDE DEF rank
    <2>5. QED
      BY <2>4 DEF Surjection
  <1>6. ASSUME NEW i \in 1..n
        PROVE  s[i] \in S /\ rank[s[i]] = i - 1
    <2>1. \E x \in S : Cardinality(Before(x)) = i - 1
      BY <1>1, <1>5
    <2>2. s[i] = CHOOSE x \in S : Cardinality(Before(x)) = i - 1
      BY DEF Sorted
    <2>3. QED
      BY <2>1, <2>2
  <1>7. s \in [1..n -> S]
    BY <1>6 DEF Sorted
  <1>8. ASSUME NEW x \in S
        PROVE  \E i \in 1..n : s[i] = x
    <2>1. rank[x] + 1 \in 1..n /\ (rank[x] + 1) - 1 = rank[x]
      BY <1>1, <1>2
    <2>2. rank[s[rank[x] + 1]] = rank[x] /\ s[rank[x] + 1] \in S
      <3> HIDE DEF s, rank
      <3>1. QED
        BY <2>1, <1>6
    <2>3. QED
      <3> HIDE DEF s, rank
      <3>1. QED
        BY <2>1, <2>2, <1>4
  <1>9. ASSUME NEW i \in 1..n, NEW j \in 1..n
        PROVE  i < j <=> <<s[i], s[j]>> \in R
    <2> HIDE DEF s, rank
    <2>1. /\ s[i] \in S /\ rank[s[i]] = i - 1 /\ s[j] \in S /\ rank[s[j]] = j - 1
          /\ i \in Int /\ j \in Int
      BY <1>6, <1>1
    <2>2. <<s[i], s[j]>> \in R => i < j
      BY <2>1, <1>3
    <2>3. i < j => <<s[i], s[j]>> \in R
      <3>1. SUFFICES ASSUME i < j PROVE <<s[i], s[j]>> \in R
        OBVIOUS
      <3>2. s[i] # s[j]
        BY <2>1, <3>1
      <3>3. ~(<<s[j], s[i]>> \in R)
        <4>1. rank[s[i]] < rank[s[j]]
          BY <2>1, <3>1
        <4>2. <<s[j], s[i]>> \in R => rank[s[j]] < rank[s[i]]
          BY <1>3, <2>1
        <4>3. QED
          BY <2>1, <4>1, <4>2
      <3>4. QED
        BY <2>1, <3>2, <3>3 DEF StrictOrder
    <2>4. QED
      BY <2>2, <2>3
  <1>10. QED
    BY <1>7, <1>8, <1>9

\* Numbers in their order.
LEMMA AscendingPlaces ==
  ASSUME NEW S \in SUBSET Nat, IsFiniteSet(S)
  PROVE  LET s == Ascending(S) IN
         /\ s \in [1..Cardinality(S) -> S]
         /\ \A x \in S : \E i \in 1..Cardinality(S) : s[i] = x
         /\ \A i, j \in 1..Cardinality(S) : i < j <=> s[i] < s[j]
  <1> DEFINE R == {pair \in S \X S : pair[1] < pair[2]}
  <1>1. \A x, y \in S : <<x, y>> \in R <=> x < y
    OBVIOUS
  <1>2. StrictOrder(R, S)
    <2>1. \A x \in S : x \in Nat
      OBVIOUS
    <2> HIDE DEF R
    <2>2. \A x \in S : <<x, x>> \notin R
      BY <1>1, <2>1
    <2>3. \A x, y, z \in S : <<x, y>> \in R /\ <<y, z>> \in R => <<x, z>> \in R
      BY <1>1, <2>1
    <2>4. ASSUME NEW x \in S, NEW y \in S
          PROVE  x = y \/ <<x, y>> \in R \/ <<y, x>> \in R
      <3>1. x \in Nat /\ y \in Nat /\ (<<x, y>> \in R <=> x < y) /\ (<<y, x>> \in R <=> y < x)
        BY <1>1, <2>1
      <3>2. x < y \/ y < x \/ x = y
        BY <3>1
      <3>3. QED
        BY <3>1, <3>2
    <2>5. QED
      BY <2>2, <2>3, <2>4 DEF StrictOrder
  <1>3. Ascending(S) = Sorted(S, R)
    BY DEF Ascending
  <1> HIDE DEF R
  <1> DEFINE s == Sorted(S, R)
             n == Cardinality(S)
  <1>4. /\ s \in [1..n -> S]
        /\ \A x \in S : \E i \in 1..n : s[i] = x
        /\ \A i, j \in 1..n : i < j <=> <<s[i], s[j]>> \in R
    BY <1>2, SortedPlaces
  <1> HIDE DEF s, n
  <1>5. \A i, j \in 1..n : i < j <=> s[i] < s[j]
    <2> SUFFICES ASSUME NEW i \in 1..n, NEW j \in 1..n
                 PROVE  i < j <=> s[i] < s[j]
      OBVIOUS
    <2>1. s[i] \in S /\ s[j] \in S
      BY <1>4
    <2>2. QED
      BY <1>1, <1>4, <2>1
  <1>6. QED
    BY <1>3, <1>4, <1>5 DEF s, n

\* What is picked from a sequence is in it, in its order, and nothing is missing.
LEMMA PickedPlaces ==
  ASSUME NEW A, NEW list \in Seq(A), NEW places \in SUBSET (1..Len(list))
  PROVE  LET s == Picked(list, places) IN
         /\ s \in Seq(A) /\ Len(s) = Cardinality(places) /\ Len(s) <= Len(list)
         /\ \E at \in [1..Len(s) -> places] :
              /\ \A i \in 1..Len(s) : s[i] = list[at[i]]
              /\ \A p \in places : \E i \in 1..Len(s) : at[i] = p
              /\ \A i, j \in 1..Len(s) : i < j <=> at[i] < at[j]
  <1> DEFINE at == Ascending(places)
             n == Cardinality(places)
  <1>1. Len(list) \in Nat /\ IsFiniteSet(1..Len(list)) /\ Cardinality(1..Len(list)) = Len(list)
    <2>1. Len(list) \in Nat /\ 1 \in Int /\ Len(list) \in Int
      OBVIOUS
    <2>2. IsFiniteSet(1..Len(list))
      BY <2>1, FS_Interval
    <2>3. Cardinality(1..Len(list)) = IF 1 > Len(list) THEN 0 ELSE Len(list) - 1 + 1
      BY <2>1, FS_Interval
    <2>4. QED
      BY <2>1, <2>2, <2>3
  <1>2. IsFiniteSet(places) /\ n \in Nat /\ places \in SUBSET Nat /\ n <= Len(list)
    <2>1. IsFiniteSet(places) /\ n <= Len(list)
      BY <1>1, FS_Subset
    <2>2. n \in Nat
      BY <2>1, FS_CardinalityType
    <2>3. places \in SUBSET Nat
      OBVIOUS
    <2>4. QED
      BY <2>1, <2>2, <2>3
  <1>3. /\ at \in [1..n -> places]
        /\ \A p \in places : \E i \in 1..n : at[i] = p
        /\ \A i, j \in 1..n : i < j <=> at[i] < at[j]
    <2> HIDE DEF n
    <2>1. n = Cardinality(places)
      BY DEF n
    <2>2. QED
      BY <1>2, <2>1, AscendingPlaces
  <1>4. Picked(list, places) = [i \in 1..n |-> list[at[i]]]
    BY DEF Picked
  <1> HIDE DEF at, n
  <1>5. \A i \in 1..n : list[at[i]] \in A
    <2>1. \A p \in places : list[p] \in A
      OBVIOUS
    <2>2. QED
      BY <1>3, <2>1
  <1>6. Picked(list, places) \in Seq(A) /\ Len(Picked(list, places)) = n
    BY <1>2, <1>4, <1>5
  <1>7. QED
    BY <1>2, <1>3, <1>4, <1>6 DEF n

-----------------------------------------------------------------------------
(* Concatenation *)

\* FlattenSeq appends one sequence after the other.
LEMMA FlattenSteps ==
  ASSUME NEW A, NEW seqs \in Seq(Seq(A))
  PROVE  \E acc \in [0..Len(seqs) -> Seq(A)] :
           /\ acc[0] = <<>>
           /\ \A i \in 1..Len(seqs) : acc[i] = acc[i - 1] \o seqs[i]
           /\ FlattenSeq(seqs) = acc[Len(seqs)]
  <1> DEFINE n == Len(seqs)
             Flat(f, m) == f = [i \in 1..m |-> IF i = 1 THEN seqs[i] ELSE f[i - 1] \o seqs[i]]
             Good == {m \in 0..n : \E f : Flat(f, m)}
  <1>1. n \in Nat /\ \A i \in 1..n : seqs[i] \in Seq(A)
    OBVIOUS
  <1>2. CASE n = 0
    <2>1. seqs = <<>> /\ FlattenSeq(seqs) = seqs
      BY <1>2 DEF FlattenSeq
    <2> DEFINE acc == [i \in 0..0 |-> <<>>]
    <2>2. acc \in [0..n -> Seq(A)] /\ acc[0] = <<>> /\ \A i \in 1..n : FALSE
      BY <1>2
    <2>3. FlattenSeq(seqs) = acc[n]
      BY <1>2, <2>1
    <2> HIDE DEF acc
    <2>4. QED
      BY <2>2, <2>3
  <1>3. CASE n # 0
    <2>1. 0 \in Good
      <3> DEFINE f == [i \in 1..0 |-> seqs[i]]
      <3>1. \A i \in 1..0 : FALSE
        OBVIOUS
      <3>2. Flat(f, 0)
        BY <3>1, Zenon
      <3>3. 0 \in 0..n
        BY <1>1
      <3> HIDE DEF f
      <3>4. QED
        BY <3>2, <3>3
    <2>2. ASSUME NEW m \in 1..n, m - 1 \in Good
          PROVE  m \in Good
      <3>1. PICK f : Flat(f, m - 1)
        BY <2>2
      <3> DEFINE g == [i \in 1..m |-> IF i < m THEN f[i]
                                     ELSE IF i = 1 THEN seqs[i] ELSE f[i - 1] \o seqs[i]]
      <3>2. ASSUME NEW i \in 1..m
            PROVE  g[i] = IF i = 1 THEN seqs[i] ELSE g[i - 1] \o seqs[i]
        <4>1. CASE i < m
          <5>1. i \in 1..m - 1 /\ (i # 1 => i - 1 \in 1..m /\ i - 1 < m)
            BY <1>1, <4>1
          <5>2. f[i] = IF i = 1 THEN seqs[i] ELSE f[i - 1] \o seqs[i]
            BY <3>1, <5>1
          <5>3. g[i] = f[i] /\ (i # 1 => g[i - 1] = f[i - 1])
            BY <4>1, <5>1
          <5> HIDE DEF g
          <5>4. QED
            BY <5>2, <5>3
        <4>2. CASE i = m
          <5>1. i # 1 => i - 1 \in 1..m /\ i - 1 < m
            BY <1>1, <4>2
          <5>2. g[i] = (IF i = 1 THEN seqs[i] ELSE f[i - 1] \o seqs[i]) /\ (i # 1 => g[i - 1] = f[i - 1])
            BY <4>2, <5>1
          <5> HIDE DEF g
          <5>3. QED
            BY <5>2
        <4>3. QED
          BY <4>1, <4>2
      <3>3. Flat(g, m)
        <4>1. g = [i \in 1..m |-> g[i]]
          OBVIOUS
        <4> HIDE DEF g
        <4>2. QED
          BY <3>2, <4>1, Zenon
      <3>4. m \in 0..n
        BY <1>1
      <3> HIDE DEF g
      <3>5. QED
        BY <3>3, <3>4
    <2>3. n \in Good
      <3> HIDE DEF Good, n
      <3>1. \A m \in 1..n : m - 1 \in Good => m \in Good
        BY <2>2
      <3>2. \A m \in 0..n : m \in Good
        BY <1>1, <2>1, <3>1, Upwards
      <3>3. QED
        BY <1>1, <3>2
    <2> DEFINE f == CHOOSE g : g = [i \in 1..Len(seqs) |-> IF i = 1 THEN seqs[i] ELSE g[i - 1] \o seqs[i]]
    <2>4. f = [i \in 1..n |-> IF i = 1 THEN seqs[i] ELSE f[i - 1] \o seqs[i]]
      BY <2>3, Zenon
    <2>5. FlattenSeq(seqs) = f[n]
      BY <1>3 DEF FlattenSeq
    <2> DEFINE acc == [i \in 0..n |-> IF i = 0 THEN <<>> ELSE f[i]]
    <2> HIDE DEF f
    <2>6. ASSUME NEW i \in 1..n
          PROVE  f[i] = IF i = 1 THEN seqs[i] ELSE f[i - 1] \o seqs[i]
      BY <2>4
    <2>7. acc[0] = <<>> /\ acc[n] = f[n] /\ \A i \in 1..n : acc[i] = f[i] /\ i - 1 \in 0..n
      BY <1>1, <1>3
    <2>8. \A i \in 1..n : i # 1 => acc[i - 1] = f[i - 1]
      BY <1>1
    <2>9. ASSUME NEW i \in 1..n
          PROVE  acc[i] = acc[i - 1] \o seqs[i]
      <3> HIDE DEF acc
      <3>1. CASE i = 1
        <4>1. seqs[i] \in Seq(A)
          BY <1>1
        <4>2. <<>> \o seqs[i] = seqs[i]
          BY <4>1, ConcatEmptySeq
        <4>3. acc[i] = seqs[i]
          BY <2>6, <2>7, <3>1
        <4>4. acc[i - 1] = <<>>
          BY <2>7, <3>1
        <4>5. QED
          BY <4>2, <4>3, <4>4
      <3>2. QED
        BY <2>6, <2>7, <2>8, <3>1
    <2> DEFINE Typed == {i \in 0..n : acc[i] \in Seq(A)}
    <2>10. \A i \in 0..n : i \in Typed
      <3>1. 0 \in Typed
        BY <1>1, <2>7
      <3>2. ASSUME NEW i \in 1..n, i - 1 \in Typed
            PROVE  i \in Typed
        <4> HIDE DEF acc
        <4>1. acc[i - 1] \in Seq(A) /\ seqs[i] \in Seq(A) /\ acc[i] = acc[i - 1] \o seqs[i]
          BY <1>1, <2>9, <3>2
        <4>2. acc[i] \in Seq(A) /\ i \in 0..n
          BY <1>1, <4>1
        <4>3. QED
          BY <4>2
      <3> HIDE DEF Typed, n
      <3>3. \A i \in 1..n : i - 1 \in Typed => i \in Typed
        BY <3>2
      <3>4. QED
        BY <1>1, <3>1, <3>3, Upwards
    <2>11. acc \in [0..n -> Seq(A)]
      BY <2>10
    <2> HIDE DEF acc
    <2>12. QED
      BY <2>5, <2>7, <2>9, <2>11
  <1>4. QED
    BY <1>2, <1>3

\* It holds the members of each, and no others.
LEMMA FlattenMembers ==
  ASSUME NEW A, NEW seqs \in Seq(Seq(A))
  PROVE  LET flat == FlattenSeq(seqs) IN
         /\ flat \in Seq(A)
         /\ \A k \in 1..Len(flat) :
              \E i \in 1..Len(seqs) : \E j \in 1..Len(seqs[i]) : flat[k] = seqs[i][j]
         /\ \A i \in 1..Len(seqs) : \A j \in 1..Len(seqs[i]) :
              \E k \in 1..Len(flat) : flat[k] = seqs[i][j]
  <1> DEFINE n == Len(seqs)
  <1>1. n \in Nat /\ \A i \in 1..n : seqs[i] \in Seq(A)
    OBVIOUS
  <1>2. PICK acc \in [0..n -> Seq(A)] :
          /\ acc[0] = <<>>
          /\ \A i \in 1..n : acc[i] = acc[i - 1] \o seqs[i]
          /\ FlattenSeq(seqs) = acc[n]
    BY FlattenSteps
  <1> DEFINE Held(flat, m) ==
               /\ \A k \in 1..Len(flat) :
                    \E i \in 1..m : \E j \in 1..Len(seqs[i]) : flat[k] = seqs[i][j]
               /\ \A i \in 1..m : \A j \in 1..Len(seqs[i]) :
                    \E k \in 1..Len(flat) : flat[k] = seqs[i][j]
             Good == {m \in 0..n : Held(acc[m], m)}
  <1>3. 0 \in Good
    BY <1>1, <1>2
  <1>4. ASSUME NEW m \in 1..n, m - 1 \in Good
        PROVE  m \in Good
    <2> DEFINE s == acc[m - 1]
               t == seqs[m]
               u == acc[m]
    <2>1. m - 1 \in 0..n /\ m \in 0..n
      BY <1>1
    <2>8. s \in Seq(A) /\ t \in Seq(A) /\ u = s \o t /\ u \in Seq(A)
      BY <1>1, <1>2, <2>1
    <2>2. Held(s, m - 1)
      BY <1>4
    <2>3. /\ Len(s) \in Nat /\ Len(t) \in Nat /\ Len(u) = Len(s) + Len(t)
          /\ \A k \in 1..Len(s) + Len(t) : u[k] = IF k <= Len(s) THEN s[k] ELSE t[k - Len(s)]
      <3> HIDE DEF s, t, u
      <3>1. QED
        BY <2>8, ConcatProperties
    <2> HIDE DEF s, u
    <2>4. ASSUME NEW k \in 1..Len(u)
          PROVE  \E i \in 1..m : \E j \in 1..Len(seqs[i]) : u[k] = seqs[i][j]
      <3>1. CASE k <= Len(s)
        <4>1. k \in 1..Len(s) /\ u[k] = s[k]
          BY <2>3, <3>1
        <4>2. PICK i \in 1..m - 1 : \E j \in 1..Len(seqs[i]) : s[k] = seqs[i][j]
          BY <2>2, <4>1
        <4>3. i \in 1..m
          BY <1>1
        <4>4. QED
          BY <4>1, <4>2, <4>3
      <3>2. CASE ~(k <= Len(s))
        <4>1. k - Len(s) \in 1..Len(t) /\ u[k] = t[k - Len(s)] /\ m \in 1..m
          BY <2>3, <3>2, <1>1
        <4>2. QED
          BY <4>1
      <3>3. QED
        BY <3>1, <3>2
    <2>5. ASSUME NEW i \in 1..m, NEW j \in 1..Len(seqs[i])
          PROVE  \E k \in 1..Len(u) : u[k] = seqs[i][j]
      <3>1. CASE i # m
        <4>1. i \in 1..m - 1
          BY <1>1, <3>1
        <4>2. PICK k \in 1..Len(s) : s[k] = seqs[i][j]
          BY <2>2, <4>1
        <4>3. k \in 1..Len(u) /\ u[k] = s[k]
          BY <2>3
        <4>4. QED
          BY <4>2, <4>3
      <3>2. CASE i = m
        <4>1. j \in 1..Len(t) /\ Len(s) + j \in 1..Len(u) /\ ~(Len(s) + j <= Len(s))
              /\ (Len(s) + j) - Len(s) = j
          BY <2>3, <3>2
        <4>2. u[Len(s) + j] = t[j]
          BY <2>3, <4>1
        <4>3. QED
          BY <3>2, <4>1, <4>2
      <3>3. QED
        BY <3>1, <3>2
    <2>6. Held(acc[m], m)
      BY <2>4, <2>5 DEF u
    <2>7. QED
      BY <2>1, <2>6
  <1>5. n \in Good
    <2> HIDE DEF Good, n
    <2>1. \A m \in 1..n : m - 1 \in Good => m \in Good
      BY <1>4
    <2>2. \A m \in 0..n : m \in Good
      BY <1>1, <1>3, <2>1, Upwards
    <2>3. QED
      BY <1>1, <2>2
  <1>6. Held(acc[n], n) /\ acc[n] \in Seq(A)
    BY <1>1, <1>2, <1>5
  <1>7. QED
    BY <1>2, <1>6

-----------------------------------------------------------------------------
(* Sums *)

\* The member that comes first.
Chosen(s) == CHOOSE x \in s : TRUE

\* SumFunctionOnSet adds one value after the other.
LEMMA SumSteps ==
  ASSUME NEW S, IsFiniteSet(S), NEW f \in [S -> Nat]
  PROVE  \E sum \in [SUBSET S -> Nat] :
           /\ sum[{}] = 0
           /\ \A s \in SUBSET S : s # {} => sum[s] = f[Chosen(s)] + sum[s \ {Chosen(s)}]
           /\ SumFunctionOnSet(f, S) = sum[S]
  <1> DEFINE n == Cardinality(S)
             Low(m) == {s \in SUBSET S : Cardinality(s) <= m}
             Adds(g, m) == g = [s \in Low(m) |->
                                  IF s = {} THEN 0 ELSE f[Chosen(s)] + g[s \ {Chosen(s)}]]
             Good == {m \in 0..n : \E g : Adds(g, m)}
  <1>1. n \in Nat /\ \A s \in SUBSET S : IsFiniteSet(s) /\ Cardinality(s) \in 0..n
    BY FS_Subset, FS_CardinalityType
  <1>2. \A s \in SUBSET S : s # {} => Chosen(s) \in s /\ Cardinality(s \ {Chosen(s)}) = Cardinality(s) - 1
                                      /\ s \ {Chosen(s)} \in SUBSET S
    <2> SUFFICES ASSUME NEW s \in SUBSET S, s # {}
                 PROVE  Chosen(s) \in s /\ Cardinality(s \ {Chosen(s)}) = Cardinality(s) - 1
                        /\ s \ {Chosen(s)} \in SUBSET S
      OBVIOUS
    <2>1. Chosen(s) \in s
      BY DEF Chosen
    <2>2. QED
      BY <1>1, <2>1, FS_RemoveElement
  <1>3. 0 \in Good
    <2> DEFINE g == [s \in Low(0) |-> 0]
    <2>1. \A s \in Low(0) : s = {}
      BY <1>1, FS_EmptySet
    <2>2. g = [s \in Low(0) |-> IF s = {} THEN 0 ELSE f[Chosen(s)] + g[s \ {Chosen(s)}]]
      BY <2>1
    <2> HIDE DEF g
    <2>3. Adds(g, 0)
      BY <2>2
    <2> HIDE DEF Adds
    <2>4. QED
      BY <1>1, <2>3
  <1>4. ASSUME NEW m \in 1..n, m - 1 \in Good
        PROVE  m \in Good
    <2>1. PICK h : Adds(h, m - 1)
      BY <1>4
    <2> DEFINE g == [s \in Low(m) |-> IF Cardinality(s) < m THEN h[s]
                                      ELSE IF s = {} THEN 0 ELSE f[Chosen(s)] + h[s \ {Chosen(s)}]]
    <2>2. ASSUME NEW s \in Low(m)
          PROVE  g[s] = IF s = {} THEN 0 ELSE f[Chosen(s)] + g[s \ {Chosen(s)}]
      <3>1. s # {} => s \ {Chosen(s)} \in Low(m) /\ Cardinality(s \ {Chosen(s)}) < m
        BY <1>1, <1>2, <2>2
      <3>2. s # {} => g[s \ {Chosen(s)}] = h[s \ {Chosen(s)}]
        BY <3>1
      <3>3. CASE Cardinality(s) < m
        <4>1. s \in Low(m - 1)
          BY <1>1, <2>2, <3>3
        <4>2. h[s] = IF s = {} THEN 0 ELSE f[Chosen(s)] + h[s \ {Chosen(s)}]
          BY <2>1, <4>1
        <4>3. g[s] = h[s]
          BY <2>2, <3>3
        <4> HIDE DEF g
        <4>4. QED
          BY <3>2, <4>2, <4>3
      <3>4. CASE ~(Cardinality(s) < m)
        <4>1. g[s] = IF s = {} THEN 0 ELSE f[Chosen(s)] + h[s \ {Chosen(s)}]
          BY <2>2, <3>4
        <4> HIDE DEF g
        <4>2. QED
          BY <3>2, <4>1
      <3>5. QED
        BY <3>3, <3>4
    <2>3. g = [s \in Low(m) |-> g[s]]
      OBVIOUS
    <2> HIDE DEF g
    <2>4. Adds(g, m)
      <3> HIDE DEF Low
      <3>1. QED
        BY <2>2, <2>3, Zenon
    <2> HIDE DEF Adds
    <2>5. QED
      BY <1>1, <2>4
  <1>5. n \in Good
    <2> HIDE DEF Good, n
    <2>1. \A m \in 1..n : m - 1 \in Good => m \in Good
      BY <1>4
    <2>2. QED
      BY <1>1, <1>3, <2>1, Upwards
  <1> DEFINE sum == CHOOSE g : g = [s \in SUBSET S |-> IF s = {} THEN 0 ELSE f[Chosen(s)] + g[s \ {Chosen(s)}]]
  <1>6. Low(n) = SUBSET S
    BY <1>1
  <1>7. sum = [s \in SUBSET S |-> IF s = {} THEN 0 ELSE f[Chosen(s)] + sum[s \ {Chosen(s)}]]
    <2> HIDE DEF Low
    <2>1. \E g : g = [s \in Low(n) |-> IF s = {} THEN 0 ELSE f[Chosen(s)] + g[s \ {Chosen(s)}]]
      <3>1. \E g : Adds(g, n)
        <4> HIDE DEF Adds
        <4>1. QED
          BY <1>5
      <3>2. QED
        BY <3>1
    <2>2. \E g : g = [s \in SUBSET S |-> IF s = {} THEN 0 ELSE f[Chosen(s)] + g[s \ {Chosen(s)}]]
      BY <1>6, <2>1
    <2>3. QED
      BY <2>2, Zenon
  <1>8. SumFunctionOnSet(f, S) = sum[S]
    BY DEF SumFunctionOnSet, FoldFunctionOnSet, MapThenFoldSet, Chosen
  <1> HIDE DEF sum
  <1>9. \A s \in SUBSET S : sum[s] = IF s = {} THEN 0 ELSE f[Chosen(s)] + sum[s \ {Chosen(s)}]
    BY <1>7
  <1> DEFINE Typed == {s \in SUBSET S : sum[s] \in Nat}
  <1>10. {} \in Typed
    BY <1>9
  <1>11. ASSUME NEW s \in SUBSET S, s # {}, \A x \in s : s \ {x} \in Typed
         PROVE  s \in Typed
    <2>1. Chosen(s) \in s /\ Chosen(s) \in S
      BY <1>2, <1>11
    <2>2. sum[s \ {Chosen(s)}] \in Nat /\ f[Chosen(s)] \in Nat
      BY <1>11, <2>1
    <2>3. sum[s] = f[Chosen(s)] + sum[s \ {Chosen(s)}]
      BY <1>9, <1>11, Zenon
    <2>4. sum[s] \in Nat
      BY <2>2, <2>3
    <2>5. QED
      BY <2>4
  <1>12. \A s \in SUBSET S : s \in Typed
    <2> HIDE DEF Typed
    <2>1. QED
      BY <1>10, <1>11, SubsetsUpwards
  <1>13. sum \in [SUBSET S -> Nat]
    BY <1>7, <1>12
  <1>14. QED
    BY <1>8, <1>9, <1>13

\* What is known of the sums of f over the subsets of S, in whatever order.
AddsUp(sum, f, S) ==
  /\ sum \in [SUBSET S -> Nat] /\ sum[{}] = 0
  /\ \A s \in SUBSET S : \A x \in s : sum[s] = f[x] + sum[s \ {x}]
  /\ SumFunctionOnSet(f, S) = sum[S]

\* Which member comes first makes no difference.
LEMMA SumInAnyOrder ==
  ASSUME NEW S, IsFiniteSet(S), NEW f \in [S -> Nat]
  PROVE  \E sum : AddsUp(sum, f, S)
  <1>1. PICK sum \in [SUBSET S -> Nat] :
          /\ sum[{}] = 0
          /\ \A s \in SUBSET S : s # {} => sum[s] = f[Chosen(s)] + sum[s \ {Chosen(s)}]
          /\ SumFunctionOnSet(f, S) = sum[S]
    BY SumSteps
  <1> DEFINE T == {s \in SUBSET S : \A x \in s : sum[s] = f[x] + sum[s \ {x}]}
  <1>2. {} \in T
    OBVIOUS
  <1>3. ASSUME NEW s \in SUBSET S, s # {}, \A x \in s : s \ {x} \in T
        PROVE  s \in T
    <2>1. Chosen(s) \in s
      BY <1>3 DEF Chosen
    <2>2. ASSUME NEW x \in s
          PROVE  sum[s] = f[x] + sum[s \ {x}]
      <3>1. sum[s] = f[Chosen(s)] + sum[s \ {Chosen(s)}]
        BY <1>1, <1>3
      <3>2. CASE x = Chosen(s)
        BY <3>1, <3>2
      <3>3. CASE x # Chosen(s)
        <4> DEFINE a == Chosen(s)
                   rest == s \ {a, x}
        <4>1. sum[s \ {a}] = f[x] + sum[(s \ {a}) \ {x}]
          BY <1>3, <2>1, <3>3
        <4>2. sum[s \ {x}] = f[a] + sum[(s \ {x}) \ {a}]
          BY <1>3, <2>1, <3>3
        <4>3. (s \ {a}) \ {x} = rest /\ (s \ {x}) \ {a} = rest
          OBVIOUS
        <4>4. rest \in SUBSET S /\ a \in S /\ x \in S
          BY <2>1
        <4>5. sum[rest] \in Nat /\ f[a] \in Nat /\ f[x] \in Nat
          BY <1>1, <4>4
        <4> HIDE DEF a, rest
        <4>6. sum[s \ {a}] = f[x] + sum[rest] /\ sum[s \ {x}] = f[a] + sum[rest]
          BY <4>1, <4>2, <4>3
        <4>7. QED
          BY <3>1, <4>5, <4>6 DEF a
      <3>4. QED
        BY <3>2, <3>3
    <2>3. QED
      BY <2>2
  <1>4. \A s \in SUBSET S : s \in T
    <2> HIDE DEF T
    <2>1. QED
      BY <1>2, <1>3, SubsetsUpwards
  <1>5. AddsUp(sum, f, S)
    BY <1>1, <1>4 DEF AddsUp
  <1>6. QED
    BY <1>5

\* The sum of a part is the sum over that part.
LEMMA SumOfPart ==
  ASSUME NEW S, IsFiniteSet(S), NEW f \in [S -> Nat], NEW sum, AddsUp(sum, f, S),
         NEW T \in SUBSET S, NEW g \in [T -> Nat], \A x \in T : g[x] = f[x]
  PROVE  SumFunction(g) = sum[T]
  <1>1. IsFiniteSet(T)
    BY FS_Subset
  <1>2. PICK part : AddsUp(part, g, T)
    BY <1>1, SumInAnyOrder
  <1> DEFINE Same == {s \in SUBSET T : part[s] = sum[s]}
  <1>3. {} \in Same
    BY <1>2 DEF AddsUp
  <1>4. ASSUME NEW s \in SUBSET T, s # {}, \A x \in s : s \ {x} \in Same
        PROVE  s \in Same
    <2>1. PICK x : x \in s
      BY <1>4
    <2>2. part[s] = g[x] + part[s \ {x}]
      BY <1>2, <2>1 DEF AddsUp
    <2>3. sum[s] = f[x] + sum[s \ {x}]
      BY <2>1 DEF AddsUp
    <2>4. part[s \ {x}] = sum[s \ {x}] /\ g[x] = f[x]
      BY <1>4, <2>1
    <2>5. QED
      BY <2>2, <2>3, <2>4
  <1>5. \A s \in SUBSET T : s \in Same
    <2> HIDE DEF Same
    <2>1. QED
      BY <1>1, <1>3, <1>4, SubsetsUpwards
  <1>6. SumFunction(g) = part[T]
    BY <1>2 DEF AddsUp, SumFunction
  <1>7. QED
    BY <1>5, <1>6

\* Taking a member away takes its value away.
LEMMA SumWithout ==
  ASSUME NEW S, IsFiniteSet(S), NEW f \in [S -> Nat], NEW x \in S,
         NEW g \in [S \ {x} -> Nat], \A y \in S \ {x} : g[y] = f[y]
  PROVE  SumFunction(f) = f[x] + SumFunction(g)
  <1>1. PICK sum : AddsUp(sum, f, S)
    BY SumInAnyOrder
  <1>2. SumFunction(f) = sum[S]
    BY <1>1 DEF AddsUp, SumFunction
  <1>3. SumFunction(g) = sum[S \ {x}]
    <2>1. S \ {x} \in SUBSET S
      OBVIOUS
    <2>2. QED
      BY <1>1, <2>1, SumOfPart
  <1>4. sum[S] = f[x] + sum[S \ {x}]
    BY <1>1 DEF AddsUp
  <1>5. QED
    BY <1>2, <1>3, <1>4

\* Fewer members have no greater sum.
LEMMA SumOfFewer ==
  ASSUME NEW S, IsFiniteSet(S), NEW f \in [S -> Nat],
         NEW T \in SUBSET S, NEW g \in [T -> Nat], \A x \in T : g[x] = f[x]
  PROVE  SumFunction(f) \in Nat /\ SumFunction(g) \in Nat /\ SumFunction(g) <= SumFunction(f)
  <1>1. PICK sum : AddsUp(sum, f, S)
    BY SumInAnyOrder
  <1>2. SumFunction(f) = sum[S] /\ sum[S] \in Nat
    BY <1>1 DEF AddsUp, SumFunction
  <1>3. SumFunction(g) = sum[T] /\ sum[T] \in Nat
    <2>1. SumFunction(g) = sum[T]
      BY <1>1, SumOfPart
    <2>2. QED
      BY <1>1, <2>1 DEF AddsUp
  <1> DEFINE Fewer == {s \in SUBSET S : sum[S \ s] <= sum[S]}
  <1>4. {} \in Fewer
    <2>1. S \ {} = S
      OBVIOUS
    <2>2. QED
      BY <1>2, <2>1
  <1>5. ASSUME NEW s \in SUBSET S, s # {}, \A x \in s : s \ {x} \in Fewer
        PROVE  s \in Fewer
    <2>1. PICK x : x \in s
      BY <1>5
    <2>2. sum[S \ (s \ {x})] <= sum[S]
      BY <1>5, <2>1
    <2>3. (S \ (s \ {x})) \ {x} = S \ s /\ x \in S \ (s \ {x}) /\ x \in S
      BY <2>1
    <2>4. sum[S \ (s \ {x})] = f[x] + sum[S \ s]
      <3>1. S \ (s \ {x}) \in SUBSET S
        OBVIOUS
      <3>2. sum[S \ (s \ {x})] = f[x] + sum[(S \ (s \ {x})) \ {x}]
        BY <1>1, <2>3, <3>1 DEF AddsUp
      <3>3. QED
        BY <2>3, <3>2
    <2>5. sum[S \ s] \in Nat /\ sum[S] \in Nat /\ f[x] \in Nat
      BY <1>1, <2>3 DEF AddsUp
    <2>6. sum[S \ s] <= sum[S]
      BY <2>2, <2>4, <2>5
    <2>7. QED
      BY <2>6
  <1>6. \A s \in SUBSET S : s \in Fewer
    <2> HIDE DEF Fewer
    <2>1. QED
      BY <1>4, <1>5, SubsetsUpwards
  <1>7. sum[T] <= sum[S]
    <2>1. S \ T \in SUBSET S /\ S \ (S \ T) = T
      OBVIOUS
    <2>2. QED
      BY <1>6, <2>1
  <1>8. QED
    BY <1>2, <1>3, <1>7

\* Nothing adds up to nothing, and values up to b to no more than b each.
LEMMA SumBounded ==
  ASSUME NEW S, IsFiniteSet(S), NEW b \in Nat, NEW f \in [S -> 0..b]
  PROVE  /\ SumFunction(f) \in Nat
         /\ SumFunction(f) <= Cardinality(S) * b
         /\ S = {} => SumFunction(f) = 0
  <1>1. f \in [S -> Nat]
    OBVIOUS
  <1>2. PICK sum : AddsUp(sum, f, S)
    BY <1>1, SumInAnyOrder
  <1>3. SumFunction(f) = sum[S] /\ sum[S] \in Nat /\ sum[{}] = 0
    BY <1>1, <1>2 DEF AddsUp, SumFunction
  <1> DEFINE Bounded == {s \in SUBSET S : sum[s] <= Cardinality(s) * b}
  <1>4. {} \in Bounded
    <2>1. Cardinality({}) = 0
      BY FS_EmptySet
    <2>2. QED
      BY <1>3, <2>1
  <1>5. ASSUME NEW s \in SUBSET S, s # {}, \A x \in s : s \ {x} \in Bounded
        PROVE  s \in Bounded
    <2>1. PICK x : x \in s
      BY <1>5
    <2> DEFINE n == Cardinality(s \ {x})
    <2>2. IsFiniteSet(s) /\ Cardinality(s) \in Nat /\ n \in Nat /\ Cardinality(s) = n + 1
      <3>1. IsFiniteSet(s)
        BY FS_Subset
      <3>2. n = Cardinality(s) - 1 /\ IsFiniteSet(s \ {x})
        BY <2>1, <3>1, FS_RemoveElement
      <3>3. QED
        BY <3>1, <3>2, FS_CardinalityType
    <2>3. sum[s] = f[x] + sum[s \ {x}] /\ sum[s \ {x}] \in Nat
      BY <1>2, <2>1 DEF AddsUp
    <2>4. sum[s \ {x}] <= n * b /\ f[x] \in 0..b
      BY <1>5, <2>1
    <2> HIDE DEF n
    <2>5. (n + 1) * b = n * b + b /\ n * b \in Nat
      BY <2>2
    <2>6. sum[s] <= (n + 1) * b
      BY <2>3, <2>4, <2>5
    <2>7. QED
      BY <2>2, <2>6
  <1>6. \A s \in SUBSET S : s \in Bounded
    <2> HIDE DEF Bounded
    <2>1. QED
      BY <1>4, <1>5, SubsetsUpwards
  <1>7. QED
    BY <1>3, <1>6
=============================================================================
