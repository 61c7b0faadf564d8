------------------------ MODULE AnswerPipelineProofs ------------------------
(***************************************************************************)
(* From a question to its citations, for all values of the constants: the  *)
(* fused ranking respects agreement, the selection is diverse and full,    *)
(* and a number the model was shown is resolved to what it saw.            *)
(***************************************************************************)
EXTENDS AnswerPipeline, OrdersProofs

-----------------------------------------------------------------------------
(* Sequences and their members *)

Once(s) == \A i, j \in 1..Len(s) : s[i] = s[j] => i = j

LEMMA Constants ==
  /\ Docs \subseteq Nat /\ MaxChunks \in Nat \ {0}
  /\ VectorCount \in Nat \ {0} /\ LexicalCount \in Nat \ {0}
  /\ VectorWeight \in Nat \ {0} /\ LexicalWeight \in Nat \ {0} /\ K \in Nat \ {0}
  /\ Shortlist \in Nat \ {0} /\ TopK \in Nat \ {0} /\ MaxPerDocument \in Nat \ {0}
  /\ MaxContext \in Nat \ {0} /\ MaxMarkers \in Nat \ {0}
  BY AnswerAssumption

\* The range of a sequence is finite, and has a member for each place at most.
LEMMA RangeOf ==
  ASSUME NEW A, NEW s \in Seq(A)
  PROVE  /\ IsFiniteSet(ToSet(s)) /\ ToSet(s) \subseteq A
         /\ Cardinality(ToSet(s)) \in Nat /\ Cardinality(ToSet(s)) <= Len(s)
         /\ Once(s) => Cardinality(ToSet(s)) = Len(s)
         /\ \A c : c \in ToSet(s) <=> Contains(s, c)
  <1>1. Len(s) \in Nat /\ s \in [1..Len(s) -> A] /\ ToSet(s) = {s[i] : i \in 1..Len(s)}
    BY DEF ToSet
  <1>2. s \in Surjection(1..Len(s), ToSet(s))
    BY <1>1 DEF Surjection
  <1>3. IsFiniteSet(1..Len(s)) /\ Cardinality(1..Len(s)) = Len(s)
    BY <1>1, FS_Interval
  <1>4. /\ IsFiniteSet(ToSet(s)) /\ Cardinality(ToSet(s)) <= Len(s)
        /\ Cardinality(ToSet(s)) = Len(s) <=> s \in Injection(1..Len(s), ToSet(s))
    BY <1>2, <1>3, FS_Surjection
  <1>5. Once(s) => s \in Injection(1..Len(s), ToSet(s))
    BY <1>1, <1>2 DEF Once, Injection, Surjection, IsInjective
  <1>6. Cardinality(ToSet(s)) \in Nat
    BY <1>4, FS_CardinalityType
  <1>7. ToSet(s) \subseteq A /\ \A c : c \in ToSet(s) <=> Contains(s, c)
    BY <1>1 DEF Contains
  <1>8. QED
    BY <1>4, <1>5, <1>6, <1>7

LEMMA MinOfTwo ==
  ASSUME NEW a \in Nat, NEW b \in Nat
  PROVE  Min({a, b}) = IF a <= b THEN a ELSE b
  <1> DEFINE least == IF a <= b THEN a ELSE b
  <1>1. least \in {a, b} /\ \A y \in {a, b} : least =< y
    OBVIOUS
  <1>2. \A x \in {a, b} : (\A y \in {a, b} : x =< y) => x = least
    OBVIOUS
  <1>3. QED
    BY <1>1, <1>2 DEF Min

LEMMA FirstOfIs ==
  ASSUME NEW A, NEW s \in Seq(A), NEW n \in Nat
  PROVE  /\ FirstOf(s, n) \in Seq(A)
         /\ Len(FirstOf(s, n)) = IF n <= Len(s) THEN n ELSE Len(s)
         /\ \A i \in 1..Len(FirstOf(s, n)) : FirstOf(s, n)[i] = s[i]
  <1>1. Len(s) \in Nat
    OBVIOUS
  <1> DEFINE m == Min({n, Len(s)})
  <1>2. m = IF n <= Len(s) THEN n ELSE Len(s)
    BY <1>1, MinOfTwo
  <1>3. FirstOf(s, n) = SubSeq(s, 1, m)
    BY DEF FirstOf
  <1> HIDE DEF m
  <1>4. m \in 0..Len(s)
    BY <1>1, <1>2
  <1>5. SubSeq(s, 1, m) \in Seq(A) /\ Len(SubSeq(s, 1, m)) = m
    BY <1>1, <1>4
  <1>6. \A i \in 1..m : SubSeq(s, 1, m)[i] = s[i]
    BY <1>1, <1>4
  <1>7. QED
    BY <1>2, <1>3, <1>5, <1>6

LEMMA RankOf ==
  ASSUME NEW A, NEW list \in Seq(A)
  PROVE  /\ \A c : Contains(list, c) =>
              Rank(list, c) \in 1..Len(list) /\ list[Rank(list, c)] = c
         /\ Once(list) => \A i \in 1..Len(list) : Rank(list, list[i]) = i
  <1>1. \A c : Contains(list, c) =>
              Rank(list, c) \in 1..Len(list) /\ list[Rank(list, c)] = c
    BY DEF Contains, Rank
  <1>2. ASSUME Once(list), NEW i \in 1..Len(list)
        PROVE  Rank(list, list[i]) = i
    <2>1. Contains(list, list[i])
      BY DEF Contains
    <2>2. QED
      BY <1>1, <1>2, <2>1 DEF Once
  <1>3. QED
    BY <1>1, <1>2

\* The first members of a sequence without repetition.
Firsts(s, k) == {s[i] : i \in 1..k}

LEMMA FirstPlaces ==
  ASSUME NEW n \in Nat, NEW Q, NEW s \in [1..n -> Q], NEW k \in 0..n,
         \A i, j \in 1..n : s[i] = s[j] => i = j
  PROVE  IsFiniteSet(Firsts(s, k)) /\ Cardinality(Firsts(s, k)) = k
  <1> DEFINE f == [i \in 1..k |-> s[i]]
  <1>1. f \in Surjection(1..k, Firsts(s, k))
    BY DEF Surjection, Firsts
  <1>2. f \in Injection(1..k, Firsts(s, k))
    BY DEF Injection, IsInjective, Firsts
  <1>3. IsFiniteSet(1..k) /\ Cardinality(1..k) = k
    BY FS_Interval
  <1> HIDE DEF f
  <1>4. QED
    BY <1>1, <1>2, <1>3, FS_Surjection

\* Of a set of numbers, those with fewer than m others below them.
Low(Q, m) == {q \in Q : Cardinality({r \in Q : r < q}) < m}

LEMMA LowMembers ==
  ASSUME NEW Q \in SUBSET Nat, IsFiniteSet(Q), NEW m \in Nat
  PROVE  /\ IsFiniteSet(Low(Q, m)) /\ Cardinality(Low(Q, m)) <= m
         /\ Cardinality(Q) >= m => Cardinality(Low(Q, m)) = m
         /\ Cardinality(Q) < m => Low(Q, m) = Q
  <1> DEFINE s == Ascending(Q)
             n == Cardinality(Q)
             k == IF m <= n THEN m ELSE n
  <1>1. n \in Nat
    BY FS_CardinalityType
  <1>2. /\ s \in [1..n -> Q]
        /\ \A x \in Q : \E i \in 1..n : s[i] = x
        /\ \A i, j \in 1..n : i < j <=> s[i] < s[j]
    BY AscendingPlaces
  <1> HIDE DEF s, n
  <1>3. \A i, j \in 1..n : s[i] = s[j] => i = j
    BY <1>1, <1>2
  <1>2a. s \in [1..n -> Q]
    BY <1>2
  <1>4. ASSUME NEW i \in 1..n
        PROVE  Cardinality({r \in Q : r < s[i]}) = i - 1
    <2>1. {r \in Q : r < s[i]} = Firsts(s, i - 1)
      <3>1. ASSUME NEW r \in Q, r < s[i]
            PROVE  r \in {s[j] : j \in 1..(i - 1)}
        <4>1. PICK j \in 1..n : s[j] = r
          BY <1>2
        <4>2. j < i
          BY <1>2, <3>1, <4>1
        <4>3. QED
          BY <1>1, <4>1, <4>2
      <3>2. ASSUME NEW j \in 1..(i - 1)
            PROVE  s[j] \in Q /\ s[j] < s[i]
        BY <1>1, <1>2
      <3>3. QED
        BY <3>1, <3>2 DEF Firsts
    <2>2. i - 1 \in 0..n
      BY <1>1
    <2>3. Cardinality(Firsts(s, i - 1)) = i - 1
      BY <1>1, <1>2a, <1>3, <2>2, FirstPlaces
    <2>4. QED
      BY <2>1, <2>3
  <1>5. Low(Q, m) = Firsts(s, k)
    <2>1. ASSUME NEW q \in Low(Q, m)
          PROVE  q \in {s[i] : i \in 1..k}
      <3>1. PICK i \in 1..n : s[i] = q
        BY <1>2 DEF Low
      <3>2. i - 1 < m
        BY <1>4, <3>1 DEF Low
      <3>3. QED
        BY <1>1, <3>1, <3>2
    <2>2. ASSUME NEW i \in 1..k
          PROVE  s[i] \in Low(Q, m)
      <3>1. i \in 1..n /\ i - 1 < m
        BY <1>1
      <3>2. QED
        BY <1>2, <1>4, <3>1 DEF Low
    <2>3. QED
      BY <2>1, <2>2 DEF Firsts
  <1>6. k \in 0..n
    BY <1>1
  <1> HIDE DEF k
  <1>7. IsFiniteSet(Low(Q, m)) /\ Cardinality(Low(Q, m)) = k
    <2>1. IsFiniteSet(Firsts(s, k)) /\ Cardinality(Firsts(s, k)) = k
      BY <1>1, <1>2a, <1>3, <1>6, FirstPlaces
    <2>2. QED
      BY <1>5, <2>1
  <1>8. n < m => Low(Q, m) = Q
    <2>1. n < m => k = n
      BY <1>1 DEF k
    <2>2. Firsts(s, n) = Q
      BY <1>2 DEF Firsts
    <2>3. QED
      BY <1>5, <2>1, <2>2
  <1>9. QED
    BY <1>1, <1>7, <1>8 DEF k, n

-----------------------------------------------------------------------------
(* Fusion: the common denominator *)

Places == VectorCount + LexicalCount

\* The product, as it grows.
LEMMA DenominatorGrows ==
  \E acc \in [0..Places -> Nat] :
    /\ acc[0] = 1 /\ \A i \in 1..Places : acc[i] = (K + i) * acc[i - 1]
    /\ Denominator = acc[Places]
  <1> DEFINE Grown(f, m) == f = [i \in 0..m |-> IF i = 0 THEN 1 ELSE (K + i) * f[i - 1]]
             T == {m \in Nat : \E f \in [0..m -> Nat] : Grown(f, m)}
  <1>1. Places \in Nat /\ K \in Nat
    BY Constants DEF Places
  <1>2. 0 \in T
    <2> DEFINE f == [i \in 0..0 |-> 1]
    <2>1. f \in [0..0 -> Nat] /\ Grown(f, 0)
      OBVIOUS
    <2>2. QED
      BY <2>1
  <1>3. ASSUME NEW m \in 1..Places, m - 1 \in T
        PROVE  m \in T
    <2>1. PICK f \in [0..(m - 1) -> Nat] : Grown(f, m - 1)
      BY <1>3
    <2> DEFINE g == [i \in 0..m |-> IF i = m THEN (K + m) * f[m - 1] ELSE f[i]]
    <2>2. m - 1 \in 0..(m - 1) /\ m \in Nat /\ f[m - 1] \in Nat
      BY <1>1
    <2>3. (K + m) * f[m - 1] \in Nat
      BY <1>1, <2>2
    <2>4. g \in [0..m -> Nat]
      BY <2>2, <2>3
    <2>5. ASSUME NEW i \in 0..m
          PROVE  g[i] = IF i = 0 THEN 1 ELSE (K + i) * g[i - 1]
      <3>1. CASE i = m
        <4>1. i # 0 /\ i - 1 \in 0..m /\ i - 1 # m /\ g[i - 1] = f[m - 1]
          BY <2>2, <3>1
        <4>2. g[i] = (K + m) * f[m - 1]
          BY <3>1
        <4> HIDE DEF g
        <4>3. QED
          BY <3>1, <4>1, <4>2
      <3>2. CASE i = 0
        <4>1. 0 \in 0..(m - 1) /\ i # m /\ f[0] = 1
          BY <2>1, <2>2, <3>2
        <4>2. QED
          BY <3>2, <4>1
      <3>3. CASE i # m /\ i # 0
        <4>1. i \in 0..(m - 1) /\ i - 1 \in 0..m /\ i - 1 # m
          BY <2>2, <3>3
        <4>2. f[i] = (K + i) * f[i - 1]
          BY <2>1, <3>3, <4>1
        <4>3. g[i] = f[i] /\ g[i - 1] = f[i - 1]
          BY <3>3, <4>1
        <4> HIDE DEF g
        <4>4. QED
          BY <3>3, <4>2, <4>3
      <3>4. QED
        BY <3>1, <3>2, <3>3
    <2> HIDE DEF g
    <2>6. g = [i \in 0..m |-> IF i = 0 THEN 1 ELSE (K + i) * g[i - 1]]
      BY <2>4, <2>5
    <2>7. QED
      BY <2>2, <2>4, <2>6
  <1> HIDE DEF T
  <1>4. \A m \in 1..Places : m - 1 \in T => m \in T
    BY <1>3
  <1>5. Places \in T
    BY <1>1, <1>2, <1>4, Upwards
  <1>6. \E f : Grown(f, Places)
    BY <1>5 DEF T
  <1> DEFINE product == CHOOSE f : Grown(f, Places)
  <1>7. Denominator = product[Places]
    BY DEF Denominator, Places
  <1>8. Grown(product, Places)
    BY <1>6
  <1> HIDE DEF product
  <1>9. /\ product[0] = 1
        /\ \A i \in 1..Places : product[i] = (K + i) * product[i - 1]
    <2>1. 0 \in 0..Places /\ \A i \in 1..Places : i \in 0..Places /\ i # 0
      BY <1>1
    <2>2. QED
      BY <1>8, <2>1
  <1>10. \A i \in 0..Places : i \in {j \in Nat : product[j] \in Nat}
    <2> DEFINE U == {j \in Nat : product[j] \in Nat}
    <2>1. 0 \in U
      BY <1>9
    <2>2. ASSUME NEW i \in 1..Places, i - 1 \in U
          PROVE  i \in U
      <3>1. product[i - 1] \in Nat /\ K + i \in Nat /\ i \in Nat
        BY <1>1, <2>2
      <3>2. (K + i) * product[i - 1] \in Nat
        BY <3>1
      <3>3. QED
        BY <1>9, <3>1, <3>2
    <2> HIDE DEF U
    <2>3. \A i \in 1..Places : i - 1 \in U => i \in U
      BY <2>2
    <2>4. \A i \in 0..Places : i \in U
      BY <1>1, <2>1, <2>3, Upwards
    <2>5. QED
      BY <2>4 DEF U
  <1>11. product = [i \in 0..Places |-> product[i]]
    BY <1>8
  <1>12. product \in [0..Places -> Nat]
    BY <1>10, <1>11
  <1>13. QED
    BY <1>7, <1>9, <1>12

LEMMA Times ==
  /\ \A a, b, c \in Nat : a * (b * c) = (a * b) * c /\ a * b \in Nat /\ a * b = b * a
  /\ \A a, b \in Nat : a # 0 /\ b # 0 => a * b # 0
  /\ \A a, b, c \in Nat : a # 0 /\ b < c => a * b < a * c
  /\ \A a, b \in Nat : b # 0 => (a * b) \div b = a
  <1>1. \A a, b, c \in Nat : a * (b * c) = (a * b) * c /\ a * b \in Nat /\ a * b = b * a
    OBVIOUS
  <1>2. \A a, b \in Nat : a # 0 /\ b # 0 => a * b # 0
    OBVIOUS
  <1>3. \A a, b, c \in Nat : a # 0 /\ b < c => a * b < a * c
    <2> SUFFICES ASSUME NEW a \in Nat, NEW b \in Nat, NEW c \in Nat, a # 0, b < c
                 PROVE  a * b < a * c
      OBVIOUS
    <2>1. PICK d \in Nat : c = b + d /\ d # 0
      <3>1. c - b \in Nat /\ c = b + (c - b) /\ c - b # 0
        OBVIOUS
      <3>2. QED
        BY <3>1
    <2>2. a * c = a * b + a * d
      BY <2>1
    <2>3. a * d > 0 /\ a * b \in Nat /\ a * d \in Nat
      BY <2>1, <1>2, <1>1
    <2>4. QED
      BY <2>2, <2>3
  <1>4. \A a, b \in Nat : b # 0 => (a * b) \div b = a
    OBVIOUS
  <1>5. QED
    BY <1>1, <1>2, <1>3, <1>4

\* Every two of the numbers it is the product of divide it together.
LEMMA DenominatorDivides ==
  ASSUME NEW i \in 1..Places, NEW j \in 1..Places, i < j
  PROVE  \E m \in Nat \ {0} : Denominator = m * ((K + i) * (K + j))
  <1>1. PICK acc \in [0..Places -> Nat] :
          /\ acc[0] = 1 /\ \A l \in 1..Places : acc[l] = (K + l) * acc[l - 1]
          /\ Denominator = acc[Places]
    BY DenominatorGrows
  <1>2. /\ Places \in Nat /\ i \in Nat /\ j \in Nat /\ i # 0 /\ j # 0
        /\ \A l \in 1..Places : l \in Nat /\ K + l \in Nat \ {0}
    BY Constants DEF Places
  <1> DEFINE T == {l \in Nat :
               /\ acc[l] # 0
               /\ i <= l => \E m \in Nat \ {0} : acc[l] = m * (K + i)
               /\ j <= l => \E m \in Nat \ {0} : acc[l] = m * ((K + i) * (K + j))}
  <1>3. 0 \in T
    BY <1>1, <1>2
  <1>4. ASSUME NEW l \in 1..Places, l - 1 \in T
        PROVE  l \in T
    <2> DEFINE x == K + l
               p == acc[l - 1]
    <2>1. acc[l] = x * p /\ x \in Nat \ {0} /\ p \in Nat \ {0}
      BY <1>1, <1>2, <1>4
    <2>2. acc[l] # 0
      BY <2>1, Times
    <2>3. ASSUME i <= l
          PROVE  \E m \in Nat \ {0} : acc[l] = m * (K + i)
      <3>1. CASE i = l
        <4>1. x = K + i
          BY <3>1
        <4> HIDE DEF x, p
        <4>2. x * p = p * x
          BY <2>1, Times
        <4>3. QED
          BY <2>1, <4>1, <4>2
      <3>2. CASE i # l
        <4>1. i <= l - 1
          BY <1>2, <2>3, <3>2
        <4>2. PICK m \in Nat \ {0} : p = m * (K + i)
          BY <1>4, <4>1
        <4>3. x * m \in Nat \ {0} /\ x * (m * (K + i)) = (x * m) * (K + i)
          BY <1>2, <2>1, Times
        <4> HIDE DEF x, p
        <4>4. QED
          BY <2>1, <4>2, <4>3
      <3>3. QED
        BY <3>1, <3>2
    <2>4. ASSUME j <= l
          PROVE  \E m \in Nat \ {0} : acc[l] = m * ((K + i) * (K + j))
      <3>1. CASE j = l
        <4>1. i <= l - 1
          BY <1>2, <3>1
        <4>2. PICK m \in Nat \ {0} : p = m * (K + i)
          BY <1>4, <4>1
        <4>3. m * ((K + i) * x) = (m * (K + i)) * x /\ p * x = x * p
          BY <1>2, <2>1, Times
        <4>4. x = K + j
          BY <3>1
        <4> HIDE DEF x, p
        <4>5. QED
          BY <2>1, <4>2, <4>3, <4>4
      <3>2. CASE j # l
        <4>1. j <= l - 1
          BY <1>2, <2>4, <3>2
        <4> DEFINE y == (K + i) * (K + j)
        <4>2. PICK m \in Nat \ {0} : p = m * y
          BY <1>4, <4>1
        <4>3. y \in Nat
          BY <1>2, Times
        <4> HIDE DEF y
        <4>4. x * m \in Nat \ {0} /\ x * (m * y) = (x * m) * y
          BY <2>1, <4>3, Times
        <4> HIDE DEF x, p
        <4>5. QED
          BY <2>1, <4>2, <4>4 DEF y
      <3>3. QED
        BY <3>1, <3>2
    <2>5. QED
      BY <1>2, <2>2, <2>3, <2>4
  <1> HIDE DEF T
  <1>5. \A l \in 1..Places : l - 1 \in T => l \in T
    BY <1>4
  <1>6. \A l \in 0..Places : l \in T
    <2>1. Places \in Nat
      BY <1>2
    <2>2. QED
      BY <2>1, <1>3, <1>5, Upwards
  <1>7. Places \in T
    BY <1>2, <1>6
  <1>8. QED
    BY <1>1, <1>2, <1>7 DEF T

\* A better place has the greater share.
LEMMA ShareFalls ==
  /\ \A i \in 1..Places : Denominator \div (K + i) \in Nat
  /\ \A i, j \in 1..Places :
       i < j => Denominator \div (K + j) < Denominator \div (K + i)
  <1>1. \A l \in 1..Places : K + l \in Nat \ {0}
    BY Constants DEF Places
  <1>2. Denominator \in Nat
    <2>1. Places \in Nat
      BY Constants DEF Places
    <2>2. QED
      BY <2>1, DenominatorGrows
  <1>3. ASSUME NEW i \in 1..Places
        PROVE  Denominator \div (K + i) \in Nat
    <2>1. \A a \in Nat, b \in Nat \ {0} : a \div b \in Nat
      OBVIOUS
    <2>2. QED
      BY <1>1, <1>2, <2>1
  <1>4. ASSUME NEW i \in 1..Places, NEW j \in 1..Places, i < j
        PROVE  Denominator \div (K + j) < Denominator \div (K + i)
    <2>1. PICK m \in Nat \ {0} : Denominator = m * ((K + i) * (K + j))
      BY <1>4, DenominatorDivides
    <2>2. PICK x \in Nat \ {0}, y \in Nat \ {0} : x = K + i /\ y = K + j /\ x < y
      BY <1>1, <1>4, Constants DEF Places
    <2>3. m * (x * y) = (m * x) * y /\ m * (y * x) = (m * y) * x /\ x * y = y * x
          /\ m * x \in Nat /\ m * y \in Nat
      BY Times
    <2>4. Denominator \div y = m * x /\ Denominator \div x = m * y
      <3>1. Denominator = (m * x) * y /\ Denominator = (m * y) * x
        BY <2>1, <2>2, <2>3
      <3>2. \A a \in Nat : (a * y) \div y = a /\ (a * x) \div x = a
        BY <2>2, Times
      <3>3. ((m * x) * y) \div y = m * x /\ ((m * y) * x) \div x = m * y
        BY <2>3, <3>2
      <3>4. QED
        BY <3>1, <3>3
    <2>5. m * x < m * y
      BY <2>2, Times
    <2>6. QED
      BY <2>2, <2>4, <2>5
  <1>5. QED
    BY <1>3, <1>4

-----------------------------------------------------------------------------
(* Fusion: the ranking *)

\* What a search finds: distinct chunks, not more than the denominator is for.
Ranking(list) == list \in Seq(Chunks) /\ Once(list) /\ Len(list) <= Places

LEMMA RankingsAre ==
  ASSUME NEW S \in SUBSET Chunks, NEW n \in Nat, n <= Places, NEW list \in Rankings(S, n)
  PROVE  Ranking(list) /\ ToSet(list) \subseteq S
  <1>1. PICK m \in 0..n : list \in [1..m -> S] /\ IsInjective(list)
    BY DEF Rankings
  <1>2. list \in Seq(Chunks) /\ Len(list) = m /\ DOMAIN list = 1..m
    BY <1>1
  <1>3. Once(list)
    BY <1>1, <1>2 DEF Once, IsInjective
  <1>4. ToSet(list) \subseteq S
    BY <1>1, <1>2 DEF ToSet
  <1>5. QED
    BY <1>2, <1>3, <1>4, Constants DEF Ranking, Places

LEMMA ContributionIs ==
  ASSUME NEW list, Ranking(list), NEW weight \in Nat \ {0}
  PROVE  /\ \A c : Contribution(list, weight, c) \in Nat
         /\ \A a, b : NotWorse(list, a, b) =>
              /\ Contribution(list, weight, b) <= Contribution(list, weight, a)
              /\ Contains(list, b) =>
                   Contribution(list, weight, b) < Contribution(list, weight, a)
  <1>1. \A c : Contains(list, c) => Rank(list, c) \in 1..Places
    <2>1. Len(list) \in Nat /\ Places \in Nat /\ Len(list) <= Places
      BY Constants DEF Ranking, Places
    <2>2. \A c : Contains(list, c) => Rank(list, c) \in 1..Len(list)
      BY RankOf DEF Ranking
    <2>3. QED
      BY <2>1, <2>2
  <1>2. \A c : Contribution(list, weight, c) \in Nat
    <2> TAKE c
    <2>1. CASE Contains(list, c)
      <3>1. Denominator \div (K + Rank(list, c)) \in Nat
        BY <1>1, <2>1, ShareFalls
      <3>2. weight * (Denominator \div (K + Rank(list, c))) \in Nat
        BY <3>1, Times
      <3>3. QED
        BY <2>1, <3>2 DEF Contribution
    <2>2. CASE ~Contains(list, c)
      BY <2>2 DEF Contribution
    <2>3. QED
      BY <2>1, <2>2
  <1>3. ASSUME NEW a, NEW b, NotWorse(list, a, b), Contains(list, b)
        PROVE  Contribution(list, weight, b) < Contribution(list, weight, a)
    <2> DEFINE p == Denominator \div (K + Rank(list, a))
               q == Denominator \div (K + Rank(list, b))
    <2>1. Contains(list, a) /\ Rank(list, a) < Rank(list, b)
      BY <1>3 DEF NotWorse
    <2>2. p \in Nat /\ q \in Nat /\ q < p
      BY <1>1, <1>3, <2>1, ShareFalls
    <2>3. Contribution(list, weight, a) = weight * p
      BY <2>1 DEF Contribution
    <2>4. Contribution(list, weight, b) = weight * q
      BY <1>3 DEF Contribution
    <2> HIDE DEF p, q
    <2>5. weight * q < weight * p
      BY <2>2, Times
    <2>6. QED
      BY <2>3, <2>4, <2>5
  <1>4. ASSUME NEW a, NEW b, ~Contains(list, b)
        PROVE  Contribution(list, weight, b) <= Contribution(list, weight, a)
    <2>1. Contribution(list, weight, b) = 0
      BY <1>4 DEF Contribution
    <2>2. QED
      BY <1>2, <2>1
  <1>5. ASSUME NEW a, NEW b, NotWorse(list, a, b)
        PROVE  Contribution(list, weight, b) <= Contribution(list, weight, a)
    <2>1. Contribution(list, weight, a) \in Nat /\ Contribution(list, weight, b) \in Nat
      BY <1>2
    <2>2. QED
      BY <1>3, <1>4, <1>5, <2>1
  <1>6. QED
    BY <1>2, <1>3, <1>5

\* Places of the fused ranking.
LEMMA FusedPlaces ==
  ASSUME NEW vec, NEW lex, Ranking(vec), Ranking(lex)
  PROVE  LET found == ToSet(vec) \cup ToSet(lex)
             n == Cardinality(found)
             fused == Fuse(vec, lex) IN
         /\ IsFiniteSet(found) /\ n \in Nat /\ found \subseteq Chunks
         /\ fused \in Seq(Chunks) /\ Len(fused) = n /\ Once(fused)
         /\ \A x \in found : \E i \in 1..n : fused[i] = x
         /\ \A i \in 1..n : fused[i] \in found
         /\ \A i, j \in 1..n :
              Score(vec, lex, fused[j]) < Score(vec, lex, fused[i]) => i < j
  <1> DEFINE found == ToSet(vec) \cup ToSet(lex)
             n == Cardinality(found)
             fused == Fuse(vec, lex)
             before(a, b) == \/ Score(vec, lex, a) > Score(vec, lex, b)
                             \/ Score(vec, lex, a) = Score(vec, lex, b) /\ IdBefore(a, b)
             R == {pair \in found \X found : before(pair[1], pair[2])}
  <1>1. IsFiniteSet(found) /\ found \subseteq Chunks
    <2>1. /\ IsFiniteSet(ToSet(vec)) /\ IsFiniteSet(ToSet(lex))
          /\ ToSet(vec) \subseteq Chunks /\ ToSet(lex) \subseteq Chunks
      BY RangeOf DEF Ranking
    <2>2. IsFiniteSet(found)
      BY <2>1, FS_Union
    <2>3. QED
      BY <2>1, <2>2
  <1>2. n \in Nat
    BY <1>1, FS_CardinalityType
  <1>3. \A c : Score(vec, lex, c) \in Nat
    <2>1. VectorWeight \in Nat \ {0} /\ LexicalWeight \in Nat \ {0}
      BY Constants
    <2>2. \A c : Contribution(vec, VectorWeight, c) \in Nat
      BY <2>1, ContributionIs
    <2>3. \A c : Contribution(lex, LexicalWeight, c) \in Nat
      BY <2>1, ContributionIs
    <2>4. QED
      BY <2>2, <2>3 DEF Score
  <1>4. \A a, b \in found : <<a, b>> \in R <=> before(a, b)
    OBVIOUS
  <1>5. fused = Sorted(found, R)
    BY DEF Fuse
  <1> HIDE DEF R, found, n, fused
  <1>6. StrictOrder(R, found)
    <2>1. /\ \A a \in Chunks : ~IdBefore(a, a)
          /\ \A a, b \in Chunks : a = b \/ IdBefore(a, b) \/ IdBefore(b, a)
          /\ \A a, b, c \in Chunks : IdBefore(a, b) /\ IdBefore(b, c) => IdBefore(a, c)
      <3>1. \A a \in Chunks : a[1] \in Nat /\ a[2] \in Nat
        <4>1. MaxChunks \in Nat /\ Docs \subseteq Nat
          BY Constants
        <4>2. \A i \in 1..MaxChunks : i \in Nat
          BY <4>1
        <4>3. \A a \in Chunks : a[1] \in Docs /\ a[2] \in 1..MaxChunks
          BY DEF Chunks
        <4>4. QED
          BY <4>1, <4>2, <4>3
      <3>2. \A a, b \in Chunks : a[1] = b[1] /\ a[2] = b[2] => a = b
        BY DEF Chunks
      <3>3. \A a \in Chunks : ~IdBefore(a, a)
        BY <3>1 DEF IdBefore
      <3>4. \A a, b \in Chunks : a = b \/ IdBefore(a, b) \/ IdBefore(b, a)
        BY <3>1, <3>2 DEF IdBefore
      <3>5. \A a, b, c \in Chunks : IdBefore(a, b) /\ IdBefore(b, c) => IdBefore(a, c)
        BY <3>1 DEF IdBefore
      <3>6. QED
        BY <3>3, <3>4, <3>5
    <2>2. \A a \in found : ~before(a, a)
      BY <1>1, <1>3, <2>1
    <2>3. ASSUME NEW a \in found, NEW b \in found, NEW c \in found, before(a, b), before(b, c)
          PROVE  before(a, c)
      <3>1. Score(vec, lex, a) \in Nat /\ Score(vec, lex, b) \in Nat /\ Score(vec, lex, c) \in Nat
        BY <1>3
      <3>2. IdBefore(a, b) /\ IdBefore(b, c) => IdBefore(a, c)
        BY <1>1, <2>1
      <3>3. QED
        BY <2>3, <3>1, <3>2
    <2>4. ASSUME NEW a \in found, NEW b \in found, a # b
          PROVE  before(a, b) \/ before(b, a)
      <3>1. Score(vec, lex, a) \in Nat /\ Score(vec, lex, b) \in Nat
        BY <1>3
      <3>2. IdBefore(a, b) \/ IdBefore(b, a)
        BY <1>1, <2>1, <2>4
      <3>3. QED
        BY <3>1, <3>2
    <2> HIDE DEF before
    <2>5. QED
      BY <1>4, <2>2, <2>3, <2>4 DEF StrictOrder
  <1>7. /\ fused \in [1..n -> found]
        /\ \A x \in found : \E i \in 1..n : fused[i] = x
        /\ \A i, j \in 1..n : i < j <=> <<fused[i], fused[j]>> \in R
    BY <1>1, <1>5, <1>6, SortedPlaces DEF n
  <1>8. fused \in Seq(Chunks) /\ Len(fused) = n
    BY <1>1, <1>2, <1>7
  <1>9. Once(fused)
    <2> SUFFICES ASSUME NEW i \in 1..n, NEW j \in 1..n, fused[i] = fused[j]
                 PROVE  i = j
      BY <1>8 DEF Once
    <2>1. fused[i] \in found /\ <<fused[i], fused[i]>> \notin R
      BY <1>6, <1>7 DEF StrictOrder
    <2>2. ~(i < j) /\ ~(j < i)
      BY <1>7, <2>1
    <2>3. QED
      BY <1>2, <2>2
  <1>10. ASSUME NEW i \in 1..n, NEW j \in 1..n,
                Score(vec, lex, fused[j]) < Score(vec, lex, fused[i])
         PROVE  i < j
    <2>1. before(fused[i], fused[j])
      BY <1>3, <1>10
    <2>2. fused[i] \in found /\ fused[j] \in found
      BY <1>7
    <2> HIDE DEF before
    <2>3. QED
      BY <1>4, <1>7, <2>1, <2>2
  <1>11. \A i \in 1..n : fused[i] \in found
    BY <1>7
  <1> QED
    BY <1>1, <1>2, <1>7, <1>8, <1>9, <1>10, <1>11 DEF found, n, fused

\* A ranking both searches agree on is the fused one, also after the cut.
LEMMA FusionAgrees ==
  ASSUME NEW vec, NEW lex, Ranking(vec), Ranking(lex), NEW m \in Nat,
         NEW a \in ToSet(vec) \cup ToSet(lex), NEW b \in ToSet(vec) \cup ToSet(lex),
         NotWorse(vec, a, b), NotWorse(lex, a, b),
         Contains(FirstOf(Fuse(vec, lex), m), b)
  PROVE  LET list == FirstOf(Fuse(vec, lex), m) IN
         Contains(list, a) /\ Rank(list, a) < Rank(list, b)
  <1> DEFINE found == ToSet(vec) \cup ToSet(lex)
             n == Cardinality(found)
             fused == Fuse(vec, lex)
             list == FirstOf(fused, m)
  <1>1. Score(vec, lex, b) < Score(vec, lex, a)
    <2> DEFINE va == Contribution(vec, VectorWeight, a)
               vb == Contribution(vec, VectorWeight, b)
               la == Contribution(lex, LexicalWeight, a)
               lb == Contribution(lex, LexicalWeight, b)
    <2>1. VectorWeight \in Nat \ {0} /\ LexicalWeight \in Nat \ {0}
      BY Constants
    <2>2. va \in Nat /\ vb \in Nat /\ vb <= va /\ (Contains(vec, b) => vb < va)
      BY <2>1, ContributionIs
    <2>3. la \in Nat /\ lb \in Nat /\ lb <= la /\ (Contains(lex, b) => lb < la)
      BY <2>1, ContributionIs
    <2>4. Contains(vec, b) \/ Contains(lex, b)
      BY RangeOf DEF Ranking
    <2>5. Score(vec, lex, a) = va + la /\ Score(vec, lex, b) = vb + lb
      BY DEF Score
    <2> HIDE DEF va, vb, la, lb
    <2>6. QED
      BY <2>2, <2>3, <2>4, <2>5
  <1>2. /\ n \in Nat /\ fused \in Seq(Chunks) /\ Len(fused) = n /\ Once(fused)
        /\ \A x \in found : \E i \in 1..n : fused[i] = x
        /\ \A i, j \in 1..n :
             Score(vec, lex, fused[j]) < Score(vec, lex, fused[i]) => i < j
    BY FusedPlaces, Zenon
  <1> HIDE DEF fused, n, found
  <1>3. /\ list \in Seq(Chunks) /\ Len(list) <= n /\ Len(list) \in Nat
        /\ \A i \in 1..Len(list) : list[i] = fused[i]
    <2>1. /\ list \in Seq(Chunks) /\ Len(list) = IF m <= Len(fused) THEN m ELSE Len(fused)
          /\ \A i \in 1..Len(list) : list[i] = fused[i]
      <3>1. fused \in Seq(Chunks)
        BY <1>2
      <3>2. QED
        BY <3>1, FirstOfIs
    <2> HIDE DEF list
    <2>2. QED
      BY <1>2, <2>1
  <1> HIDE DEF list
  <1>4. Once(list)
    BY <1>2, <1>3 DEF Once
  <1>5. PICK j \in 1..Len(list) : list[j] = b
    BY DEF Contains, list, fused
  <1>6. PICK i \in 1..n : fused[i] = a
    BY <1>2 DEF found
  <1>7. j \in 1..n /\ fused[j] = b
    BY <1>2, <1>3, <1>5
  <1>8. i < j
    BY <1>1, <1>2, <1>6, <1>7
  <1>9. i \in 1..Len(list) /\ list[i] = a
    BY <1>2, <1>3, <1>6, <1>8
  <1>10. Rank(list, a) = i /\ Rank(list, b) = j
    <2>1. \A l \in 1..Len(list) : Rank(list, list[l]) = l
      BY <1>3, <1>4, RankOf
    <2>2. QED
      BY <1>5, <1>9, <2>1
  <1>11. Contains(list, a)
    BY <1>9 DEF Contains
  <1>12. QED
    BY <1>8, <1>10, <1>11 DEF list, fused

-----------------------------------------------------------------------------
(* The selection *)

\* The first of a set of numbers.
LEMMA FirstAscending ==
  ASSUME NEW S \in SUBSET Nat, IsFiniteSet(S), NEW n \in Nat
  PROVE  LET f == FirstOf(Ascending(S), n)
             F == ToSet(f) IN
         /\ f \in Seq(Nat) /\ F \subseteq S /\ IsFiniteSet(F) /\ Cardinality(F) = Len(f)
         /\ Len(f) = IF n <= Cardinality(S) THEN n ELSE Cardinality(S)
         /\ Len(f) < n => F = S
         /\ \A p \in S \ F : \A q \in F : q < p
  <1> DEFINE a == Ascending(S)
             m == Cardinality(S)
             f == FirstOf(a, n)
             F == ToSet(f)
  <1>1. m \in Nat
    BY FS_CardinalityType
  <1>2. /\ a \in [1..m -> S] /\ \A x \in S : \E i \in 1..m : a[i] = x
        /\ \A i, j \in 1..m : i < j <=> a[i] < a[j]
    BY AscendingPlaces
  <1> HIDE DEF a, m
  <1>3. a \in Seq(S) /\ Len(a) = m
    BY <1>1, <1>2
  <1>4. /\ f \in Seq(S) /\ Len(f) = IF n <= m THEN n ELSE m
        /\ \A i \in 1..Len(f) : f[i] = a[i]
    BY <1>3, FirstOfIs
  <1> HIDE DEF f
  <1>5. Len(f) \in Nat /\ Len(f) <= m
    BY <1>1, <1>4
  <1>6. Once(f)
    <2> SUFFICES ASSUME NEW i \in 1..Len(f), NEW j \in 1..Len(f), f[i] = f[j]
                 PROVE  i = j
      BY DEF Once
    <2>1. i \in 1..m /\ j \in 1..m /\ a[i] = a[j]
      BY <1>1, <1>4, <1>5
    <2>2. a[i] \in Nat
      BY <1>2, <2>1
    <2>3. QED
      BY <1>2, <2>1, <2>2
  <1>7. F \subseteq S /\ IsFiniteSet(F) /\ Cardinality(F) = Len(f)
    BY <1>4, <1>6, RangeOf
  <1>8. F = {f[i] : i \in 1..Len(f)}
    BY <1>4 DEF ToSet
  <1> HIDE DEF F
  <1>9. Len(f) < n => F = S
    <2> SUFFICES ASSUME Len(f) < n, NEW x \in S
                 PROVE  x \in F
      BY <1>7
    <2>1. Len(f) = m
      BY <1>1, <1>4
    <2>2. PICK i \in 1..m : a[i] = x
      BY <1>2
    <2>3. QED
      BY <1>4, <1>8, <2>1, <2>2
  <1>10. ASSUME NEW p \in S \ F, NEW q \in F
         PROVE  q < p
    <2>1. PICK i \in 1..m : a[i] = p
      BY <1>2
    <2>2. PICK j \in 1..Len(f) : f[j] = q
      BY <1>8
    <2>3. j \in 1..m /\ a[j] = q
      BY <1>1, <1>4, <1>5, <2>2
    <2>4. ~(i <= Len(f))
      BY <1>4, <1>5, <1>8, <2>1
    <2>5. j < i
      BY <1>1, <1>5, <2>4
    <2>6. QED
      BY <1>2, <2>1, <2>3, <2>5
  <1>11. f \in Seq(Nat)
    <2>1. f \in [1..Len(f) -> S]
      BY <1>4
    <2>2. f \in [1..Len(f) -> Nat]
      BY <2>1
    <2>3. QED
      BY <1>5, <2>2
  <1>12. QED
    BY <1>4, <1>7, <1>9, <1>10, <1>11 DEF f, F, m, a

\* The positions of a selection: those within the cap, the first of them if
\* there are too many, the rest of the list if there are too few.
Filled(list, F, G) ==
  /\ ToSet(Backfilled(list)) = F \cup G
  /\ F \subseteq Within(list) /\ G \cap Within(list) = {}
  /\ \/ F = Within(list)
     \/ G = {} /\ \A p \in Within(list) \ F : \A q \in F : q < p
  /\ Cardinality(F \cup G) = IF TopK <= Len(list) THEN TopK ELSE Len(list)

LEMMA SelectionPlaces ==
  ASSUME NEW list \in Seq(Chunks)
  PROVE  \E F, G \in SUBSET (1..Len(list)) : Filled(list, F, G)
  <1> DEFINE N == Len(list)
             w == Within(list)
             r == (1..Len(list)) \ Within(list)
             f == Selected(list)
             m == TopK - Len(f)
             g == FirstOf(Ascending(r), m)
             F == ToSet(f)
             G == ToSet(g)
  <1>1. N \in Nat /\ TopK \in Nat /\ w \subseteq 1..N /\ r \subseteq 1..N /\ 1..N \subseteq Nat
    BY Constants DEF Within
  <1>2. /\ IsFiniteSet(1..N) /\ Cardinality(1..N) = N
        /\ IsFiniteSet(w) /\ IsFiniteSet(r)
    <2>1. IsFiniteSet(1..N) /\ Cardinality(1..N) = N
      BY <1>1, FS_Interval
    <2>2. QED
      BY <1>1, <2>1, FS_Subset
  <1>3. Cardinality(w) \in Nat /\ Cardinality(r) \in Nat /\ Cardinality(r) = N - Cardinality(w)
    <2>1. Cardinality((1..N) \ w) = Cardinality(1..N) - Cardinality((1..N) \cap w)
      BY <1>2, FS_Difference
    <2>2. (1..N) \cap w = w /\ r = (1..N) \ w
      BY <1>1
    <2> HIDE DEF w, r, N
    <2>3. QED
      BY <1>2, <2>1, <2>2, FS_CardinalityType
  <1>4. Backfilled(list) = f \o g
    BY DEF Backfilled
  <1>5. f = FirstOf(Ascending(w), TopK)
    BY DEF Selected
  <1> HIDE DEF w, r, f, g, N, m
  <1>6. /\ f \in Seq(Nat) /\ F \subseteq w /\ IsFiniteSet(F) /\ Cardinality(F) = Len(f)
        /\ Len(f) = IF TopK <= Cardinality(w) THEN TopK ELSE Cardinality(w)
        /\ Len(f) < TopK => F = w
        /\ \A p \in w \ F : \A q \in F : q < p
    <2>1. w \in SUBSET Nat
      BY <1>1
    <2>2. QED
      BY <1>1, <1>2, <1>5, <2>1, FirstAscending, Zenon
  <1>7. m \in Nat /\ m = TopK - Len(f)
    BY <1>1, <1>3, <1>6 DEF m
  <1>8. /\ g \in Seq(Nat) /\ G \subseteq r /\ IsFiniteSet(G) /\ Cardinality(G) = Len(g)
        /\ Len(g) = IF m <= Cardinality(r) THEN m ELSE Cardinality(r)
    <2>1. r \in SUBSET Nat
      BY <1>1
    <2>2. g = FirstOf(Ascending(r), m)
      BY DEF g
    <2>3. QED
      BY <1>2, <1>7, <2>1, <2>2, FirstAscending, Zenon
  <1>9. ToSet(f \o g) = F \cup G
    <2>1. Len(f) \in Nat /\ Len(g) \in Nat /\ DOMAIN (f \o g) = 1..(Len(f) + Len(g))
      <3>1. f \in Seq(Nat) /\ g \in Seq(Nat)
        BY <1>6, <1>8
      <3> HIDE DEF F, G
      <3>2. QED
        BY <3>1
    <2>2. ASSUME NEW i \in 1..(Len(f) + Len(g))
          PROVE  (f \o g)[i] \in F \cup G
      <3>1. CASE i <= Len(f)
        <4>1. (f \o g)[i] = f[i] /\ i \in DOMAIN f
          BY <1>6, <1>8, <3>1
        <4>2. QED
          BY <4>1 DEF ToSet
      <3>2. CASE i > Len(f)
        <4>1. i - Len(f) \in 1..Len(g) /\ i \in 1..Len(f) + Len(g)
          BY <1>8, <3>2
        <4>2. (f \o g)[i] = g[i - Len(f)] /\ DOMAIN g = 1..Len(g)
          BY <1>6, <1>7, <3>2, <4>1
        <4>3. QED
          BY <4>1, <4>2 DEF ToSet
      <3>3. QED
        BY <2>1, <3>1, <3>2
    <2>3. ASSUME NEW i \in 1..Len(f)
          PROVE  f[i] \in ToSet(f \o g)
      <3>1. (f \o g)[i] = f[i] /\ i \in DOMAIN (f \o g)
        BY <1>6, <1>8, <2>1
      <3>2. QED
        BY <3>1 DEF ToSet
    <2>4. ASSUME NEW i \in 1..Len(g)
          PROVE  g[i] \in ToSet(f \o g)
      <3>1. (f \o g)[Len(f) + i] = g[i] /\ Len(f) + i \in DOMAIN (f \o g)
        BY <1>6, <1>8, <2>1
      <3>2. QED
        BY <3>1 DEF ToSet
    <2>5. F = {f[i] : i \in 1..Len(f)} /\ G = {g[i] : i \in 1..Len(g)}
      BY <1>6, <1>8 DEF ToSet
    <2>6. ToSet(f \o g) = {(f \o g)[i] : i \in 1..(Len(f) + Len(g))}
      BY <2>1 DEF ToSet
    <2>7. QED
      BY <2>2, <2>3, <2>4, <2>5, <2>6
  <1> HIDE DEF F, G
  <1>10. G \cap w = {}
    BY <1>8 DEF r, w
  <1>11. F = w \/ (G = {} /\ \A p \in w \ F : \A q \in F : q < p)
    <2>1. CASE Len(f) < TopK
      BY <1>6, <2>1
    <2>2. CASE ~(Len(f) < TopK)
      <3>1. m = 0
        BY <1>1, <1>3, <1>6, <1>7, <2>2
      <3>2. Cardinality(G) = 0
        BY <1>3, <1>8, <3>1
      <3>3. QED
        BY <1>6, <1>8, <3>2, FS_EmptySet
    <2>3. QED
      BY <2>1, <2>2
  <1>12. Cardinality(F \cup G) = IF TopK <= N THEN TopK ELSE N
    <2>1. F \cap G = {}
      BY <1>6, <1>10
    <2>2. Cardinality(F \cup G) = Cardinality(F) + Cardinality(G) - Cardinality(F \cap G)
      BY <1>6, <1>8, FS_Union
    <2>3. Cardinality(F \cap G) = 0
      BY <2>1, FS_EmptySet
    <2>4. Cardinality(F \cup G) = Len(f) + Len(g)
      BY <1>6, <1>8, <2>2, <2>3
    <2>5. CASE TopK <= Cardinality(w)
      <3>1. Len(f) = TopK /\ m = 0 /\ Len(g) = 0 /\ TopK <= N
        BY <1>1, <1>3, <1>6, <1>7, <1>8, <2>5
      <3>2. QED
        BY <1>1, <2>4, <3>1
    <2>6. CASE ~(TopK <= Cardinality(w))
      <3>1. Len(f) = Cardinality(w) /\ m = TopK - Cardinality(w)
        BY <1>6, <1>7, <2>6
      <3>2. Len(g) = IF m <= N - Cardinality(w) THEN m ELSE N - Cardinality(w)
        BY <1>3, <1>8
      <3>3. Len(f) + Len(g) = IF TopK <= N THEN TopK ELSE N
        BY <1>1, <1>3, <3>1, <3>2
      <3>4. QED
        BY <2>4, <3>3
    <2>7. QED
      BY <2>5, <2>6
  <1>13. F \in SUBSET (1..N) /\ G \in SUBSET (1..N)
    BY <1>1, <1>6, <1>8
  <1>14. Filled(list, F, G)
    BY <1>4, <1>6, <1>9, <1>10, <1>11, <1>12 DEF Filled, w, N
  <1>15. QED
    BY <1>13, <1>14 DEF N

\* Within the cap are the first positions of each document.
LEMMA WithinTheCap ==
  ASSUME NEW list \in Seq(Chunks)
  PROVE  /\ \A d : OfDocument(list, d) \in SUBSET Nat /\ IsFiniteSet(OfDocument(list, d))
         /\ \A d : Within(list) \cap OfDocument(list, d)
                     = Low(OfDocument(list, d), MaxPerDocument)
         /\ \A p \in (1..Len(list)) \ Within(list) :
              LET Q == OfDocument(list, Doc(list[p])) IN
              /\ Cardinality(Q) >= MaxPerDocument
              /\ \A x \in Low(Q, MaxPerDocument) : x < p
  <1>1. \A d : OfDocument(list, d) \subseteq 1..Len(list)
    BY DEF OfDocument
  <1>2. Len(list) \in Nat /\ IsFiniteSet(1..Len(list)) /\ 1..Len(list) \subseteq Nat
    BY FS_Interval
  <1>3. \A d : OfDocument(list, d) \in SUBSET Nat /\ IsFiniteSet(OfDocument(list, d))
    BY <1>1, <1>2, FS_Subset
  <1>4. ASSUME NEW d
        PROVE  Within(list) \cap OfDocument(list, d) = Low(OfDocument(list, d), MaxPerDocument)
    <2>1. \A p \in OfDocument(list, d) : Doc(list[p]) = d /\ p \in 1..Len(list)
      BY DEF OfDocument
    <2>2. \A p \in OfDocument(list, d) :
            p \in Within(list) <=> p \in Low(OfDocument(list, d), MaxPerDocument)
      BY <2>1 DEF Within, Low
    <2>3. Low(OfDocument(list, d), MaxPerDocument) \subseteq OfDocument(list, d)
      BY DEF Low
    <2>4. QED
      BY <2>2, <2>3
  <1>5. ASSUME NEW p \in (1..Len(list)) \ Within(list)
        PROVE  LET Q == OfDocument(list, Doc(list[p])) IN
               /\ Cardinality(Q) >= MaxPerDocument
               /\ \A x \in Low(Q, MaxPerDocument) : x < p
    <2> DEFINE Q == OfDocument(list, Doc(list[p]))
               Below(x) == {q \in Q : q < x}
    <2>1. Q \in SUBSET Nat /\ IsFiniteSet(Q) /\ p \in Nat /\ MaxPerDocument \in Nat
      BY <1>2, <1>3, Constants
    <2>2. ~(Cardinality(Below(p)) < MaxPerDocument)
      BY DEF Within
    <2> HIDE DEF Q
    <2>3. \A x : IsFiniteSet(Below(x)) /\ Cardinality(Below(x)) \in Nat
                 /\ Cardinality(Below(x)) <= Cardinality(Q)
      <3> TAKE x
      <3>1. Below(x) \in SUBSET Q
        OBVIOUS
      <3> HIDE DEF Below
      <3>2. QED
        BY <2>1, <3>1, FS_Subset, FS_CardinalityType
    <2>4. Cardinality(Q) \in Nat
      BY <2>1, FS_CardinalityType
    <2>5. Cardinality(Q) >= MaxPerDocument
      <3>1. Cardinality(Below(p)) \in Nat /\ Cardinality(Below(p)) <= Cardinality(Q)
        BY <2>3
      <3> HIDE DEF Below
      <3>2. QED
        BY <2>1, <2>2, <2>4, <3>1
    <2>6. ASSUME NEW x \in Low(Q, MaxPerDocument)
          PROVE  x < p
      <3>1. x \in Nat /\ Cardinality(Below(x)) < MaxPerDocument
        BY <2>1 DEF Low
      <3>2. SUFFICES ASSUME p <= x
                     PROVE  FALSE
        BY <2>1, <3>1
      <3>3. Below(p) \in SUBSET Below(x)
        <4>1. \A q \in Q : q < p => q < x
          BY <2>1, <3>1, <3>2
        <4>2. QED
          BY <4>1
      <3>4. Cardinality(Below(p)) <= Cardinality(Below(x))
        <4> HIDE DEF Below
        <4>1. QED
          BY <2>3, <3>3, FS_Subset
      <3> HIDE DEF Below
      <3>5. QED
        BY <2>1, <2>2, <2>3, <3>1, <3>4
    <2>7. QED
      BY <2>5, <2>6 DEF Q
  <1>6. QED
    BY <1>3, <1>4, <1>5

\* What is selected of a document is at as many positions of the ranking.
LEMMA PickedOf ==
  ASSUME NEW list \in Seq(Chunks), NEW places \in SUBSET (1..Len(list))
  PROVE  \A d : Cardinality(OfDocument(Picked(list, places), d))
                 = Cardinality(places \cap OfDocument(list, d))
  <1> DEFINE s == Picked(list, places)
  <1>0. places \subseteq Nat
    <2>1. Len(list) \in Nat
      OBVIOUS
    <2>2. QED
      BY <2>1
  <1>1. s \in Seq(Chunks) /\ Len(s) = Cardinality(places)
    BY PickedPlaces
  <1>2. PICK at \in [1..Len(s) -> places] :
          /\ \A i \in 1..Len(s) : s[i] = list[at[i]]
          /\ \A p \in places : \E i \in 1..Len(s) : at[i] = p
          /\ \A i, j \in 1..Len(s) : i < j <=> at[i] < at[j]
    BY PickedPlaces
  <1> HIDE DEF s
  <1>3. Len(s) \in Nat /\ IsFiniteSet(1..Len(s))
    <2>1. Len(s) \in Nat
      BY <1>1
    <2>2. QED
      BY <2>1, FS_Interval
  <1>4. ASSUME NEW d
        PROVE  Cardinality(OfDocument(s, d)) = Cardinality(places \cap OfDocument(list, d))
    <2> DEFINE S == OfDocument(s, d)
               T == places \cap OfDocument(list, d)
               f == [i \in S |-> at[i]]
    <2>1. S \subseteq 1..Len(s)
      BY DEF OfDocument
    <2>2. IsFiniteSet(S)
      BY <1>3, <2>1, FS_Subset
    <2>3. \A i \in 1..Len(s) : i \in S <=> at[i] \in T
      BY <1>2 DEF OfDocument
    <2>4. f \in [S -> T] /\ \A p \in T : \E i \in S : f[i] = p
      BY <1>2, <2>1, <2>3
    <2>5. ASSUME NEW i \in S, NEW j \in S, at[i] = at[j]
          PROVE  i = j
      <3>1. i \in 1..Len(s) /\ j \in 1..Len(s) /\ i \in Nat /\ j \in Nat
        BY <1>3, <2>1
      <3>2. at[i] \in places
        BY <1>2, <3>1
      <3>5. at[i] \in Nat
        BY <1>0, <3>2
      <3>3. ~(i < j) /\ ~(j < i)
        BY <1>2, <2>5, <3>1, <3>5
      <3>4. QED
        BY <3>1, <3>3
    <2>6. \A i, j \in S : f[i] = f[j] => i = j
      BY <2>5
    <2> HIDE DEF f, S, T
    <2>7. f \in Surjection(S, T)
      BY <2>4 DEF Surjection
    <2>8. f \in Injection(S, T)
      BY <2>4, <2>6 DEF Injection, IsInjective
    <2>9. Cardinality(T) = Cardinality(S)
      BY <2>2, <2>7, <2>8, FS_Surjection
    <2>10. QED
      BY <2>9 DEF S, T
  <1>5. QED
    BY <1>4 DEF s

LEMMA SelectionIs ==
  ASSUME NEW list \in Seq(Chunks), Once(list)
  PROVE  LET selection == EnforceDiversity(list)
             missed == ToSet(list) \ ToSet(selection)
             share(d) == Cardinality(OfDocument(selection, d)) IN
         /\ selection \in Seq(Chunks)
         /\ Len(selection) = IF TopK <= Len(list) THEN TopK ELSE Len(list)
         /\ \A i, j \in 1..Len(selection) :
              i < j => Rank(list, selection[i]) < Rank(list, selection[j])
         /\ \A c \in missed : \A d :
              share(d) > MaxPerDocument => share(Doc(c)) >= MaxPerDocument
         /\ \A c \in missed : share(Doc(c)) < MaxPerDocument =>
              \A i \in 1..Len(selection) : Rank(list, selection[i]) < Rank(list, c)
  <1> DEFINE selection == EnforceDiversity(list)
             missed == ToSet(list) \ ToSet(selection)
             share(d) == Cardinality(OfDocument(selection, d))
             N == Len(list)
             w == Within(list)
             Q(d) == OfDocument(list, d)
  <1>1. PICK F \in SUBSET (1..N), G \in SUBSET (1..N) : Filled(list, F, G)
    BY SelectionPlaces
  <1> DEFINE T == F \cup G
  <1>2. selection = Picked(list, T) /\ T \in SUBSET (1..N)
    BY <1>1 DEF EnforceDiversity, Filled
  <1>3. /\ selection \in Seq(Chunks) /\ Len(selection) = Cardinality(T)
        /\ \A d : share(d) = Cardinality(T \cap Q(d))
        /\ \E at \in [1..Len(selection) -> T] :
             /\ \A i \in 1..Len(selection) : selection[i] = list[at[i]]
             /\ \A p \in T : \E i \in 1..Len(selection) : at[i] = p
             /\ \A i, j \in 1..Len(selection) : i < j <=> at[i] < at[j]
    <2> HIDE DEF T, selection
    <2>1. Picked(list, T) \in Seq(Chunks) /\ Len(Picked(list, T)) = Cardinality(T)
      BY <1>2, PickedPlaces, Zenon
    <2>4. \A d : Cardinality(OfDocument(Picked(list, T), d)) = Cardinality(T \cap Q(d))
      BY <1>2, PickedOf, Zenon
    <2>2. \E at \in [1..Len(Picked(list, T)) -> T] :
            /\ \A i \in 1..Len(Picked(list, T)) : Picked(list, T)[i] = list[at[i]]
            /\ \A p \in T : \E i \in 1..Len(Picked(list, T)) : at[i] = p
            /\ \A i, j \in 1..Len(Picked(list, T)) : i < j <=> at[i] < at[j]
      BY <1>2, PickedPlaces, Zenon
    <2>3. QED
      BY <1>2, <2>1, <2>2, <2>4, Zenon
  <1>4. PICK at \in [1..Len(selection) -> T] :
             /\ \A i \in 1..Len(selection) : selection[i] = list[at[i]]
             /\ \A p \in T : \E i \in 1..Len(selection) : at[i] = p
             /\ \A i, j \in 1..Len(selection) : i < j <=> at[i] < at[j]
    BY <1>3
  <1> HIDE DEF selection
  <1>5. \A p \in 1..N : Rank(list, list[p]) = p
    BY RankOf
  <1>6. \A i \in 1..Len(selection) : Rank(list, selection[i]) = at[i] /\ at[i] \in T
    BY <1>2, <1>4, <1>5
  <1>7. ASSUME NEW c \in missed
        PROVE  \E p \in (1..N) \ T : list[p] = c /\ Rank(list, c) = p
    <2>1. PICK p \in 1..N : list[p] = c
      BY DEF ToSet
    <2>2. p \notin T
      <3> SUFFICES ASSUME p \in T
                   PROVE  FALSE
        OBVIOUS
      <3>1. PICK i \in 1..Len(selection) : at[i] = p
        BY <1>4
      <3>2. selection[i] = c
        BY <1>4, <2>1, <3>1
      <3>4. i \in DOMAIN selection
        <4>1. selection \in Seq(Chunks)
          BY <1>3
        <4>2. QED
          BY <4>1
      <3>3. QED
        BY <3>2, <3>4 DEF ToSet
    <2>3. QED
      BY <1>5, <2>1, <2>2
  <1> HIDE DEF missed
  <1>8. MaxPerDocument \in Nat
    BY Constants
  <1>9. \A d : /\ Q(d) \in SUBSET Nat /\ IsFiniteSet(Q(d)) /\ Cardinality(Q(d)) \in Nat
               /\ w \cap Q(d) = Low(Q(d), MaxPerDocument)
               /\ IsFiniteSet(T \cap Q(d)) /\ Cardinality(T \cap Q(d)) \in Nat
    <2>1. \A d : /\ Q(d) \in SUBSET Nat /\ IsFiniteSet(Q(d))
                 /\ w \cap Q(d) = Low(Q(d), MaxPerDocument)
      BY WithinTheCap
    <2> HIDE DEF Q, w, T
    <2>2. \A d : IsFiniteSet(T \cap Q(d))
      BY <2>1, FS_Intersection
    <2>3. QED
      BY <2>1, <2>2, FS_CardinalityType
  \* A document that displaced a position has its share within the cap.
  <1>10. ASSUME NEW p \in (1..N) \ w
         PROVE  LET L == Low(Q(Doc(list[p])), MaxPerDocument) IN
                /\ L = w \cap Q(Doc(list[p])) /\ IsFiniteSet(L)
                /\ Cardinality(L) = MaxPerDocument /\ \A x \in L : x < p
    <2> DEFINE q == Q(Doc(list[p]))
    <2>1. Cardinality(q) >= MaxPerDocument /\ \A x \in Low(q, MaxPerDocument) : x < p
      BY WithinTheCap
    <2>2. q \in SUBSET Nat /\ IsFiniteSet(q) /\ w \cap q = Low(q, MaxPerDocument)
      BY <1>9
    <2> HIDE DEF q, Q
    <2>3. IsFiniteSet(Low(q, MaxPerDocument)) /\ Cardinality(Low(q, MaxPerDocument)) = MaxPerDocument
      BY <1>8, <2>1, <2>2, LowMembers
    <2>4. QED
      BY <2>1, <2>2, <2>3 DEF q
  <1>11. ASSUME NEW p \in (1..N) \ T, F = w
         PROVE  Cardinality(T \cap Q(Doc(list[p]))) >= MaxPerDocument
    <2> DEFINE q == Q(Doc(list[p]))
               L == Low(q, MaxPerDocument)
    <2>1. p \in (1..N) \ w
      BY <1>11
    <2>2. L = w \cap q /\ IsFiniteSet(L) /\ Cardinality(L) = MaxPerDocument
      BY <1>10, <2>1
    <2>3. IsFiniteSet(T \cap q) /\ Cardinality(T \cap q) \in Nat
      BY <1>9
    <2> HIDE DEF q, L
    <2>4. L \in SUBSET (T \cap q)
      BY <1>11, <2>2
    <2>5. Cardinality(L) <= Cardinality(T \cap q)
      BY <2>3, <2>4, FS_Subset
    <2>6. QED
      BY <1>8, <2>2, <2>3, <2>5 DEF q
  <1>12. ASSUME NEW c \in missed, NEW d, share(d) > MaxPerDocument
         PROVE  share(Doc(c)) >= MaxPerDocument
    <2>1. PICK p \in (1..N) \ T : list[p] = c
      BY <1>7
    <2>2. F = w
      <3> SUFFICES ASSUME F # w
                   PROVE  FALSE
        OBVIOUS
      <3>1. T = F /\ F \subseteq w
        BY <1>1 DEF Filled
      <3>2. T \cap Q(d) \in SUBSET Low(Q(d), MaxPerDocument)
        BY <1>9, <3>1
      <3>3. /\ IsFiniteSet(Low(Q(d), MaxPerDocument))
            /\ Cardinality(Low(Q(d), MaxPerDocument)) <= MaxPerDocument
        BY <1>8, <1>9, LowMembers
      <3>4. Cardinality(T \cap Q(d)) <= Cardinality(Low(Q(d), MaxPerDocument))
        BY <3>2, <3>3, FS_Subset
      <3>5. Cardinality(T \cap Q(d)) > MaxPerDocument
        BY <1>3, <1>12
      <3>6. Cardinality(T \cap Q(d)) \in Nat /\ Cardinality(Low(Q(d), MaxPerDocument)) \in Nat
        BY <1>9, <3>3, FS_CardinalityType
      <3> HIDE DEF T, Q
      <3>7. QED
        BY <1>8, <3>3, <3>4, <3>5, <3>6
    <2>3. QED
      BY <1>3, <1>11, <2>1, <2>2
  <1>13. ASSUME NEW c \in missed, share(Doc(c)) < MaxPerDocument, NEW i \in 1..Len(selection)
         PROVE  Rank(list, selection[i]) < Rank(list, c)
    <2>1. PICK p \in (1..N) \ T : list[p] = c /\ Rank(list, c) = p
      BY <1>7
    <2>2. Cardinality(T \cap Q(Doc(c))) < MaxPerDocument
      BY <1>3, <1>13
    <2>3. F # w
      <3> SUFFICES ASSUME F = w
                   PROVE  FALSE
        OBVIOUS
      <3>1. Cardinality(T \cap Q(Doc(c))) >= MaxPerDocument
        BY <1>11, <2>1
      <3>2. Cardinality(T \cap Q(Doc(c))) \in Nat
        BY <1>9
      <3> HIDE DEF T, Q
      <3>3. QED
        BY <1>8, <2>2, <3>1, <3>2
    <2>4. T = F /\ \A x \in w \ F : \A q \in F : q < x
      BY <1>1, <2>3 DEF Filled
    <2>5. at[i] \in F /\ at[i] \in Nat /\ p \in Nat /\ Rank(list, selection[i]) = at[i]
      <3>1. at[i] \in F /\ Rank(list, selection[i]) = at[i]
        BY <1>6, <2>4
      <3>2. \A l \in 1..N : l \in Nat
        <4>1. N \in Nat
          OBVIOUS
        <4> HIDE DEF N
        <4>2. QED
          BY <4>1
      <3>3. QED
        BY <3>1, <3>2
    <2>6. CASE p \in w
      BY <2>1, <2>4, <2>5, <2>6
    <2>7. CASE p \notin w
      <3> DEFINE L == Low(Q(Doc(c)), MaxPerDocument)
      <3>1. L = w \cap Q(Doc(c)) /\ IsFiniteSet(L) /\ Cardinality(L) = MaxPerDocument
            /\ \A x \in L : x < p
        BY <1>10, <2>1, <2>7
      <3>2. \E x \in L : x \notin F
        <4> SUFFICES ASSUME \A x \in L : x \in F
                     PROVE  FALSE
          OBVIOUS
        <4>1. L \in SUBSET (T \cap Q(Doc(c)))
          BY <2>4, <3>1
        <4>2. IsFiniteSet(T \cap Q(Doc(c))) /\ Cardinality(T \cap Q(Doc(c))) \in Nat
          BY <1>9
        <4> HIDE DEF T, Q, L
        <4>3. Cardinality(L) <= Cardinality(T \cap Q(Doc(c)))
          BY <4>1, <4>2, FS_Subset
        <4>4. QED
          BY <1>8, <2>2, <3>1, <4>2, <4>3
      <3>3. PICK x \in L : x \notin F
        BY <3>2
      <3>4. x \in w /\ x \in Nat /\ x < p
        BY <1>9, <3>1
      <3>5. at[i] < x
        BY <2>4, <2>5, <3>3, <3>4
      <3>6. QED
        BY <2>1, <2>5, <3>4, <3>5
    <2>8. QED
      BY <2>6, <2>7
  <1>14. Len(selection) = IF TopK <= Len(list) THEN TopK ELSE Len(list)
    BY <1>1, <1>3 DEF Filled
  <1>15. \A i, j \in 1..Len(selection) :
           i < j => Rank(list, selection[i]) < Rank(list, selection[j])
    BY <1>4, <1>6
  <1>16. QED
    BY <1>3, <1>12, <1>13, <1>14, <1>15 DEF selection, missed

-----------------------------------------------------------------------------
(* Reranking, markers and the context block *)

\* Reranking moves chunks, and does nothing else.
LEMMA OrderingIs ==
  ASSUME NEW list \in Seq(Chunks), NEW r \in Orderings(list)
  PROVE  r \in Seq(Chunks) /\ Once(r) /\ Len(r) = Len(list)
  <1>1. /\ Len(list) \in Nat /\ ToSet(list) \subseteq Chunks
        /\ r \in [1..Len(list) -> ToSet(list)]
    BY RangeOf DEF Orderings
  <1>2. r \in Seq(Chunks) /\ Len(r) = Len(list)
    BY <1>1
  <1>3. Once(r)
    BY <1>1, <1>2 DEF Orderings, IsInjective, Once
  <1>4. QED
    BY <1>2, <1>3

\* Nothing is hydrated twice, and everything that is still there.
LEMMA HydratedIs ==
  ASSUME NEW list \in Seq(Chunks), Once(list)
  PROVE  /\ Hydrated(list) \in Seq(Chunks) /\ Once(Hydrated(list))
         /\ ToSet(list) \subseteq Searchable => Len(Hydrated(list)) = Len(list)
  <1> DEFINE places == {i \in 1..Len(list) : list[i] \in Searchable}
             s == Picked(list, places)
  <1>1. Hydrated(list) = s /\ places \in SUBSET (1..Len(list))
    BY DEF Hydrated
  <1>2. Len(list) \in Nat /\ \A p \in 1..Len(list) : p \in Nat
    <2>1. Len(list) \in Nat
      OBVIOUS
    <2>2. QED
      BY <2>1
  <1>3. ToSet(list) \subseteq Searchable => places = 1..Len(list)
    BY DEF ToSet
  <1> HIDE DEF places, s
  <1>4. s \in Seq(Chunks) /\ Len(s) = Cardinality(places)
    BY <1>1, PickedPlaces DEF s
  <1>5. \E at \in [1..Len(s) -> places] :
          /\ \A i \in 1..Len(s) : s[i] = list[at[i]]
          /\ \A i, j \in 1..Len(s) : i < j <=> at[i] < at[j]
    BY <1>1, PickedPlaces DEF s
  <1>6. Once(s)
    <2> SUFFICES ASSUME NEW i \in 1..Len(s), NEW j \in 1..Len(s), s[i] = s[j]
                 PROVE  i = j
      BY DEF Once
    <2>1. PICK at \in [1..Len(s) -> places] :
            /\ \A l \in 1..Len(s) : s[l] = list[at[l]]
            /\ \A l, m \in 1..Len(s) : l < m <=> at[l] < at[m]
      BY <1>5
    <2>2. at[i] \in 1..Len(list) /\ at[j] \in 1..Len(list)
      BY <1>1
    <2>3. at[i] = at[j]
      BY <2>1, <2>2 DEF Once
    <2>4. ~(i < j) /\ ~(j < i)
      BY <1>2, <2>1, <2>2, <2>3
    <2>5. Len(s) \in Nat
      BY <1>4
    <2>6. QED
      BY <2>4, <2>5
  <1>7. Cardinality(1..Len(list)) = Len(list)
    BY <1>2, FS_Interval
  <1>8. QED
    BY <1>1, <1>3, <1>4, <1>6, <1>7

LEMMA ExtractIs ==
  ASSUME NEW n \in Nat, NEW written \in [1..n -> 0..TopK + 1]
  PROVE  Extract(written) \in Seq(Nat)
  <1>1. TopK \in Nat
    BY Constants
  <1>2. written \in Seq(Nat)
    BY <1>1
  <1> DEFINE places == {i \in 1..Len(written) : \A j \in 1..i - 1 : written[j] # written[i]}
  <1>3. places \in SUBSET (1..Len(written)) /\ Extract(written) = Picked(written, places)
    BY DEF Extract
  <1> HIDE DEF places
  <1>4. QED
    BY <1>2, <1>3, PickedPlaces

\* The context block is the beginning of what was selected.
LEMMA ContextBlockIs ==
  ASSUME NEW chunks \in Seq(Chunks)
  PROVE  LET block == ContextBlock(chunks) IN
         /\ block \in Seq(Chunks) /\ Len(block) <= Len(chunks)
         /\ \A i \in 1..Len(block) : block[i] = chunks[i]
  <1> DEFINE length(n) == MapThenSumSet(LAMBDA i : BlockLength(chunks[i]), 1..n)
             fitting == {n \in 0..Len(chunks) : length(n) <= MaxContext}
             most == Max(fitting)
  <1>1. ContextBlock(chunks) = FirstOf(chunks, most)
    BY DEF ContextBlock
  <1>2. length(0) = 0
    <2> DEFINE Sums(f) == f = [s \in SUBSET (1..0) |->
                 IF s = {} THEN 0
                 ELSE LET x == CHOOSE x \in s : TRUE IN BlockLength(chunks[x]) + f[s \ {x}]]
               zero == [s \in SUBSET (1..0) |-> 0]
               sums == CHOOSE f : Sums(f)
    <2>1. 1..0 = {}
      OBVIOUS
    <2>2. Sums(zero)
      BY <2>1
    <2>3. Sums(sums)
      BY <2>2
    <2>4. length(0) = sums[1..0]
      BY DEF MapThenSumSet, MapThenFoldSet
    <2> HIDE DEF sums
    <2>5. sums[1..0] = 0
      BY <2>1, <2>3
    <2>6. QED
      BY <2>4, <2>5
  <1>3. 0 \in fitting /\ fitting \subseteq 0..Len(chunks) /\ Len(chunks) \in Nat
    <2>1. MaxContext \in Nat /\ Len(chunks) \in Nat
      BY Constants
    <2> HIDE DEF length
    <2>2. QED
      BY <1>2, <2>1
  <1> HIDE DEF fitting
  <1>4. most \in fitting
    <2> DEFINE above == {Len(chunks) - n : n \in fitting}
    <2>1. above # {} /\ above \in SUBSET Nat
      BY <1>3
    <2>2. PICK least \in above : \A i \in above : least <= i
      <3> HIDE DEF above
      <3>1. QED
        BY <2>1, LeastNumber
    <2>3. PICK n \in fitting : least = Len(chunks) - n
      BY <2>2
    <2>4. \A y \in fitting : n >= y
      <3> TAKE y \in fitting
      <3>1. Len(chunks) - n <= Len(chunks) - y
        BY <2>2, <2>3
      <3>2. QED
        BY <1>3, <3>1
    <2>5. QED
      BY <2>4 DEF Max
  <1> HIDE DEF most
  <1>5. most \in Nat
    <2>1. \A n \in 0..Len(chunks) : n \in Nat
      BY <1>3
    <2>2. QED
      BY <1>3, <1>4, <2>1
  <1>6. QED
    <2>1. Len(FirstOf(chunks, most)) = IF most <= Len(chunks) THEN most ELSE Len(chunks)
      BY <1>5, FirstOfIs
    <2>2. /\ FirstOf(chunks, most) \in Seq(Chunks)
          /\ \A i \in 1..Len(FirstOf(chunks, most)) : FirstOf(chunks, most)[i] = chunks[i]
      BY <1>5, FirstOfIs
    <2>3. QED
      BY <1>1, <1>3, <1>5, <2>1, <2>2

-----------------------------------------------------------------------------
(* The invariant *)

\* The searches found distinct chunks, and nothing is ranked twice.
RankedOnce ==
  /\ pc \in {"fusing", "hydrating"} => Ranking(vector)
  /\ pc = "hydrating" => Ranking(lexical)
  /\ pc = "hydrating" => ranked = FirstOf(Fuse(vector, lexical), Shortlist)
  /\ Once(ranked)

\* As long as no document was removed meanwhile, what was found is still there,
\* and none of it is lost but to the cut.
FoundIsThere == ~disturbed =>
  /\ pc = "fusing" => ToSet(vector) \subseteq Searchable
  /\ pc = "hydrating" => Found \subseteq Searchable
  /\ pc \in {"hydrating", "ranking", "generating"} =>
       Len(ranked) = Min({Shortlist, Cardinality(Found)})

\* The context block is the beginning of the selection, and citations are of it.
CitedIsSelected ==
  /\ pc = "generating" => selected = EnforceDiversity(ranked)
  /\ pc \in {"searching", "fusing", "hydrating", "ranking", "generating"} => shown = <<>>
  /\ Len(shown) <= Len(selected) /\ \A i \in 1..Len(shown) : shown[i] = selected[i]
  /\ pc # "answered" => citations = {}
  /\ citations \subseteq {<<m, selected[m]>> : m \in 1..Len(selected)}
  /\ pc = "answered" => citations = BuildCitations(markers, selected)

AnswerInv == TypeOK /\ RankedOnce /\ FoundIsThere /\ CitedIsSelected

LEMMA Types ==
  /\ TypeOK <=> /\ store \in [Docs -> {"absent", "searchable", "removed"}]
                /\ pc \in {"idle", "searching", "fusing", "hydrating", "ranking",
                           "generating", "citing", "answered"}
                /\ vector \in Seq(Chunks) /\ lexical \in Seq(Chunks) /\ ranked \in Seq(Chunks)
                /\ selected \in Seq(Chunks) /\ shown \in Seq(Chunks)
                /\ markers \in Seq(Nat) /\ citations \subseteq Nat \X Chunks
                /\ disturbed \in BOOLEAN
  BY DEF TypeOK

LEMMA InitKeeps == Init => AnswerInv
  <1> SUFFICES ASSUME Init
               PROVE  AnswerInv
    OBVIOUS
  <1>1. TypeOK
    <2>1. <<>> \in Seq(Chunks) /\ <<>> \in Seq(Nat)
      OBVIOUS
    <2>2. store \in [Docs -> {"absent", "searchable", "removed"}]
      BY DEF Init
    <2>3. pc = "idle" /\ citations = {} /\ disturbed = FALSE
          /\ vector = <<>> /\ lexical = <<>> /\ ranked = <<>> /\ selected = <<>>
          /\ shown = <<>> /\ markers = <<>>
      BY DEF Init
    <2>4. {vector, lexical, ranked, selected, shown} \subseteq Seq(Chunks) /\ markers \in Seq(Nat)
      BY <2>1, <2>3
    <2>5. QED
      BY <2>2, <2>3, <2>4, Types
  <1>2. RankedOnce /\ FoundIsThere /\ CitedIsSelected
    BY DEF Init, RankedOnce, FoundIsThere, CitedIsSelected, Once
  <1>3. QED
    BY <1>1, <1>2 DEF AnswerInv

LEMMA ReadyKeeps ==
  ASSUME AnswerInv, NEW d \in Docs, DocumentReady(d)
  PROVE  AnswerInv'
  <1>1. TypeOK /\ RankedOnce /\ FoundIsThere /\ CitedIsSelected
    BY DEF AnswerInv
  <1>2. UNCHANGED <<pc, vector, lexical, ranked, selected, shown, markers, citations, disturbed>>
        /\ store' = [store EXCEPT ![d] = "searchable"]
    BY DEF DocumentReady
  <1>3. TypeOK'
    BY <1>1, <1>2 DEF TypeOK
  <1>4. RankedOnce' /\ CitedIsSelected'
    BY <1>1, <1>2 DEF RankedOnce, CitedIsSelected, Once
  <1>5. Searchable \subseteq Searchable'
    BY <1>1, <1>2 DEF TypeOK, Searchable, Doc, Chunks
  <1>6. FoundIsThere'
    BY <1>1, <1>2, <1>5 DEF FoundIsThere, Found
  <1>7. QED
    BY <1>3, <1>4, <1>6 DEF AnswerInv

LEMMA RemovedKeeps ==
  ASSUME AnswerInv, NEW d \in Docs, DocumentRemoved(d)
  PROVE  AnswerInv'
  <1>1. TypeOK /\ RankedOnce /\ FoundIsThere /\ CitedIsSelected
    BY DEF AnswerInv
  <1>2. UNCHANGED <<pc, vector, lexical, ranked, selected, shown, markers, citations>>
        /\ store' = [store EXCEPT ![d] = "removed"]
        /\ disturbed' = (disturbed \/ pc \in {"searching", "fusing", "hydrating"})
    BY DEF DocumentRemoved
  <1>3. TypeOK'
    BY <1>1, <1>2 DEF TypeOK
  <1>4. RankedOnce' /\ CitedIsSelected'
    BY <1>1, <1>2 DEF RankedOnce, CitedIsSelected, Once
  <1>5. FoundIsThere'
    BY <1>1, <1>2 DEF FoundIsThere, Found
  <1>6. QED
    BY <1>3, <1>4, <1>5 DEF AnswerInv

LEMMA AskKeeps ==
  ASSUME AnswerInv, Ask
  PROVE  AnswerInv'
  <1>1. TypeOK /\ RankedOnce
    BY DEF AnswerInv
  <1>2. TypeOK'
    <2>1. <<>> \in Seq(Chunks) /\ <<>> \in Seq(Nat)
      OBVIOUS
    <2>2. store' = store /\ vector' = vector /\ lexical' = lexical /\ ranked' = ranked
          /\ selected' = <<>> /\ shown' = <<>> /\ markers' = <<>> /\ citations' = {}
          /\ disturbed' = FALSE /\ pc' = "searching"
      BY DEF Ask
    <2>3. {vector', lexical', ranked', selected', shown'} \subseteq Seq(Chunks)
      <3>1. vector \in Seq(Chunks) /\ lexical \in Seq(Chunks) /\ ranked \in Seq(Chunks)
        BY <1>1 DEF TypeOK
      <3>2. QED
        BY <2>1, <2>2, <3>1
    <2>4. store \in [Docs -> {"absent", "searchable", "removed"}]
      BY <1>1 DEF TypeOK
    <2>5. markers' \in Seq(Nat) /\ citations' \subseteq Nat \X Chunks
      BY <2>1, <2>2
    <2>6. QED
      BY <2>2, <2>3, <2>4, <2>5 DEF TypeOK
  <1>3. RankedOnce'
    BY <1>1 DEF Ask, RankedOnce, Once
  <1>4. FoundIsThere'
    BY DEF Ask, FoundIsThere
  <1>5. CitedIsSelected'
    BY DEF Ask, CitedIsSelected
  <1>6. QED
    BY <1>2, <1>3, <1>4, <1>5 DEF AnswerInv

LEMMA VectorKeeps ==
  ASSUME AnswerInv, VectorSearch
  PROVE  AnswerInv'
  <1>1. TypeOK /\ RankedOnce /\ CitedIsSelected
    BY DEF AnswerInv
  <1>2. /\ pc = "searching" /\ pc' = "fusing" /\ vector' \in Rankings(Searchable, VectorCount)
        /\ UNCHANGED <<store, lexical, ranked, selected, shown, markers, citations, disturbed>>
    BY DEF VectorSearch
  <1>3. Ranking(vector') /\ ToSet(vector') \subseteq Searchable
    <2>1. VectorCount \in Nat /\ VectorCount <= Places /\ Searchable \in SUBSET Chunks
      BY Constants DEF Places, Searchable
    <2>2. QED
      BY <1>2, <2>1, RankingsAre
  <1>4. TypeOK'
    BY <1>1, <1>2, <1>3 DEF TypeOK, Ranking
  <1>5. RankedOnce'
    BY <1>1, <1>2, <1>3 DEF RankedOnce, Ranking, Once
  <1>6. FoundIsThere'
    BY <1>2, <1>3 DEF FoundIsThere, Searchable
  <1>7. CitedIsSelected'
    BY <1>1, <1>2 DEF CitedIsSelected
  <1>8. QED
    BY <1>4, <1>5, <1>6, <1>7 DEF AnswerInv

LEMMA LexicalKeeps ==
  ASSUME AnswerInv, LexicalSearch
  PROVE  AnswerInv'
  <1>1. TypeOK /\ RankedOnce /\ FoundIsThere /\ CitedIsSelected
    BY DEF AnswerInv
  <1>2. /\ pc = "fusing" /\ pc' = "hydrating" /\ lexical' \in Rankings(Searchable, LexicalCount)
        /\ ranked' = FirstOf(Fuse(vector, lexical'), Shortlist)
        /\ UNCHANGED <<store, vector, selected, shown, markers, citations, disturbed>>
    BY DEF LexicalSearch
  <1>3. Ranking(lexical') /\ ToSet(lexical') \subseteq Searchable
    <2>1. LexicalCount \in Nat /\ LexicalCount <= Places /\ Searchable \in SUBSET Chunks
      BY Constants DEF Places, Searchable
    <2>2. QED
      BY <1>2, <2>1, RankingsAre
  <1>4. Ranking(vector)
    BY <1>1, <1>2 DEF RankedOnce
  <1> DEFINE fused == Fuse(vector, lexical')
             found == ToSet(vector) \cup ToSet(lexical')
  <1>5. /\ fused \in Seq(Chunks) /\ Len(fused) = Cardinality(found) /\ Once(fused)
        /\ Cardinality(found) \in Nat
    BY <1>3, <1>4, FusedPlaces
  <1> HIDE DEF fused
  <1>6. Shortlist \in Nat
    BY Constants
  <1>7. /\ ranked' \in Seq(Chunks)
        /\ Len(ranked') = IF Shortlist <= Len(fused) THEN Shortlist ELSE Len(fused)
        /\ \A i \in 1..Len(ranked') : ranked'[i] = fused[i]
    <2>1. ranked' = FirstOf(fused, Shortlist)
      BY <1>2 DEF fused
    <2>2. QED
      BY <1>5, <1>6, <2>1, FirstOfIs
  <1>8. Once(ranked')
    <2>1. Len(ranked') \in Nat /\ Len(ranked') <= Len(fused) /\ Len(fused) \in Nat
      BY <1>5, <1>6, <1>7
    <2>2. \A i \in 1..Len(ranked') : i \in 1..Len(fused)
      BY <2>1
    <2>3. QED
      BY <1>5, <1>7, <2>2 DEF Once
  <1>9. Len(ranked') = Min({Shortlist, Cardinality(found)})
    BY <1>5, <1>6, <1>7, MinOfTwo
  <1>10. Found' = found
    BY <1>2 DEF Found
  <1>11. TypeOK'
    BY <1>1, <1>2, <1>3, <1>7 DEF TypeOK, Ranking
  <1>12. RankedOnce'
    <2>1. Ranking(vector)' /\ Ranking(lexical)' /\ Once(ranked)'
      BY <1>2, <1>3, <1>4, <1>8 DEF Ranking, Once
    <2>2. (ranked = FirstOf(Fuse(vector, lexical), Shortlist))'
      BY <1>2
    <2>3. QED
      BY <2>1, <2>2 DEF RankedOnce
  <1>13. FoundIsThere'
    <2>1. ~disturbed' => found \subseteq Searchable'
      BY <1>1, <1>2, <1>3 DEF FoundIsThere, Searchable
    <2> HIDE DEF found
    <2>2. QED
      BY <1>2, <1>9, <1>10, <2>1 DEF FoundIsThere
  <1>14. CitedIsSelected'
    BY <1>1, <1>2 DEF CitedIsSelected
  <1>15. QED
    BY <1>11, <1>12, <1>13, <1>14 DEF AnswerInv

LEMMA HydrateKeeps ==
  ASSUME AnswerInv, Hydrate
  PROVE  AnswerInv'
  <1>1. TypeOK /\ RankedOnce /\ FoundIsThere /\ CitedIsSelected
    BY DEF AnswerInv
  <1>2. /\ pc = "hydrating" /\ pc' = "ranking" /\ ranked' = Hydrated(ranked)
        /\ UNCHANGED <<store, vector, lexical, selected, shown, markers, citations, disturbed>>
    BY DEF Hydrate
  <1>3. ranked \in Seq(Chunks) /\ Once(ranked)
    BY <1>1 DEF TypeOK, RankedOnce
  <1>4. /\ ranked' \in Seq(Chunks) /\ Once(ranked')
        /\ ToSet(ranked) \subseteq Searchable => Len(ranked') = Len(ranked)
    BY <1>2, <1>3, HydratedIs
  <1>5. ToSet(ranked) \subseteq Found
    <2>1. Ranking(vector) /\ Ranking(lexical) /\ ranked = FirstOf(Fuse(vector, lexical), Shortlist)
      BY <1>1, <1>2 DEF RankedOnce
    <2> DEFINE fused == Fuse(vector, lexical)
    <2>2. /\ fused \in Seq(Chunks) /\ Len(fused) \in Nat
          /\ \A i \in 1..Len(fused) : fused[i] \in Found
      BY <2>1, FusedPlaces DEF Found
    <2> HIDE DEF fused
    <2>3. Shortlist \in Nat
      BY Constants
    <2>4. /\ Len(ranked) = IF Shortlist <= Len(fused) THEN Shortlist ELSE Len(fused)
          /\ \A i \in 1..Len(ranked) : ranked[i] = fused[i]
      BY <2>1, <2>2, <2>3, FirstOfIs DEF fused
    <2>5. \A i \in 1..Len(ranked) : ranked[i] \in Found
      BY <2>2, <2>3, <2>4
    <2>6. DOMAIN ranked = 1..Len(ranked)
      BY <1>3
    <2>7. QED
      BY <2>5, <2>6 DEF ToSet
  <1>6. TypeOK'
    BY <1>1, <1>2, <1>4 DEF TypeOK
  <1>7. RankedOnce'
    BY <1>2, <1>4 DEF RankedOnce, Once
  <1>8. FoundIsThere'
    <2>1. Found' = Found
      BY <1>2 DEF Found
    <2>2. ~disturbed => Len(ranked') = Min({Shortlist, Cardinality(Found)})
      BY <1>1, <1>2, <1>4, <1>5 DEF FoundIsThere
    <2>3. QED
      BY <1>2, <2>1, <2>2 DEF FoundIsThere
  <1>9. CitedIsSelected'
    BY <1>1, <1>2 DEF CitedIsSelected
  <1>10. QED
    BY <1>6, <1>7, <1>8, <1>9 DEF AnswerInv

LEMMA RerankKeeps ==
  ASSUME AnswerInv, RerankAndSelect
  PROVE  AnswerInv'
  <1>1. TypeOK /\ RankedOnce /\ FoundIsThere /\ CitedIsSelected
    BY DEF AnswerInv
  <1>2. /\ pc = "ranking" /\ pc' = "generating" /\ selected' = EnforceDiversity(ranked')
        /\ UNCHANGED <<store, vector, lexical, shown, markers, citations, disturbed>>
    BY DEF RerankAndSelect
  <1>3. ranked' \in Orderings(ranked) \/ ranked' = ranked
    BY DEF RerankAndSelect
  <1>4. ranked \in Seq(Chunks) /\ Once(ranked)
    BY <1>1 DEF TypeOK, RankedOnce
  <1>5. ranked' \in Seq(Chunks) /\ Once(ranked') /\ Len(ranked') = Len(ranked)
    BY <1>3, <1>4, OrderingIs
  <1>6. selected' \in Seq(Chunks) /\ Len(selected') \in Nat
    <2>1. selected' \in Seq(Chunks)
      BY <1>2, <1>5, SelectionIs
    <2>2. QED
      BY <2>1
  <1>7. TypeOK'
    BY <1>1, <1>2, <1>5, <1>6 DEF TypeOK
  <1>8. RankedOnce'
    BY <1>2, <1>5 DEF RankedOnce, Once
  <1>9. FoundIsThere'
    BY <1>1, <1>2, <1>5 DEF FoundIsThere, Found
  <1>10. CitedIsSelected'
    <2>1. shown' = <<>> /\ citations' = {} /\ Len(shown') = 0
      BY <1>1, <1>2 DEF CitedIsSelected
    <2>2. QED
      BY <1>2, <1>6, <2>1 DEF CitedIsSelected
  <1>11. QED
    BY <1>7, <1>8, <1>9, <1>10 DEF AnswerInv

LEMMA GenerateKeeps ==
  ASSUME AnswerInv, Generate
  PROVE  AnswerInv'
  <1>1. TypeOK /\ CitedIsSelected
    BY DEF AnswerInv
  <1>2. /\ pc = "generating" /\ pc' = "citing" /\ shown' = ContextBlock(selected)
        /\ vector' = <<>> /\ lexical' = <<>> /\ ranked' = <<>>
        /\ UNCHANGED <<store, selected, citations, disturbed>>
    BY DEF Generate, Forget
  <1>3. markers' \in Seq(Nat)
    <2>1. PICK written \in UNION {[1..n -> 0..TopK + 1] : n \in 0..MaxMarkers} :
            markers' = Extract(written)
      BY DEF Generate
    <2>2. PICK n \in 0..MaxMarkers : written \in [1..n -> 0..TopK + 1]
      BY <2>1
    <2>3. n \in Nat
      BY Constants
    <2>4. QED
      BY <2>1, <2>2, <2>3, ExtractIs
  <1>4. selected \in Seq(Chunks)
    BY <1>1 DEF TypeOK
  <1>5. /\ shown' \in Seq(Chunks) /\ Len(shown') <= Len(selected)
        /\ \A i \in 1..Len(shown') : shown'[i] = selected[i]
    BY <1>2, <1>4, ContextBlockIs
  <1>6. TypeOK'
    BY <1>1, <1>2, <1>3, <1>5 DEF TypeOK
  <1>7. RankedOnce'
    BY <1>2 DEF RankedOnce, Once
  <1>8. FoundIsThere'
    BY <1>2 DEF FoundIsThere
  <1>9. CitedIsSelected'
    BY <1>1, <1>2, <1>5 DEF CitedIsSelected
  <1>10. QED
    BY <1>6, <1>7, <1>8, <1>9 DEF AnswerInv

LEMMA CiteKeeps ==
  ASSUME AnswerInv, Cite
  PROVE  AnswerInv'
  <1>1. TypeOK /\ RankedOnce /\ CitedIsSelected
    BY DEF AnswerInv
  <1>2. /\ pc = "citing" /\ pc' = "answered" /\ citations' = BuildCitations(markers, selected)
        /\ UNCHANGED <<store, vector, lexical, ranked, selected, shown, markers, disturbed>>
    BY DEF Cite
  <1>3. selected \in Seq(Chunks)
    BY <1>1 DEF TypeOK
  <1>4. citations' \subseteq {<<m, selected[m]>> : m \in 1..Len(selected)}
    BY <1>2 DEF BuildCitations
  <1>5. {<<m, selected[m]>> : m \in 1..Len(selected)} \subseteq Nat \X Chunks
    <2>1. \A m \in 1..Len(selected) : m \in Nat /\ selected[m] \in Chunks
      BY <1>3
    <2>2. QED
      BY <2>1
  <1>6. TypeOK'
    <2>1. citations' \subseteq Nat \X Chunks
      BY <1>4, <1>5
    <2>2. QED
      BY <1>1, <1>2, <2>1 DEF TypeOK
  <1>7. RankedOnce'
    BY <1>1, <1>2 DEF RankedOnce, Once
  <1>8. FoundIsThere'
    BY <1>2 DEF FoundIsThere
  <1>9. CitedIsSelected'
    BY <1>1, <1>2, <1>4 DEF CitedIsSelected
  <1>10. QED
    BY <1>6, <1>7, <1>8, <1>9 DEF AnswerInv

LEMMA FallbackKeeps ==
  ASSUME AnswerInv, Fallback
  PROVE  AnswerInv'
  <1>1. TypeOK /\ CitedIsSelected
    BY DEF AnswerInv
  <1>2. /\ pc = "generating" /\ pc' = "answered" /\ selected = <<>>
        /\ vector' = <<>> /\ lexical' = <<>> /\ ranked' = <<>>
        /\ UNCHANGED <<store, selected, shown, markers, citations, disturbed>>
    BY DEF Fallback, Forget
  <1>3. TypeOK'
    BY <1>1, <1>2 DEF TypeOK
  <1>4. RankedOnce'
    BY <1>2 DEF RankedOnce, Once
  <1>5. FoundIsThere'
    BY <1>2 DEF FoundIsThere
  <1>6. CitedIsSelected'
    <2>1. citations = {} /\ BuildCitations(markers, <<>>) = {}
      BY <1>1, <1>2 DEF CitedIsSelected, BuildCitations
    <2>2. citations' = BuildCitations(markers', selected')
      BY <1>2, <2>1
    <2>3. QED
      BY <1>1, <1>2, <2>2 DEF CitedIsSelected
  <1>7. QED
    BY <1>3, <1>4, <1>5, <1>6 DEF AnswerInv

LEMMA NextKeeps == AnswerInv /\ [Next]_vars => AnswerInv'
  <1>1. AnswerInv /\ Next => AnswerInv'
    BY ReadyKeeps, RemovedKeeps, AskKeeps, VectorKeeps, LexicalKeeps, HydrateKeeps,
       RerankKeeps, GenerateKeeps, CiteKeeps, FallbackKeeps
       DEF Next
  <1>2. AnswerInv /\ UNCHANGED vars => AnswerInv'
    BY DEF AnswerInv, vars, TypeOK, RankedOnce, FoundIsThere, CitedIsSelected, Ranking, Once,
           Found, Searchable
  <1>3. QED
    BY <1>1, <1>2

LEMMA AnswerAlways == Spec => []AnswerInv
  BY InitKeeps, NextKeeps, PTL DEF Spec

-----------------------------------------------------------------------------
(* The theorems *)

\* The variables are of their types.
THEOREM TypeCorrect == Spec => []TypeOK
  <1>1. AnswerInv => TypeOK
    BY DEF AnswerInv
  <1>2. QED
    BY <1>1, AnswerAlways, PTL

\* Weighted reciprocal ranks never turn around what both searches agree on,
\* for any weights, any K and rankings of any length.
THEOREM FusionRespectsAgreementAlways == Spec => []FusionRespectsAgreement
  <1>1. AnswerInv => FusionRespectsAgreement
    <2> SUFFICES ASSUME AnswerInv, pc = "hydrating", NEW a \in Found, NEW b \in Found,
                        NotWorse(vector, a, b), NotWorse(lexical, a, b), Contains(ranked, b)
                 PROVE  Contains(ranked, a) /\ Rank(ranked, a) < Rank(ranked, b)
      BY DEF FusionRespectsAgreement
    <2>1. /\ Ranking(vector) /\ Ranking(lexical)
          /\ ranked = FirstOf(Fuse(vector, lexical), Shortlist)
      BY DEF AnswerInv, RankedOnce
    <2>2. Shortlist \in Nat
      BY Constants
    <2>3. a \in ToSet(vector) \cup ToSet(lexical) /\ b \in ToSet(vector) \cup ToSet(lexical)
      BY DEF Found
    <2>4. QED
      BY <2>1, <2>2, <2>3, FusionAgrees
  <1>2. QED
    BY <1>1, AnswerAlways, PTL

\* The selection is best first, and only a lack of other documents lets one
\* document have more than its share.
THEOREM SelectionIsDiverseAlways == Spec => []SelectionIsDiverse
  <1>1. AnswerInv => SelectionIsDiverse
    <2> SUFFICES ASSUME AnswerInv, pc = "generating"
                 PROVE  SelectionIsDiverse
      BY DEF SelectionIsDiverse
    <2>1. ranked \in Seq(Chunks) /\ Once(ranked) /\ selected = EnforceDiversity(ranked)
      BY DEF AnswerInv, TypeOK, RankedOnce, CitedIsSelected
    <2>2. \A i, j \in 1..Len(selected) :
            i < j => Rank(ranked, selected[i]) < Rank(ranked, selected[j])
      BY <2>1, SelectionIs
    <2>3. \A c \in ToSet(ranked) \ ToSet(selected) : \A d :
            Cardinality(OfDocument(selected, d)) > MaxPerDocument
              => Cardinality(OfDocument(selected, Doc(c))) >= MaxPerDocument
      BY <2>1, SelectionIs
    <2>4. \A c \in ToSet(ranked) \ ToSet(selected) :
            Cardinality(OfDocument(selected, Doc(c))) < MaxPerDocument
              => \A i \in 1..Len(selected) : Rank(ranked, selected[i]) < Rank(ranked, c)
      BY <2>1, SelectionIs
    <2>5. QED
      BY <2>2, <2>3, <2>4 DEF SelectionIsDiverse
  <1>2. QED
    BY <1>1, AnswerAlways, PTL

\* The window is as full as what was found allows, unless a document was
\* removed between a search and hydration.
THEOREM WindowIsFullAlways == Spec => []WindowIsFull
  <1>1. AnswerInv => WindowIsFull
    <2> SUFFICES ASSUME AnswerInv, pc = "generating", ~disturbed
                 PROVE  Len(selected) = Min({TopK, Shortlist, Cardinality(Found)})
      BY DEF WindowIsFull
    <2> DEFINE n == Cardinality(Found)
               l == IF Shortlist <= n THEN Shortlist ELSE n
               least == IF TopK <= l THEN TopK ELSE l
    <2>1. /\ ranked \in Seq(Chunks) /\ Once(ranked) /\ selected = EnforceDiversity(ranked)
          /\ Len(ranked) = Min({Shortlist, n})
      BY DEF AnswerInv, TypeOK, RankedOnce, CitedIsSelected, FoundIsThere
    <2>2. n \in Nat /\ Shortlist \in Nat /\ TopK \in Nat
      <3>1. vector \in Seq(Chunks) /\ lexical \in Seq(Chunks)
        BY DEF AnswerInv, TypeOK
      <3>2. IsFiniteSet(ToSet(vector)) /\ IsFiniteSet(ToSet(lexical))
        BY <3>1, RangeOf
      <3>3. IsFiniteSet(Found)
        BY <3>2, FS_Union DEF Found
      <3>4. QED
        BY <3>3, FS_CardinalityType, Constants
    <2> HIDE DEF n
    <2>3. Len(ranked) = l
      BY <2>1, <2>2, MinOfTwo
    <2>4. Len(selected) = IF TopK <= Len(ranked) THEN TopK ELSE Len(ranked)
      BY <2>1, SelectionIs
    <2>5. Min({TopK, Shortlist, n}) = least
      <3>1. least \in {TopK, Shortlist, n} /\ \A y \in {TopK, Shortlist, n} : least =< y
        BY <2>2
      <3>2. \A x \in {TopK, Shortlist, n} :
              (\A y \in {TopK, Shortlist, n} : x =< y) => x = least
        BY <2>2
      <3> HIDE DEF least
      <3>3. QED
        BY <3>1, <3>2 DEF Min
    <2>6. QED
      BY <2>3, <2>4, <2>5 DEF n
  <1>2. QED
    BY <1>1, AnswerAlways, PTL

\* A number that the model was shown is resolved to the chunk it was shown under
\* that number, and to no other.
THEOREM ShownNumbersResolveAlways == Spec => []ShownNumbersResolve
  <1>1. AnswerInv => ShownNumbersResolve
    <2> SUFFICES ASSUME AnswerInv, pc = "answered",
                        NEW n \in ToSet(markers) \cap 1..Len(shown)
                 PROVE  {cite \in citations : cite[1] = n} = {<<n, shown[n]>>}
      BY DEF ShownNumbersResolve
    <2>1. /\ Len(shown) \in Nat /\ Len(selected) \in Nat /\ Len(shown) <= Len(selected)
          /\ shown[n] = selected[n]
      BY DEF AnswerInv, TypeOK, CitedIsSelected
    <2>2. n \in 1..Len(selected)
      BY <2>1
    <2>3. citations = {<<m, selected[m]>> : m \in {k \in ToSet(markers) : k \in 1..Len(selected)}}
      BY DEF AnswerInv, CitedIsSelected, BuildCitations
    <2>4. <<n, selected[n]>> \in citations
      BY <2>2, <2>3
    <2>5. \A cite \in citations : cite[1] = n => cite = <<n, selected[n]>>
      BY <2>3
    <2>6. QED
      BY <2>1, <2>4, <2>5
  <1>2. QED
    BY <1>1, AnswerAlways, PTL
=============================================================================
