-------------------------- MODULE EnumerationProofs --------------------------
(***************************************************************************)
(* What the proofs about the components count and enumerate with.          *)
(***************************************************************************)
EXTENDS Enumeration, Sequences, FiniteSetTheorems, TLAPS

(* A non-empty set of naturals has a least element ...                     *)
LEMMA LeastExists ==
  ASSUME NEW S \in SUBSET Nat, S # {}
  PROVE  \E x \in S : \A y \in S : x <= y
<1> DEFINE R == OpToRel(<, Nat)
           T == S
<1>1. \A x, y \in Nat : <<x, y>> \in R <=> x < y
  BY DEF OpToRel
<1>2. PICK x \in T : \A y \in T : ~(<<y, x>> \in R)
  <2>1. T # {} /\ T \subseteq Nat
    OBVIOUS
  <2>2. IsWellFoundedOn(R, Nat)
    BY NatLessThanWellFounded
  <2> HIDE DEF T, R
  <2>3. QED
    BY <2>1, <2>2, WFMin
<1>3. \A y \in T : ~(y < x)
  BY <1>1, <1>2
<1>4. QED
  BY <1>3

(* ... and, when it is bounded, a greatest one.                            *)
LEMMA GreatestExists ==
  ASSUME NEW b \in Nat, NEW S \in SUBSET (0..b), S # {}
  PROVE  \E x \in S : \A y \in S : y <= x
<1> DEFINE T == {u \in Nat : b - u \in S}
<1>1. PICK y \in S : TRUE
  OBVIOUS
<1>2. b - y \in Nat /\ b - (b - y) = y
  OBVIOUS
<1>3. T \in SUBSET Nat /\ b - y \in T
  BY <1>2
<1>4. PICK t \in T : \A u \in T : t <= u
  <2>1. T # {}
    BY <1>3
  <2> HIDE DEF T
  <2>2. QED
    BY <1>3, <2>1, LeastExists
<1>5. ASSUME NEW z \in S PROVE z <= b - t
  <2>1. b - z \in Nat /\ b - (b - z) = z
    OBVIOUS
  <2>2. t <= b - z
    BY <1>4, <2>1
  <2>3. QED
    BY <2>2
<1>6. QED
  BY <1>4, <1>5

(* By its least counterexample: a set that holds 0, and the successor of   *)
(* each of its numbers up to a bound, holds them all ...                   *)
LEMMA InductionUpTo ==
  ASSUME NEW n \in Nat, NEW S, 0 \in S, \A i \in 0..(n - 1) : i \in S => i + 1 \in S
  PROVE  0..n \subseteq S
<1> DEFINE T == (0..n) \ S
<1>1. SUFFICES ASSUME T # {} PROVE FALSE
  OBVIOUS
<1>2. PICK x \in T : \A y \in T : x <= y
  <2>1. T \in SUBSET Nat
    OBVIOUS
  <2> HIDE DEF T
  <2>2. QED
    BY <1>1, <2>1, LeastExists
<1>3. x \in 0..n /\ x # 0 /\ x - 1 \in 0..(n - 1)
  BY <1>2
<1>4. x - 1 \in S
  BY <1>2, <1>3
<1>5. QED
  BY <1>2, <1>3, <1>4

(* ... and so a function can be defined by recursion up to the bound.      *)
Recursion(f, n, base, g) == f[0] = base /\ \A i \in 1..n : f[i] = g[<<i, f[i - 1]>>]

LEMMA RecursionUpTo ==
  ASSUME NEW n \in Nat, NEW V, NEW base \in V, NEW g \in [(1..n) \X V -> V]
  PROVE  \E f \in [0..n -> V] : Recursion(f, n, base, g)
<1> DEFINE S == {m \in 0..n : \E f \in [0..m -> V] :
                    f[0] = base /\ \A i \in 1..m : f[i] = g[<<i, f[i - 1]>>]}
<1>1. 0 \in S
  <2> DEFINE f == [i \in 0..0 |-> base]
  <2>1. f \in [0..0 -> V] /\ f[0] = base /\ \A i \in 1..0 : f[i] = g[<<i, f[i - 1]>>]
    OBVIOUS
  <2> HIDE DEF f
  <2>2. QED
    BY <2>1
<1>2. ASSUME NEW m \in 0..(n - 1), m \in S PROVE m + 1 \in S
  <2>1. PICK f \in [0..m -> V] : f[0] = base /\ \A i \in 1..m : f[i] = g[<<i, f[i - 1]>>]
    BY <1>2
  <2> DEFINE h == [i \in 0..(m + 1) |-> IF i = m + 1 THEN g[<<m + 1, f[m]>>] ELSE f[i]]
  <2>2. g[<<m + 1, f[m]>>] \in V
    <3>1. m + 1 \in 1..n /\ f[m] \in V
      OBVIOUS
    <3>2. <<m + 1, f[m]>> \in (1..n) \X V
      BY <3>1
    <3>3. QED
      BY <3>2
  <2>3. h \in [0..(m + 1) -> V]
    BY <2>2
  <2>4. h[0] = base
    BY <2>1
  <2>5. ASSUME NEW i \in 1..(m + 1) PROVE h[i] = g[<<i, h[i - 1]>>]
    <3>1. CASE i = m + 1
      <4>1. m \in 0..(m + 1) /\ m + 1 \in 0..(m + 1) /\ m # m + 1 /\ i - 1 = m
        BY <3>1
      <4>2. h[m + 1] = g[<<m + 1, f[m]>>] /\ h[m] = f[m]
        BY <4>1
      <4> HIDE DEF h
      <4>3. QED
        BY <3>1, <4>1, <4>2
    <3>2. CASE i # m + 1
      <4>1. i \in 1..m /\ i - 1 \in 0..m /\ i # m + 1 /\ i - 1 # m + 1
        BY <3>2
      <4>2. h[i] = f[i] /\ h[i - 1] = f[i - 1]
        BY <4>1
      <4> HIDE DEF h
      <4>3. QED
        BY <2>1, <4>1, <4>2
    <3>3. QED
      BY <3>1, <3>2
  <2> HIDE DEF h
  <2>6. m + 1 \in 0..n
    OBVIOUS
  <2>7. QED
    BY <2>3, <2>4, <2>5, <2>6
<1>3. n \in S
  <2> HIDE DEF S
  <2>1. 0..n \subseteq S
    BY <1>1, <1>2, InductionUpTo
  <2>2. QED
    BY <2>1
<1>4. QED
  BY <1>3 DEF Recursion

-----------------------------------------------------------------------------
(* Counting. *)

(* The elements up to a number are finitely many, whatever the set.        *)
LEMMA UpToFinite ==
  ASSUME NEW S \in SUBSET Nat, NEW n \in Int
  PROVE  IsFiniteSet({x \in S : x <= n})
<1>1. ASSUME NEW x \in S, x <= n PROVE x \in 0..n
  BY <1>1
<1>2. {x \in S : x <= n} \in SUBSET (0..n)
  BY <1>1
<1>3. IsFiniteSet(0..n)
  BY FS_Interval
<1>4. QED
  BY <1>2, <1>3, FS_Subset

LEMMA UpToType ==
  ASSUME NEW S \in SUBSET Nat, NEW n \in Int
  PROVE  UpTo(S, n) \in Nat
BY UpToFinite, FS_CardinalityType DEF UpTo

(* Below all of the set nothing is counted ...                             *)
LEMMA UpToNone ==
  ASSUME NEW S \in SUBSET Nat, NEW n \in Int, \A x \in S : n < x
  PROVE  UpTo(S, n) = 0
<1>1. ASSUME NEW x \in S PROVE ~(x <= n)
  OBVIOUS
<1>2. {x \in S : x <= n} = {}
  BY <1>1
<1>3. QED
  BY <1>2, FS_EmptySet DEF UpTo

(* ... and a number is counted once the bound reaches it.                  *)
LEMMA UpToNext ==
  ASSUME NEW S \in SUBSET Nat, NEW n \in Int
  PROVE  UpTo(S, n + 1) = IF n + 1 \in S THEN UpTo(S, n) + 1 ELSE UpTo(S, n)
<1> DEFINE A == {x \in S : x <= n}
           B == {x \in S : x <= n + 1}
<1>1. IsFiniteSet(A)
  BY UpToFinite
<1>2. CASE n + 1 \in S
  <2>1. B = A \cup {n + 1} /\ n + 1 \notin A
    <3>1. ASSUME NEW x \in S PROVE (x <= n + 1) <=> (x <= n \/ x = n + 1)
      OBVIOUS
    <3>2. ~(n + 1 <= n)
      OBVIOUS
    <3>3. QED
      BY <1>2, <3>1, <3>2
  <2> HIDE DEF A, B
  <2>2. Cardinality(B) = Cardinality(A) + 1
    BY <1>1, <2>1, FS_AddElement
  <2>3. QED
    BY <1>2, <2>2 DEF UpTo, A, B
<1>3. CASE n + 1 \notin S
  <2>1. B = A
    <3>1. ASSUME NEW x \in S PROVE (x <= n + 1) <=> x <= n
      BY <1>3
    <3>2. QED
      BY <3>1
  <2>2. QED
    BY <1>3, <2>1 DEF UpTo
<1>4. QED
  BY <1>2, <1>3

(* A higher bound counts no less, and more when it reaches one more.       *)
LEMMA UpToMonotonic ==
  ASSUME NEW S \in SUBSET Nat, NEW m \in Int, NEW n \in Int, m <= n
  PROVE  /\ UpTo(S, m) <= UpTo(S, n)
         /\ \A x \in S : m < x /\ x <= n => UpTo(S, m) < UpTo(S, n)
         /\ (\A x \in S : ~(m < x /\ x <= n)) => UpTo(S, m) = UpTo(S, n)
<1> DEFINE A == {x \in S : x <= m}
           B == {x \in S : x <= n}
<1>1. IsFiniteSet(B) /\ UpTo(S, m) \in Nat /\ UpTo(S, n) \in Nat
  BY UpToFinite, UpToType
<1>2. A \in SUBSET B
  <2>1. ASSUME NEW x \in S, x <= m PROVE x <= n
    BY <2>1
  <2>2. QED
    BY <2>1
<1>3. Cardinality(A) <= Cardinality(B) /\ (Cardinality(B) = Cardinality(A) => B = A)
  <2> HIDE DEF A, B
  <2>1. QED
    BY <1>1, <1>2, FS_Subset
<1>4. UpTo(S, m) = Cardinality(A) /\ UpTo(S, n) = Cardinality(B)
  BY DEF UpTo
<1>5. ASSUME NEW x \in S, m < x, x <= n PROVE A # B
  <2>1. x \in B /\ x \notin A
    BY <1>5
  <2>2. QED
    BY <2>1
<1>6. ASSUME \A x \in S : ~(m < x /\ x <= n) PROVE A = B
  <2>1. ASSUME NEW x \in S PROVE (x <= m) <=> x <= n
    BY <1>6
  <2>2. QED
    BY <2>1
<1> HIDE DEF A, B
<1>7. QED
  BY <1>1, <1>3, <1>4, <1>5, <1>6

(* With the bound past all of them, all are counted.                       *)
LEMMA UpToAll ==
  ASSUME NEW S \in SUBSET Nat, NEW n \in Int, \A x \in S : x <= n
  PROVE  /\ IsFiniteSet(S)
         /\ Cardinality(S) \in Nat
         /\ UpTo(S, n) = Cardinality(S)
<1>1. S = {x \in S : x <= n}
  OBVIOUS
<1>2. IsFiniteSet(S)
  BY <1>1, UpToFinite
<1>3. QED
  BY <1>1, <1>2, FS_CardinalityType DEF UpTo

(* The number counted last is the one of that place, ...                   *)
LEMMA NthOfCount ==
  ASSUME NEW S \in SUBSET Nat, NEW x \in S
  PROVE  Nth(S, UpTo(S, x)) = x
<1>1. ASSUME NEW y \in S, UpTo(S, y) = UpTo(S, x) PROVE y = x
  <2>1. x \in Int /\ y \in Int /\ UpTo(S, x) \in Nat /\ UpTo(S, y) \in Nat
    BY UpToType
  <2>2. CASE x < y
    BY <1>1, <2>1, <2>2, UpToMonotonic
  <2>3. CASE y < x
    BY <1>1, <2>1, <2>3, UpToMonotonic
  <2>4. QED
    BY <2>1, <2>2, <2>3
<1>2. QED
  BY <1>1 DEF Nth

(* ... every place up to a count is taken by one of those counted, ...     *)
LEMMA NthExists ==
  ASSUME NEW S \in SUBSET Nat, NEW n \in Int, NEW k \in 1..UpTo(S, n)
  PROVE  /\ Nth(S, k) \in S /\ Nth(S, k) <= n
         /\ UpTo(S, Nth(S, k)) = k
<1> DEFINE T == {m \in Nat : k <= UpTo(S, m)}
<1>1. UpTo(S, n) \in Nat /\ k \in Nat /\ 1 <= k /\ k <= UpTo(S, n)
  BY UpToType
<1>2. n \in T
  <2>1. SUFFICES ASSUME n < 0 PROVE FALSE
    BY <1>1
  <2>2. UpTo(S, n) = 0
    BY <2>1, UpToNone
  <2>3. QED
    BY <1>1, <2>2
<1>3. PICK m \in T : \A l \in T : m <= l
  <2>1. T \in SUBSET Nat /\ T # {}
    BY <1>2
  <2> HIDE DEF T
  <2>2. QED
    BY <2>1, LeastExists
<1>4. m \in Nat /\ k <= UpTo(S, m) /\ m <= n
  BY <1>2, <1>3
<1>5. UpTo(S, m - 1) \in Nat /\ UpTo(S, m) \in Nat
  BY <1>4, UpToType
<1>6. UpTo(S, m - 1) < k
  <2>1. CASE m = 0
    <3>1. UpTo(S, m - 1) = 0
      BY <2>1, UpToNone
    <3>2. QED
      BY <1>1, <3>1
  <2>2. CASE m # 0
    BY <1>1, <1>3, <1>4, <1>5, <2>2
  <2>3. QED
    BY <2>1, <2>2
<1>7. m \in S /\ UpTo(S, m) = UpTo(S, m - 1) + 1
  <2>1. m - 1 \in Int /\ (m - 1) + 1 = m
    BY <1>4
  <2>2. UpTo(S, m) = IF m \in S THEN UpTo(S, m - 1) + 1 ELSE UpTo(S, m - 1)
    BY <2>1, UpToNext
  <2>3. QED
    BY <1>1, <1>4, <1>5, <1>6, <2>2
<1>8. UpTo(S, m) = k
  BY <1>1, <1>4, <1>5, <1>6, <1>7
<1>9. Nth(S, k) = m
  BY <1>7, <1>8, NthOfCount
<1>10. QED
  BY <1>4, <1>7, <1>8, <1>9

(* A finite set has a greatest element: the one where the count is highest.*)
LEMMA FiniteBounded ==
  ASSUME NEW S \in SUBSET Nat, IsFiniteSet(S)
  PROVE  \E n \in Nat : \A x \in S : x <= n
<1> DEFINE Missing == {Cardinality(S) - UpTo(S, m) : m \in Nat}
<1>1. Cardinality(S) \in Nat
  BY FS_CardinalityType
<1>2. ASSUME NEW m \in Nat
      PROVE  UpTo(S, m) \in Nat /\ UpTo(S, m) <= Cardinality(S)
  <2> DEFINE A == {x \in S : x <= m}
  <2>1. A \in SUBSET S
    OBVIOUS
  <2> HIDE DEF A
  <2>2. Cardinality(A) <= Cardinality(S)
    BY <2>1, FS_Subset
  <2>3. UpTo(S, m) = Cardinality(A)
    BY DEF UpTo, A
  <2>4. QED
    BY <2>2, <2>3, UpToType
<1>3. Missing \in SUBSET Nat
  BY <1>1, <1>2
<1>4. Missing # {}
  <2>1. Cardinality(S) - UpTo(S, 0) \in Missing
    OBVIOUS
  <2>2. QED
    BY <2>1
<1>5. PICK d \in Missing : \A e \in Missing : d <= e
  <2> HIDE DEF Missing
  <2>1. QED
    BY <1>3, <1>4, LeastExists
<1>6. PICK n \in Nat : d = Cardinality(S) - UpTo(S, n)
  BY <1>5
<1>7. ASSUME NEW x \in S, n < x PROVE FALSE
  <2>1. x \in Nat /\ UpTo(S, n) < UpTo(S, x)
    BY <1>7, UpToMonotonic
  <2>2. d <= Cardinality(S) - UpTo(S, x)
    BY <1>5, <2>1
  <2>3. UpTo(S, x) \in Nat /\ UpTo(S, n) \in Nat
    BY <1>2, <2>1
  <2>4. QED
    BY <1>1, <1>6, <2>1, <2>2, <2>3
<1>8. QED
  BY <1>7

(* ... so the places are those from 1 to the number of elements, in order. *)
LEMMA AscendingOrder ==
  ASSUME NEW S \in SUBSET Nat, IsFiniteSet(S)
  PROVE  /\ Cardinality(S) \in Nat
         /\ Ascending(S) \in [1..Cardinality(S) -> S]
         /\ \A i, j \in 1..Cardinality(S) : i < j => Ascending(S)[i] < Ascending(S)[j]
         /\ \A x \in S : UpTo(S, x) \in 1..Cardinality(S) /\ Ascending(S)[UpTo(S, x)] = x
<1>1. PICK n \in Nat : \A x \in S : x <= n
  BY FiniteBounded
<1>2. UpTo(S, n) = Cardinality(S) /\ Cardinality(S) \in Nat
  BY <1>1, UpToAll
<1>3. ASSUME NEW k \in 1..Cardinality(S)
      PROVE  Nth(S, k) \in S /\ UpTo(S, Nth(S, k)) = k
  BY <1>2, NthExists
<1>4. ASSUME NEW i \in 1..Cardinality(S), NEW j \in 1..Cardinality(S), i < j
      PROVE  Nth(S, i) < Nth(S, j)
  <2>1. Nth(S, i) \in S /\ Nth(S, j) \in S /\ UpTo(S, Nth(S, i)) = i /\ UpTo(S, Nth(S, j)) = j
    BY <1>3
  <2>2. Nth(S, i) \in Int /\ Nth(S, j) \in Int
    <3>1. \A x \in S : x \in Int
      OBVIOUS
    <3>2. QED
      BY <2>1, <3>1, Zenon
  <2>3. Nth(S, j) <= Nth(S, i) => UpTo(S, Nth(S, j)) <= UpTo(S, Nth(S, i))
    BY <2>2, UpToMonotonic
  <2>4. QED
    BY <1>2, <1>4, <2>1, <2>2, <2>3
<1>5. ASSUME NEW x \in S PROVE UpTo(S, x) \in 1..Cardinality(S) /\ Nth(S, UpTo(S, x)) = x
  <2>1. UpTo(S, x) \in Nat /\ UpTo(S, x) <= UpTo(S, n)
    BY <1>1, UpToType, UpToMonotonic
  <2>2. UpTo(S, x - 1) < UpTo(S, x) /\ UpTo(S, x - 1) \in Nat
    BY UpToType, UpToMonotonic
  <2>3. QED
    BY <1>2, <2>1, <2>2, NthOfCount
<1>6. QED
  BY <1>2, <1>3, <1>4, <1>5 DEF Ascending
-----------------------------------------------------------------------------
(* Sequences put end to end. *)

(* What the first sequences give, one after the other.                     *)
Firsts(f, seqs) == f[0] = << >> /\ \A i \in 1..Len(seqs) : f[i] = f[i - 1] \o seqs[i]

LEMMA ConcatFirsts ==
  ASSUME NEW T, NEW seqs \in Seq(Seq(T))
  PROVE  \E f \in [0..Len(seqs) -> Seq(T)] : Firsts(f, seqs) /\ Concat(seqs) = f[Len(seqs)]
<1> DEFINE n == Len(seqs)
           V == Seq(T)
           g == [p \in (1..n) \X V |-> p[2] \o seqs[p[1]]]
           Is(f) == f = [i \in 0..n |-> IF i = 0 THEN << >> ELSE f[i - 1] \o seqs[i]]
<1>1. n \in Nat /\ << >> \in V
  OBVIOUS
<1>2. g \in [(1..n) \X V -> V]
  <2>1. ASSUME NEW p \in (1..n) \X V PROVE p[2] \o seqs[p[1]] \in V
    OBVIOUS
  <2>2. QED
    BY <2>1
<1>3. PICK f \in [0..n -> V] : Recursion(f, n, << >>, g)
  <2> HIDE DEF n, V, g
  <2>1. QED
    BY <1>1, <1>2, RecursionUpTo
<1>4. ASSUME NEW i \in 1..n PROVE f[i] = f[i - 1] \o seqs[i]
  <2>1. f[i] = g[<<i, f[i - 1]>>]
    BY <1>3 DEF Recursion
  <2>2. i - 1 \in 0..n
    BY <1>1
  <2>3. f[i - 1] \in V
    BY <2>2
  <2>4. <<i, f[i - 1]>> \in (1..n) \X V
    <3> HIDE DEF V
    <3>1. QED
      BY <2>3
  <2>5. QED
    BY <2>1, <2>4
<1>5. f[0] = << >>
  BY <1>3 DEF Recursion
<1>6. Is(f)
  <2>1. ASSUME NEW i \in 0..n PROVE f[i] = IF i = 0 THEN << >> ELSE f[i - 1] \o seqs[i]
    BY <1>4, <1>5
  <2>2. QED
    BY <2>1
<1>7. ASSUME NEW h, Is(h) PROVE h = f
  <2> DEFINE S == {i \in 0..n : h[i] = f[i]}
  <2>1. 0 \in S
    BY <1>5, <1>7
  <2>2. ASSUME NEW i \in 0..(n - 1), i \in S PROVE i + 1 \in S
    <3>1. i + 1 \in 1..n /\ (i + 1) - 1 = i /\ i + 1 # 0 /\ i + 1 \in 0..n
      BY <1>1
    <3>2. h[i + 1] = h[i] \o seqs[i + 1]
      BY <1>7, <3>1
    <3>3. f[i + 1] = f[i] \o seqs[i + 1]
      BY <1>4, <3>1
    <3>4. QED
      BY <2>2, <3>1, <3>2, <3>3
  <2>3. 0..n \subseteq S
    <3> HIDE DEF S, n
    <3>1. QED
      BY <1>1, <2>1, <2>2, InductionUpTo
  <2>4. \A i \in 0..n : h[i] = f[i]
    BY <2>3
  <2>5. h = [i \in 0..n |-> h[i]] /\ f = [i \in 0..n |-> f[i]]
    BY <1>7
  <2>6. QED
    BY <2>4, <2>5, Zenon
<1>8. (CHOOSE h : Is(h)) = f
  <2> HIDE DEF Is
  <2>1. QED
    BY <1>6, <1>7
<1>9. Concat(seqs) = f[n]
  BY <1>8 DEF Concat
<1>10. QED
  BY <1>4, <1>5, <1>9 DEF Firsts

LEMMA ConcatEmpty == Concat(<< >>) = << >>
<1>1. << >> \in Seq(Seq({})) /\ Len(<< >>) = 0
  OBVIOUS
<1>2. PICK f \in [0..Len(<< >>) -> Seq({})] : Firsts(f, << >>) /\ Concat(<< >>) = f[Len(<< >>)]
  BY <1>1, ConcatFirsts
<1>3. Concat(<< >>) = f[0]
  BY <1>1, <1>2, Zenon
<1>4. QED
  BY <1>2, <1>3, Zenon DEF Firsts

(* One more sequence comes after all the others.                           *)
LEMMA ConcatAppend ==
  ASSUME NEW T, NEW seqs \in Seq(Seq(T)), NEW s \in Seq(T)
  PROVE  /\ Concat(seqs) \in Seq(T)
         /\ Concat(Append(seqs, s)) = Concat(seqs) \o s
<1> DEFINE n == Len(seqs)
           longer == Append(seqs, s)
<1>1. n \in Nat /\ longer \in Seq(Seq(T)) /\ Len(longer) = n + 1 /\ longer[n + 1] = s
  OBVIOUS
<1>2. PICK f \in [0..n -> Seq(T)] : Firsts(f, seqs) /\ Concat(seqs) = f[n]
  BY ConcatFirsts
<1>3. PICK h \in [0..(n + 1) -> Seq(T)] : Firsts(h, longer) /\ Concat(longer) = h[n + 1]
  <2> HIDE DEF longer, n
  <2>1. QED
    BY <1>1, ConcatFirsts
<1>4. ASSUME NEW i \in 1..n PROVE longer[i] = seqs[i]
  OBVIOUS
<1> HIDE DEF longer
<1> DEFINE S == {i \in 0..n : h[i] = f[i]}
<1>5. 0 \in S
  BY <1>1, <1>2, <1>3 DEF Firsts
<1>6. ASSUME NEW i \in 0..(n - 1), i \in S PROVE i + 1 \in S
  <2>1. i + 1 \in 1..n /\ i + 1 \in 1..(n + 1) /\ (i + 1) - 1 = i /\ i + 1 \in 0..n
    BY <1>1
  <2>2. h[i + 1] = h[i] \o seqs[i + 1]
    BY <1>1, <1>3, <1>4, <2>1 DEF Firsts
  <2>3. f[i + 1] = f[i] \o seqs[i + 1]
    BY <1>2, <2>1 DEF Firsts
  <2>4. QED
    BY <1>6, <2>1, <2>2, <2>3
<1>7. h[n] = f[n]
  <2> HIDE DEF n, S
  <2>1. 0..n \subseteq S
    BY <1>1, <1>5, <1>6, InductionUpTo
  <2>2. n \in 0..n
    BY <1>1
  <2>3. QED
    BY <2>1, <2>2 DEF S
<1>8. h[n + 1] = h[n] \o s
  <2>1. n + 1 \in 1..Len(longer) /\ (n + 1) - 1 = n
    BY <1>1
  <2>2. h[n + 1] = h[(n + 1) - 1] \o longer[n + 1]
    BY <1>3, <2>1 DEF Firsts
  <2>3. QED
    BY <1>1, <2>1, <2>2
<1>9. f[n] \in Seq(T)
  <2> HIDE DEF n
  <2>1. n \in 0..n
    BY <1>1
  <2>2. QED
    BY <2>1
<1>10. QED
  BY <1>2, <1>3, <1>7, <1>8, <1>9 DEF longer

LEMMA Joined ==
  ASSUME NEW T, NEW a \in Seq(T), NEW b \in Seq(T)
  PROVE  /\ a \o b \in Seq(T) /\ Len(a \o b) = Len(a) + Len(b) /\ Len(a) \in Nat /\ Len(b) \in Nat
         /\ \A p \in 1..Len(a) : (a \o b)[p] = a[p]
         /\ \A k \in 1..Len(b) : (a \o b)[Len(a) + k] = b[k]
OBVIOUS

(* Where in the whole each of the sequences begins.                        *)
Offsets(off, seqs) ==
  /\ off \in [0..Len(seqs) -> Nat] /\ off[0] = 0 /\ off[Len(seqs)] = Len(Concat(seqs))
  /\ \A i \in 1..Len(seqs) :
       /\ off[i] = off[i - 1] + Len(seqs[i])
       /\ \A k \in 1..Len(seqs[i]) : Concat(seqs)[off[i - 1] + k] = seqs[i][k]
  /\ \A i, j \in 0..Len(seqs) : i <= j => off[i] <= off[j]
  /\ \A p \in 1..Len(Concat(seqs)) : \E i \in 1..Len(seqs) : off[i - 1] < p /\ p <= off[i]

LEMMA ConcatPlaces ==
  ASSUME NEW T, NEW seqs \in Seq(Seq(T))
  PROVE  Concat(seqs) \in Seq(T) /\ \E off : Offsets(off, seqs)
<1> DEFINE n == Len(seqs)
<1>1. n \in Nat /\ n \in 0..n /\ 0 \in 0..n /\ \A i \in 1..n : seqs[i] \in Seq(T) /\ i - 1 \in 0..n /\ i \in 0..n
  OBVIOUS
<1>2. PICK f \in [0..n -> Seq(T)] : Firsts(f, seqs) /\ Concat(seqs) = f[n]
  BY ConcatFirsts
<1> DEFINE off == [i \in 0..n |-> Len(f[i])]
<1>3. off \in [0..n -> Nat] /\ \A i \in 0..n : f[i] \in Seq(T) /\ off[i] = Len(f[i]) /\ off[i] \in Nat
  BY <1>2
<1>4. f[0] = << >> /\ \A i \in 1..n : f[i] = f[i - 1] \o seqs[i]
  BY <1>2 DEF Firsts
<1>5. off[0] = 0
  BY <1>1, <1>3, <1>4
<1> HIDE DEF off, n
<1>6. ASSUME NEW i \in 1..n
      PROVE  /\ off[i] = off[i - 1] + Len(seqs[i]) /\ off[i - 1] \in Nat /\ Len(seqs[i]) \in Nat
             /\ \A p \in 1..off[i - 1] : f[i][p] = f[i - 1][p]
             /\ \A k \in 1..Len(seqs[i]) : f[i][off[i - 1] + k] = seqs[i][k]
  <2>1. f[i - 1] \in Seq(T) /\ seqs[i] \in Seq(T) /\ off[i - 1] = Len(f[i - 1]) /\ off[i] = Len(f[i])
    BY <1>1, <1>3
  <2>2. f[i] = f[i - 1] \o seqs[i]
    BY <1>4
  <2>3. /\ Len(f[i - 1] \o seqs[i]) = Len(f[i - 1]) + Len(seqs[i]) /\ Len(f[i - 1]) \in Nat /\ Len(seqs[i]) \in Nat
        /\ \A p \in 1..Len(f[i - 1]) : (f[i - 1] \o seqs[i])[p] = f[i - 1][p]
        /\ \A k \in 1..Len(seqs[i]) : (f[i - 1] \o seqs[i])[Len(f[i - 1]) + k] = seqs[i][k]
    <3> DEFINE a == f[i - 1]
               b == seqs[i]
    <3>1. a \in Seq(T) /\ b \in Seq(T)
      BY <2>1
    <3> HIDE DEF a, b
    <3>2. /\ Len(a \o b) = Len(a) + Len(b) /\ Len(a) \in Nat /\ Len(b) \in Nat
          /\ \A p \in 1..Len(a) : (a \o b)[p] = a[p]
          /\ \A k \in 1..Len(b) : (a \o b)[Len(a) + k] = b[k]
      BY <3>1, Joined
    <3>3. QED
      BY <3>2 DEF a, b
  <2>4. QED
    BY <2>1, <2>2, <2>3, Zenon
<1> DEFINE S == {j \in 0..n : \A i \in 0..j : off[i] <= off[j] /\ \A p \in 1..off[i] : f[j][p] = f[i][p]}
           C == {j \in 0..n : \A p \in 1..off[j] : \E i \in 1..j : off[i - 1] < p /\ p <= off[i]}
<1>7. 0 \in S /\ 0 \in C
  BY <1>1, <1>5
<1>8. ASSUME NEW j \in 0..(n - 1), j \in S PROVE j + 1 \in S
  <2>1. j + 1 \in 1..n /\ (j + 1) - 1 = j /\ j + 1 \in 0..n /\ j \in 0..n
    BY <1>1
  <2>2. /\ off[j + 1] = off[j] + Len(seqs[j + 1]) /\ off[j] \in Nat /\ Len(seqs[j + 1]) \in Nat
        /\ \A p \in 1..off[j] : f[j + 1][p] = f[j][p]
    BY <1>6, <2>1
  <2>3. ASSUME NEW i \in 0..(j + 1)
        PROVE  off[i] <= off[j + 1] /\ \A p \in 1..off[i] : f[j + 1][p] = f[i][p]
    <3>1. CASE i = j + 1
      <4>1. off[j + 1] <= off[j + 1]
        BY <2>2
      <4>2. QED
        BY <3>1, <4>1, Zenon
    <3>2. CASE i \in 0..j
      <4>1. off[i] <= off[j] /\ \A p \in 1..off[i] : f[j][p] = f[i][p]
        BY <1>8, <3>2
      <4>3. i \in 0..n /\ off[i] \in Nat
        BY <1>1, <1>3, <2>1, <3>2
      <4>2. QED
        BY <2>2, <4>1, <4>3
    <3>3. QED
      BY <2>1, <3>1, <3>2
  <2>4. QED
    BY <2>1, <2>3
<1>9. ASSUME NEW j \in 0..(n - 1), j \in C PROVE j + 1 \in C
  <2>1. j + 1 \in 1..n /\ (j + 1) - 1 = j /\ j + 1 \in 0..n /\ j \in 0..n
    BY <1>1
  <2>2. off[j] \in Nat /\ off[j + 1] \in Nat
    BY <1>3, <2>1
  <2>3. ASSUME NEW p \in 1..off[j + 1] PROVE \E i \in 1..(j + 1) : off[i - 1] < p /\ p <= off[i]
    <3>1. CASE p <= off[j]
      <4>1. p \in 1..off[j]
        BY <2>2, <3>1
      <4>2. PICK i \in 1..j : off[i - 1] < p /\ p <= off[i]
        BY <1>9, <4>1
      <4>3. i \in 1..(j + 1)
        BY <2>1
      <4>4. QED
        BY <4>2, <4>3
    <3>2. CASE off[j] < p
      <4>1. off[(j + 1) - 1] < p /\ p <= off[j + 1] /\ j + 1 \in 1..(j + 1)
        BY <2>1, <2>2, <3>2
      <4>2. QED
        BY <4>1
    <3>3. QED
      BY <2>2, <3>1, <3>2
  <2>4. QED
    BY <2>1, <2>3
<1>10. 0..n \subseteq S /\ 0..n \subseteq C
  <2> HIDE DEF S, C
  <2>1. QED
    BY <1>1, <1>7, <1>8, <1>9, InductionUpTo
<1>11. n \in S /\ n \in C
  BY <1>1, <1>10
<1>12. Concat(seqs) \in Seq(T) /\ Len(Concat(seqs)) = off[n]
  BY <1>1, <1>2, <1>3
<1>13. ASSUME NEW i \in 1..n, NEW k \in 1..Len(seqs[i]) PROVE Concat(seqs)[off[i - 1] + k] = seqs[i][k]
  <2>1. /\ off[i] = off[i - 1] + Len(seqs[i]) /\ off[i - 1] \in Nat /\ Len(seqs[i]) \in Nat
        /\ \A p \in 1..Len(seqs[i]) : f[i][off[i - 1] + p] = seqs[i][p]
    BY <1>6, Zenon
  <2>2. off[i - 1] + k \in 1..off[i] /\ i \in 0..n
    <3>1. \A a, l \in Nat : \A x \in 1..l : a + x \in 1..(a + l)
      OBVIOUS
    <3>2. off[i - 1] + k \in 1..(off[i - 1] + Len(seqs[i]))
      BY <2>1, <3>1
    <3>3. QED
      BY <1>1, <2>1, <3>2
  <2>3. f[n][off[i - 1] + k] = f[i][off[i - 1] + k]
    BY <1>11, <2>2
  <2>4. QED
    BY <1>2, <2>1, <2>3
<1>14. ASSUME NEW i \in 0..n, NEW j \in 0..n, i <= j PROVE off[i] <= off[j]
  <2>1. j \in S /\ i \in 0..j
    BY <1>10, <1>14
  <2>2. QED
    BY <2>1
<1>15. \A p \in 1..Len(Concat(seqs)) : \E i \in 1..n : off[i - 1] < p /\ p <= off[i]
  BY <1>11, <1>12
<1>16. Offsets(off, seqs)
  BY <1>3, <1>5, <1>6, <1>12, <1>13, <1>14, <1>15 DEF Offsets, n
<1>17. QED
  BY <1>12, <1>16

(* Put end to end, sequences have the elements they have.                  *)
LEMMA ConcatElements ==
  ASSUME NEW T, NEW seqs \in Seq(Seq(T))
  PROVE  /\ \A p \in 1..Len(Concat(seqs)) :
              \E i \in 1..Len(seqs) : \E k \in 1..Len(seqs[i]) : seqs[i][k] = Concat(seqs)[p]
         /\ \A i \in 1..Len(seqs) : \A k \in 1..Len(seqs[i]) :
              \E p \in 1..Len(Concat(seqs)) : Concat(seqs)[p] = seqs[i][k]
<1> DEFINE n == Len(seqs)
           whole == Concat(seqs)
<1>1. PICK off : Offsets(off, seqs)
  BY ConcatPlaces
<1>2. /\ off[n] = Len(whole) /\ n \in Nat /\ n \in 0..n
      /\ \A i \in 1..n : /\ off[i] = off[i - 1] + Len(seqs[i])
                         /\ \A k \in 1..Len(seqs[i]) : whole[off[i - 1] + k] = seqs[i][k]
      /\ \A i, j \in 0..n : i <= j => off[i] <= off[j]
      /\ \A p \in 1..Len(whole) : \E i \in 1..n : off[i - 1] < p /\ p <= off[i]
      /\ \A i \in 0..n : off[i] \in Nat
  <2>1. n \in Nat /\ n \in 0..n
    OBVIOUS
  <2> HIDE DEF whole, n
  <2>2. off \in [0..n -> Nat]
    BY <1>1 DEF Offsets, n
  <2>3. \A i \in 0..n : off[i] \in Nat
    BY <2>2
  <2>4. QED
    BY <1>1, <2>1, <2>3, Zenon DEF Offsets, n, whole
<1>3. ASSUME NEW i \in 1..n PROVE Len(seqs[i]) \in Nat /\ i - 1 \in 0..n /\ i \in 0..n /\ i <= n
  BY <1>2
<1> HIDE DEF whole, n
<1>4. ASSUME NEW p \in 1..Len(whole)
      PROVE  \E i \in 1..n : \E k \in 1..Len(seqs[i]) : seqs[i][k] = whole[p]
  <2>1. PICK i \in 1..n : off[i - 1] < p /\ p <= off[i]
    BY <1>2
  <2>2. off[i - 1] \in Nat /\ off[i] = off[i - 1] + Len(seqs[i]) /\ Len(seqs[i]) \in Nat
    BY <1>2, <1>3
  <2>3. p - off[i - 1] \in 1..Len(seqs[i]) /\ off[i - 1] + (p - off[i - 1]) = p
    BY <2>1, <2>2
  <2>4. seqs[i][p - off[i - 1]] = whole[p]
    BY <1>2, <2>3
  <2>5. QED
    BY <2>3, <2>4
<1>5. ASSUME NEW i \in 1..n, NEW k \in 1..Len(seqs[i])
      PROVE  \E p \in 1..Len(whole) : whole[p] = seqs[i][k]
  <2>1. i - 1 \in 0..n /\ i \in 0..n /\ i <= n /\ n \in 0..n
    BY <1>2, <1>3
  <2>4. off[i - 1] \in Nat /\ off[i] = off[i - 1] + Len(seqs[i]) /\ off[i] <= off[n] /\ off[n] \in Nat
    BY <1>2, <2>1, Zenon
  <2>2. off[i - 1] + k \in 1..Len(whole)
    <3>1. off[i - 1] \in Nat /\ off[n] \in Nat /\ Len(seqs[i]) \in Nat /\ off[n] = Len(whole)
      BY <1>2, <1>3, <2>4
    <3>2. off[i - 1] + Len(seqs[i]) <= off[n]
      BY <2>4
    <3>3. QED
      BY <3>1, <3>2
  <2>3. whole[off[i - 1] + k] = seqs[i][k]
    BY <1>2
  <2>5. QED
    BY <2>2, <2>3
<1>6. QED
  BY <1>4, <1>5 DEF whole, n

-----------------------------------------------------------------------------
(* Parts of a sequence. *)

(* The places a part was taken from: all of I, in their order.             *)
Picks(place, s, I) ==
  /\ place \in [1..Len(At(s, I)) -> I]
  /\ \A k \in 1..Len(At(s, I)) : At(s, I)[k] = s[place[k]]
  /\ \A k, l \in 1..Len(At(s, I)) : k < l => place[k] < place[l]
  /\ \A i \in I : \E k \in 1..Len(At(s, I)) : place[k] = i

LEMMA AtPicks ==
  ASSUME NEW T, NEW s \in Seq(T), NEW I \in SUBSET (1..Len(s))
  PROVE  /\ Cardinality(I) \in Nat
         /\ At(s, I) \in Seq(T) /\ Len(At(s, I)) = Cardinality(I)
         /\ Picks(Ascending(I), s, I)
<1> DEFINE n == Len(s)
           a == Ascending(I)
           seqs == [i \in DOMAIN s |-> IF i \in I THEN <<s[i]>> ELSE << >>]
<1>1. n \in Nat /\ DOMAIN s = 1..n /\ I \in SUBSET Nat /\ IsFiniteSet(I)
  <2>1. n \in Nat /\ DOMAIN s = 1..n /\ I \in SUBSET Nat
    OBVIOUS
  <2>2. IsFiniteSet(1..n)
    BY <2>1, FS_Interval
  <2>3. QED
    BY <2>1, <2>2, FS_Subset
<1>2. /\ Cardinality(I) \in Nat
      /\ a \in [1..Cardinality(I) -> I]
      /\ \A i, j \in 1..Cardinality(I) : i < j => a[i] < a[j]
      /\ \A x \in I : UpTo(I, x) \in 1..Cardinality(I) /\ a[UpTo(I, x)] = x
  <2> HIDE DEF a
  <2>1. QED
    BY <1>1, AscendingOrder DEF a
<1>3. /\ seqs \in Seq(Seq(T)) /\ Len(seqs) = n
      /\ \A i \in 1..n : seqs[i] = IF i \in I THEN <<s[i]>> ELSE << >>
  <2>1. ASSUME NEW i \in 1..n PROVE (IF i \in I THEN <<s[i]>> ELSE << >>) \in Seq(T)
    <3>1. s[i] \in T
      OBVIOUS
    <3>2. <<s[i]>> \in Seq(T) /\ << >> \in Seq(T)
      BY <3>1
    <3>3. QED
      BY <3>2
  <2>2. QED
    BY <1>1, <2>1
<1>4. At(s, I) = Concat(seqs)
  BY DEF At
<1>5. \A i \in 1..n : s[i] \in T
  OBVIOUS
<1> HIDE DEF seqs, a, n
<1>6. PICK f \in [0..n -> Seq(T)] : Firsts(f, seqs) /\ Concat(seqs) = f[n]
  BY <1>3, ConcatFirsts, Zenon
<1>7. f[0] = << >> /\ \A i \in 1..n : f[i] = f[i - 1] \o seqs[i]
  BY <1>3, <1>6, Zenon DEF Firsts
<1> DEFINE S == {m \in 0..n : Len(f[m]) = UpTo(I, m) /\ \A k \in 1..UpTo(I, m) : f[m][k] = s[a[k]]}
<1>8. 0 \in S
  <2>1. \A x \in I : 0 < x
    BY <1>1
  <2>2. UpTo(I, 0) = 0
    BY <1>1, <2>1, UpToNone
  <2>3. 0 \in 0..n /\ Len(f[0]) = 0
    BY <1>1, <1>7
  <2>4. QED
    BY <2>2, <2>3
<1>9. ASSUME NEW m \in 0..(n - 1), m \in S PROVE m + 1 \in S
  <2>1. m + 1 \in 1..n /\ (m + 1) - 1 = m /\ m + 1 \in 0..n /\ m \in 0..n /\ m \in Int
    BY <1>1
  <2>2. Len(f[m]) = UpTo(I, m) /\ (\A k \in 1..UpTo(I, m) : f[m][k] = s[a[k]]) /\ f[m] \in Seq(T)
    BY <1>9, <2>1
  <2>3. f[m + 1] = f[m] \o seqs[m + 1] /\ f[m + 1] \in Seq(T)
    BY <1>7, <2>1
  <2>4. UpTo(I, m + 1) = IF m + 1 \in I THEN UpTo(I, m) + 1 ELSE UpTo(I, m)
    BY <1>1, <2>1, UpToNext
  <2>5. CASE m + 1 \in I
    <3> DEFINE b == <<s[m + 1]>>
               u == UpTo(I, m)
               g == f[m]
    <3>1. seqs[m + 1] = b /\ b \in Seq(T) /\ Len(b) = 1 /\ b[1] = s[m + 1]
      BY <1>3, <1>5, <2>1, <2>5
    <3>2. UpTo(I, m + 1) = u + 1
      BY <2>4, <2>5
    <3>3. a[u + 1] = m + 1
      BY <1>2, <2>5, <3>2
    <3>4. f[m + 1] = g \o b /\ g \in Seq(T) /\ Len(g) = u
      BY <2>2, <2>3, <3>1
    <3> HIDE DEF b, g, u
    <3>5. /\ Len(g \o b) = Len(g) + Len(b) /\ Len(g) \in Nat
          /\ \A p \in 1..Len(g) : (g \o b)[p] = g[p]
          /\ \A k \in 1..Len(b) : (g \o b)[Len(g) + k] = b[k]
      <4>1. g \in Seq(T) /\ b \in Seq(T)
        BY <3>1, <3>4
      <4>2. QED
        BY <4>1, Joined
    <3>6. u \in Nat /\ Len(f[m + 1]) = u + 1
      BY <3>1, <3>4, <3>5
    <3>7. f[m + 1][u + 1] = s[a[u + 1]]
      <4>1. 1 \in 1..Len(b)
        BY <3>1
      <4>2. (g \o b)[Len(g) + 1] = b[1]
        BY <3>5, <4>1
      <4>3. QED
        BY <3>1, <3>3, <3>4, <4>2
    <3>8. ASSUME NEW k \in 1..u PROVE f[m + 1][k] = s[a[k]]
      <4>1. f[m + 1][k] = g[k]
        BY <3>4, <3>5
      <4>2. QED
        BY <2>2, <4>1 DEF g, u
    <3>9. ASSUME NEW k \in 1..(u + 1) PROVE f[m + 1][k] = s[a[k]]
      <4>1. k = u + 1 \/ k \in 1..u
        BY <3>6
      <4>2. QED
        BY <3>7, <3>8, <4>1
    <3>10. QED
      BY <2>1, <3>2, <3>6, <3>9
  <2>6. CASE m + 1 \notin I
    <3>1. seqs[m + 1] = << >>
      BY <1>3, <2>1, <2>6
    <3>2. f[m + 1] = f[m]
      BY <2>2, <2>3, <3>1
    <3>3. QED
      BY <2>1, <2>2, <2>4, <2>6, <3>2
  <2>7. QED
    BY <2>5, <2>6
<1>10. n \in S
  <2> HIDE DEF S
  <2>1. 0..n \subseteq S
    BY <1>1, <1>8, <1>9, InductionUpTo
  <2>2. QED
    BY <1>1, <2>1
<1>11. UpTo(I, n) = Cardinality(I)
  <2>1. n \in Int /\ \A x \in I : x <= n
    BY <1>1 DEF n
  <2>2. QED
    BY <1>1, <2>1, UpToAll
<1>12. /\ At(s, I) \in Seq(T) /\ Len(At(s, I)) = Cardinality(I)
       /\ \A k \in 1..Cardinality(I) : At(s, I)[k] = s[a[k]]
  <2>1. n \in 0..n
    BY <1>1
  <2>2. QED
    BY <1>4, <1>6, <1>10, <1>11, <2>1
<1>13. Picks(a, s, I)
  BY <1>2, <1>12 DEF Picks
<1>14. QED
  BY <1>2, <1>12, <1>13 DEF a

(* A part has the elements at the places it is taken from.                 *)
LEMMA AtElements ==
  ASSUME NEW T, NEW s \in Seq(T), NEW I \in SUBSET (1..Len(s))
  PROVE  /\ \A k \in 1..Len(At(s, I)) : \E i \in I : At(s, I)[k] = s[i]
         /\ \A i \in I : \E k \in 1..Len(At(s, I)) : At(s, I)[k] = s[i]
<1> DEFINE place == Ascending(I)
<1>1. Picks(place, s, I)
  BY AtPicks
<1> HIDE DEF place
<1>2. place \in [1..Len(At(s, I)) -> I] /\ \A k \in 1..Len(At(s, I)) : At(s, I)[k] = s[place[k]]
  BY <1>1 DEF Picks
<1>3. \A i \in I : \E k \in 1..Len(At(s, I)) : place[k] = i
  BY <1>1 DEF Picks
<1>4. ASSUME NEW k \in 1..Len(At(s, I)) PROVE \E i \in I : At(s, I)[k] = s[i]
  BY <1>2
<1>5. ASSUME NEW i \in I PROVE \E k \in 1..Len(At(s, I)) : At(s, I)[k] = s[i]
  BY <1>2, <1>3
<1>6. QED
  BY <1>4, <1>5

-----------------------------------------------------------------------------
(* The stable sort. *)

(* What goes before an element, goes before what the element goes before.  *)
LEMMA GoesBeforeOrder ==
  ASSUME NEW n \in Nat, NEW keys \in [1..n -> Int], NEW i \in 1..n, NEW j \in 1..n
  PROVE  /\ ~GoesBefore(keys, i, i)
         /\ i # j => GoesBefore(keys, i, j) \/ GoesBefore(keys, j, i)
         /\ GoesBefore(keys, i, j) =>
              \A l \in 1..n : GoesBefore(keys, l, i) => GoesBefore(keys, l, j)
<1>1. keys[i] \in Int /\ keys[j] \in Int /\ i \in Int /\ j \in Int
  OBVIOUS
<1>2. ASSUME NEW l \in 1..n, GoesBefore(keys, i, j), GoesBefore(keys, l, i) PROVE GoesBefore(keys, l, j)
  <2>1. keys[l] \in Int /\ l \in Int
    OBVIOUS
  <2>2. QED
    BY <1>1, <1>2, <2>1 DEF GoesBefore
<1>3. QED
  BY <1>1, <1>2 DEF GoesBefore

(* Each element has a place of its own, in the order of keys and places.   *)
LEMMA Places ==
  ASSUME NEW n \in Nat, NEW keys \in [1..n -> Int]
  PROVE  /\ \A i \in 1..n : Place(keys, i) \in 1..n
         /\ \A i, j \in 1..n : GoesBefore(keys, i, j) => Place(keys, i) < Place(keys, j)
         /\ \A i, j \in 1..n : Place(keys, i) = Place(keys, j) => i = j
         /\ \A k \in 1..n : \E i \in 1..n : Place(keys, i) = k
<1> DEFINE Before(i) == {j \in 1..n : GoesBefore(keys, j, i)}
<1>1. DOMAIN keys = 1..n /\ IsFiniteSet(1..n) /\ Cardinality(1..n) = n
  BY FS_Interval
<1>2. ASSUME NEW i \in 1..n
      PROVE  /\ IsFiniteSet(Before(i)) /\ Cardinality(Before(i)) \in Nat
             /\ Place(keys, i) = Cardinality(Before(i)) + 1
             /\ Cardinality(Before(i) \cup {i}) = Cardinality(Before(i)) + 1
  <2>1. Before(i) \in SUBSET (1..n) /\ i \notin Before(i)
    BY GoesBeforeOrder
  <2>2. Place(keys, i) = Cardinality(Before(i)) + 1
    BY <1>1 DEF Place
  <2> HIDE DEF Before
  <2>3. IsFiniteSet(Before(i))
    BY <1>1, <2>1, FS_Subset
  <2>4. QED
    BY <2>1, <2>2, <2>3, FS_CardinalityType, FS_AddElement
<1>3. ASSUME NEW i \in 1..n PROVE Place(keys, i) \in 1..n
  <2>1. Before(i) \cup {i} \in SUBSET (1..n)
    OBVIOUS
  <2> HIDE DEF Before
  <2>2. Cardinality(Before(i) \cup {i}) <= n
    BY <1>1, <2>1, FS_Subset
  <2>3. QED
    BY <1>2, <2>2
<1>4. ASSUME NEW i \in 1..n, NEW j \in 1..n, GoesBefore(keys, i, j)
      PROVE  Place(keys, i) < Place(keys, j)
  <2>1. Before(i) \cup {i} \in SUBSET Before(j)
    BY <1>4, GoesBeforeOrder
  <2> HIDE DEF Before
  <2>2. Cardinality(Before(i) \cup {i}) <= Cardinality(Before(j))
    BY <1>2, <2>1, FS_Subset
  <2>3. /\ Cardinality(Before(i)) \in Nat /\ Place(keys, i) = Cardinality(Before(i)) + 1
        /\ Cardinality(Before(i) \cup {i}) = Cardinality(Before(i)) + 1
    BY <1>2
  <2>4. Cardinality(Before(j)) \in Nat /\ Place(keys, j) = Cardinality(Before(j)) + 1
    BY <1>2
  <2>5. QED
    BY <2>2, <2>3, <2>4
<1>5. ASSUME NEW i \in 1..n, NEW j \in 1..n, Place(keys, i) = Place(keys, j) PROVE i = j
  <2>1. Place(keys, i) \in Int /\ Place(keys, j) \in Int
    BY <1>3
  <2>2. ~GoesBefore(keys, i, j) /\ ~GoesBefore(keys, j, i)
    BY <1>4, <1>5, <2>1
  <2>3. QED
    BY <2>2, GoesBeforeOrder
<1>6. ASSUME NEW k \in 1..n PROVE \E i \in 1..n : Place(keys, i) = k
  <2> DEFINE f == [i \in 1..n |-> Place(keys, i)]
  <2>1. f \in [1..n -> 1..n] /\ \A i, j \in 1..n : f[i] = f[j] => i = j
    BY <1>3, <1>5
  <2>2. \A i \in 1..n : f[i] = Place(keys, i)
    OBVIOUS
  <2> HIDE DEF f
  <2>3. f \in Injection(1..n, 1..n)
    BY <2>1 DEF Injection, IsInjective
  <2>4. f \in Surjection(1..n, 1..n)
    BY <1>1, <2>3, FS_Injection
  <2>5. QED
    BY <2>2, <2>4 DEF Surjection
<1>7. QED
  BY <1>3, <1>4, <1>5, <1>6

LEMMA SortPlaces ==
  ASSUME NEW T, NEW s \in Seq(T), NEW keys \in [1..Len(s) -> Int]
  PROVE  /\ StableSort(s, keys) \in Seq(T) /\ Len(StableSort(s, keys)) = Len(s)
         /\ \A i \in 1..Len(s) : StableSort(s, keys)[Place(keys, i)] = s[i]
<1> DEFINE n == Len(s)
           places == {<<Place(keys, i), i>> : i \in 1..n}
           At1(k) == s[(CHOOSE p \in places : p[1] = k)[2]]
<1>1. n \in Nat /\ DOMAIN s = 1..n /\ \A i \in 1..n : s[i] \in T
  OBVIOUS
<1>2. StableSort(s, keys) = [k \in 1..n |-> At1(k)]
  BY <1>1 DEF StableSort
<1>3. /\ \A i \in 1..n : Place(keys, i) \in 1..n
      /\ \A i, j \in 1..n : Place(keys, i) = Place(keys, j) => i = j
      /\ \A k \in 1..n : \E i \in 1..n : Place(keys, i) = k
  BY <1>1, Places
<1>4. ASSUME NEW i \in 1..n PROVE At1(Place(keys, i)) = s[i]
  <2>1. <<Place(keys, i), i>> \in places /\ <<Place(keys, i), i>>[1] = Place(keys, i)
    OBVIOUS
  <2>2. ASSUME NEW p \in places, p[1] = Place(keys, i) PROVE p = <<Place(keys, i), i>>
    <3>1. PICK j \in 1..n : p = <<Place(keys, j), j>>
      OBVIOUS
    <3>2. Place(keys, j) = Place(keys, i)
      BY <2>2, <3>1
    <3>3. j = i
      BY <1>3, <3>2
    <3>4. QED
      BY <3>1, <3>3
  <2> HIDE DEF places
  <2> DEFINE c == CHOOSE p \in places : p[1] = Place(keys, i)
  <2>3. c \in places /\ c[1] = Place(keys, i)
    BY <2>1, Zenon
  <2>4. c = <<Place(keys, i), i>>
    BY <2>2, <2>3
  <2>5. c[2] = i
    <3> HIDE DEF c
    <3>1. QED
      BY <2>4
  <2>6. QED
    BY <2>5
<1> HIDE DEF At1, n
<1>5. ASSUME NEW k \in 1..n PROVE At1(k) \in T
  <2>1. PICK i \in 1..n : Place(keys, i) = k
    BY <1>3
  <2>2. QED
    BY <1>1, <1>4, <2>1
<1>6. StableSort(s, keys) \in Seq(T) /\ Len(StableSort(s, keys)) = n
  BY <1>1, <1>2, <1>5
<1>7. ASSUME NEW i \in 1..n PROVE StableSort(s, keys)[Place(keys, i)] = s[i]
  BY <1>2, <1>3, <1>4
<1>8. QED
  BY <1>6, <1>7 DEF n

(* The sort has the elements it sorts, by increasing keys.                 *)
LEMMA SortElements ==
  ASSUME NEW T, NEW s \in Seq(T), NEW keys \in [1..Len(s) -> Int]
  PROVE  /\ \A k \in 1..Len(s) : \E i \in 1..Len(s) : StableSort(s, keys)[k] = s[i]
         /\ \A i \in 1..Len(s) : \E k \in 1..Len(s) : StableSort(s, keys)[k] = s[i]
         /\ \A k, l \in 1..Len(s) : k < l =>
              \E i, j \in 1..Len(s) : /\ StableSort(s, keys)[k] = s[i] /\ StableSort(s, keys)[l] = s[j]
                                      /\ keys[i] <= keys[j]
<1> DEFINE n == Len(s)
           t == StableSort(s, keys)
<1>1. n \in Nat
  OBVIOUS
<1>2. \A i \in 1..n : t[Place(keys, i)] = s[i]
  BY SortPlaces
<1> HIDE DEF t, n
<1>3. /\ \A i \in 1..n : Place(keys, i) \in 1..n
      /\ \A i, j \in 1..n : GoesBefore(keys, i, j) => Place(keys, i) < Place(keys, j)
      /\ \A k \in 1..n : \E i \in 1..n : Place(keys, i) = k
  <2>1. keys \in [1..n -> Int]
    BY DEF n
  <2>2. QED
    BY <1>1, <2>1, Places
<1>4. ASSUME NEW k \in 1..n PROVE \E i \in 1..n : t[k] = s[i]
  BY <1>2, <1>3
<1>5. ASSUME NEW i \in 1..n PROVE \E k \in 1..n : t[k] = s[i]
  BY <1>2, <1>3
<1>6. ASSUME NEW k \in 1..n, NEW l \in 1..n, k < l
      PROVE  \E i, j \in 1..n : t[k] = s[i] /\ t[l] = s[j] /\ keys[i] <= keys[j]
  <2>1. PICK i \in 1..n : Place(keys, i) = k
    BY <1>3
  <2>2. PICK j \in 1..n : Place(keys, j) = l
    BY <1>3
  <2>3. ~GoesBefore(keys, j, i)
    BY <1>1, <1>3, <1>6, <2>1, <2>2
  <2>4. keys[i] \in Int /\ keys[j] \in Int
    BY DEF n
  <2>5. keys[i] <= keys[j]
    BY <2>3, <2>4 DEF GoesBefore
  <2>6. QED
    BY <1>2, <2>1, <2>2, <2>5
<1>7. QED
  BY <1>4, <1>5, <1>6 DEF t, n

(* The elements of A in places 1 to n.                                     *)
Numbers(pos, A, n) ==
  /\ pos \in [A -> 1..n]
  /\ \A a, b \in A : pos[a] = pos[b] => a = b
  /\ \A k \in 1..n : \E a \in A : pos[a] = k

Earlier(keys, pos, A, a) == {b \in A : GoesBefore(keys, pos[b], pos[a])}

(* The place in the sort counts what goes before.                          *)
LEMMA PlaceCounts ==
  ASSUME NEW n \in Nat, NEW keys \in [1..n -> Int], NEW A, NEW pos, Numbers(pos, A, n), NEW a \in A
  PROVE  Place(keys, pos[a]) = Cardinality(Earlier(keys, pos, A, a)) + 1
<1> DEFINE X == {b \in A : GoesBefore(keys, pos[b], pos[a])}
           B == {j \in 1..n : GoesBefore(keys, j, pos[a])}
           f == [b \in X |-> pos[b]]
<1>1. /\ pos \in [A -> 1..n]
      /\ \A b, c \in A : pos[b] = pos[c] => b = c
      /\ \A k \in 1..n : \E b \in A : pos[b] = k
  BY DEF Numbers
<1>2. Place(keys, pos[a]) = Cardinality(B) + 1
  BY DEF Place
<1>3. IsFiniteSet(B)
  <2>1. IsFiniteSet(1..n) /\ B \in SUBSET (1..n)
    BY FS_Interval
  <2> HIDE DEF B
  <2>2. QED
    BY <2>1, FS_Subset
<1>4. f \in [X -> B] /\ \A b, c \in X : f[b] = f[c] => b = c
  <2>1. ASSUME NEW b \in X PROVE pos[b] \in B
    BY <1>1
  <2>2. QED
    BY <1>1, <2>1
<1>5. ASSUME NEW j \in B PROVE \E b \in X : f[b] = j
  <2>1. PICK b \in A : pos[b] = j
    BY <1>1
  <2>2. b \in X
    BY <2>1
  <2>3. QED
    BY <2>1, <2>2
<1> HIDE DEF X, B, f
<1>6. f \in Injection(X, B) /\ f \in Surjection(X, B)
  BY <1>4, <1>5 DEF Injection, Surjection, IsInjective
<1>7. Cardinality(X) = Cardinality(B)
  BY <1>3, <1>6, FS_Injection
<1>8. QED
  BY <1>2, <1>7 DEF X, Earlier

(* Numbered differently, they are the same, and the same go before which.  *)
Alike(A, s, ks, pos, t, kt, qos) ==
  /\ \A a \in A : s[pos[a]] = t[qos[a]]
  /\ \A a, b \in A : GoesBefore(ks, pos[b], pos[a]) <=> GoesBefore(kt, qos[b], qos[a])

(* Then they are the same when sorted.                                     *)
LEMMA SortAgrees ==
  ASSUME NEW T, NEW s \in Seq(T), NEW t \in Seq(T), Len(t) = Len(s),
         NEW ks \in [1..Len(s) -> Int], NEW kt \in [1..Len(s) -> Int],
         NEW A, NEW pos, Numbers(pos, A, Len(s)), NEW qos, Numbers(qos, A, Len(s)),
         Alike(A, s, ks, pos, t, kt, qos)
  PROVE  StableSort(s, ks) = StableSort(t, kt)
<1> DEFINE n == Len(s)
           x == StableSort(s, ks)
           y == StableSort(t, kt)
<1>1. n \in Nat /\ Len(t) = n /\ Numbers(pos, A, n) /\ Numbers(qos, A, n)
  OBVIOUS
<1>2. x \in Seq(T) /\ Len(x) = n /\ \A i \in 1..n : x[Place(ks, i)] = s[i]
  BY SortPlaces
<1>3. y \in Seq(T) /\ Len(y) = n /\ \A i \in 1..n : y[Place(kt, i)] = t[i]
  <2>1. kt \in [1..Len(t) -> Int]
    OBVIOUS
  <2>2. y \in Seq(T) /\ Len(y) = Len(t) /\ \A i \in 1..Len(t) : y[Place(kt, i)] = t[i]
    BY <2>1, SortPlaces
  <2>3. QED
    BY <2>2
<1>4. /\ ks \in [1..n -> Int] /\ kt \in [1..n -> Int]
  OBVIOUS
<1> HIDE DEF n, x, y
<1>5. ASSUME NEW k \in 1..n PROVE x[k] = y[k]
  <2>1. PICK i \in 1..n : Place(ks, i) = k
    <3>1. n \in Nat /\ ks \in [1..n -> Int]
      BY <1>1, <1>4
    <3>2. \A l \in 1..n : \E i \in 1..n : Place(ks, i) = l
      BY <3>1, Places, Zenon
    <3>3. QED
      BY <3>2
  <2>2. PICK a \in A : pos[a] = i
    BY <1>1 DEF Numbers
  <2>3. qos[a] \in 1..n
    BY <1>1 DEF Numbers
  <2>4. Earlier(ks, pos, A, a) = Earlier(kt, qos, A, a)
    BY DEF Earlier, Alike
  <2>5. Place(ks, pos[a]) = Cardinality(Earlier(ks, pos, A, a)) + 1
    <3>1. n \in Nat /\ ks \in [1..n -> Int] /\ Numbers(pos, A, n)
      BY <1>1, <1>4
    <3>2. QED
      BY <3>1, PlaceCounts
  <2>6. Place(kt, qos[a]) = Cardinality(Earlier(kt, qos, A, a)) + 1
    <3>1. n \in Nat /\ kt \in [1..n -> Int] /\ Numbers(qos, A, n)
      BY <1>1, <1>4
    <3>2. QED
      BY <3>1, PlaceCounts
  <2>7. Place(kt, qos[a]) = k
    BY <2>1, <2>2, <2>4, <2>5, <2>6
  <2>8. x[k] = s[i] /\ y[k] = t[qos[a]]
    BY <1>2, <1>3, <2>1, <2>3, <2>7
  <2>9. QED
    BY <2>2, <2>8 DEF Alike
<1>6. x = y
  BY <1>2, <1>3, <1>5
<1>7. QED
  BY <1>6 DEF x, y
=============================================================================
