---------------------------- MODULE SequenceFacts ----------------------------
(***************************************************************************)
(* What the proofs about sequences rest on: the least and the greatest     *)
(* element of a set of numbers, functions defined by recursion over an     *)
(* interval, and the places of the elements in a sorted or thinned vector  *)
(* (StableSort and Retained of RustStd).                                   *)
(***************************************************************************)
EXTENDS RustStd, Integers, SequenceTheorems, FiniteSetTheorems, WellFoundedInduction, TLAPS

-----------------------------------------------------------------------------
(* Induction, as the least counterexample. *)

\* A set of natural numbers that is not empty has a least element.
LEMMA LeastExists ==
    ASSUME NEW T, T \subseteq Nat, T # {}
    PROVE  \E x \in T : \A y \in T : x <= y
<1>1. PICK x \in T : \A y \in T : ~(<<y, x>> \in OpToRel(<, Nat))
  BY NatLessThanWellFounded, WFMin
<1>2. \A y \in T : <<y, x>> \in OpToRel(<, Nat) <=> y < x
  BY DEF OpToRel
<1>3. \A y \in T : ~(y < x)
  BY <1>1, <1>2
<1>4. x \in Nat /\ \A y \in T : y \in Nat
  OBVIOUS
<1>. QED  BY <1>3, <1>4

\* What holds at 0 and goes on from each number to the next holds up to N: no
\* number of the interval is missing from the set of those it holds for.
LEMMA Induction ==
    ASSUME NEW N \in Nat, NEW T, 0 \in T, \A n \in 1..N : n - 1 \in T => n \in T
    PROVE  \A n \in 0..N : n \in T
<1>. SUFFICES ASSUME NEW m \in 0..N, m \notin T
             PROVE  FALSE
  OBVIOUS
<1>. DEFINE U == {n \in 0..N : n \notin T}
<1>1. U \subseteq Nat /\ U # {}
  OBVIOUS
<1>2. PICK x \in U : \A y \in U : x <= y
  <2>. HIDE DEF U
  <2>. QED  BY <1>1, LeastExists
<1>3. x # 0
  OBVIOUS
<1>4. x - 1 \in 0..N /\ x - 1 \notin U
  BY <1>2, <1>3
<1>. QED  BY <1>4

\* A finite set of numbers that is not empty has a greatest element, which is Max.
LEMMA MaxIsGreatest ==
    ASSUME NEW n \in Nat, NEW S, S \subseteq 0..n, S # {}
    PROVE  Max(S) \in S /\ \A y \in S : y <= Max(S)
<1>. DEFINE T == {n - x : x \in S}
<1>1. T \subseteq Nat /\ T # {}
  <2>1. PICK x : x \in S
    OBVIOUS
  <2>2. n - x \in T
    BY <2>1
  <2>. QED  BY <2>2
<1>2. PICK t \in T : \A y \in T : t <= y
  <2>. HIDE DEF T
  <2>. QED  BY <1>1, LeastExists
<1>3. PICK x \in S : t = n - x
  BY <1>2
<1>4. \A y \in S : x >= y
  BY <1>2, <1>3
<1>. QED  BY <1>4 DEF Max

\* A set of natural numbers that is not empty has a least element, which is Min.
LEMMA MinIsLeast ==
    ASSUME NEW S, S \subseteq Nat, S # {}
    PROVE  Min(S) \in S /\ \A y \in S : Min(S) <= y
BY LeastExists DEF Min

-----------------------------------------------------------------------------
(* Functions defined by recursion. *)

\* A function that starts with a value and makes each next value from the last.
Recurses(f, n, base, step) ==
    f[0] = base /\ \A k \in 1..n : f[k] = step[<<k, f[k - 1]>>]

\* There is such a function, if the steps stay within a set.
LEMMA RecursionExists ==
    ASSUME NEW N \in Nat, NEW S, NEW base \in S, NEW step \in [(1..N) \X S -> S]
    PROVE  \E f \in [0..N -> S] : Recurses(f, N, base, step)
<1>. DEFINE T == {n \in 0..N : \E f \in [0..n -> S] : Recurses(f, n, base, step)}
<1>1. 0 \in T
  <2>. DEFINE f == [k \in 0..0 |-> base]
  <2>1. f \in [0..0 -> S] /\ Recurses(f, 0, base, step)
    BY DEF Recurses
  <2>. HIDE DEF f
  <2>. QED  BY <2>1
<1>2. ASSUME NEW n \in 1..N, n - 1 \in T
      PROVE  n \in T
  <2>1. PICK g \in [0..(n - 1) -> S] : Recurses(g, n - 1, base, step)
    BY <1>2
  <2>. DEFINE f == [k \in 0..n |-> IF k = n THEN step[<<n, g[n - 1]>>] ELSE g[k]]
  <2>2. step[<<n, g[n - 1]>>] \in S
    OBVIOUS
  <2>3. f \in [0..n -> S]
    BY <2>2
  <2>4. f[0] = base
    BY <2>1 DEF Recurses
  <2>5. ASSUME NEW k \in 1..n
        PROVE  f[k] = step[<<k, f[k - 1]>>]
    <3>1. CASE k = n
      <4>1. f[n] = step[<<n, g[n - 1]>>] /\ f[n - 1] = g[n - 1]
        OBVIOUS
      <4>. QED  BY <3>1, <4>1
    <3>2. CASE k # n
      <4>1. f[k] = g[k] /\ f[k - 1] = g[k - 1]
        BY <3>2
      <4>. QED  BY <2>1, <3>2, <4>1 DEF Recurses
    <3>. QED  BY <3>1, <3>2
  <2>6. Recurses(f, n, base, step)
    BY <2>4, <2>5 DEF Recurses
  <2>. HIDE DEF f
  <2>. QED  BY <2>3, <2>6
<1>3. \A n \in 0..N : n \in T
  <2>. HIDE DEF T
  <2>. QED  BY <1>1, <1>2, Induction
<1>. QED  BY <1>3

RecursesIn(S, f, n, base, step) ==
    f[0] = base /\ \A k \in 1..n : f[k - 1] \in S => f[k] = step[<<k, f[k - 1]>>]

\* A function that is built so has its values in that set.
LEMMA RecursionType ==
    ASSUME NEW N \in Nat, NEW S, NEW base \in S, NEW step \in [(1..N) \X S -> S],
           NEW f, RecursesIn(S, f, N, base, step)
    PROVE  \A n \in 0..N : f[n] \in S
<1>. DEFINE T == {n \in 0..N : f[n] \in S}
<1>1. 0 \in T
  BY DEF RecursesIn
<1>2. ASSUME NEW n \in 1..N, n - 1 \in T
      PROVE  n \in T
  <2>1. f[n - 1] \in S
    BY <1>2
  <2>2. step[<<n, f[n - 1]>>] \in S
    BY <2>1
  <2>. QED  BY <2>1, <2>2 DEF RecursesIn
<1>3. \A n \in 0..N : n \in T
  <2>. HIDE DEF T
  <2>. QED  BY <1>1, <1>2, Induction
<1>. QED  BY <1>3

-----------------------------------------------------------------------------
(* Places by rank. *)

Below(S, R, i) == {j \in S : <<j, i>> \in R}

IsStrictOrder(S, R) ==
    /\ \A i \in S : <<i, i>> \notin R
    /\ \A i, j, k \in S : <<i, j>> \in R /\ <<j, k>> \in R => <<i, k>> \in R
    /\ \A i, j \in S : i = j \/ <<i, j>> \in R \/ <<j, i>> \in R

\* What comes earlier in an order has fewer elements below it.
LEMMA RankGrows ==
    ASSUME NEW S, IsFiniteSet(S), NEW R, IsStrictOrder(S, R),
           NEW i \in S, NEW j \in S, <<i, j>> \in R
    PROVE  /\ Cardinality(Below(S, R, i)) \in Nat /\ Cardinality(Below(S, R, j)) \in Nat
           /\ Cardinality(Below(S, R, i)) < Cardinality(Below(S, R, j))
<1>1. Below(S, R, i) \subseteq Below(S, R, j)
  BY DEF Below, IsStrictOrder
<1>2. i \in Below(S, R, j) /\ i \notin Below(S, R, i)
  BY DEF Below, IsStrictOrder
<1>3. Below(S, R, j) \subseteq S
  BY DEF Below
<1>4. IsFiniteSet(Below(S, R, j)) /\ IsFiniteSet(Below(S, R, i))
  BY <1>1, <1>3, FS_Subset
<1>5. Cardinality(Below(S, R, i)) <= Cardinality(Below(S, R, j))
      /\ Cardinality(Below(S, R, j)) # Cardinality(Below(S, R, i))
  BY <1>1, <1>2, <1>4, FS_Subset
<1>. QED  BY <1>4, <1>5, FS_CardinalityType

\* Every rank is taken, by one element.
LEMMA RankOnto ==
    ASSUME NEW S, IsFiniteSet(S), NEW R, IsStrictOrder(S, R),
           NEW k \in 1..Cardinality(S)
    PROVE  \E i \in S : k - 1 = Cardinality(Below(S, R, i))
<1>. DEFINE n == Cardinality(S)
            rank == [i \in S |-> Cardinality(Below(S, R, i))]
<1>1. n \in Nat
  BY FS_CardinalityType
<1>2. ASSUME NEW i \in S
      PROVE  Cardinality(Below(S, R, i)) \in 0..(n - 1)
  <2>1. Below(S, R, i) \subseteq S /\ i \notin Below(S, R, i)
    BY DEF Below, IsStrictOrder
  <2>2. IsFiniteSet(Below(S, R, i)) /\ Cardinality(Below(S, R, i)) <= n
        /\ Cardinality(Below(S, R, i)) # n
    BY <2>1, FS_Subset
  <2>. QED  BY <1>1, <2>2, FS_CardinalityType
<1>3. ASSUME NEW i \in S, NEW j \in S, rank[i] = rank[j]
      PROVE  i = j
  <2>1. CASE <<i, j>> \in R
    BY <1>3, <2>1, RankGrows
  <2>2. CASE <<j, i>> \in R
    BY <1>3, <2>2, RankGrows
  <2>. QED  BY <2>1, <2>2 DEF IsStrictOrder
<1>4. rank \in Injection(S, 0..(n - 1))
  BY <1>2, <1>3 DEF Injection, IsInjective
<1>5. IsFiniteSet(0..(n - 1)) /\ Cardinality(0..(n - 1)) = n
  <2>. HIDE DEF n
  <2>1. 0 \in Int /\ n - 1 \in Int
    BY <1>1
  <2>2. IsFiniteSet(0..(n - 1)) /\ Cardinality(0..(n - 1)) = IF 0 > n - 1 THEN 0 ELSE n - 1 - 0 + 1
    BY <2>1, FS_Interval
  <2>. QED  BY <1>1, <2>2
<1>6. rank \in Surjection(S, 0..(n - 1))
  <2>. HIDE DEF rank, n
  <2>. QED  BY <1>4, <1>5, FS_Injection DEF n
<1>7. k - 1 \in 0..(n - 1)
  BY <1>1
<1>8. \E i \in S : rank[i] = k - 1
  BY <1>6, <1>7 DEF Surjection
<1>. QED  BY <1>8

\* An element that has a lower rank comes earlier.
LEMMA RankOrders ==
    ASSUME NEW S, IsFiniteSet(S), NEW R, IsStrictOrder(S, R), NEW i \in S, NEW j \in S,
           Cardinality(Below(S, R, i)) < Cardinality(Below(S, R, j))
    PROVE  <<i, j>> \in R
<1>1. CASE i = j
  <2>1. Cardinality(Below(S, R, i)) \in Nat
    BY FS_Subset, FS_CardinalityType DEF Below
  <2>. QED  BY <1>1, <2>1
<1>2. CASE <<j, i>> \in R
  BY <1>2, RankGrows
<1>. QED  BY <1>1, <1>2 DEF IsStrictOrder

\* The element of each rank.
ByRank(S, R) ==
    [k \in 1..Cardinality(S) |-> CHOOSE i \in S : k - 1 = Cardinality(Below(S, R, i))]

\* The elements by rank are all of them, in the order.
LEMMA RankPlaces ==
    ASSUME NEW S, IsFiniteSet(S), NEW R, IsStrictOrder(S, R)
    PROVE  /\ Cardinality(S) \in Nat
           /\ ByRank(S, R) \in [1..Cardinality(S) -> S]
           /\ \A i \in S : \E k \in 1..Cardinality(S) : ByRank(S, R)[k] = i
           /\ \A k, l \in 1..Cardinality(S) : k < l => <<ByRank(S, R)[k], ByRank(S, R)[l]>> \in R
<1>. DEFINE n == Cardinality(S)
            at == ByRank(S, R)
<1>1. n \in Nat
  BY FS_CardinalityType
<1>2. ASSUME NEW k \in 1..n
      PROVE  at[k] \in S /\ k - 1 = Cardinality(Below(S, R, at[k]))
  <2>1. \E i \in S : k - 1 = Cardinality(Below(S, R, i))
    BY RankOnto
  <2>2. at[k] = CHOOSE i \in S : k - 1 = Cardinality(Below(S, R, i))
    BY DEF ByRank
  <2>. QED  BY <2>1, <2>2
<1>3. at \in [1..n -> S]
  BY <1>2 DEF ByRank
<1>4. ASSUME NEW i \in S
      PROVE  \E k \in 1..n : at[k] = i
  <2>. DEFINE k == Cardinality(Below(S, R, i)) + 1
  <2>1. Below(S, R, i) \subseteq S /\ i \notin Below(S, R, i)
    BY DEF Below, IsStrictOrder
  <2>2. IsFiniteSet(Below(S, R, i)) /\ Cardinality(Below(S, R, i)) < n
        /\ Cardinality(Below(S, R, i)) \in Nat
    BY <1>1, <2>1, FS_Subset, FS_CardinalityType
  <2>3. k \in 1..n
    BY <1>1, <2>2
  <2>4. at[k] \in S /\ k - 1 = Cardinality(Below(S, R, at[k]))
    BY <1>2, <2>3
  <2>. HIDE DEF at
  <2>5. Cardinality(Below(S, R, i)) = Cardinality(Below(S, R, at[k]))
    BY <2>2, <2>4
  <2>6. ~(<<i, at[k]>> \in R) /\ ~(<<at[k], i>> \in R)
    BY <2>4, <2>5, RankGrows
  <2>7. at[k] = i
    BY <2>4, <2>6 DEF IsStrictOrder
  <2>. QED  BY <2>3, <2>7
<1>5. ASSUME NEW k \in 1..n, NEW l \in 1..n, k < l
      PROVE  <<at[k], at[l]>> \in R
  <2>1. at[k] \in S /\ at[l] \in S
        /\ Cardinality(Below(S, R, at[k])) < Cardinality(Below(S, R, at[l]))
    <3>. HIDE DEF at
    <3>1. k - 1 < l - 1
      BY <1>1, <1>5
    <3>. QED  BY <1>2, <3>1
  <2>. HIDE DEF at
  <2>. QED  BY <2>1, RankOrders
<1>. QED  BY <1>1, <1>3, <1>4, <1>5

-----------------------------------------------------------------------------
(* Vec::retain *)

\* What is retained are the elements at the places that are kept, in their order.
LEMMA RetainedPlaces ==
    ASSUME NEW V, NEW seq \in Seq(V), NEW kept \in SUBSET DOMAIN seq
    PROVE  \E at \in [1..Cardinality(kept) -> kept] :
             /\ Cardinality(kept) \in Nat
             /\ Retained(seq, kept) = [k \in 1..Cardinality(kept) |-> seq[at[k]]]
             /\ \A i \in kept : \E k \in 1..Cardinality(kept) : at[k] = i
             /\ \A k, l \in 1..Cardinality(kept) : k < l => at[k] < at[l]
<1>. DEFINE R == {p \in kept \X kept : p[1] < p[2]}
<1>1. DOMAIN seq = 1..Len(seq) /\ Len(seq) \in Nat
  OBVIOUS
<1>2. IsFiniteSet(kept)
  <2>1. IsFiniteSet(1..Len(seq))
    BY <1>1, FS_Interval
  <2>. QED  BY <1>1, <2>1, FS_Subset
<1>3. \A i \in kept : i \in Nat
  BY <1>1
<1>4. IsStrictOrder(kept, R)
  BY <1>3 DEF IsStrictOrder
<1>5. \A i \in kept : {j \in kept : j < i} = Below(kept, R, i)
  BY DEF Below
<1>6. \A k, l : <<k, l>> \in R => k < l
  OBVIOUS
<1>. HIDE DEF R
<1>7. /\ Cardinality(kept) \in Nat
      /\ ByRank(kept, R) \in [1..Cardinality(kept) -> kept]
      /\ \A i \in kept : \E k \in 1..Cardinality(kept) : ByRank(kept, R)[k] = i
      /\ \A k, l \in 1..Cardinality(kept) :
           k < l => <<ByRank(kept, R)[k], ByRank(kept, R)[l]>> \in R
  BY <1>2, <1>4, RankPlaces
<1>. DEFINE At(k) == CHOOSE i \in kept : k - 1 = Cardinality({j \in kept : j < i})
<1>8. ASSUME NEW k \in 1..Cardinality(kept)
      PROVE  At(k) = ByRank(kept, R)[k]
  <2>1. ByRank(kept, R)[k] = CHOOSE i \in kept : k - 1 = Cardinality(Below(kept, R, i))
    BY DEF ByRank
  <2>2. At(k) = CHOOSE i \in kept : k - 1 = Cardinality(Below(kept, R, i))
    BY <1>5, Zenon
  <2>. QED  BY <2>1, <2>2
<1>9. Retained(seq, kept) = [k \in 1..Cardinality(kept) |-> seq[ByRank(kept, R)[k]]]
  <2>1. Retained(seq, kept) = [k \in 1..Cardinality(kept) |-> seq[At(k)]]
    BY DEF Retained
  <2>. HIDE DEF At
  <2>. QED  BY <1>8, <2>1
<1>. QED  BY <1>6, <1>7, <1>9

\* What is retained has no other elements than those.
LEMMA RetainedRange ==
    ASSUME NEW V, NEW seq \in Seq(V), NEW kept \in SUBSET DOMAIN seq
    PROVE  /\ Retained(seq, kept) \in Seq(V)
           /\ Range(Retained(seq, kept)) = {seq[i] : i \in kept}
<1>. DEFINE n == Cardinality(kept)
<1>1. PICK at \in [1..n -> kept] :
             /\ n \in Nat
             /\ Retained(seq, kept) = [k \in 1..n |-> seq[at[k]]]
             /\ \A i \in kept : \E k \in 1..n : at[k] = i
  BY RetainedPlaces
<1>. HIDE DEF n
<1>2. \A k \in 1..n : at[k] \in kept /\ seq[at[k]] \in V
  BY <1>1
<1>3. Retained(seq, kept) \in Seq(V)
  BY <1>1, <1>2
<1>4. Range([k \in 1..n |-> seq[at[k]]]) = {seq[at[k]] : k \in 1..n}
  BY DEF Range
<1>. QED  BY <1>1, <1>2, <1>3, <1>4

-----------------------------------------------------------------------------
(* slice::sort_by *)

\* An order under which what is not ordered is equal, as an Ordering makes it.
IsWeakOrder(D, B) ==
    /\ \A i, j \in D : <<i, j>> \in B => <<j, i>> \notin B
    /\ \A i, j, k \in D : <<i, k>> \in B => <<i, j>> \in B \/ <<j, k>> \in B

\* The order of the places in a sorted vector: equals keep their order.
Stably(D, B) == {p \in D \X D : p \in B \/ (<<p[2], p[1]>> \notin B /\ p[1] < p[2])}

\* A stable sort takes every element to one place, and none comes after one that
\* it is before.
LEMMA SortPlaces ==
    ASSUME NEW n \in Nat, NEW B, IsWeakOrder(1..n, B)
    PROVE  LET at == ByRank(1..n, Stably(1..n, B))
           IN /\ at \in [1..n -> 1..n]
              /\ \A i \in 1..n : \E k \in 1..n : at[k] = i
              /\ \A k, l \in 1..n : at[k] = at[l] => k = l
              /\ \A k, l \in 1..n : k < l => /\ <<at[l], at[k]>> \notin B
                                             /\ <<at[k], at[l]>> \notin B => at[k] < at[l]
<1>. DEFINE D == 1..n
            R == Stably(D, B)
            at == ByRank(D, R)
<1>1. IsFiniteSet(D) /\ Cardinality(D) = n
  <2>1. 1 \in Int /\ n \in Int
    OBVIOUS
  <2>. QED  BY <2>1, FS_Interval
<1>2. IsStrictOrder(D, R)
  <2>1. \A i \in D : <<i, i>> \notin R
    BY DEF Stably, IsWeakOrder
  <2>2. \A i, j \in D : i = j \/ <<i, j>> \in R \/ <<j, i>> \in R
    BY DEF Stably
  <2>3. ASSUME NEW i \in D, NEW j \in D, NEW k \in D, <<i, j>> \in R, <<j, k>> \in R
        PROVE  <<i, k>> \in R
    <3>1. <<j, i>> \notin B /\ <<k, j>> \notin B
      BY <2>3 DEF Stably, IsWeakOrder
    <3>2. <<k, i>> \notin B
      BY <3>1 DEF IsWeakOrder
    <3>3. CASE <<i, j>> \in B
      BY <3>1, <3>3 DEF Stably, IsWeakOrder
    <3>4. CASE <<j, k>> \in B
      BY <3>1, <3>4 DEF Stably, IsWeakOrder
    <3>5. CASE i < j /\ j < k
      <4>1. i < k
        BY <3>5
      <4>. QED  BY <3>2, <4>1 DEF Stably
    <3>. QED  BY <2>3, <3>3, <3>4, <3>5 DEF Stably
  <2>. QED  BY <2>1, <2>2, <2>3 DEF IsStrictOrder
<1>3. \A i, j \in D : <<i, j>> \in R =>
        <<j, i>> \notin B /\ (<<i, j>> \notin B => i < j)
  BY DEF Stably, IsWeakOrder
<1>. HIDE DEF R
<1>4. /\ at \in [D -> D]
      /\ \A i \in D : \E k \in D : at[k] = i
      /\ \A k, l \in D : k < l => <<at[k], at[l]>> \in R
  <2>. HIDE DEF D
  <2>1. 1..Cardinality(D) = D
    BY <1>1 DEF D
  <2>. QED  BY <1>1, <1>2, <2>1, RankPlaces
<1>5. ASSUME NEW k \in D, NEW l \in D, at[k] = at[l]
      PROVE  k = l
  <2>1. <<at[k], at[l]>> \notin R /\ <<at[l], at[k]>> \notin R
    BY <1>2, <1>4, <1>5 DEF IsStrictOrder
  <2>. HIDE DEF at
  <2>2. ~(k < l) /\ ~(l < k)
    BY <1>4, <2>1
  <2>. QED  BY <2>2
<1>6. \A k, l \in D : k < l => /\ <<at[l], at[k]>> \notin B
                               /\ <<at[k], at[l]>> \notin B => at[k] < at[l]
  <2>. HIDE DEF at, D
  <2>. QED  BY <1>3, <1>4
<1>. QED  BY <1>4, <1>5, <1>6, Zenon DEF R

\* The elements a stable sort puts before one, and the element it takes to a place.
Ahead(n, B, i) == {j \in 1..n : <<j, i>> \in B \/ (<<i, j>> \notin B /\ j < i)}
Placed(n, B, k) == CHOOSE i \in 1..n : k - 1 = Cardinality(Ahead(n, B, i))

\* The element that a stable sort takes to a place is the one of its rank.
LEMMA SortRanks ==
    ASSUME NEW n \in Nat, NEW B, NEW k \in 1..n
    PROVE  Placed(n, B, k) = ByRank(1..n, Stably(1..n, B))[k]
<1>. DEFINE D == 1..n
            R == Stably(D, B)
<1>1. 1..Cardinality(D) = D
  <2>1. 1 \in Int /\ n \in Int
    OBVIOUS
  <2>2. Cardinality(D) = n
    BY <2>1, FS_Interval
  <2>. QED  BY <2>2
<1>2. \A i \in D : Below(D, R, i) = Ahead(n, B, i)
  BY DEF Below, Stably, Ahead
<1>. HIDE DEF R, D
<1>3. ByRank(D, R)[k] = CHOOSE i \in D : k - 1 = Cardinality(Below(D, R, i))
  BY <1>1 DEF ByRank, D
<1>4. Placed(n, B, k) = CHOOSE i \in D : k - 1 = Cardinality(Below(D, R, i))
  BY <1>2, Zenon DEF Placed, D
<1>. QED  BY <1>3, <1>4 DEF D, R

-----------------------------------------------------------------------------
(* Prefixes. *)

\* A sequence is a prefix if it is not longer and has the same characters.
LEMMA IsPrefixMeans ==
    ASSUME NEW V, NEW path \in Seq(V), NEW prefix \in Seq(V)
    PROVE  IsPrefix(prefix, path) <=>
             Len(prefix) <= Len(path) /\ \A i \in 1..Len(prefix) : path[i] = prefix[i]
<1>. DEFINE m == Len(prefix)
<1>1. m \in Nat /\ Len(path) \in Nat
  OBVIOUS
<1>2. ASSUME m <= Len(path)
      PROVE  /\ SubSeq(prefix, 1, m) \in Seq(V) /\ Len(SubSeq(prefix, 1, m)) = m
             /\ \A i \in 1..m : SubSeq(prefix, 1, m)[i] = prefix[i]
             /\ SubSeq(path, 1, m) \in Seq(V) /\ Len(SubSeq(path, 1, m)) = m
             /\ \A i \in 1..m : SubSeq(path, 1, m)[i] = path[i]
  BY <1>1, <1>2
<1>3. ASSUME m <= Len(path), \A i \in 1..m : path[i] = prefix[i]
      PROVE  SubSeq(prefix, 1, m) = SubSeq(path, 1, m)
  <2>. DEFINE s == SubSeq(prefix, 1, m)
              t == SubSeq(path, 1, m)
  <2>1. s \in Seq(V) /\ t \in Seq(V) /\ Len(s) = Len(t) /\ Len(s) = m
    BY <1>2, <1>3
  <2>2. \A i \in 1..Len(s) : s[i] = t[i]
    BY <1>2, <1>3, <2>1
  <2>. HIDE DEF s, t, m
  <2>3. s = t
    BY <2>1, <2>2, SeqEqual
  <2>. QED  BY <2>3 DEF s, t
<1>4. ASSUME m <= Len(path), SubSeq(prefix, 1, m) = SubSeq(path, 1, m)
      PROVE  \A i \in 1..m : path[i] = prefix[i]
  BY <1>2, <1>4
<1>. QED  BY <1>3, <1>4 DEF IsPrefix

-----------------------------------------------------------------------------
(* Slices of two sequences, one after the other. *)

\* A slice has its length and its elements.
LEMMA Slice ==
    ASSUME NEW V, NEW s \in Seq(V), NEW a \in 0..Len(s), NEW b \in a..Len(s)
    PROVE  /\ SubSeq(s, a + 1, b) \in Seq(V) /\ Len(SubSeq(s, a + 1, b)) = b - a
           /\ \A i \in 1..(b - a) : SubSeq(s, a + 1, b)[i] = s[a + i]
<1>1. Len(s) \in Nat /\ a \in Int /\ b \in Int /\ a + 1 \in Int
  OBVIOUS
<1>2. \A i \in (a + 1)..b : s[i] \in V
  BY <1>1
<1>3. /\ SubSeq(s, a + 1, b) \in Seq(V)
      /\ Len(SubSeq(s, a + 1, b)) = IF a + 1 <= b THEN b - (a + 1) + 1 ELSE 0
      /\ \A i \in 1..(b - (a + 1) + 1) : SubSeq(s, a + 1, b)[i] = s[(a + 1) + i - 1]
  BY <1>1, <1>2, SubSeqProperties
<1>4. b - (a + 1) + 1 = b - a /\ (~(a + 1 <= b) => b - a = 0)
  BY <1>1
<1>5. \A i \in 1..(b - a) : (a + 1) + i - 1 = a + i
  BY <1>1
<1>. QED  BY <1>3, <1>4, <1>5

\* A slice that ends in the first one.
LEMMA SliceInFirst ==
    ASSUME NEW V, NEW s \in Seq(V), NEW t \in Seq(V), NEW a \in 0..Len(s), NEW b \in a..Len(s)
    PROVE  SubSeq(s \o t, a + 1, b) = SubSeq(s, a + 1, b)
<1>. DEFINE st == s \o t
<1>1. st \in Seq(V) /\ Len(st) = Len(s) + Len(t) /\ Len(s) \in Nat /\ Len(t) \in Nat
      /\ \A i \in 1..Len(s) : st[i] = s[i]
  BY ConcatProperties
<1>2. a \in 0..Len(st) /\ b \in a..Len(st)
  BY <1>1
<1>. HIDE DEF st
<1>3. Len(SubSeq(st, a + 1, b)) = b - a /\ Len(SubSeq(s, a + 1, b)) = b - a
      /\ SubSeq(st, a + 1, b) \in Seq(V) /\ SubSeq(s, a + 1, b) \in Seq(V)
  BY <1>1, <1>2, Slice
<1>4. ASSUME NEW i \in 1..(b - a)
      PROVE  SubSeq(st, a + 1, b)[i] = SubSeq(s, a + 1, b)[i]
  <2>1. SubSeq(st, a + 1, b)[i] = st[a + i] /\ SubSeq(s, a + 1, b)[i] = s[a + i]
    BY <1>1, <1>2, Slice
  <2>2. a + i \in 1..Len(s)
    BY <1>1
  <2>. QED  BY <1>1, <2>1, <2>2
<1>5. SubSeq(st, a + 1, b) = SubSeq(s, a + 1, b)
  BY <1>3, <1>4, SeqEqual
<1>. QED  BY <1>5 DEF st

\* A slice that begins in the second one.
LEMMA SliceInSecond ==
    ASSUME NEW V, NEW s \in Seq(V), NEW t \in Seq(V), NEW a \in 0..Len(t), NEW b \in a..Len(t)
    PROVE  SubSeq(s \o t, Len(s) + a + 1, Len(s) + b) = SubSeq(t, a + 1, b)
<1>. DEFINE st == s \o t
            m == Len(s)
            left == SubSeq(st, m + a + 1, m + b)
            right == SubSeq(t, a + 1, b)
<1>1. st \in Seq(V) /\ Len(st) = m + Len(t) /\ m \in Nat /\ Len(t) \in Nat
      /\ \A i \in (m + 1)..(m + Len(t)) : st[i] = t[i - m]
  BY ConcatProperties
<1>2. m + a \in 0..Len(st) /\ m + b \in (m + a)..Len(st)
  BY <1>1
<1>. HIDE DEF st, m
<1>3. /\ left \in Seq(V) /\ Len(left) = (m + b) - (m + a)
      /\ \A i \in 1..((m + b) - (m + a)) : left[i] = st[(m + a) + i]
  BY <1>1, <1>2, Slice
<1>4. /\ right \in Seq(V) /\ Len(right) = b - a
      /\ \A i \in 1..(b - a) : right[i] = t[a + i]
  BY <1>1, Slice
<1>5. (m + b) - (m + a) = b - a
  BY <1>1
<1>6. ASSUME NEW i \in 1..(b - a)
      PROVE  left[i] = right[i]
  <2>1. left[i] = st[(m + a) + i] /\ right[i] = t[a + i]
    BY <1>3, <1>4, <1>5
  <2>2. (m + a) + i \in (m + 1)..(m + Len(t)) /\ (m + a) + i - m = a + i
    BY <1>1
  <2>. QED  BY <1>1, <2>1, <2>2
<1>. HIDE DEF left, right
<1>7. left = right
  BY <1>3, <1>4, <1>5, <1>6, SeqEqual
<1>. QED  BY <1>7 DEF left, right, st, m

\* A slice over the end of the first one.
LEMMA SliceOverBoth ==
    ASSUME NEW V, NEW s \in Seq(V), NEW t \in Seq(V), NEW a \in 0..Len(s), NEW b \in 0..Len(t)
    PROVE  SubSeq(s \o t, a + 1, Len(s) + b) = SubSeq(s, a + 1, Len(s)) \o SubSeq(t, 1, b)
<1>. DEFINE st == s \o t
            m == Len(s)
<1>1. st \in Seq(V) /\ Len(st) = m + Len(t) /\ m \in Nat /\ Len(t) \in Nat
  BY ConcatProperties
<1>. HIDE DEF m, st
<1>2. a + 1 \in 1..(Len(st) + 1) /\ m \in ((a + 1) - 1)..Len(st) /\ m + b \in m..Len(st)
  BY <1>1 DEF m
<1>3. SubSeq(st, a + 1, m) \o SubSeq(st, m + 1, m + b) = SubSeq(st, a + 1, m + b)
  BY <1>1, <1>2, ConcatAdjacentSubSeq
<1>4. SubSeq(st, a + 1, m) = SubSeq(s, a + 1, m)
  <2>1. m \in a..Len(s)
    BY <1>1 DEF m
  <2>. QED  BY <2>1, SliceInFirst DEF st
<1>5. SubSeq(st, m + 1, m + b) = SubSeq(t, 1, b)
  <2>1. 0 \in 0..Len(t) /\ b \in 0..Len(t)
    BY <1>1
  <2>2. SubSeq(s \o t, Len(s) + 0 + 1, Len(s) + b) = SubSeq(t, 0 + 1, b)
    BY <2>1, SliceInSecond
  <2>3. Len(s) + 0 + 1 = Len(s) + 1 /\ 0 + 1 = 1
    BY <1>1 DEF m
  <2>. QED  BY <2>2, <2>3 DEF st, m
<1>. QED  BY <1>3, <1>4, <1>5 DEF st, m

-----------------------------------------------------------------------------
(* Sequences that have each element of a set once. *)

Enumerates(seq, S) ==
    /\ seq \in Seq(S) /\ Range(seq) = S
    /\ \A i, j \in DOMAIN seq : seq[i] = seq[j] => i = j

\* Some of the elements, each once.
LEMMA RetainedLists ==
    ASSUME NEW S, NEW seq, Enumerates(seq, S), NEW kept \in SUBSET DOMAIN seq
    PROVE  Enumerates(Retained(seq, kept), {seq[i] : i \in kept})
<1>. DEFINE n == Cardinality(kept)
            T == {seq[i] : i \in kept}
            ret == Retained(seq, kept)
<1>0. seq \in Seq(S)
  BY DEF Enumerates
<1>1. PICK at \in [1..n -> kept] :
             /\ n \in Nat
             /\ ret = [k \in 1..n |-> seq[at[k]]]
             /\ \A i \in kept : \E k \in 1..n : at[k] = i
             /\ \A k, l \in 1..n : k < l => at[k] < at[l]
  BY <1>0, RetainedPlaces
<1>2. Range(ret) = T
  BY <1>0, RetainedRange
<1>. HIDE DEF n, ret
<1>3. \A k \in 1..n : seq[at[k]] \in T
  BY <1>1
<1>4. ret \in Seq(T) /\ DOMAIN ret = 1..n
  <2>. HIDE DEF T
  <2>. QED  BY <1>1, <1>3
<1>5. ASSUME NEW k \in 1..n, NEW l \in 1..n, ret[k] = ret[l]
      PROVE  k = l
  <2>1. at[k] \in kept /\ at[l] \in kept /\ seq[at[k]] = seq[at[l]]
    BY <1>1, <1>5
  <2>2. at[k] = at[l]
    BY <2>1 DEF Enumerates
  <2>3. DOMAIN seq = 1..Len(seq) /\ Len(seq) \in Nat
    BY <1>0
  <2>4. ~(k < l) /\ ~(l < k)
    BY <1>1, <2>1, <2>2, <2>3
  <2>. QED  BY <1>1, <2>4
<1>. QED  BY <1>2, <1>4, <1>5 DEF Enumerates, ret

\* A sequence has the elements of another, from the places a permutation gives.
Permutes(new, seq, at) ==
    /\ at \in [1..Len(seq) -> 1..Len(seq)]
    /\ \A i \in 1..Len(seq) : \E k \in 1..Len(seq) : at[k] = i
    /\ \A k, l \in 1..Len(seq) : at[k] = at[l] => k = l
    /\ new = [k \in 1..Len(seq) |-> seq[at[k]]]

\* The elements in another order, each once.
LEMMA PermutedLists ==
    ASSUME NEW S, NEW seq, Enumerates(seq, S), NEW new, NEW at, Permutes(new, seq, at)
    PROVE  Enumerates(new, S) /\ Len(new) = Len(seq)
<1>. DEFINE n == Len(seq)
<1>1. seq \in Seq(S) /\ n \in Nat /\ DOMAIN seq = 1..n
  BY DEF Enumerates
<1>2. Range(new) = Range(seq) /\ new \in Seq(S) /\ DOMAIN new = 1..n
      /\ \A k \in 1..n : at[k] \in 1..n /\ new[k] = seq[at[k]]
  <2>1. \A k \in 1..n : at[k] \in 1..n /\ new[k] = seq[at[k]]
    BY DEF Permutes
  <2>2. new \in Seq(S) /\ DOMAIN new = 1..n
    <3>1. \A k \in 1..n : seq[at[k]] \in S
      BY <1>1, <2>1
    <3>2. new = [k \in 1..n |-> seq[at[k]]]
      BY DEF Permutes
    <3>. HIDE DEF n
    <3>. QED  BY <1>1, <3>1, <3>2
  <2>3. Range(new) \subseteq Range(seq)
    BY <1>1, <2>1, <2>2 DEF Range
  <2>4. ASSUME NEW i \in 1..n
        PROVE  seq[i] \in Range(new)
    <3>1. PICK k \in 1..n : at[k] = i
      BY DEF Permutes
    <3>. QED  BY <2>1, <2>2, <3>1 DEF Range
  <2>5. Range(seq) \subseteq Range(new)
    BY <1>1, <2>4 DEF Range
  <2>. QED  BY <2>1, <2>2, <2>3, <2>5
<1>3. ASSUME NEW k \in 1..n, NEW l \in 1..n, new[k] = new[l]
      PROVE  k = l
  <2>1. at[k] \in DOMAIN seq /\ at[l] \in DOMAIN seq /\ seq[at[k]] = seq[at[l]]
    BY <1>1, <1>2, <1>3
  <2>2. at[k] = at[l]
    BY <2>1 DEF Enumerates
  <2>. QED  BY <2>2 DEF Permutes
<1>4. Enumerates(new, S)
  BY <1>2, <1>3 DEF Enumerates
<1>. QED  BY <1>1, <1>2, <1>4

\* Two such sequences, one after the other.
LEMMA ConcatLists ==
    ASSUME NEW S, NEW s, Enumerates(s, S), NEW T, NEW t, Enumerates(t, T), S \cap T = {}
    PROVE  Enumerates(s \o t, S \cup T)
<1>. DEFINE V == S \cup T
            st == s \o t
<1>1. s \in Seq(V) /\ t \in Seq(V) /\ s \in Seq(S) /\ t \in Seq(T)
  BY SeqMonotonic DEF Enumerates
<1>2. /\ st \in Seq(V) /\ Len(st) = Len(s) + Len(t) /\ Len(s) \in Nat /\ Len(t) \in Nat
      /\ \A i \in 1..Len(s) : st[i] = s[i]
      /\ \A i \in (Len(s) + 1)..(Len(s) + Len(t)) : st[i] = t[i - Len(s)]
      /\ DOMAIN st = 1..(Len(s) + Len(t)) /\ DOMAIN s = 1..Len(s) /\ DOMAIN t = 1..Len(t)
  BY <1>1, ConcatProperties
<1>3. Range(st) = V
  BY <1>1, RangeConcatenation DEF Enumerates
<1>. HIDE DEF st
<1>4. ASSUME NEW i \in DOMAIN st, NEW j \in DOMAIN st, st[i] = st[j]
      PROVE  i = j
  <2>1. CASE i \in 1..Len(s) /\ j \in 1..Len(s)
    BY <1>2, <1>4, <2>1 DEF Enumerates
  <2>2. CASE i \notin 1..Len(s) /\ j \notin 1..Len(s)
    <3>1. i - Len(s) \in 1..Len(t) /\ j - Len(s) \in 1..Len(t)
      BY <1>2, <2>2
    <3>2. t[i - Len(s)] = t[j - Len(s)]
      BY <1>2, <1>4, <2>2
    <3>3. i - Len(s) = j - Len(s)
      BY <1>2, <3>1, <3>2 DEF Enumerates
    <3>. QED  BY <1>2, <3>3
  <2>3. CASE i \in 1..Len(s) /\ j \notin 1..Len(s)
    <3>1. st[i] \in S /\ st[j] \in T
      BY <1>1, <1>2, <2>3
    <3>. QED  BY <1>4, <3>1
  <2>4. CASE i \notin 1..Len(s) /\ j \in 1..Len(s)
    <3>1. st[j] \in S /\ st[i] \in T
      BY <1>1, <1>2, <2>4
    <3>. QED  BY <1>4, <3>1
  <2>. QED  BY <2>1, <2>2, <2>3, <2>4
<1>. QED  BY <1>2, <1>3, <1>4 DEF Enumerates, st

\* A slice of such a sequence.
LEMMA SliceLists ==
    ASSUME NEW S, NEW s, Enumerates(s, S), NEW a \in 0..Len(s), NEW b \in a..Len(s)
    PROVE  Enumerates(SubSeq(s, a + 1, b), {s[i] : i \in (a + 1)..b})
<1>. DEFINE T == {s[i] : i \in (a + 1)..b}
            slice == SubSeq(s, a + 1, b)
<1>1. s \in Seq(S) /\ DOMAIN s = 1..Len(s) /\ Len(s) \in Nat
  BY DEF Enumerates
<1>2. /\ slice \in Seq(S) /\ Len(slice) = b - a /\ DOMAIN slice = 1..(b - a)
      /\ \A i \in 1..(b - a) : slice[i] = s[a + i]
  BY <1>1, Slice
<1>. HIDE DEF slice
<1>3. \A i \in 1..(b - a) : a + i \in (a + 1)..b /\ a + i \in DOMAIN s
  BY <1>1
<1>4. \A i \in (a + 1)..b : i - a \in 1..(b - a) /\ a + (i - a) = i
  BY <1>1
<1>5. Range(slice) = T
  <2>1. Range(slice) = {slice[i] : i \in 1..(b - a)}
    BY <1>2 DEF Range
  <2>2. ASSUME NEW i \in 1..(b - a)
        PROVE  slice[i] \in T
    BY <1>2, <1>3
  <2>3. ASSUME NEW i \in (a + 1)..b
        PROVE  s[i] \in {slice[k] : k \in 1..(b - a)}
    <3>1. slice[i - a] = s[i] /\ i - a \in 1..(b - a)
      BY <1>2, <1>4
    <3>. QED  BY <3>1
  <2>. QED  BY <2>1, <2>2, <2>3
<1>6. slice \in Seq(T)
  <2>1. \A i \in 1..(b - a) : slice[i] \in T
    BY <1>2, <1>3
  <2>. HIDE DEF T
  <2>2. slice \in [1..Len(slice) -> T] /\ Len(slice) \in Nat
    BY <1>2, <2>1
  <2>. QED  BY <2>2
<1>7. ASSUME NEW i \in 1..(b - a), NEW j \in 1..(b - a), slice[i] = slice[j]
      PROVE  i = j
  <2>1. a + i = a + j
    BY <1>2, <1>3, <1>7 DEF Enumerates
  <2>. QED  BY <1>1, <2>1
<1>. QED  BY <1>2, <1>5, <1>6, <1>7 DEF Enumerates, slice

\* What is made of the elements, each once if no two become the same.
LEMMA MappedLists ==
    ASSUME NEW S, NEW s, Enumerates(s, S), NEW f,
           \A x, y \in S : f[x] = f[y] => x = y
    PROVE  Enumerates([i \in DOMAIN s |-> f[s[i]]], {f[x] : x \in S})
<1>. DEFINE n == Len(s)
            t == [i \in DOMAIN s |-> f[s[i]]]
            T == {f[x] : x \in S}
<1>1. s \in Seq(S) /\ n \in Nat /\ DOMAIN s = 1..n /\ \A i \in 1..n : s[i] \in S
  BY DEF Enumerates
<1>2. t \in [1..n -> T]
  BY <1>1
<1>3. t \in Seq(T) /\ DOMAIN t = 1..n /\ \A i \in 1..n : t[i] = f[s[i]]
  BY <1>1, <1>2
<1>4. Range(t) = T
  <2>1. ASSUME NEW x \in S
        PROVE  f[x] \in Range(t)
    <3>1. PICK i \in 1..n : s[i] = x
      BY <1>1 DEF Enumerates, Range
    <3>. QED  BY <1>3, <3>1 DEF Range
  <2>2. Range(t) \subseteq T
    BY <1>1, <1>3 DEF Range
  <2>. QED  BY <2>1, <2>2
<1>5. ASSUME NEW i \in 1..n, NEW j \in 1..n, t[i] = t[j]
      PROVE  i = j
  <2>1. s[i] = s[j]
    BY <1>1, <1>3, <1>5
  <2>. QED  BY <1>1, <2>1 DEF Enumerates
<1>. HIDE DEF t, T
<1>6. Enumerates(t, T)
  BY <1>3, <1>4, <1>5 DEF Enumerates
<1>. QED  BY <1>6 DEF t, T
=============================================================================
