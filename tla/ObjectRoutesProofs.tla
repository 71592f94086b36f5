------------------------- MODULE ObjectRoutesProofs --------------------------
(***************************************************************************)
(* What the operations on routes do: recording replaces, sorting keeps the *)
(* routes and puts the longest prefixes first, and the first route that    *)
(* matches a path is then the one with the longest prefix.                 *)
(***************************************************************************)
EXTENDS ObjectRoutes, SequenceFacts

Routes(S) == [prefix : Seq(STRING), store : S]

LongestFirst(routes) ==
    \A k, l \in DOMAIN routes : k < l => Len(routes[k].prefix) >= Len(routes[l].prefix)

-----------------------------------------------------------------------------
(* Prefixes *)

\* A path has a prefix if it begins with its characters, and with a slash after them.
LEMMA PathHasPrefixMeans ==
    ASSUME NEW path \in Seq(STRING), NEW prefix \in Seq(STRING)
    PROVE  PathHasPrefix(path, prefix) <=>
             /\ Len(prefix) <= Len(path)
             /\ \A i \in 1..Len(prefix) : path[i] = prefix[i]
             /\ Len(prefix) = 0 \/ Len(path) = Len(prefix) \/ path[Len(prefix) + 1] = Slash
<1>. DEFINE m == Len(prefix)
<1>1. m \in Nat /\ Len(path) \in Nat
  OBVIOUS
<1>2. IsPrefix(prefix, path) <=> m <= Len(path) /\ \A i \in 1..m : path[i] = prefix[i]
  BY IsPrefixMeans
<1>3. prefix = <<>> <=> m = 0
  BY EmptySeq
<1>4. ASSUME \A i \in 1..m : path[i] = prefix[i], m <= Len(path)
      PROVE  path = prefix <=> Len(path) = m
  BY <1>4, <1>1, SeqEqual
<1>. QED  BY <1>1, <1>2, <1>3, <1>4 DEF PathHasPrefix, IsStrictPrefix

\* Two prefixes of one path that have the same length are the same.
LEMMA SamePrefix ==
    ASSUME NEW path \in Seq(STRING), NEW p \in Seq(STRING), NEW q \in Seq(STRING),
           PathHasPrefix(path, p), PathHasPrefix(path, q), Len(p) = Len(q)
    PROVE  p = q
<1>1. \A i \in 1..Len(p) : p[i] = q[i]
  BY PathHasPrefixMeans
<1>. QED  BY <1>1, SeqEqual

\* A path has itself for a prefix, and a longer prefix is not one of its own prefix.
LEMMA PrefixOrder ==
    ASSUME NEW p \in Seq(STRING), NEW q \in Seq(STRING)
    PROVE  /\ PathHasPrefix(p, p)
           /\ PathHasPrefix(p, q) => Len(q) <= Len(p)
BY PathHasPrefixMeans

-----------------------------------------------------------------------------
(* record_store *)

\* A recorded store replaces the one of its prefix, and no other.
LEMMA RecordStoreReplaces ==
    ASSUME NEW S, NEW routes \in Seq(Routes(S)), NEW prefix \in Seq(STRING), NEW store \in S
    PROVE  /\ RecordStore(routes, prefix, store) \in Seq(Routes(S))
           /\ Range(RecordStore(routes, prefix, store)) =
                {r \in Range(routes) : r.prefix # prefix} \cup {ObjectStoreRoute(prefix, store)}
<1>. DEFINE kept == {i \in DOMAIN routes : routes[i].prefix # prefix}
            rest == Retained(routes, kept)
            route == ObjectStoreRoute(prefix, store)
<1>1. kept \in SUBSET DOMAIN routes
  OBVIOUS
<1>2. rest \in Seq(Routes(S)) /\ Range(rest) = {routes[i] : i \in kept}
  <2>. HIDE DEF kept
  <2>. QED  BY <1>1, RetainedRange
<1>3. {routes[i] : i \in kept} = {r \in Range(routes) : r.prefix # prefix}
  BY DEF Range
<1>4. route \in Routes(S)
  BY DEF ObjectStoreRoute, Routes
<1>5. RecordStore(routes, prefix, store) = Append(rest, route)
  BY DEF RecordStore
<1>. HIDE DEF rest, route, kept
<1>6. Append(rest, route) \in Seq(Routes(S))
  BY <1>2, <1>4
<1>7. Range(Append(rest, route)) = Range(rest) \cup {route}
  <2>. DEFINE single == <<route>>
  <2>1. Append(rest, route) = rest \o single /\ single \in Seq(Routes(S))
    BY <1>2, <1>4
  <2>2. Range(single) = {route}
    BY DEF Range
  <2>. HIDE DEF single
  <2>3. Range(rest \o single) = Range(rest) \cup Range(single)
    BY <1>2, <2>1, RangeConcatenation
  <2>. QED  BY <2>1, <2>2, <2>3
<1>. QED  BY <1>2, <1>3, <1>5, <1>6, <1>7 DEF route

-----------------------------------------------------------------------------
(* PrefixRoutingObjectStore::new *)

\* Sorting keeps the routes, each as often as it was there, and puts the longest
\* prefixes first.
LEMMA PrefixRoutingSorts ==
    ASSUME NEW S, NEW routes \in Seq(Routes(S))
    PROVE  /\ PrefixRouting(routes) \in Seq(Routes(S))
           /\ Range(PrefixRouting(routes)) = Range(routes)
           /\ LongestFirst(PrefixRouting(routes))
<1>. DEFINE D == DOMAIN routes
            Longer(i, j) == Len(routes[i].prefix) > Len(routes[j].prefix)
            R == {p \in D \X D : Longer(p[1], p[2]) \/ (~Longer(p[2], p[1]) /\ p[1] < p[2])}
            At(k) == CHOOSE i \in D :
                       k - 1 = Cardinality({j \in D : Longer(j, i) \/ (~Longer(i, j) /\ j < i)})
<1>1. D = 1..Len(routes) /\ Len(routes) \in Nat
  OBVIOUS
<1>2. IsFiniteSet(D) /\ Cardinality(D) = Len(routes)
  <2>1. 1 \in Int /\ Len(routes) \in Int
    BY <1>1
  <2>. QED  BY <1>1, <2>1, FS_Interval
<1>3. \A i \in D : Len(routes[i].prefix) \in Nat
  BY DEF Routes
<1>4. IsStrictOrder(D, R)
  BY <1>1, <1>3 DEF IsStrictOrder
<1>5. \A i \in D : {j \in D : Longer(j, i) \/ (~Longer(i, j) /\ j < i)} = Below(D, R, i)
  BY DEF Below
<1>6. ASSUME NEW k \in D
      PROVE  At(k) \in D /\ k - 1 = Cardinality(Below(D, R, At(k)))
  <2>1. \E i \in D : k - 1 = Cardinality(Below(D, R, i))
    <3>1. k \in 1..Cardinality(D)
      BY <1>1, <1>2
    <3>. HIDE DEF R, D
    <3>. QED  BY <1>2, <1>4, <3>1, RankOnto
  <2>2. \E i \in D : k - 1 = Cardinality({j \in D : Longer(j, i) \/ (~Longer(i, j) /\ j < i)})
    BY <1>5, <2>1
  <2>3. /\ At(k) \in D
        /\ k - 1 = Cardinality({j \in D : Longer(j, At(k)) \/ (~Longer(At(k), j) /\ j < At(k))})
    <3>. HIDE DEF D, Longer
    <3>. QED  BY <2>2
  <2>. QED  BY <1>5, <2>3
<1>7. PrefixRouting(routes) = [k \in D |-> routes[At(k)]]
  BY DEF PrefixRouting, StableSort
<1>8. ASSUME NEW i \in D
      PROVE  \E k \in D : At(k) = i
  <2>. DEFINE k == Cardinality(Below(D, R, i)) + 1
  <2>1. Below(D, R, i) \subseteq D /\ i \notin Below(D, R, i)
    BY <1>4 DEF Below, IsStrictOrder
  <2>2. IsFiniteSet(Below(D, R, i)) /\ Cardinality(Below(D, R, i)) < Cardinality(D)
    <3>. HIDE DEF D, R
    <3>. QED  BY <1>2, <2>1, FS_Subset, FS_CardinalityType
  <2>3. k \in D
    <3>. HIDE DEF R
    <3>. QED  BY <1>1, <1>2, <2>2, FS_CardinalityType
  <2>4. At(k) \in D /\ k - 1 = Cardinality(Below(D, R, At(k)))
    BY <1>6, <2>3
  <2>. HIDE DEF At, R, D
  <2>5. Cardinality(Below(D, R, i)) = Cardinality(Below(D, R, At(k)))
    BY <2>2, <2>4, FS_CardinalityType
  <2>6. ~(<<i, At(k)>> \in R) /\ ~(<<At(k), i>> \in R)
    BY <1>2, <1>4, <2>4, <2>5, RankGrows
  <2>7. At(k) = i
    BY <1>4, <2>4, <2>6 DEF IsStrictOrder
  <2>. QED  BY <2>3, <2>7
<1>9. ASSUME NEW k \in D, NEW l \in D, k < l
      PROVE  Len(routes[At(k)].prefix) >= Len(routes[At(l)].prefix)
  <2>1. <<At(k), At(l)>> \in R
    <3>1. Cardinality(Below(D, R, At(k))) < Cardinality(Below(D, R, At(l)))
      <4>1. k - 1 = Cardinality(Below(D, R, At(k))) /\ l - 1 = Cardinality(Below(D, R, At(l)))
        BY <1>6
      <4>2. k - 1 < l - 1
        BY <1>1, <1>9
      <4>. HIDE DEF At, R, D
      <4>. QED  BY <4>1, <4>2
    <3>. HIDE DEF At, R, D
    <3>. QED  BY <1>2, <1>4, <1>6, <3>1, RankOrders
  <2>2. At(k) \in D /\ At(l) \in D
    BY <1>6
  <2>. HIDE DEF At, D
  <2>. QED  BY <1>3, <2>1, <2>2
<1>. HIDE DEF At, R
<1>10. \A k \in D : routes[At(k)] \in Routes(S)
  BY <1>6
<1>11. PrefixRouting(routes) \in Seq(Routes(S)) /\ DOMAIN PrefixRouting(routes) = D
  BY <1>1, <1>7, <1>10
<1>12. Range(PrefixRouting(routes)) = Range(routes)
  <2>1. Range(PrefixRouting(routes)) = {routes[At(k)] : k \in D}
    BY <1>7, <1>11 DEF Range
  <2>. QED  BY <1>6, <1>8, <2>1 DEF Range
<1>13. LongestFirst(PrefixRouting(routes))
  BY <1>7, <1>9, <1>11 DEF LongestFirst
<1>. QED  BY <1>11, <1>12, <1>13

-----------------------------------------------------------------------------
(* Which route is taken *)

\* The first route of all, if there is one.
LEMMA AnyRouteIsOne ==
    ASSUME NEW S, NEW routes \in Seq(Routes(S))
    PROVE  StoreForPrefix(routes, None) =
             IF routes = <<>> THEN None ELSE routes[1].store
<1>. DEFINE D == {i \in DOMAIN routes : TRUE}
<1>1. D = 1..Len(routes) /\ Len(routes) \in Nat
  OBVIOUS
<1>2. routes = <<>> <=> D = {}
  BY <1>1, EmptySeq
<1>3. D # {} => Min(D) = 1
  <2>1. D # {} => 1 \in D /\ \A i \in D : 1 <= i
    BY <1>1
  <2>2. D # {} => Min(D) \in D /\ \A i \in D : Min(D) <= i
    <3>1. D \subseteq Nat
      BY <1>1
    <3>. HIDE DEF D
    <3>. QED  BY <3>1, MinIsLeast
  <2>3. \A i \in D : i \in Nat
    BY <1>1
  <2>. HIDE DEF D
  <2>. QED  BY <2>1, <2>2, <2>3
<1>4. StoreForPrefix(routes, None) = IF D = {} THEN None ELSE routes[Min(D)].store
  BY DEF StoreForPrefix, FirstRoute
<1>. QED  BY <1>2, <1>3, <1>4

\* A path goes to the route with the longest of the prefixes that it has, and to
\* none if it has none of them.
LEMMA StoreForLocationIsLongest ==
    ASSUME NEW S, NEW routes \in Seq(Routes(S)), LongestFirst(routes), NEW path \in Seq(STRING)
    PROVE  \/ /\ StoreForLocation(routes, path) = None
              /\ \A r \in Range(routes) : ~PathHasPrefix(path, r.prefix)
           \/ \E r \in Range(routes) :
                /\ StoreForLocation(routes, path) = r.store
                /\ PathHasPrefix(path, r.prefix)
                /\ \A s \in Range(routes) :
                     PathHasPrefix(path, s.prefix) => Len(s.prefix) <= Len(r.prefix)
<1>. DEFINE found == {i \in DOMAIN routes : PathHasPrefix(path, routes[i].prefix)}
            first == Min(found)
<1>1. DOMAIN routes = 1..Len(routes) /\ Len(routes) \in Nat
  OBVIOUS
<1>2. StoreForLocation(routes, path) = IF found = {} THEN None ELSE routes[first].store
  BY DEF StoreForLocation, FirstRoute
<1>3. CASE found = {}
  BY <1>2, <1>3 DEF Range
<1>4. CASE found # {}
  <2>1. found \subseteq Nat
    BY <1>1
  <2>2. first \in found /\ \A i \in found : first <= i
    <3>. HIDE DEF found
    <3>. QED  BY <1>4, <2>1, MinIsLeast
  <2>3. routes[first] \in Range(routes) /\ PathHasPrefix(path, routes[first].prefix)
    BY <2>2 DEF Range
  <2>4. ASSUME NEW s \in Range(routes), PathHasPrefix(path, s.prefix)
        PROVE  Len(s.prefix) <= Len(routes[first].prefix)
    <3>1. PICK i \in DOMAIN routes : s = routes[i]
      BY DEF Range
    <3>2. i \in found /\ first \in DOMAIN routes
      BY <2>2, <2>4, <3>1
    <3>3. first = i \/ first < i
      BY <1>1, <2>2, <3>2
    <3>4. Len(routes[i].prefix) \in Nat /\ Len(routes[first].prefix) \in Nat
      BY <3>2 DEF Routes
    <3>. HIDE DEF first
    <3>. QED  BY <3>1, <3>2, <3>3, <3>4 DEF LongestFirst
  <2>. QED  BY <1>2, <1>4, <2>3, <2>4
<1>. QED  BY <1>3, <1>4

\* A prefix that no route covers is listed by a route below it, if there is one.
LEMMA StoreForPrefixIsBelow ==
    ASSUME NEW S, NEW routes \in Seq(Routes(S)), NEW prefix \in Seq(STRING), prefix # None,
           StoreForLocation(routes, prefix) = None
    PROVE  \/ /\ StoreForPrefix(routes, prefix) = None
              /\ \A r \in Range(routes) : ~PathHasPrefix(r.prefix, prefix)
           \/ \E r \in Range(routes) :
                StoreForPrefix(routes, prefix) = r.store /\ PathHasPrefix(r.prefix, prefix)
<1>. DEFINE found == {i \in DOMAIN routes : PathHasPrefix(routes[i].prefix, prefix)}
<1>1. StoreForPrefix(routes, prefix) = IF found = {} THEN None ELSE routes[Min(found)].store
  BY DEF StoreForPrefix, FirstRoute
<1>2. CASE found = {}
  BY <1>1, <1>2 DEF Range
<1>3. CASE found # {}
  <2>1. found \subseteq Nat
    OBVIOUS
  <2>2. Min(found) \in found
    <3>. HIDE DEF found
    <3>. QED  BY <1>3, <2>1, MinIsLeast
  <2>. QED  BY <1>1, <1>3, <2>2 DEF Range
<1>. QED  BY <1>2, <1>3
=============================================================================
