------------------------- MODULE MetadataWalkProofs --------------------------
(***************************************************************************)
(* The theorems of MetadataWalk: for every Unity Catalog, every request    *)
(* and every page size, a walk that is answered brings each wanted object  *)
(* that is there all the time once, and nothing that is never there, and   *)
(* the rows that are promised in an order come in it.                      *)
(***************************************************************************)
EXTENDS MetadataWalk, SequenceFacts

-----------------------------------------------------------------------------
(* The order of names. *)

Strings == Seq(Range(Alphabet))

\* A character has one place in the alphabet.
LEMMA RankInjective ==
    ASSUME NEW c \in Range(Alphabet), NEW d \in Range(Alphabet)
    PROVE  Rank(c) \in Nat /\ (Rank(c) = Rank(d) => c = d)
<1>1. DOMAIN Alphabet = 1..Len(Alphabet) /\ Len(Alphabet) \in Nat
  BY UnityAssumption
<1>2. ASSUME NEW e \in Range(Alphabet)
      PROVE  Rank(e) \in DOMAIN Alphabet /\ Alphabet[Rank(e)] = e
  BY DEF Rank, Range
<1>. QED  BY <1>1, <1>2

\* Strings compare by a total order.
LEMMA StringBeforeIsTotal ==
    ASSUME NEW x \in Strings, NEW y \in Strings
    PROVE  x = y \/ StringBefore(x, y) \/ StringBefore(y, x)
<1>. DEFINE T == {k \in 1..Len(x) : k <= Len(y) /\ x[k] # y[k]}
<1>1. Len(x) \in Nat /\ Len(y) \in Nat /\ T \subseteq Nat
  BY DEF Strings
<1>2. CASE T = {}
  <2>1. \A k \in 1..Len(x) : k <= Len(y) => x[k] = y[k]
    BY <1>2
  <2>2. CASE Len(x) = Len(y)
    <3>1. \A k \in 1..Len(x) : x[k] = y[k]
      BY <1>1, <2>1, <2>2
    <3>2. x = y
      BY <2>2, <3>1, SeqEqual DEF Strings
    <3>. QED  BY <3>2
  <2>3. CASE Len(x) < Len(y)
    <3>1. /\ Len(x) + 1 \in 1..Len(y) /\ Len(x) + 1 <= Len(x) + 1 /\ ~(Len(x) + 1 <= Len(x))
          /\ \A i \in 1..((Len(x) + 1) - 1) : x[i] = y[i]
      BY <1>1, <2>1, <2>3
    <3>2. StringBefore(x, y)
      BY <3>1 DEF StringBefore
    <3>. QED  BY <3>2
  <2>4. CASE Len(y) < Len(x)
    <3>1. /\ Len(y) + 1 \in 1..Len(x) /\ Len(y) + 1 <= Len(y) + 1 /\ ~(Len(y) + 1 <= Len(y))
          /\ \A i \in 1..((Len(y) + 1) - 1) : y[i] = x[i]
      BY <1>1, <2>1, <2>4
    <3>2. StringBefore(y, x)
      BY <3>1 DEF StringBefore
    <3>. QED  BY <3>2
  <2>. QED  BY <1>1, <2>2, <2>3, <2>4
<1>3. CASE T # {}
  <2>1. PICK k \in T : \A l \in T : k <= l
    <3>. HIDE DEF T
    <3>. QED  BY <1>1, <1>3, LeastExists
  <2>2. /\ k \in 1..Len(x) /\ k \in 1..Len(y) /\ x[k] # y[k]
        /\ k <= Len(x) + 1 /\ k <= Len(y) + 1
    BY <1>1
  <2>3. \A i \in 1..(k - 1) : x[i] = y[i]
    <3>1. \A i \in 1..(k - 1) : i \in 1..Len(x) /\ i <= Len(y) /\ ~(k <= i)
      BY <1>1, <2>2
    <3>. QED  BY <2>1, <3>1
  <2>4. x[k] \in Range(Alphabet) /\ y[k] \in Range(Alphabet)
    BY <2>2 DEF Strings
  <2>5. Rank(x[k]) < Rank(y[k]) \/ Rank(y[k]) < Rank(x[k])
    BY <2>2, <2>4, RankInjective
  <2>. QED  BY <2>2, <2>3, <2>5 DEF StringBefore
<1>. QED  BY <1>2, <1>3

\* No string is before itself.
LEMMA StringBeforeIrreflexive ==
    ASSUME NEW x \in Strings
    PROVE  ~StringBefore(x, x)
<1>1. \A k \in 1..Len(x) : Rank(x[k]) \in Nat
  BY RankInjective DEF Strings
<1>. QED  BY <1>1 DEF StringBefore

\* What is before a string is before those that follow it.
LEMMA StringBeforeTransitive ==
    ASSUME NEW x \in Strings, NEW y \in Strings, NEW z \in Strings,
           StringBefore(x, y), StringBefore(y, z)
    PROVE  StringBefore(x, z)
<1>0. Len(x) \in Nat /\ Len(y) \in Nat /\ Len(z) \in Nat
  BY DEF Strings
<1>1. PICK k \in 1..Len(y) : /\ k <= Len(x) + 1
                             /\ \A i \in 1..(k - 1) : x[i] = y[i]
                             /\ k <= Len(x) => Rank(x[k]) < Rank(y[k])
  BY DEF StringBefore
<1>2. PICK l \in 1..Len(z) : /\ l <= Len(y) + 1
                             /\ \A i \in 1..(l - 1) : y[i] = z[i]
                             /\ l <= Len(y) => Rank(y[l]) < Rank(z[l])
  BY DEF StringBefore
<1>3. /\ \A i \in 1..Len(x) : Rank(x[i]) \in Nat
      /\ \A i \in 1..Len(y) : Rank(y[i]) \in Nat
      /\ \A i \in 1..Len(z) : Rank(z[i]) \in Nat
  BY RankInjective DEF Strings
<1>4. CASE k < l
  <2>1. k \in 1..Len(z) /\ k \in 1..(l - 1) /\ \A i \in 1..(k - 1) : i \in 1..(l - 1)
    BY <1>0, <1>4
  <2>2. y[k] = z[k] /\ \A i \in 1..(k - 1) : x[i] = z[i]
    BY <1>1, <1>2, <2>1
  <2>. QED  BY <1>1, <2>1, <2>2 DEF StringBefore
<1>5. CASE k = l
  <2>1. \A i \in 1..(k - 1) : x[i] = z[i]
    BY <1>1, <1>2, <1>5
  <2>2. k <= Len(y)
    BY <1>0
  <2>3. k <= Len(x) => Rank(x[k]) < Rank(z[k])
    <3>. SUFFICES ASSUME k <= Len(x)
                 PROVE  Rank(x[k]) < Rank(z[k])
      OBVIOUS
    <3>1. Rank(x[k]) < Rank(y[k]) /\ Rank(y[k]) < Rank(z[k])
      BY <1>1, <1>2, <1>5, <2>2
    <3>2. k \in 1..Len(x) /\ k \in 1..Len(y) /\ k \in 1..Len(z)
      BY <1>0, <1>5
    <3>3. Rank(x[k]) \in Nat /\ Rank(y[k]) \in Nat /\ Rank(z[k]) \in Nat
      BY <1>3, <3>2
    <3>. QED  BY <3>1, <3>3
  <2>. QED  BY <1>1, <1>5, <2>1, <2>3 DEF StringBefore
<1>6. CASE l < k
  <2>1. l <= Len(x) /\ l <= Len(y) /\ l \in 1..(k - 1) /\ \A i \in 1..(l - 1) : i \in 1..(k - 1)
    BY <1>0, <1>1, <1>6
  <2>2. x[l] = y[l] /\ \A i \in 1..(l - 1) : x[i] = z[i]
    BY <1>1, <1>2, <2>1
  <2>3. Rank(x[l]) < Rank(z[l]) /\ l <= Len(x) + 1
    BY <1>0, <1>2, <2>1, <2>2
  <2>. QED  BY <2>2, <2>3 DEF StringBefore
<1>. QED  BY <1>4, <1>5, <1>6

\* Strings that are not ordered are equal, so that a sort by them is one by a weak order.
LEMMA StringBeforeWeak ==
    ASSUME NEW x \in Strings, NEW y \in Strings, NEW z \in Strings
    PROVE  /\ StringBefore(x, y) => ~StringBefore(y, x)
           /\ StringBefore(x, z) => StringBefore(x, y) \/ StringBefore(y, z)
<1>1. StringBefore(x, y) => ~StringBefore(y, x)
  BY StringBeforeTransitive, StringBeforeIrreflexive
<1>2. StringBefore(x, z) => StringBefore(x, y) \/ StringBefore(y, z)
  BY StringBeforeIsTotal, StringBeforeTransitive
<1>. QED  BY <1>1, <1>2

-----------------------------------------------------------------------------
(* Paths. *)

\* The names that paths are made of: those of Unity's objects and those given.
GivenNames(r) == {PlanOf(r).levels[i].of : i \in 1..3}
PathNames == UNION ({Range(p) : p \in Objects} \cup {GivenNames(r) : r \in Requests})
Paths == Seq(PathNames)

\* An object is at or below a path.
Under(p, w) == Len(w) <= Len(p) /\ \A i \in 1..Len(w) : SameName(p[i], w[i])

\* What collects a vector leaves it as it is.
LEMMA VectorIs ==
    ASSUME NEW S, NEW s \in Seq(S)
    PROVE  Vector(s) = s
BY ConcatEmptySeq DEF Vector

\* An object is a path of one to three names, written in the alphabet.
LEMMA ObjectIsPath ==
    ASSUME NEW p \in Objects
    PROVE  /\ p \in Paths /\ Len(p) \in 1..3 /\ Len(p) \in Nat /\ DOMAIN p = 1..Len(p)
           /\ \A i \in 1..Len(p) : Lower(p[i]) \in Strings
<1>1. p \in Seq(Range(p)) /\ Len(p) \in 1..3 /\ \A i \in DOMAIN p : Lower(p[i]) \in Strings
  BY UnityAssumption DEF Strings
<1>2. Range(p) \subseteq PathNames
  BY DEF PathNames
<1>3. p \in Seq(PathNames)
  BY <1>1, <1>2, SeqMonotonic
<1>4. DOMAIN p = 1..Len(p)
  BY <1>1
<1>. QED  BY <1>1, <1>3, <1>4 DEF Paths

\* Two paths are the same when their names are, but for the case of letters.
LEMMA SamePathMeans ==
    ASSUME NEW p \in Paths, NEW q \in Paths
    PROVE  SamePath(p, q) <=> Len(p) = Len(q) /\ \A i \in 1..Len(p) : SameName(p[i], q[i])
<1>1. /\ DOMAIN p = 1..Len(p) /\ Len(p) \in Nat
      /\ DOMAIN q = 1..Len(q) /\ Len(q) \in Nat
  BY DEF Paths
<1>2. ASSUME SamePath(p, q)
      PROVE  Len(p) = Len(q) /\ \A i \in 1..Len(p) : SameName(p[i], q[i])
  <2>1. DOMAIN LowerPath(p) = 1..Len(p) /\ DOMAIN LowerPath(q) = 1..Len(q)
    BY <1>1 DEF LowerPath
  <2>2. 1..Len(p) = 1..Len(q)
    BY <1>2, <2>1 DEF SamePath
  <2>3. Len(p) = Len(q)
    <3>1. \A m, n \in Nat : 1..m = 1..n => m = n
      <4>. SUFFICES ASSUME NEW m \in Nat, NEW n \in Nat, m < n
                   PROVE  1..m # 1..n
        OBVIOUS
      <4>1. n \in 1..n /\ n \notin 1..m
        OBVIOUS
      <4>. QED  BY <4>1
    <3>. QED  BY <1>1, <2>2, <3>1
  <2>4. ASSUME NEW i \in 1..Len(p)
        PROVE  SameName(p[i], q[i])
    <3>1. LowerPath(p)[i] = Lower(p[i]) /\ LowerPath(q)[i] = Lower(q[i])
      BY <1>1, <2>3 DEF LowerPath
    <3>. QED  BY <1>2, <3>1 DEF SamePath, SameName
  <2>. QED  BY <2>3, <2>4
<1>3. ASSUME Len(p) = Len(q), \A i \in 1..Len(p) : SameName(p[i], q[i])
      PROVE  SamePath(p, q)
  BY <1>1, <1>3 DEF SamePath, LowerPath, SameName
<1>. QED  BY <1>2, <1>3

\* Objects differ in more than the case of letters.
LEMMA SameObject ==
    ASSUME NEW p \in Objects, NEW q \in Objects, SamePath(p, q)
    PROVE  p = q
<1>1. PICK i \in DOMAIN Universe, j \in DOMAIN Universe : p = Universe[i] /\ q = Universe[j]
  BY DEF Objects, Range
<1>. QED  BY <1>1, UnityAssumption

\* The path of the object an object is in.
LEMMA FrontIs ==
    ASSUME NEW p \in Paths, Len(p) >= 1
    PROVE  /\ Front(p) \in Paths /\ Len(Front(p)) = Len(p) - 1
           /\ \A i \in 1..(Len(p) - 1) : Front(p)[i] = p[i]
<1>1. Len(p) \in Nat /\ 0 \in 0..Len(p) /\ Len(p) - 1 \in 0..Len(p)
  BY DEF Paths
<1>2. /\ SubSeq(p, 0 + 1, Len(p) - 1) \in Seq(PathNames)
      /\ Len(SubSeq(p, 0 + 1, Len(p) - 1)) = Len(p) - 1 - 0
      /\ \A i \in 1..(Len(p) - 1 - 0) : SubSeq(p, 0 + 1, Len(p) - 1)[i] = p[0 + i]
  BY <1>1, Slice DEF Paths
<1>3. Len(p) - 1 - 0 = Len(p) - 1 /\ 0 + 1 = 1 /\ \A i \in 1..(Len(p) - 1) : 0 + i = i
  BY <1>1
<1>. QED  BY <1>2, <1>3 DEF Front, Paths

FrontClosed(S) == \A p \in S : Len(p) > 1 => Front(p) \in S

\* What is in a set that has what its objects are in.
LEMMA AncestorIn ==
    ASSUME NEW S \in SUBSET Objects, FrontClosed(S), NEW p \in S, NEW n \in 1..Len(p)
    PROVE  \E a \in S : Len(a) = n /\ \A i \in 1..n : a[i] = p[i]
<1>1. p \in Paths /\ Len(p) \in 1..3
  BY ObjectIsPath
<1>2. CASE n = Len(p)
  BY <1>2
<1>3. ASSUME NEW q \in S, Len(q) > 1
      PROVE  /\ Front(q) \in S /\ Front(q) \in Paths /\ Len(Front(q)) = Len(q) - 1
             /\ \A i \in 1..(Len(q) - 1) : Front(q)[i] = q[i]
  <2>1. q \in Paths /\ Len(q) >= 1
    BY <1>3, ObjectIsPath
  <2>. QED  BY <1>3, <2>1, FrontIs DEF FrontClosed
<1>4. CASE n = Len(p) - 1
  <2>1. Len(p) > 1
    BY <1>1, <1>4
  <2>. QED  BY <1>3, <1>4, <2>1
<1>5. CASE n = Len(p) - 2
  <2>1. Len(p) > 1 /\ Len(p) - 1 > 1
    BY <1>1, <1>5
  <2>. DEFINE q == Front(p)
  <2>2. q \in S /\ Len(q) = Len(p) - 1 /\ \A i \in 1..(Len(p) - 1) : q[i] = p[i]
    BY <1>3, <2>1
  <2>. HIDE DEF q
  <2>3. Front(q) \in S /\ Len(Front(q)) = Len(q) - 1 /\ \A i \in 1..(Len(q) - 1) : Front(q)[i] = q[i]
    BY <1>3, <2>1, <2>2
  <2>4. Len(q) - 1 = n /\ \A i \in 1..n : i \in 1..(Len(p) - 1)
    BY <1>1, <1>5, <2>2
  <2>. QED  BY <2>2, <2>3, <2>4
<1>6. n = Len(p) \/ n = Len(p) - 1 \/ n = Len(p) - 2
  <2>. DEFINE m == Len(p)
  <2>1. n \in 1..m /\ m \in 1..3
    BY <1>1
  <2>. HIDE DEF m
  <2>2. n = m \/ n = m - 1 \/ n = m - 2
    BY <2>1
  <2>. QED  BY <2>2 DEF m
<1>. QED  BY <1>2, <1>4, <1>5, <1>6

\* What Unity holds is listed once.
LEMMA UniverseLists == Enumerates(Universe, Objects)
<1>1. Universe \in Seq(Objects) /\ Range(Universe) = Objects
  BY UnityAssumption DEF Objects
<1>2. ASSUME NEW i \in DOMAIN Universe, NEW j \in DOMAIN Universe, Universe[i] = Universe[j]
      PROVE  i = j
  <2>1. SamePath(Universe[i], Universe[j])
    BY <1>2 DEF SamePath
  <2>. QED  BY <2>1, UnityAssumption
<1>. QED  BY <1>1, <1>2 DEF Enumerates

Children(path) == {p \in Objects : Len(p) = Len(path) + 1 /\ SamePath(Front(p), path)}

\* The siblings below a path are listed once.
LEMMA SiblingsAre ==
    ASSUME NEW path \in Paths
    PROVE  Enumerates(Siblings(path), Children(path))
<1>. DEFINE K == {i \in DOMAIN Universe : Len(Universe[i]) = Len(path) + 1
                                          /\ SamePath(Front(Universe[i]), path)}
<1>1. K \in SUBSET DOMAIN Universe
  OBVIOUS
<1>2. Siblings(path) = Vector(Retained(Universe, K))
  BY <1>1 DEF Siblings, Filtered
<1>3. {Universe[i] : i \in K} = Children(path)
  BY UniverseLists DEF Children, Enumerates, Range
<1>. HIDE DEF K
<1>4. Enumerates(Retained(Universe, K), Children(path))
  BY <1>1, <1>3, UniverseLists, RetainedLists
<1>5. Vector(Retained(Universe, K)) = Retained(Universe, K)
  BY <1>4, VectorIs DEF Enumerates
<1>. QED  BY <1>2, <1>4, <1>5

-----------------------------------------------------------------------------
(* Plans, and the paths that the loops of a plan go through. *)

PlanOK == request \in Requests /\ plan = PlanOf(request) /\ plan.ok = TRUE

\* What is assumed of the plan of a request.
LEMMA PlanFacts ==
    ASSUME PlanOK
    PROVE  /\ Depth \in 1..3 /\ Len(plan.levels) = Depth /\ DOMAIN plan.levels = 1..Depth
           /\ \A i \in 1..Depth : plan.levels[i].of \in PathNames
           /\ plan.details = None => plan.levels[Depth].how # "only"
           /\ plan.details # None => /\ plan.details \in {"columns", "row_filter", "information"}
                                     /\ Depth = 3
           /\ Depth = 3 /\ plan.levels[3].how = "only" => plan.kind = "any"
           /\ Ordered(request) =>
                \/ "rows" \in plan.sorts
                \/ plan.details = "columns" /\ \A i \in 1..Depth : plan.levels[i].how = "only"
<1>1. plan \in {PlanOf(request)} /\ request \in Requests /\ plan.ok = TRUE
  BY DEF PlanOK
<1>2. /\ \E n \in 1..3 : plan.levels = [i \in 1..n |-> plan.levels[i]]
      /\ IF plan.details = None THEN plan.levels[Len(plan.levels)].how # "only"
         ELSE /\ plan.details \in {"columns", "row_filter", "information"}
              /\ Len(plan.levels) = 3
      /\ Len(plan.levels) = 3 /\ plan.levels[3].how = "only" => plan.kind = "any"
      /\ Ordered(request) =>
           \/ "rows" \in plan.sorts
           \/ plan.details = "columns" /\ \A i \in DOMAIN plan.levels : plan.levels[i].how = "only"
  BY <1>1, PlanAssumption
<1>3. PICK n \in 1..3 : plan.levels = [i \in 1..n |-> plan.levels[i]]
  BY <1>2
<1>4. Len(plan.levels) = n /\ DOMAIN plan.levels = 1..n
  <2>. DEFINE s == [i \in 1..n |-> plan.levels[i]]
  <2>1. n \in Nat /\ s \in [1..n -> {plan.levels[i] : i \in 1..n}]
    OBVIOUS
  <2>2. Len(s) = n /\ DOMAIN s = 1..n
    BY <2>1
  <2>. HIDE DEF s
  <2>3. plan.levels = s
    BY <1>3 DEF s
  <2>. QED  BY <2>2, <2>3
<1>5. \A i \in 1..n : plan.levels[i].of \in PathNames
  <2>. SUFFICES ASSUME NEW i \in 1..n
               PROVE  plan.levels[i].of \in PathNames
    OBVIOUS
  <2>1. i \in 1..3
    OBVIOUS
  <2>2. plan.levels[i].of \in GivenNames(request)
    BY <2>1 DEF PlanOK, GivenNames
  <2>. QED  BY <1>1, <2>2 DEF PathNames
<1>. QED  BY <1>2, <1>4, <1>5 DEF Depth

\* The names of a path are those given, or names of objects that their level selects;
\* where no name is given there is nothing of another spelling.
Legit(w) ==
    /\ Len(w) <= Depth
    /\ \A i \in 1..Len(w) :
         /\ plan.levels[i].how = "only" => w[i] = plan.levels[i].of
         /\ plan.levels[i].how # "only" =>
              /\ plan.levels[i].how # "never"
              /\ Selects(plan.levels[i], w[i])
              /\ \A o \in Objects : Under(o, w) => o[i] = w[i]
    /\ Len(w) = 3 /\ plan.kind # "any" =>
         \A o \in Objects : Under(o, w) => (IsViewLike(o) <=> plan.kind = "view")

\* The object at a path is wanted, and is reported by the path, or as Unity has it.
LEMMA LegitWanted ==
    ASSUME PlanOK, NEW w \in Paths, Legit(w), Len(w) = Depth,
           NEW p \in Objects, Under(p, w), Len(p) = Depth
    PROVE  Wanted(p) /\ Reported(p) = IF plan.reports = "unity" THEN p ELSE w
<1>1. /\ Depth \in 1..3 /\ DOMAIN p = 1..Depth /\ DOMAIN w = 1..Depth
      /\ p \in Seq(PathNames) /\ w \in Seq(PathNames)
  BY PlanFacts, ObjectIsPath DEF Paths
<1>2. ASSUME NEW i \in 1..Depth
      PROVE  /\ plan.levels[i].how = "only" => SameName(p[i], plan.levels[i].of)
             /\ plan.levels[i].how # "only" => /\ plan.levels[i].how # "never"
                                               /\ Selects(plan.levels[i], p[i])
             /\ plan.levels[i].how # "only" => p[i] = w[i]
             /\ plan.levels[i].how = "only" => plan.levels[i].of = w[i]
  BY DEF Legit, Under
<1>3. Depth = 3 /\ plan.kind # "any" => (IsViewLike(p) <=> plan.kind = "view")
  BY DEF Legit
<1>4. Wanted(p)
  BY <1>2, <1>3 DEF Wanted
<1>5. CASE plan.reports = "unity"
  <2>1. Reported(p) = [i \in 1..Depth |-> p[i]]
    BY <1>1, <1>5 DEF Reported
  <2>2. p = [i \in 1..Depth |-> p[i]]
    BY <1>1
  <2>. QED  BY <1>4, <1>5, <2>1, <2>2
<1>6. CASE plan.reports # "unity"
  <2>1. Reported(p) = [i \in 1..Depth |-> w[i]]
    BY <1>1, <1>2, <1>6 DEF Reported
  <2>2. w = [i \in 1..Depth |-> w[i]]
    BY <1>1
  <2>. QED  BY <1>4, <1>6, <2>1, <2>2
<1>. QED  BY <1>5, <1>6

\* An object is reported with its own names, but for the case of their letters.
LEMMA ReportedSame ==
    ASSUME PlanOK, NEW p \in Objects, Wanted(p)
    PROVE  /\ LowerPath(Reported(p)) = LowerPath(p) /\ DOMAIN Reported(p) = 1..Depth
           /\ \A i \in 1..Depth : LowerPath(p)[i] \in Strings
           /\ DOMAIN LowerPath(p) = 1..Depth
<1>1. Len(p) = Depth /\ DOMAIN p = 1..Depth /\ \A i \in 1..Depth : Lower(p[i]) \in Strings
  BY ObjectIsPath DEF Wanted
<1>2. DOMAIN Reported(p) = 1..Depth
  BY <1>1 DEF Reported
<1>3. ASSUME NEW i \in 1..Depth
      PROVE  Lower(Reported(p)[i]) = Lower(p[i])
  <2>1. CASE plan.reports # "unity" /\ plan.levels[i].how = "only"
    <3>1. Reported(p)[i] = plan.levels[i].of
      BY <1>1, <2>1 DEF Reported
    <3>2. SameName(p[i], plan.levels[i].of)
      BY <2>1 DEF Wanted
    <3>. QED  BY <3>1, <3>2 DEF SameName
  <2>2. CASE ~(plan.reports # "unity" /\ plan.levels[i].how = "only")
    BY <1>1, <2>2 DEF Reported
  <2>. QED  BY <2>1, <2>2
<1>4. LowerPath(Reported(p)) = LowerPath(p)
  BY <1>1, <1>2, <1>3 DEF LowerPath
<1>. QED  BY <1>1, <1>2, <1>4 DEF LowerPath

\* Every object is in another that may exist.
LEMMA ObjectsClosed == FrontClosed(Objects)
BY UnityAssumption DEF FrontClosed

\* Where the name of a child that is kept leads.
LEMMA ChildPath ==
    ASSUME NEW path \in Paths, NEW p \in Children(path)
    PROVE  LET w == Append(path, Last(p))
           IN /\ w \in Paths /\ Len(w) = Len(path) + 1 /\ Len(p) = Len(w) /\ Last(p) = p[Len(w)]
              /\ w[Len(w)] = p[Len(w)] /\ \A i \in 1..Len(path) : w[i] = path[i]
              /\ Under(p, w)
              /\ \A o \in Objects :
                   Under(o, w) => /\ Under(o, path) /\ Len(p) <= Len(o)
                                  /\ \A i \in 1..Len(p) : o[i] = p[i]
<1>. DEFINE w == Append(path, Last(p))
            n == Len(path) + 1
<1>1. /\ p \in Objects /\ Len(p) = n /\ SamePath(Front(p), path)
      /\ p \in Paths /\ Len(path) \in Nat /\ n \in Nat
  BY ObjectIsPath DEF Children, Paths
<1>2. Last(p) = p[n] /\ p[n] \in PathNames
  <2>1. Last(p) = p[n]
    BY <1>1 DEF Last
  <2>2. n \in 1..Len(p)
    BY <1>1
  <2>3. p[n] \in PathNames
    BY <1>1, <2>2 DEF Paths
  <2>. QED  BY <2>1, <2>3
<1>3. /\ w \in Paths /\ Len(w) = n /\ w[n] = p[n] /\ \A i \in 1..Len(path) : w[i] = path[i]
  BY <1>2, AppendProperties DEF Paths
<1>4. \A i \in 1..Len(path) : SameName(p[i], path[i])
  <2>1. Front(p) \in Paths /\ Len(Front(p)) = Len(path)
        /\ \A i \in 1..Len(path) : Front(p)[i] = p[i]
    <3>1. Len(p) >= 1 /\ Len(p) - 1 = Len(path)
      BY <1>1
    <3>. QED  BY <1>1, <3>1, FrontIs
  <2>. QED  BY <1>1, <2>1, SamePathMeans
<1>. HIDE DEF w
<1>5. \A i \in 1..n : SameName(p[i], w[i])
  <2>1. \A i \in 1..n : i \in 1..Len(path) \/ i = n
    BY <1>1
  <2>. QED  BY <1>3, <1>4, <2>1 DEF SameName
<1>6. Under(p, w)
  BY <1>1, <1>3, <1>5 DEF Under
<1>7. ASSUME NEW o \in Objects, Under(o, w)
      PROVE  Under(o, path) /\ Len(p) <= Len(o) /\ \A i \in 1..Len(p) : o[i] = p[i]
  <2>1. Len(o) \in Nat /\ n <= Len(o) /\ \A i \in 1..n : SameName(o[i], w[i])
    BY <1>3, <1>7, ObjectIsPath DEF Under
  <2>2. Under(o, path)
    <3>1. Len(path) <= Len(o) /\ \A i \in 1..Len(path) : i \in 1..n
      BY <1>1, <2>1
    <3>. QED  BY <1>3, <2>1, <3>1 DEF Under
  <2>3. PICK a \in Objects : Len(a) = n /\ \A i \in 1..n : a[i] = o[i]
    <3>1. n \in 1..Len(o)
      BY <1>1, <2>1
    <3>. QED  BY <3>1, ObjectsClosed, AncestorIn
  <2>4. SamePath(a, p)
    <3>1. \A i \in 1..n : SameName(a[i], p[i])
      BY <1>5, <2>1, <2>3 DEF SameName
    <3>. QED  BY <1>1, <2>3, <3>1, SamePathMeans, ObjectIsPath
  <2>5. a = p
    BY <1>1, <2>4, SameObject
  <2>. QED  BY <1>1, <2>1, <2>2, <2>3, <2>5
<1>. QED  BY <1>1, <1>2, <1>3, <1>6, <1>7 DEF w

\* The name of a child that is kept goes on with a path.
LEMMA ChildLegit ==
    ASSUME PlanOK, NEW path \in Paths, Legit(path), Len(path) < Depth,
           plan.levels[Len(path) + 1].how \notin {"only", "never"},
           NEW p \in Children(path), Selects(plan.levels[Len(path) + 1], Last(p)),
           Len(p) = 3 /\ plan.kind # "any" => (IsViewLike(p) <=> plan.kind = "view")
    PROVE  Legit(Append(path, Last(p)))
<1>. DEFINE w == Append(path, Last(p))
<1>1. /\ w \in Paths /\ Len(w) = Len(path) + 1 /\ Len(p) = Len(w) /\ Last(p) = p[Len(w)]
      /\ w[Len(w)] = p[Len(w)] /\ \A i \in 1..Len(path) : w[i] = path[i]
      /\ \A o \in Objects : Under(o, w) => /\ Under(o, path) /\ Len(p) <= Len(o)
                                           /\ \A i \in 1..Len(p) : o[i] = p[i]
  BY ChildPath
<1>. HIDE DEF w
<1>2. Depth \in 1..3 /\ Len(path) \in Nat
  BY PlanFacts DEF Paths
<1>3. Len(w) <= Depth
  BY <1>1, <1>2
<1>4. ASSUME NEW i \in 1..Len(w)
      PROVE  /\ plan.levels[i].how = "only" => w[i] = plan.levels[i].of
             /\ plan.levels[i].how # "only" =>
                  /\ plan.levels[i].how # "never"
                  /\ Selects(plan.levels[i], w[i])
                  /\ \A o \in Objects : Under(o, w) => o[i] = w[i]
  <2>1. CASE i = Len(w)
    BY <1>1, <2>1
  <2>2. CASE i # Len(w)
    <3>1. i \in 1..Len(path)
      BY <1>1, <1>2, <2>2
    <3>. QED  BY <1>1, <3>1 DEF Legit
  <2>. QED  BY <2>1, <2>2
<1>5. ASSUME Len(w) = 3, plan.kind # "any", NEW o \in Objects, Under(o, w)
      PROVE  IsViewLike(o) <=> plan.kind = "view"
  <2>1. Len(o) \in 1..3 /\ Len(p) <= Len(o) /\ Len(p) = 3 /\ \A i \in 1..3 : o[i] = p[i]
    BY <1>1, <1>5, ObjectIsPath
  <2>2. o = p
    <3>1. Len(o) = 3 /\ p \in Objects
      BY <2>1 DEF Children
    <3>2. SamePath(o, p)
      BY <2>1, <3>1, SamePathMeans, ObjectIsPath DEF SameName
    <3>. QED  BY <3>1, <3>2, SameObject
  <2>. QED  BY <1>5, <2>1, <2>2
<1>6. Legit(w)
  BY <1>3, <1>4, <1>5 DEF Legit
<1>. QED  BY <1>6 DEF w

\* A path completed with the names given goes on until a name is not given.
LEMMA FixedIs ==
    ASSUME PlanOK, NEW path \in Paths, Len(path) <= Depth
    PROVE  LET w == Fixed(plan.levels, path)
           IN /\ w \in Paths /\ Len(w) \in Len(path)..Depth
              /\ \A i \in 1..Len(path) : w[i] = path[i]
              /\ \A i \in (Len(path) + 1)..Len(w) :
                   plan.levels[i].how = "only" /\ w[i] = plan.levels[i].of
              /\ Len(w) < Depth => plan.levels[Len(w) + 1].how # "only"
<1>. DEFINE m == Len(path)
            S == {n \in m..Depth : \A i \in (m + 1)..n : plan.levels[i].how = "only"}
            upto == Max(S)
            names == [i \in 1..(upto - m) |-> plan.levels[m + i].of]
            w == Fixed(plan.levels, path)
<1>1. m \in Nat /\ Depth \in Nat /\ Len(plan.levels) = Depth
      /\ \A i \in 1..Depth : plan.levels[i].of \in PathNames
  BY PlanFacts DEF Paths
<1>2. S \subseteq 0..Depth /\ m \in S
  BY <1>1
<1>3. upto \in S /\ \A n \in S : n <= upto
  <2>1. S # {}
    BY <1>2
  <2>. HIDE DEF S
  <2>. QED  BY <1>1, <1>2, <2>1, MaxIsGreatest
<1>4. w = path \o names
  BY <1>1 DEF Fixed
<1>5. upto \in m..Depth /\ \A i \in (m + 1)..upto : plan.levels[i].how = "only"
  BY <1>3
<1>6. upto < Depth => plan.levels[upto + 1].how # "only"
  <2>. SUFFICES ASSUME upto < Depth, plan.levels[upto + 1].how = "only"
               PROVE  FALSE
    OBVIOUS
  <2>. HIDE DEF upto
  <2>1. upto + 1 \in m..Depth /\ \A i \in (m + 1)..(upto + 1) : i \in (m + 1)..upto \/ i = upto + 1
    BY <1>1, <1>5
  <2>2. upto + 1 \in S
    BY <1>5, <2>1
  <2>. QED  BY <1>1, <1>3, <1>5, <2>2
<1>. HIDE DEF upto, S
<1>7. names \in Seq(PathNames) /\ Len(names) = upto - m
      /\ \A i \in 1..(upto - m) : names[i] = plan.levels[m + i].of
  <2>1. upto - m \in Nat /\ \A i \in 1..(upto - m) : m + i \in 1..Depth
    BY <1>1, <1>5
  <2>2. \A i \in 1..(upto - m) : plan.levels[m + i].of \in PathNames
    BY <1>1, <2>1
  <2>. QED  BY <2>1, <2>2
<1>. HIDE DEF names
<1>8. /\ w \in Seq(PathNames) /\ Len(w) = m + (upto - m)
      /\ \A i \in 1..m : w[i] = path[i]
      /\ \A i \in (m + 1)..(m + (upto - m)) : w[i] = names[i - m]
  <2>1. path \in Seq(PathNames)
    BY DEF Paths
  <2>2. /\ path \o names \in Seq(PathNames) /\ Len(path \o names) = Len(path) + Len(names)
        /\ \A i \in 1..Len(path) : (path \o names)[i] = path[i]
        /\ \A i \in (Len(path) + 1)..(Len(path) + Len(names)) :
             (path \o names)[i] = names[i - Len(path)]
    BY <1>7, <2>1, ConcatProperties
  <2>. HIDE DEF w
  <2>. QED  BY <1>4, <1>7, <2>2
<1>9. m + (upto - m) = upto /\ \A i \in (m + 1)..upto : i - m \in 1..(upto - m) /\ m + (i - m) = i
  BY <1>1, <1>5
<1>10. \A i \in (m + 1)..upto : w[i] = plan.levels[i].of
  BY <1>7, <1>8, <1>9
<1>11. Len(w) = upto
  BY <1>8, <1>9
<1>. HIDE DEF w
<1>. QED  BY <1>5, <1>6, <1>8, <1>10, <1>11 DEF Paths, w

\* Such a path is legitimate, and has every wanted object below it that is below
\* the path it completes.
LEMMA FixedLegit ==
    ASSUME PlanOK, NEW path \in Paths, Legit(path)
    PROVE  LET w == Fixed(plan.levels, path)
           IN /\ Legit(w)
              /\ \A o \in Objects : Under(o, w) => Under(o, path)
              /\ \A o \in Objects : Wanted(o) /\ Under(o, path) => Under(o, w)
<1>. DEFINE w == Fixed(plan.levels, path)
            m == Len(path)
<1>1. /\ w \in Paths /\ Len(w) \in m..Depth /\ Depth \in 1..3 /\ m \in Nat
      /\ \A i \in 1..m : w[i] = path[i]
      /\ \A i \in (m + 1)..Len(w) : plan.levels[i].how = "only" /\ w[i] = plan.levels[i].of
  BY FixedIs, PlanFacts DEF Legit, Paths
<1>2. \A i \in 1..Len(w) : i \in 1..m \/ i \in (m + 1)..Len(w)
  BY <1>1
<1>3. \A i \in 1..m : i \in 1..Len(w)
  BY <1>1
<1>. HIDE DEF w
<1>4. ASSUME NEW o \in Objects, Under(o, w)
      PROVE  Under(o, path)
  <2>1. Len(o) \in Nat
    BY ObjectIsPath
  <2>2. m <= Len(o)
    BY <1>1, <1>4, <2>1 DEF Under
  <2>. QED  BY <1>1, <1>3, <1>4, <2>2 DEF Under
<1>5. ASSUME NEW o \in Objects, Wanted(o), Under(o, path)
      PROVE  Under(o, w)
  <2>1. Len(w) <= Len(o)
    BY <1>1, <1>5 DEF Wanted
  <2>2. ASSUME NEW i \in 1..Len(w)
        PROVE  SameName(o[i], w[i])
    <3>1. CASE i \in 1..m
      BY <1>1, <1>5, <3>1 DEF Under
    <3>2. CASE i \in (m + 1)..Len(w)
      <4>1. i \in 1..Depth
        BY <1>1
      <4>. QED  BY <1>1, <1>5, <3>2, <4>1 DEF Wanted
    <3>. QED  BY <1>2, <3>1, <3>2
  <2>. QED  BY <2>1, <2>2 DEF Under
<1>6. ASSUME NEW i \in 1..Len(w)
      PROVE  /\ plan.levels[i].how = "only" => w[i] = plan.levels[i].of
             /\ plan.levels[i].how # "only" =>
                  /\ plan.levels[i].how # "never"
                  /\ Selects(plan.levels[i], w[i])
                  /\ \A o \in Objects : Under(o, w) => o[i] = w[i]
  <2>1. CASE i \in 1..m
    BY <1>1, <1>4, <2>1 DEF Legit
  <2>2. CASE i \in (m + 1)..Len(w)
    BY <1>1, <2>2
  <2>. QED  BY <1>2, <2>1, <2>2
<1>7. ASSUME Len(w) = 3, plan.kind # "any", NEW o \in Objects, Under(o, w)
      PROVE  IsViewLike(o) <=> plan.kind = "view"
  <2>1. CASE m = 3
    BY <1>4, <1>7, <2>1 DEF Legit
  <2>2. CASE m # 3
    <3>1. 3 \in (m + 1)..Len(w) /\ Depth = 3
      BY <1>1, <1>7, <2>2
    <3>. QED  BY <1>1, <1>7, <3>1, PlanFacts
  <2>. QED  BY <2>1, <2>2
<1>8. Legit(w)
  BY <1>1, <1>6, <1>7 DEF Legit
<1>. QED  BY <1>4, <1>5, <1>8 DEF w

\* A path of the loops: one to list, or one to read the details of.
Good(w) ==
    /\ Legit(w)
    /\ Len(w) < Depth => plan.levels[Len(w) + 1].how \notin {"only", "never"}
    /\ Len(w) = Depth => plan.details # None

\* No object is below two of some paths.
Apart(paths) ==
    \A i, j \in DOMAIN paths : \A o \in Objects : Under(o, paths[i]) /\ Under(o, paths[j]) => i = j

\* The loops below some paths go through paths below them, and miss nothing.
LEMMA PathsBelowIs ==
    ASSUME PlanOK, NEW paths \in Seq(Paths),
           \A i \in DOMAIN paths : Legit(paths[i]) /\ (Len(paths[i]) = Depth => plan.details # None),
           Apart(paths)
    PROVE  LET ws == PathsBelow(plan.levels, paths)
           IN /\ ws \in Seq(Paths) /\ Apart(ws) /\ \A k \in DOMAIN ws : Good(ws[k])
              /\ \A k \in DOMAIN ws : \E i \in DOMAIN paths :
                   \A o \in Objects : Under(o, ws[k]) => Under(o, paths[i])
              /\ \A i \in DOMAIN paths : \A o \in Objects :
                   Wanted(o) /\ Under(o, paths[i]) => \E k \in DOMAIN ws : Under(o, ws[k])
              /\ Len(paths) = 1 => Len(ws) <= 1
<1>. DEFINE ws == PathsBelow(plan.levels, paths)
            fixed == [i \in DOMAIN paths |-> Fixed(plan.levels, paths[i])]
            Dead(w) == Len(w) < Depth /\ plan.levels[Len(w) + 1].how = "never"
            K == {i \in DOMAIN fixed : ~Dead(fixed[i])}
            n == Cardinality(K)
<1>1. DOMAIN paths = 1..Len(paths) /\ Len(paths) \in Nat /\ \A i \in DOMAIN paths : paths[i] \in Paths
  OBVIOUS
<1>2. ASSUME NEW i \in DOMAIN paths
      PROVE  /\ fixed[i] \in Paths /\ Legit(fixed[i]) /\ Len(fixed[i]) \in Nat
             /\ Len(fixed[i]) < Depth => plan.levels[Len(fixed[i]) + 1].how # "only"
             /\ Len(fixed[i]) = Depth => plan.details # None
             /\ \A o \in Objects : Under(o, fixed[i]) => Under(o, paths[i])
             /\ \A o \in Objects : Wanted(o) /\ Under(o, paths[i]) => Under(o, fixed[i])
  <2>. DEFINE path == paths[i]
              w == Fixed(plan.levels, path)
  <2>1. path \in Paths /\ Legit(path) /\ Len(path) <= Depth /\ Len(path) \in Nat
    BY <1>1 DEF Legit, Paths
  <2>2. /\ w \in Paths /\ Len(w) \in Len(path)..Depth
        /\ \A l \in (Len(path) + 1)..Len(w) :
             plan.levels[l].how = "only" /\ w[l] = plan.levels[l].of
        /\ Len(w) < Depth => plan.levels[Len(w) + 1].how # "only"
    <3>. HIDE DEF path
    <3>. QED  BY <2>1, FixedIs
  <2>3. /\ Legit(w)
        /\ \A o \in Objects : Under(o, w) => Under(o, path)
        /\ \A o \in Objects : Wanted(o) /\ Under(o, path) => Under(o, w)
    <3>. HIDE DEF path
    <3>. QED  BY <2>1, FixedLegit
  <2>4. Len(w) = Depth => plan.details # None
    <3>. SUFFICES ASSUME Len(w) = Depth, Len(path) # Depth
                 PROVE  plan.details # None
      OBVIOUS
    <3>. HIDE DEF w, path
    <3>1. Depth \in 1..3
      BY PlanFacts
    <3>2. Depth \in (Len(path) + 1)..Len(w)
      BY <2>1, <3>1
    <3>. QED  BY <2>2, <3>2, PlanFacts
  <2>5. fixed[i] = w /\ Len(w) \in Nat
    BY <2>2 DEF Paths
  <2>. HIDE DEF w, fixed
  <2>. QED  BY <2>2, <2>3, <2>4, <2>5 DEF path
<1>3. fixed \in Seq(Paths) /\ DOMAIN fixed = DOMAIN paths
  BY <1>1, <1>2
<1>4. ws = Vector(Retained(fixed, K))
  <2>1. Len(plan.levels) = Depth
    BY PlanFacts
  <2>. QED  BY <2>1 DEF PathsBelow, Filtered
<1>5. K \in SUBSET DOMAIN fixed
  OBVIOUS
<1>6. \A i \in K : ~Dead(fixed[i])
  OBVIOUS
<1>7. \A i \in DOMAIN paths : ~Dead(fixed[i]) => i \in K
  OBVIOUS
<1>. HIDE DEF fixed, K
<1>8. ws = Retained(fixed, K)
  BY <1>3, <1>4, <1>5, RetainedRange, VectorIs
<1>9. PICK at \in [1..n -> K] :
             /\ n \in Nat
             /\ ws = [k \in 1..n |-> fixed[at[k]]]
             /\ \A i \in K : \E k \in 1..n : at[k] = i
             /\ \A k, l \in 1..n : k < l => at[k] < at[l]
  BY <1>3, <1>5, <1>8, RetainedPlaces
<1>. HIDE DEF n, ws
<1>10. \A k \in 1..n : at[k] \in K /\ at[k] \in DOMAIN paths /\ ws[k] = fixed[at[k]]
  BY <1>3, <1>5, <1>9
<1>11. ws \in Seq(Paths) /\ DOMAIN ws = 1..n /\ Len(ws) = n
  <2>1. \A k \in 1..n : fixed[at[k]] \in Paths
    BY <1>2, <1>10
  <2>. QED  BY <1>9, <2>1
<1>12. \A k \in DOMAIN ws : Good(ws[k])
  BY <1>2, <1>6, <1>10, <1>11 DEF Good
<1>13. Apart(ws)
  <2>. SUFFICES ASSUME NEW k \in 1..n, NEW l \in 1..n, NEW o \in Objects,
                       Under(o, ws[k]), Under(o, ws[l])
               PROVE  k = l
    BY <1>11 DEF Apart
  <2>1. Under(o, paths[at[k]]) /\ Under(o, paths[at[l]])
    BY <1>2, <1>10
  <2>2. at[k] = at[l] /\ at[k] \in Nat
    BY <1>1, <1>10, <2>1 DEF Apart
  <2>3. ~(k < l) /\ ~(l < k)
    BY <1>9, <2>2
  <2>. QED  BY <1>9, <2>3
<1>14. \A k \in DOMAIN ws : \E i \in DOMAIN paths :
         \A o \in Objects : Under(o, ws[k]) => Under(o, paths[i])
  BY <1>2, <1>10, <1>11
<1>15. ASSUME NEW i \in DOMAIN paths, NEW o \in Objects, Wanted(o), Under(o, paths[i])
       PROVE  \E k \in DOMAIN ws : Under(o, ws[k])
  <2>1. Under(o, fixed[i])
    BY <1>2, <1>15
  <2>2. ~Dead(fixed[i])
    <3>. SUFFICES ASSUME Len(fixed[i]) < Depth
                 PROVE  plan.levels[Len(fixed[i]) + 1].how # "never"
      OBVIOUS
    <3>1. Len(fixed[i]) + 1 \in 1..Depth
      BY <1>2, PlanFacts
    <3>. QED  BY <1>15, <3>1 DEF Wanted
  <2>. QED  BY <1>7, <1>9, <1>10, <1>11, <2>1, <2>2
<1>16. Len(paths) = 1 => Len(ws) <= 1
  <2>. SUFFICES ASSUME Len(paths) = 1, n > 1
               PROVE  FALSE
    BY <1>9, <1>11
  <2>1. 1 \in 1..n /\ 2 \in 1..n /\ 1 < 2
    BY <1>9
  <2>2. at[1] < at[2] /\ at[1] \in 1..1 /\ at[2] \in 1..1
    BY <1>1, <1>9, <1>10, <2>1
  <2>. QED  BY <2>2
<1>. QED  BY <1>11, <1>12, <1>13, <1>14, <1>15, <1>16 DEF ws

-----------------------------------------------------------------------------
(* Rows. *)

\* A row with d names and an ordinal.
IsRow(r, d) ==
    /\ DOMAIN LowerPath(r.at) = 1..d /\ \A i \in 1..d : LowerPath(r.at)[i] \in Strings
    /\ r.ordinal \in Nat

\* Two lists of names that differ differ at a first place, where one is before the other.
LEMMA FirstDifference ==
    ASSUME NEW d \in Nat, NEW x \in [1..d -> Strings], NEW y \in [1..d -> Strings], x # y
    PROVE  \E m \in 1..d : /\ \A i \in 1..(m - 1) : x[i] = y[i]
                           /\ StringBefore(x[m], y[m]) \/ StringBefore(y[m], x[m])
<1>. DEFINE T == {m \in 1..d : x[m] # y[m]}
<1>1. T \subseteq Nat /\ T # {}
  OBVIOUS
<1>2. PICK m \in T : \A l \in T : m <= l
  <2>. HIDE DEF T
  <2>. QED  BY <1>1, LeastExists
<1>3. m \in 1..d /\ x[m] # y[m]
  OBVIOUS
<1>4. \A i \in 1..(m - 1) : x[i] = y[i]
  <2>1. \A i \in 1..(m - 1) : i \in 1..d /\ ~(m <= i)
    BY <1>3
  <2>. QED  BY <1>2, <2>1
<1>5. StringBefore(x[m], y[m]) \/ StringBefore(y[m], x[m])
  BY <1>3, StringBeforeIsTotal
<1>. QED  BY <1>3, <1>4, <1>5

\* Rows that are not ordered have the same names and the same ordinal.
LEMMA RowBeforeWeak ==
    ASSUME NEW d \in Nat, NEW r, IsRow(r, d), NEW s, IsRow(s, d), NEW t, IsRow(t, d)
    PROVE  /\ RowBefore(r, s) => ~RowBefore(s, r)
           /\ RowBefore(r, t) => RowBefore(r, s) \/ RowBefore(s, t)
<1>. DEFINE x == LowerPath(r.at)
            y == LowerPath(s.at)
            z == LowerPath(t.at)
<1>1. x \in [1..d -> Strings] /\ y \in [1..d -> Strings] /\ z \in [1..d -> Strings]
  BY DEF IsRow, LowerPath
<1>2. r.ordinal \in Nat /\ s.ordinal \in Nat /\ t.ordinal \in Nat
  BY DEF IsRow
<1>3. /\ RowBefore(r, s) <=>
           \/ \E k \in 1..d : StringBefore(x[k], y[k]) /\ \A i \in 1..(k - 1) : x[i] = y[i]
           \/ x = y /\ r.ordinal < s.ordinal
      /\ RowBefore(s, r) <=>
           \/ \E k \in 1..d : StringBefore(y[k], x[k]) /\ \A i \in 1..(k - 1) : y[i] = x[i]
           \/ y = x /\ s.ordinal < r.ordinal
      /\ RowBefore(s, t) <=>
           \/ \E k \in 1..d : StringBefore(y[k], z[k]) /\ \A i \in 1..(k - 1) : y[i] = z[i]
           \/ y = z /\ s.ordinal < t.ordinal
      /\ RowBefore(r, t) <=>
           \/ \E k \in 1..d : StringBefore(x[k], z[k]) /\ \A i \in 1..(k - 1) : x[i] = z[i]
           \/ x = z /\ r.ordinal < t.ordinal
  BY <1>1 DEF RowBefore
<1>. HIDE DEF x, y, z
<1>4. ASSUME RowBefore(r, s), RowBefore(s, r)
      PROVE  FALSE
  <2>1. \A k \in 1..d : x[k] = y[k] => ~StringBefore(x[k], y[k]) /\ ~StringBefore(y[k], x[k])
    BY <1>1, StringBeforeIrreflexive
  <2>2. ASSUME x # y
        PROVE  FALSE
    <3>1. PICK k \in 1..d : StringBefore(x[k], y[k]) /\ \A i \in 1..(k - 1) : x[i] = y[i]
      BY <1>3, <1>4, <2>2
    <3>2. PICK l \in 1..d : StringBefore(y[l], x[l]) /\ \A i \in 1..(l - 1) : y[i] = x[i]
      BY <1>3, <1>4, <2>2
    <3>3. CASE k < l
      <4>1. k \in 1..(l - 1)
        BY <3>3
      <4>. QED  BY <2>1, <3>1, <3>2, <4>1
    <3>4. CASE l < k
      <4>1. l \in 1..(k - 1)
        BY <3>4
      <4>. QED  BY <2>1, <3>1, <3>2, <4>1
    <3>5. CASE k = l
      BY <1>1, <3>1, <3>2, <3>5, StringBeforeWeak
    <3>. QED  BY <3>3, <3>4, <3>5
  <2>3. ASSUME x = y
        PROVE  FALSE
    BY <1>2, <1>3, <1>4, <2>1, <2>3
  <2>. QED  BY <2>2, <2>3
<1>5. ASSUME RowBefore(r, t)
      PROVE  RowBefore(r, s) \/ RowBefore(s, t)
  <2>1. ASSUME NEW m \in 1..d, \A i \in 1..(m - 1) : x[i] = y[i],
               StringBefore(x[m], y[m]) \/ StringBefore(y[m], x[m]), \A i \in 1..m : x[i] = z[i]
        PROVE  RowBefore(r, s) \/ RowBefore(s, t)
    <3>1. m \in 1..m /\ \A i \in 1..(m - 1) : i \in 1..m
      OBVIOUS
    <3>2. x[m] = z[m] /\ \A i \in 1..(m - 1) : y[i] = z[i]
      BY <2>1, <3>1
    <3>. QED  BY <1>3, <2>1, <3>2
  <2>2. CASE x = z /\ r.ordinal < t.ordinal
    <3>1. CASE x = y
      BY <1>2, <1>3, <2>2, <3>1
    <3>2. CASE x # y
      <4>1. PICK m \in 1..d : /\ \A i \in 1..(m - 1) : x[i] = y[i]
                              /\ StringBefore(x[m], y[m]) \/ StringBefore(y[m], x[m])
        BY <1>1, <3>2, FirstDifference
      <4>. QED  BY <2>1, <2>2, <4>1
    <3>. QED  BY <3>1, <3>2
  <2>3. CASE \E k \in 1..d : StringBefore(x[k], z[k]) /\ \A i \in 1..(k - 1) : x[i] = z[i]
    <3>1. PICK k \in 1..d : StringBefore(x[k], z[k]) /\ \A i \in 1..(k - 1) : x[i] = z[i]
      BY <2>3
    <3>2. CASE \A i \in 1..(k - 1) : x[i] = y[i]
      <4>1. StringBefore(x[k], y[k]) \/ StringBefore(y[k], z[k])
        BY <1>1, <3>1, StringBeforeWeak
      <4>2. \A i \in 1..(k - 1) : y[i] = z[i]
        BY <3>1, <3>2
      <4>. QED  BY <1>3, <3>2, <4>1, <4>2
    <3>3. CASE ~\A i \in 1..(k - 1) : x[i] = y[i]
      <4>1. PICK l \in 1..(k - 1) : x[l] # y[l]
        BY <3>3
      <4>2. x # y
        BY <4>1
      <4>3. PICK m \in 1..d : /\ \A i \in 1..(m - 1) : x[i] = y[i]
                              /\ StringBefore(x[m], y[m]) \/ StringBefore(y[m], x[m])
        BY <1>1, <4>2, FirstDifference
      <4>4. m <= l
        <5>. SUFFICES ASSUME l < m
                     PROVE  FALSE
          OBVIOUS
        <5>1. l \in 1..(m - 1)
          OBVIOUS
        <5>. QED  BY <4>1, <4>3, <5>1
      <4>5. \A i \in 1..m : i \in 1..(k - 1)
        BY <4>4
      <4>. QED  BY <2>1, <3>1, <4>3, <4>5
    <3>. QED  BY <3>2, <3>3
  <2>. QED  BY <1>3, <1>5, <2>2, <2>3
<1>. QED  BY <1>4, <1>5

\* The sort of the rows leaves each one in, and none after one it is before.
LEMMA SortRowsIs ==
    ASSUME NEW d \in Nat, NEW S, NEW rs, Enumerates(rs, S), \A r \in S : IsRow(r, d)
    PROVE  /\ Enumerates(SortRows(rs), S)
           /\ \A k, l \in DOMAIN SortRows(rs) : k < l => ~RowBefore(SortRows(rs)[l], SortRows(rs)[k])
<1>. DEFINE n == Len(rs)
            D == 1..n
            B == {p \in D \X D : RowBefore(rs[p[1]], rs[p[2]])}
            at == ByRank(D, Stably(D, B))
            After(i) == {j \in D : RowBefore(rs[j], rs[i]) \/ (~RowBefore(rs[i], rs[j]) /\ j < i)}
            To(k) == CHOOSE i \in D : k - 1 = Cardinality(After(i))
            new == [k \in D |-> rs[at[k]]]
<1>1. rs \in Seq(S) /\ n \in Nat /\ DOMAIN rs = D /\ \A i \in D : rs[i] \in S
  BY DEF Enumerates
<1>2. IsWeakOrder(D, B)
  <2>. HIDE DEF D
  <2>1. \A i, j \in D : <<i, j>> \in B <=> RowBefore(rs[i], rs[j])
    OBVIOUS
  <2>. HIDE DEF B
  <2>2. \A i \in D : IsRow(rs[i], d)
    BY <1>1
  <2>3. \A i, j \in D : RowBefore(rs[i], rs[j]) => ~RowBefore(rs[j], rs[i])
    BY <2>2, RowBeforeWeak
  <2>4. \A i, j, k \in D : RowBefore(rs[i], rs[k]) => RowBefore(rs[i], rs[j]) \/ RowBefore(rs[j], rs[k])
    BY <2>2, RowBeforeWeak
  <2>. QED  BY <2>1, <2>3, <2>4 DEF IsWeakOrder
<1>3. /\ at \in [D -> D]
      /\ \A i \in D : \E k \in D : at[k] = i
      /\ \A k, l \in D : at[k] = at[l] => k = l
      /\ \A k, l \in D : k < l => <<at[l], at[k]>> \notin B
  <2>. HIDE DEF B, n
  <2>. QED  BY <1>1, <1>2, SortPlaces
<1>4. \A i \in D : After(i) = Ahead(n, B, i)
  BY DEF Ahead
<1>5. \A k \in D : To(k) = at[k]
  <2>1. \A k \in D : To(k) = Placed(n, B, k)
    <3>. HIDE DEF B, After
    <3>. QED  BY <1>4, Zenon DEF Placed
  <2>. HIDE DEF To, B, n
  <2>. QED  BY <1>1, <2>1, SortRanks
<1>6. new \in Seq(S) /\ DOMAIN new = D /\ \A k \in D : new[k] = rs[at[k]]
  <2>. HIDE DEF at, B, n
  <2>1. \A k \in D : rs[at[k]] \in S
    BY <1>1, <1>3
  <2>. QED  BY <1>1, <2>1
<1>7. SortRows(rs) = new
  <2>1. StableSort(rs, RowBefore) = [k \in D |-> rs[To(k)]]
    BY <1>1 DEF StableSort
  <2>2. StableSort(rs, RowBefore) = new
    <3>. HIDE DEF To, at, D
    <3>. QED  BY <1>5, <2>1
  <2>. HIDE DEF new
  <2>3. Vector(new) = new
    BY <1>6, VectorIs
  <2>. QED  BY <2>2, <2>3 DEF SortRows
<1>8. ASSUME NEW k \in D, NEW l \in D, k < l
      PROVE  ~RowBefore(new[l], new[k])
  <2>1. at[k] \in D /\ at[l] \in D /\ <<at[l], at[k]>> \notin B
    BY <1>3, <1>8
  <2>. HIDE DEF at, D
  <2>2. ~RowBefore(rs[at[l]], rs[at[k]])
    BY <2>1
  <2>. QED  BY <2>2
<1>9. Enumerates(new, S)
  <2>. HIDE DEF at, B, new
  <2>1. Permutes(new, rs, at)
    BY <1>3 DEF Permutes, new
  <2>. QED  BY <2>1, PermutedLists
<1>. HIDE DEF new, D
<1>. QED  BY <1>6, <1>7, <1>8, <1>9

\* The sort of a listing leaves each object in.
LEMMA SortListingIs ==
    ASSUME NEW S \in SUBSET Objects, NEW found, Enumerates(found, S)
    PROVE  Enumerates(SortListing(found), S)
<1>. DEFINE n == Len(found)
            D == 1..n
            Name(i) == Lower(Last(found[i]))
            B == {p \in D \X D : StringBefore(Name(p[1]), Name(p[2]))}
            at == ByRank(D, Stably(D, B))
            After(i) == {j \in D : \/ StringBefore(Name(j), Name(i))
                                   \/ ~StringBefore(Name(i), Name(j)) /\ j < i}
            To(k) == CHOOSE i \in D : k - 1 = Cardinality(After(i))
            sorted == StableSort(found, LAMBDA p, q : StringBefore(Lower(Last(p)), Lower(Last(q))))
<1>1. found \in Seq(S) /\ n \in Nat /\ DOMAIN found = D /\ \A i \in D : found[i] \in S
  BY DEF Enumerates
<1>2. ASSUME NEW i \in D
      PROVE  Name(i) \in Strings
  <2>1. found[i] \in Objects
    BY <1>1
  <2>2. Len(found[i]) \in 1..Len(found[i])
    BY <2>1, ObjectIsPath
  <2>. QED  BY <2>1, <2>2, ObjectIsPath DEF Last
<1>. HIDE DEF Name
<1>3. IsWeakOrder(D, B)
  <2>. HIDE DEF D
  <2>1. \A i, j \in D : <<i, j>> \in B <=> StringBefore(Name(i), Name(j))
    OBVIOUS
  <2>. HIDE DEF B
  <2>2. \A i, j \in D : StringBefore(Name(i), Name(j)) => ~StringBefore(Name(j), Name(i))
    BY <1>2, StringBeforeWeak
  <2>3. \A i, j, k \in D : StringBefore(Name(i), Name(k)) =>
          StringBefore(Name(i), Name(j)) \/ StringBefore(Name(j), Name(k))
    BY <1>2, StringBeforeWeak
  <2>. QED  BY <2>1, <2>2, <2>3 DEF IsWeakOrder
<1>4. /\ at \in [D -> D]
      /\ \A i \in D : \E k \in D : at[k] = i
      /\ \A k, l \in D : at[k] = at[l] => k = l
  <2>. HIDE DEF B, n
  <2>. QED  BY <1>1, <1>3, SortPlaces
<1>5. \A i \in D : After(i) = Ahead(n, B, i)
  BY DEF Ahead
<1>6. \A k \in D : To(k) = at[k]
  <2>1. \A k \in D : To(k) = Placed(n, B, k)
    <3>. HIDE DEF B, After
    <3>. QED  BY <1>5, Zenon DEF Placed
  <2>. HIDE DEF To, B, n
  <2>. QED  BY <1>1, <2>1, SortRanks
<1>7. sorted = [k \in D |-> found[at[k]]]
  <2>1. sorted = [k \in D |-> found[To(k)]]
    BY <1>1 DEF StableSort, Name
  <2>. HIDE DEF To, at, D, sorted
  <2>. QED  BY <1>6, <2>1
<1>. HIDE DEF sorted, at, B
<1>8. Permutes(sorted, found, at)
  BY <1>4, <1>7 DEF Permutes
<1>9. Enumerates(sorted, S)
  BY <1>8, PermutedLists
<1>10. Vector(sorted) = sorted
  BY <1>9, VectorIs DEF Enumerates
<1>. QED  BY <1>9, <1>10 DEF SortListing, sorted

\* The columns of a table all have a position, or none has one.
Positioned(path) ==
    LET columns == About[path].columns
    IN \A i, j \in DOMAIN columns : columns[i].position = None => columns[j].position = None

\* The rows of a table's columns: one for each column, by position where all have one.
LEMMA ColumnRowsAre ==
    ASSUME NEW path \in Objects, Len(path) = 3, NEW at, NEW level
    PROVE  LET rs == ColumnRows(at, path, level)
           IN /\ Enumerates(rs, Range(rs))
              /\ \A r \in Range(rs) : r.at = at /\ r.ordinal \in Nat
              /\ \A r, s \in Range(rs) : r.column = s.column => r = s
              /\ Positioned(path) => \A k, l \in DOMAIN rs : k < l => rs[k].ordinal <= rs[l].ordinal
<1>. DEFINE columns == About[path].columns
            n == Len(columns)
            D == 1..n
            Key(i) == IF columns[i].position = None THEN MaxI32 ELSE columns[i].position
            Ordinal(i) == IF columns[i].position = None THEN i ELSE columns[i].position + 1
            ident == [i \in D |-> i]
            B == {p \in D \X D : Key(p[1]) < Key(p[2])}
            place == ByRank(D, Stably(D, B))
            After(i) == {j \in D : \/ Key(ident[j]) < Key(ident[i])
                                   \/ ~(Key(ident[i]) < Key(ident[j])) /\ j < i}
            To(k) == CHOOSE i \in D : k - 1 = Cardinality(After(i))
            sorted == StableSort(ident, LAMBDA i, j : Key(i) < Key(j))
            RowOf(i) == Row(at, columns[i].name, Ordinal(i))
            all == [k \in D |-> RowOf(place[k])]
            K == {k \in D : Selects(level, all[k].column)}
            rs == ColumnRows(at, path, level)
<1>1. /\ n \in Nat /\ DOMAIN columns = D /\ MaxI32 \in Nat
      /\ \A i, j \in D : columns[i].name = columns[j].name => i = j
      /\ \A i \in D : columns[i].position = None \/ columns[i].position \in Nat
  <2>1. /\ columns \in Seq(Range(columns))
        /\ \A i, j \in DOMAIN columns : columns[i].name = columns[j].name => i = j
        /\ \A i \in DOMAIN columns : columns[i].position \in 0..MaxI32 \cup {None}
        /\ MaxI32 \in Nat
    BY UnityAssumption
  <2>2. n \in Nat /\ DOMAIN columns = D
    BY <2>1
  <2>. HIDE DEF columns, n
  <2>. QED  BY <2>1, <2>2
<1>. HIDE DEF columns, n
<1>2. \A i \in D : Key(i) \in Nat /\ Ordinal(i) \in Nat
  BY <1>1
<1>3. Positioned(path) =>
        \A i, j \in D : (Key(i) < Key(j) \/ (~(Key(j) < Key(i)) /\ i < j)) => Ordinal(i) <= Ordinal(j)
  <2>. SUFFICES ASSUME Positioned(path), NEW i \in D, NEW j \in D,
                       Key(i) < Key(j) \/ (~(Key(j) < Key(i)) /\ i < j)
               PROVE  Ordinal(i) <= Ordinal(j)
    OBVIOUS
  <2>1. columns[i].position = None <=> columns[j].position = None
    BY <1>1 DEF Positioned, columns
  <2>2. CASE columns[i].position = None
    BY <1>1, <2>1, <2>2
  <2>3. CASE columns[i].position # None
    <3>1. columns[i].position \in Nat /\ columns[j].position \in Nat
      BY <1>1, <2>1, <2>3
    <3>. QED  BY <2>1, <2>3, <3>1
  <2>. QED  BY <2>2, <2>3
<1>. HIDE DEF Key, Ordinal
<1>4. IsWeakOrder(D, B)
  <2>. HIDE DEF D
  <2>1. \A i, j \in D : <<i, j>> \in B <=> Key(i) < Key(j)
    OBVIOUS
  <2>. HIDE DEF B
  <2>2. \A i, j \in D : Key(i) < Key(j) => ~(Key(j) < Key(i))
    BY <1>2
  <2>3. \A i, j, k \in D : Key(i) < Key(k) => Key(i) < Key(j) \/ Key(j) < Key(k)
    BY <1>2
  <2>. QED  BY <2>1, <2>2, <2>3 DEF IsWeakOrder
<1>5. /\ place \in [D -> D]
      /\ \A i \in D : \E k \in D : place[k] = i
      /\ \A k, l \in D : place[k] = place[l] => k = l
      /\ \A k, l \in D : k < l => /\ <<place[l], place[k]>> \notin B
                                  /\ <<place[k], place[l]>> \notin B => place[k] < place[l]
  <2>. HIDE DEF B
  <2>. QED  BY <1>1, <1>4, SortPlaces
<1>6. \A i \in D : After(i) = Ahead(n, B, i)
  BY DEF Ahead
<1>7. \A k \in D : To(k) = place[k]
  <2>1. \A k \in D : To(k) = Placed(n, B, k)
    <3>. HIDE DEF B, After
    <3>. QED  BY <1>6, Zenon DEF Placed
  <2>. HIDE DEF To, B
  <2>. QED  BY <1>1, <2>1, SortRanks
<1>8. Vector(sorted) = place
  <2>1. sorted = [k \in D |-> ident[To(k)]]
    BY DEF StableSort
  <2>2. sorted = [k \in D |-> ident[place[k]]]
    <3>. HIDE DEF To, place, D, sorted, ident
    <3>. QED  BY <1>7, <2>1
  <2>3. sorted = place
    <3>. HIDE DEF place, sorted, D, B
    <3>. QED  BY <1>5, <2>2
  <2>4. place \in Seq(D)
    <3>. HIDE DEF place, B
    <3>. QED  BY <1>1, <1>5
  <2>. HIDE DEF sorted, place
  <2>. QED  BY <2>3, <2>4, VectorIs
<1>9. rs = Vector(Retained(all, K))
  <2>. DEFINE order == Vector(sorted)
              all2 == [k \in D |-> Row(at, columns[order[k]].name, Ordinal(order[k]))]
  <2>1. rs = Filtered(all2, LAMBDA row : Selects(level, row.column))
    BY <1>1 DEF ColumnRows, columns, Key, Ordinal
  <2>2. all2 = all
    BY <1>8
  <2>. HIDE DEF all2
  <2>3. rs = Filtered(all, LAMBDA row : Selects(level, row.column))
    BY <2>1, <2>2
  <2>4. DOMAIN all = D
    OBVIOUS
  <2>. HIDE DEF all
  <2>. QED  BY <2>3, <2>4 DEF Filtered
<1>. HIDE DEF place, rs, sorted
<1>10. \A k \in D : place[k] \in D /\ all[k] = RowOf(place[k])
  BY <1>5
<1>11. \A k \in D : /\ all[k].at = at /\ all[k].ordinal = Ordinal(place[k]) /\ all[k].ordinal \in Nat
                    /\ all[k].column = columns[place[k]].name
  BY <1>2, <1>10 DEF Row
<1>12. ASSUME NEW k \in D, NEW l \in D, all[k].column = all[l].column
       PROVE  k = l
  <2>. HIDE DEF all, B
  <2>1. columns[place[k]].name = columns[place[l]].name
    BY <1>11, <1>12
  <2>2. place[k] = place[l]
    BY <1>1, <1>10, <2>1
  <2>. QED  BY <1>5, <2>2
<1>. DEFINE V == Range(all)
<1>13. all \in Seq(V) /\ DOMAIN all = D /\ Enumerates(all, V)
  <2>1. DOMAIN all = D /\ all \in Seq(V)
    BY <1>1 DEF Range
  <2>2. \A k, l \in D : all[k] = all[l] => k = l
    <3>. HIDE DEF all
    <3>. QED  BY <1>12
  <2>. HIDE DEF all
  <2>. QED  BY <2>1, <2>2 DEF Enumerates
<1>. HIDE DEF all
<1>14. K \in SUBSET DOMAIN all
  BY <1>13
<1>. HIDE DEF K
<1>15. rs = Retained(all, K)
  BY <1>9, <1>13, <1>14, RetainedRange, VectorIs
<1>16. Enumerates(rs, {all[k] : k \in K})
  BY <1>13, <1>14, <1>15, RetainedLists
<1>17. Range(rs) = {all[k] : k \in K}
  BY <1>16 DEF Enumerates
<1>18. \A r \in Range(rs) : \E k \in D : r = all[k]
  BY <1>13, <1>14, <1>17
<1>19. ASSUME Positioned(path)
       PROVE  \A k, l \in DOMAIN rs : k < l => rs[k].ordinal <= rs[l].ordinal
  <2>1. \A k, l \in D : k < l => all[k].ordinal <= all[l].ordinal
    <3>1. \A i, j \in D : <<i, j>> \in B <=> Key(i) < Key(j)
      <4>. HIDE DEF D
      <4>. QED  OBVIOUS
    <3>. HIDE DEF B
    <3>. SUFFICES ASSUME NEW k \in D, NEW l \in D, k < l
                 PROVE  Ordinal(place[k]) <= Ordinal(place[l])
      BY <1>11
    <3>2. place[k] \in D /\ place[l] \in D
      BY <1>10
    <3>3. ~(Key(place[l]) < Key(place[k])) /\ (~(Key(place[k]) < Key(place[l])) => place[k] < place[l])
      BY <1>5, <3>1, <3>2
    <3>. QED  BY <1>3, <1>19, <3>2, <3>3
  <2>. DEFINE m == Cardinality(K)
  <2>2. PICK f \in [1..m -> K] : /\ m \in Nat
                                 /\ Retained(all, K) = [k \in 1..m |-> all[f[k]]]
                                 /\ \A i \in K : \E k \in 1..m : f[k] = i
                                 /\ \A k, l \in 1..m : k < l => f[k] < f[l]
    <3>. HIDE DEF V
    <3>1. all \in Seq(V)
      BY <1>13
    <3>. QED  BY <1>14, <3>1, RetainedPlaces
  <2>. HIDE DEF m
  <2>3. \A k \in 1..m : f[k] \in D
    BY <1>13, <1>14
  <2>4. rs = [k \in 1..m |-> all[f[k]]]
    BY <1>15, <2>2
  <2>. QED  BY <2>1, <2>2, <2>3, <2>4
<1>20. \A r \in Range(rs) : r.at = at /\ r.ordinal \in Nat
  BY <1>11, <1>18
<1>21. \A r, s \in Range(rs) : r.column = s.column => r = s
  BY <1>12, <1>18
<1>22. Enumerates(rs, Range(rs))
  BY <1>16, <1>17
<1>. QED  BY <1>19, <1>20, <1>21, <1>22 DEF rs

\* What is told of a table: rows that differ in the column.
LEMMA DetailRowsAre ==
    ASSUME PlanOK, NEW path \in Objects, Len(path) = 3, plan.details # None, NEW at
    PROVE  LET rs == DetailRows(at, path)
           IN /\ Enumerates(rs, Range(rs))
              /\ \A r \in Range(rs) : r.at = at /\ r.ordinal \in Nat
              /\ \A r, s \in Range(rs) : r.column = s.column => r = s
              /\ plan.details = "columns" /\ Positioned(path) =>
                   \A k, l \in DOMAIN rs : k < l => rs[k].ordinal <= rs[l].ordinal
<1>. DEFINE rs == DetailRows(at, path)
            one == <<Row(at, None, 0)>>
<1>1. CASE plan.details = "columns"
  <2>1. rs = ColumnRows(at, path, plan.columns)
    BY <1>1 DEF DetailRows
  <2>. HIDE DEF rs
  <2>. QED  BY <1>1, <2>1, ColumnRowsAre DEF rs
<1>2. ASSUME plan.details # "columns"
      PROVE  rs = <<>> \/ rs = one
  <2>1. plan.details = "row_filter" \/ plan.details = "information"
    BY <1>2, PlanFacts
  <2>. QED  BY <2>1 DEF DetailRows
<1>3. ASSUME NEW s, s = <<>> \/ s = one
      PROVE  /\ Enumerates(s, Range(s))
             /\ \A r \in Range(s) : r = Row(at, None, 0)
  <2>1. CASE s = <<>>
    <3>1. DOMAIN s = {} /\ Range(s) = {} /\ s \in Seq(Range(s))
      BY <2>1 DEF Range
    <3>. QED  BY <3>1 DEF Enumerates
  <2>2. CASE s = one
    <3>1. DOMAIN s = 1..1 /\ s[1] = Row(at, None, 0) /\ 1..1 = {1}
      BY <2>2
    <3>2. Range(s) = {Row(at, None, 0)}
      BY <3>1 DEF Range
    <3>3. s \in Seq(Range(s))
      BY <2>2, <3>2
    <3>. QED  BY <3>1, <3>2, <3>3 DEF Enumerates
  <2>. QED  BY <1>3, <2>1, <2>2
<1>4. CASE plan.details # "columns"
  <2>1. /\ Enumerates(rs, Range(rs))
        /\ \A r \in Range(rs) : r = Row(at, None, 0)
    <3>. HIDE DEF rs
    <3>. QED  BY <1>2, <1>3, <1>4
  <2>. HIDE DEF rs
  <2>2. \A r \in Range(rs) : r.at = at /\ r.ordinal \in Nat
    BY <2>1 DEF Row
  <2>. QED  BY <1>4, <2>1, <2>2 DEF rs
<1>. QED  BY <1>1, <1>4

\* The rows of an object that is wanted have its names, and differ in the column.
LEMMA ObjectRowsAre ==
    ASSUME PlanOK, NEW p \in Objects, Wanted(p)
    PROVE  /\ \A r \in ObjectRows(p) : LowerPath(r.at) = LowerPath(p) /\ IsRow(r, Depth)
           /\ \A r, s \in ObjectRows(p) : r.column = s.column => r = s
<1>1. ASSUME NEW r \in ObjectRows(p)
      PROVE  r.at = Reported(p) /\ r.ordinal \in Nat
  <2>1. CASE plan.details = None
    BY <2>1 DEF ObjectRows, Row
  <2>2. CASE plan.details # None
    <3>1. Len(p) = 3
      BY <2>2, PlanFacts DEF Wanted
    <3>2. r \in Range(DetailRows(Reported(p), p))
      BY <2>2 DEF ObjectRows
    <3>. QED  BY <2>2, <3>1, <3>2, DetailRowsAre
  <2>. QED  BY <2>1, <2>2
<1>2. ASSUME NEW r \in ObjectRows(p), NEW s \in ObjectRows(p), r.column = s.column
      PROVE  r = s
  <2>1. CASE plan.details = None
    BY <2>1 DEF ObjectRows
  <2>2. CASE plan.details # None
    <3>1. Len(p) = 3
      BY <2>2, PlanFacts DEF Wanted
    <3>2. r \in Range(DetailRows(Reported(p), p)) /\ s \in Range(DetailRows(Reported(p), p))
      BY <2>2 DEF ObjectRows
    <3>. QED  BY <1>2, <2>2, <3>1, <3>2, DetailRowsAre
  <2>. QED  BY <2>1, <2>2
<1>3. ASSUME NEW r \in ObjectRows(p)
      PROVE  LowerPath(r.at) = LowerPath(p) /\ IsRow(r, Depth)
  BY <1>1, ReportedSame DEF IsRow
<1>. QED  BY <1>2, <1>3

\* Two rows that look the same are the same row of the same object.
LEMMA RowsDiffer ==
    ASSUME PlanOK, NEW p \in Objects, Wanted(p), NEW q \in Objects, Wanted(q),
           NEW r \in ObjectRows(p), NEW s \in ObjectRows(q), SameRow(r, s)
    PROVE  p = q /\ r = s
<1>1. SamePath(p, q)
  BY ObjectRowsAre DEF SameRow, SamePath
<1>2. p = q
  BY <1>1, SameObject
<1>. QED  BY <1>2, ObjectRowsAre DEF SameRow

-----------------------------------------------------------------------------
(* The paths still to go through. *)

UnderSome(o, paths) == \E i \in DOMAIN paths : Under(o, paths[i])

\* The head of the paths and the others.
LEMMA HeadAndTail ==
    ASSUME NEW paths \in Seq(Paths), paths # <<>>
    PROVE  /\ Head(paths) = paths[1] /\ Head(paths) \in Paths /\ 1 \in DOMAIN paths
           /\ Tail(paths) \in Seq(Paths) /\ Len(Tail(paths)) = Len(paths) - 1
           /\ \A i \in DOMAIN Tail(paths) : i + 1 \in DOMAIN paths /\ Tail(paths)[i] = paths[i + 1]
           /\ \A o : UnderSome(o, paths) <=> Under(o, Head(paths)) \/ UnderSome(o, Tail(paths))
           /\ Apart(paths) => /\ Apart(Tail(paths))
                              /\ \A o \in Objects : ~(Under(o, Head(paths)) /\ UnderSome(o, Tail(paths)))
<1>. DEFINE n == Len(paths)
            rest == Tail(paths)
<1>1. /\ n \in Nat /\ n # 0 /\ DOMAIN paths = 1..n
      /\ rest \in Seq(Paths) /\ Len(rest) = n - 1 /\ DOMAIN rest = 1..(n - 1)
      /\ \A i \in 1..(n - 1) : rest[i] = paths[i + 1]
      /\ Head(paths) = paths[1] /\ Head(paths) \in Paths
  <2>1. n \in Nat /\ n # 0 /\ DOMAIN paths = 1..n
    BY EmptySeq
  <2>. QED  BY <2>1, HeadTailProperties
<1>. HIDE DEF n, rest
<1>2. /\ \A i \in 1..(n - 1) : i + 1 \in 1..n /\ i + 1 # 1
      /\ \A i \in 1..n : i = 1 \/ (i - 1 \in 1..(n - 1) /\ (i - 1) + 1 = i)
      /\ 1 \in 1..n
  BY <1>1
<1>3. ASSUME NEW o
      PROVE  UnderSome(o, paths) <=> Under(o, Head(paths)) \/ UnderSome(o, rest)
  <2>1. ASSUME UnderSome(o, paths)
        PROVE  Under(o, Head(paths)) \/ UnderSome(o, rest)
    <3>1. PICK i \in 1..n : Under(o, paths[i])
      BY <1>1, <2>1 DEF UnderSome
    <3>2. CASE i = 1
      BY <1>1, <3>1, <3>2
    <3>3. CASE i # 1
      <4>1. i - 1 \in 1..(n - 1) /\ rest[i - 1] = paths[i]
        BY <1>1, <1>2, <3>3
      <4>. QED  BY <1>1, <3>1, <4>1 DEF UnderSome
    <3>. QED  BY <3>2, <3>3
  <2>2. ASSUME Under(o, Head(paths)) \/ UnderSome(o, rest)
        PROVE  UnderSome(o, paths)
    BY <1>1, <1>2, <2>2 DEF UnderSome
  <2>. QED  BY <2>1, <2>2
<1>4. ASSUME Apart(paths)
      PROVE  Apart(rest) /\ \A o \in Objects : ~(Under(o, Head(paths)) /\ UnderSome(o, rest))
  <2>1. ASSUME NEW i \in 1..(n - 1), NEW j \in 1..(n - 1), NEW o \in Objects,
               Under(o, rest[i]), Under(o, rest[j])
        PROVE  i = j
    <3>1. i + 1 = j + 1
      BY <1>1, <1>2, <1>4, <2>1 DEF Apart
    <3>. QED  BY <3>1
  <2>2. ASSUME NEW o \in Objects, Under(o, Head(paths)), UnderSome(o, rest)
        PROVE  FALSE
    <3>1. PICK i \in 1..(n - 1) : Under(o, rest[i])
      BY <1>1, <2>2 DEF UnderSome
    <3>. QED  BY <1>1, <1>2, <1>4, <2>2, <3>1 DEF Apart
  <2>. QED  BY <1>1, <2>1, <2>2 DEF Apart
<1>. QED  BY <1>1, <1>2, <1>3, <1>4 DEF rest, n

\* Some paths and others after them.
LEMMA TwoLists ==
    ASSUME NEW a \in Seq(Paths), NEW b \in Seq(Paths)
    PROVE  /\ a \o b \in Seq(Paths)
           /\ \A i \in DOMAIN (a \o b) :
                \/ \E k \in DOMAIN a : (a \o b)[i] = a[k]
                \/ \E k \in DOMAIN b : (a \o b)[i] = b[k]
           /\ \A o : UnderSome(o, a \o b) <=> UnderSome(o, a) \/ UnderSome(o, b)
           /\ /\ Apart(a) /\ Apart(b)
              /\ \A o \in Objects : ~(UnderSome(o, a) /\ UnderSome(o, b))
              => Apart(a \o b)
<1>. DEFINE ab == a \o b
            m == Len(a)
            n == Len(b)
<1>1. /\ m \in Nat /\ n \in Nat /\ DOMAIN a = 1..m /\ DOMAIN b = 1..n
      /\ ab \in Seq(Paths) /\ DOMAIN ab = 1..(m + n)
      /\ \A i \in 1..m : ab[i] = a[i]
      /\ \A i \in (m + 1)..(m + n) : ab[i] = b[i - m]
  BY ConcatProperties
<1>. HIDE DEF ab, m, n
<1>2. /\ \A i \in 1..(m + n) : i \in 1..m \/ (i \in (m + 1)..(m + n) /\ i - m \in 1..n)
      /\ \A i \in 1..m : i \in 1..(m + n)
      /\ \A i \in 1..n : i + m \in (m + 1)..(m + n) /\ i + m \in 1..(m + n) /\ (i + m) - m = i
  BY <1>1
<1>3. \A i \in 1..(m + n) : (i \in 1..m /\ ab[i] = a[i]) \/ (i - m \in 1..n /\ ab[i] = b[i - m])
  BY <1>1, <1>2
<1>4. \A i \in 1..n : i + m \in 1..(m + n) /\ ab[i + m] = b[i]
  BY <1>1, <1>2
<1>5. ASSUME NEW o
      PROVE  UnderSome(o, ab) <=> UnderSome(o, a) \/ UnderSome(o, b)
  <2>1. ASSUME UnderSome(o, ab)
        PROVE  UnderSome(o, a) \/ UnderSome(o, b)
    BY <1>1, <1>3, <2>1 DEF UnderSome
  <2>2. ASSUME UnderSome(o, a)
        PROVE  UnderSome(o, ab)
    BY <1>1, <1>2, <2>2 DEF UnderSome
  <2>3. ASSUME UnderSome(o, b)
        PROVE  UnderSome(o, ab)
    BY <1>1, <1>4, <2>3 DEF UnderSome
  <2>. QED  BY <2>1, <2>2, <2>3
<1>6. ASSUME Apart(a), Apart(b), \A o \in Objects : ~(UnderSome(o, a) /\ UnderSome(o, b)),
             NEW i \in 1..(m + n), NEW j \in 1..(m + n), NEW o \in Objects,
             Under(o, ab[i]), Under(o, ab[j])
      PROVE  i = j
  <2>1. CASE i \in 1..m /\ j \in 1..m
    BY <1>1, <1>6, <2>1 DEF Apart
  <2>2. CASE i \notin 1..m /\ j \notin 1..m
    <3>1. i - m = j - m
      BY <1>1, <1>3, <1>6, <2>2 DEF Apart
    <3>. QED  BY <1>1, <3>1
  <2>3. CASE i \in 1..m /\ j \notin 1..m
    <3>1. UnderSome(o, a) /\ UnderSome(o, b)
      BY <1>1, <1>3, <1>6, <2>3 DEF UnderSome
    <3>. QED  BY <1>6, <3>1
  <2>4. CASE i \notin 1..m /\ j \in 1..m
    <3>1. UnderSome(o, a) /\ UnderSome(o, b)
      BY <1>1, <1>3, <1>6, <2>4 DEF UnderSome
    <3>. QED  BY <1>6, <3>1
  <2>. QED  BY <2>1, <2>2, <2>3, <2>4
<1>7. /\ Apart(a) /\ Apart(b)
      /\ \A o \in Objects : ~(UnderSome(o, a) /\ UnderSome(o, b))
      => Apart(ab)
  BY <1>1, <1>6 DEF Apart
<1>8. \A i \in DOMAIN ab : \/ \E k \in DOMAIN a : ab[i] = a[k]
                           \/ \E k \in DOMAIN b : ab[i] = b[k]
  BY <1>1, <1>3
<1>. QED  BY <1>1, <1>5, <1>7, <1>8 DEF ab

-----------------------------------------------------------------------------
(* The inductive invariant. *)

\* Unity's objects are in others; what existed throughout still exists.
UnityInv ==
    /\ always \subseteq unity /\ unity \subseteq ever /\ ever \subseteq Objects
    /\ FrontClosed(unity) /\ FrontClosed(always)

\* The paths still to go through have no object in common.
WorkInv ==
    /\ work \in Seq(Paths) /\ Apart(work)
    /\ \A i \in DOMAIN work : Good(work[i])

\* The siblings up to a place.
Upto(path, n) == {Siblings(path)[k] : k \in 1..n}

\* Some objects hold all of a set that are there all the time, and none that never is.
Covers(found, objects) == objects \cap always \subseteq found /\ found \subseteq objects \cap ever

\* What the pages of a listing brought so far.
ListInv ==
    \/ page_token = None /\ listed = <<>>
    \/ /\ work # <<>> /\ Len(Head(work)) < Depth
       /\ Enumerates(listed, Range(listed))
       /\ \E n \in 1..(Len(Siblings(Head(work))) - 1) :
            page_token = <<n>> /\ Covers(Range(listed), Upto(Head(work), n))

Pending(p) == UnderSome(p, work)

\* The rows are those of objects that the walk is done with, each once, and of every
\* wanted object that is there all the time unless the walk has yet to come to it.
RowsInv ==
    /\ Enumerates(rows, Range(rows))
    /\ \A r \in Range(rows) : \E p \in ever : Wanted(p) /\ r \in ObjectRows(p) /\ ~Pending(p)
    /\ \A p \in always : Wanted(p) => Pending(p) \/ ObjectRows(p) \subseteq Range(rows)

InOrder(rs) == \A k, l \in DOMAIN rs : k < l => ~RowBefore(rs[l], rs[k])

\* A plan about one given table has one path, and its rows come from there in order.
OneTable == plan.details = "columns" /\ \A i \in 1..Depth : plan.levels[i].how = "only"

AllPositioned == \A p \in Objects : Len(p) = 3 => Positioned(p)

OrderInv ==
    OneTable => /\ Len(work) <= 1 /\ (work # <<>> => rows = <<>>)
                /\ AllPositioned => InOrder(rows)

WalkInv == PlanOK /\ WorkInv /\ ListInv /\ RowsInv /\ OrderInv

\* Before the walk there is nothing.
ReceivedInv == work = <<>> /\ page_token = None /\ listed = <<>> /\ rows = <<>>

IInv ==
    /\ TypeOK /\ UnityInv /\ request \in Requests
    /\ status = "received" => ReceivedInv
    /\ status = "walking" => WalkInv
    /\ WalkIsConsistent
    /\ AllPositioned \/ "rows" \in plan.sorts => AnswerIsSorted

\* What depends on the plan alone is the same in a step that leaves it.
LEMMA SamePlan ==
    ASSUME plan' = plan, request' = request
    PROVE  /\ PlanOK' <=> PlanOK
           /\ Depth' = Depth
           /\ OneTable' <=> OneTable
           /\ \A w : Good(w)' <=> Good(w)
           /\ \A p : Wanted(p)' <=> Wanted(p)
           /\ \A p : ObjectRows(p)' = ObjectRows(p)
<1>1. Depth' = Depth
  BY DEF Depth
<1>2. PlanOK' <=> PlanOK
  BY DEF PlanOK
<1>3. \A w : Good(w)' <=> Good(w)
  BY <1>1 DEF Good, Legit
<1>4. \A p : Wanted(p)' <=> Wanted(p)
  BY <1>1 DEF Wanted
<1>5. \A p : ObjectRows(p)' = ObjectRows(p)
  BY DEF ObjectRows, Reported, DetailRows
<1>6. OneTable' <=> OneTable
  BY <1>1 DEF OneTable
<1>. QED  BY <1>1, <1>2, <1>3, <1>4, <1>5, <1>6

\* The pages of a listing up to some place hold what is there all the time.
LEMMA PageIs ==
    ASSUME PlanOK, UnityInv, WorkInv, ListInv, work # <<>>, Len(Head(work)) < Depth,
           NEW upto \in (ListedBefore(page_token) + 1)..Len(Siblings(Head(work)))
                          \cup {Len(Siblings(Head(work)))}
    PROVE  LET page == Filtered(SubSeq(Siblings(Head(work)), ListedBefore(page_token) + 1, upto),
                                LAMBDA p : p \in unity)
               names == listed \o page
           IN /\ upto \in 1..Len(Siblings(Head(work))) \/ upto = Len(Siblings(Head(work)))
              /\ Enumerates(names, Range(names)) /\ Covers(Range(names), Upto(Head(work), upto))
<1>. DEFINE path == Head(work)
            siblings == Siblings(path)
            b == ListedBefore(page_token)
            slice == SubSeq(siblings, b + 1, upto)
            K == {i \in DOMAIN slice : slice[i] \in unity}
            page == Filtered(slice, LAMBDA p : p \in unity)
            names == listed \o page
            T == {siblings[i] : i \in (b + 1)..upto}
<1>1. path \in Paths
  BY HeadAndTail DEF WorkInv
<1>2. /\ Enumerates(siblings, Children(path)) /\ siblings \in Seq(Children(path))
      /\ Len(siblings) \in Nat /\ DOMAIN siblings = 1..Len(siblings)
  <2>1. Enumerates(siblings, Children(path))
    BY <1>1, SiblingsAre
  <2>2. siblings \in Seq(Children(path))
    BY <2>1 DEF Enumerates
  <2>. HIDE DEF siblings
  <2>. QED  BY <2>1, <2>2
<1>3. /\ b \in 0..Len(siblings) /\ Enumerates(listed, Range(listed))
      /\ Covers(Range(listed), Upto(path, b))
  <2>1. CASE page_token = None /\ listed = <<>>
    <3>1. b = 0 /\ Range(listed) = {} /\ DOMAIN listed = {} /\ listed \in Seq(Range(listed))
      BY <2>1 DEF ListedBefore, Range
    <3>2. Upto(path, 0) = {}
      BY DEF Upto
    <3>. QED  BY <1>2, <3>1, <3>2 DEF Covers, Enumerates
  <2>2. CASE ~(page_token = None /\ listed = <<>>)
    <3>1. PICK n \in 1..(Len(siblings) - 1) : page_token = <<n>> /\ Covers(Range(listed), Upto(path, n))
      BY <2>2 DEF ListInv
    <3>2. <<n>> \in Seq(Nat) /\ <<n>>[1] = n
      BY <1>2
    <3>3. b = n
      BY <3>1, <3>2, UnityAssumption DEF ListedBefore
    <3>. QED  BY <1>2, <2>2, <3>1, <3>3 DEF ListInv
  <2>. QED  BY <2>1, <2>2
<1>. HIDE DEF path, siblings, b
<1>4. upto \in b..Len(siblings)
  <2>1. upto \in (b + 1)..Len(siblings) \cup {Len(siblings)}
    BY DEF path, siblings, b
  <2>. DEFINE m == Len(siblings)
  <2>. HIDE DEF m
  <2>2. m \in Nat /\ b \in 0..m /\ (upto \in (b + 1)..m \/ upto = m)
    BY <1>2, <1>3, <2>1 DEF m
  <2>3. upto \in b..m
    BY <2>2
  <2>. QED  BY <2>3 DEF m
<1>5. Enumerates(slice, T)
  BY <1>2, <1>3, <1>4, SliceLists
<1>6. page = Vector(Retained(slice, K))
  BY DEF Filtered
<1>7. Enumerates(page, T \cap unity)
  <2>1. slice \in Seq(T) /\ Range(slice) = T
    BY <1>5 DEF Enumerates
  <2>2. {slice[i] : i \in K} = T \cap unity
    <3>. HIDE DEF slice, T
    <3>. QED  BY <2>1 DEF Range
  <2>3. K \in SUBSET DOMAIN slice
    OBVIOUS
  <2>. HIDE DEF K, slice, T
  <2>4. Enumerates(Retained(slice, K), T \cap unity)
    BY <1>5, <2>2, <2>3, RetainedLists
  <2>5. Vector(Retained(slice, K)) = Retained(slice, K)
    BY <2>4, VectorIs DEF Enumerates
  <2>. QED  BY <1>6, <2>4, <2>5
<1>. HIDE DEF page
<1>8. Upto(path, b) \cap T = {}
  <2>. SUFFICES ASSUME NEW i \in 1..b, NEW j \in (b + 1)..upto, siblings[i] = siblings[j]
               PROVE  FALSE
    BY DEF Upto, siblings
  <2>1. i \in DOMAIN siblings /\ j \in DOMAIN siblings /\ i # j
    BY <1>2, <1>3, <1>4
  <2>. QED  BY <1>2, <2>1 DEF Enumerates
<1>9. Upto(path, upto) = Upto(path, b) \cup T
  <2>1. \A i : i \in 1..upto <=> i \in 1..b \/ i \in (b + 1)..upto
    BY <1>2, <1>3, <1>4
  <2>. QED  BY <2>1 DEF Upto, siblings
<1>. HIDE DEF T
<1>10. Enumerates(names, Range(listed) \cup (T \cap unity))
  <2>1. Range(listed) \cap (T \cap unity) = {}
    BY <1>3, <1>8 DEF Covers
  <2>. QED  BY <1>3, <1>7, <2>1, ConcatLists
<1>. HIDE DEF names
<1>11. Range(names) = Range(listed) \cup (T \cap unity)
  BY <1>10 DEF Enumerates
<1>12. Covers(Range(names), Upto(path, upto))
  BY <1>3, <1>9, <1>11 DEF Covers, UnityInv
<1>13. upto \in 1..Len(siblings) \/ upto = Len(siblings)
  <2>. DEFINE m == Len(siblings)
  <2>. HIDE DEF m
  <2>1. m \in Nat /\ b \in 0..m /\ (upto \in (b + 1)..m \/ upto = m)
    BY <1>2, <1>3 DEF m, path, siblings, b
  <2>2. upto \in 1..m \/ upto = m
    BY <2>1
  <2>. QED  BY <2>2 DEF m
<1>. QED  BY <1>10, <1>11, <1>12, <1>13 DEF names, page, slice, siblings, path, b

\* What is kept of a listing.
LEMMA KeptIs ==
    ASSUME NEW names, Enumerates(names, Range(names)), Range(names) \subseteq Objects, NEW level
    PROVE  Enumerates(SortListing(Filtered(names, LAMBDA p : Matches(level, p))),
                 {p \in Range(names) : Matches(level, p)})
<1>. DEFINE K == {i \in DOMAIN names : Matches(level, names[i])}
            found == Filtered(names, LAMBDA p : Matches(level, p))
            M == {p \in Range(names) : Matches(level, p)}
<1>1. found = Vector(Retained(names, K))
  BY DEF Filtered
<1>2. {names[i] : i \in K} = M
  BY DEF Range
<1>3. K \in SUBSET DOMAIN names
  OBVIOUS
<1>4. M \in SUBSET Objects
  OBVIOUS
<1>. HIDE DEF K, M
<1>5. Enumerates(Retained(names, K), M)
  BY <1>2, <1>3, RetainedLists
<1>6. Vector(Retained(names, K)) = Retained(names, K)
  BY <1>5, VectorIs DEF Enumerates
<1>. HIDE DEF found
<1>7. Enumerates(found, M)
  BY <1>1, <1>5, <1>6
<1>8. Enumerates(SortListing(found), M)
  BY <1>4, <1>7, SortListingIs
<1>. QED  BY <1>8 DEF found, M

\* A child that is kept leads on to a legitimate path.
LEMMA KeptChild ==
    ASSUME PlanOK, NEW path \in Paths, Good(path), Len(path) < Depth,
           NEW p \in Children(path), Matches(plan.levels[Len(path) + 1], p)
    PROVE  /\ Append(path, Last(p)) \in Paths /\ Legit(Append(path, Last(p)))
           /\ Len(Append(path, Last(p))) = Len(path) + 1 /\ Len(p) = Len(path) + 1
           /\ Under(p, Append(path, Last(p))) /\ Under(p, path)
           /\ \A o \in Objects :
                Under(o, Append(path, Last(p))) => /\ Under(o, path) /\ Len(p) <= Len(o)
                                                   /\ \A i \in 1..Len(p) : o[i] = p[i]
<1>1. p \in Objects
  BY DEF Children
<1>2. /\ plan.levels[Len(path) + 1].how \notin {"only", "never"}
      /\ Selects(plan.levels[Len(path) + 1], Last(p)) /\ Legit(path)
      /\ Len(p) = 3 /\ plan.kind # "any" => (IsViewLike(p) <=> plan.kind = "view")
  BY DEF Good, Matches
<1>3. Legit(Append(path, Last(p)))
  BY <1>2, ChildLegit
<1>. QED  BY <1>1, <1>3, ChildPath

\* A wanted object below a path that is listed is, or is in, a child that is kept.
LEMMA WantedBelow ==
    ASSUME PlanOK, UnityInv, NEW path \in Paths, Good(path), Len(path) < Depth,
           NEW o \in always, Wanted(o), Under(o, path)
    PROVE  \E a \in Children(path) \cap always :
             /\ Matches(plan.levels[Len(path) + 1], a)
             /\ Under(o, Append(path, Last(a)))
             /\ Len(path) + 1 = Depth => a = o
<1>. DEFINE m == Len(path)
            n == m + 1
<1>1. /\ o \in Objects /\ o \in Paths /\ Len(o) = Depth /\ Depth \in 1..3 /\ m \in Nat
      /\ m < Depth
  BY PlanFacts, ObjectIsPath DEF UnityInv, Wanted, Paths
<1>2. n \in 1..Len(o) /\ n \in 1..Depth /\ n >= 1 /\ n - 1 = m /\ n \in Nat
  BY <1>1
<1>. HIDE DEF n
<1>3. PICK a \in always : Len(a) = n /\ \A i \in 1..n : a[i] = o[i]
  <2>1. always \in SUBSET Objects /\ FrontClosed(always)
    BY DEF UnityInv
  <2>. QED  BY <1>2, <2>1, AncestorIn
<1>4. a \in Objects /\ a \in Paths /\ n \in 1..3
  BY <1>3, ObjectIsPath DEF UnityInv
<1>5. /\ Front(a) \in Paths /\ Len(Front(a)) = m /\ \A i \in 1..m : Front(a)[i] = o[i]
  <2>1. Front(a) \in Paths /\ Len(Front(a)) = n - 1 /\ \A i \in 1..(n - 1) : Front(a)[i] = a[i]
    BY <1>2, <1>3, <1>4, FrontIs
  <2>2. \A i \in 1..m : i \in 1..n
    BY <1>1 DEF n
  <2>. QED  BY <1>2, <1>3, <2>1, <2>2
<1>6. SamePath(Front(a), path)
  <2>1. \A i \in 1..m : SameName(Front(a)[i], path[i])
    BY <1>5 DEF Under
  <2>. QED  BY <1>5, <2>1, SamePathMeans
<1>7. a \in Children(path)
  BY <1>3, <1>4, <1>6 DEF Children, n
<1>8. n = Depth => a = o
  <2>. SUFFICES ASSUME n = Depth
               PROVE  a = o
    OBVIOUS
  <2>1. SamePath(a, o)
    BY <1>1, <1>3, <1>4, SamePathMeans DEF SameName
  <2>. QED  BY <1>1, <1>4, <2>1, SameObject
<1>9. Last(a) = o[n]
  BY <1>2, <1>3 DEF Last
<1>10. Matches(plan.levels[n], a)
  <2>1. plan.levels[n].how \notin {"only", "never"}
    BY DEF Good, n
  <2>2. Selects(plan.levels[n], o[n])
    BY <1>2, <2>1 DEF Wanted
  <2>3. ASSUME Len(a) = 3, plan.kind # "any"
        PROVE  IsViewLike(a) <=> plan.kind = "view"
    <3>1. n = Depth /\ Depth = 3
      BY <1>1, <1>2, <1>3, <2>3
    <3>. QED  BY <1>8, <2>3, <3>1 DEF Wanted
  <2>. QED  BY <1>9, <2>2, <2>3 DEF Matches
<1>11. Under(o, Append(path, Last(a)))
  <2>. DEFINE w == Append(path, Last(a))
  <2>1. Len(w) = n /\ w[n] = o[n] /\ \A i \in 1..m : w[i] = path[i]
    <3>1. Last(a) \in PathNames
      BY <1>2, <1>3, <1>4 DEF Last, Paths
    <3>2. Len(w) = m + 1 /\ w[m + 1] = Last(a) /\ \A i \in 1..m : w[i] = path[i]
      BY <3>1, AppendProperties DEF Paths
    <3>. QED  BY <1>9, <3>2 DEF n
  <2>. HIDE DEF w
  <2>2. \A i \in 1..n : i = n \/ i \in 1..m
    BY <1>1, <1>2
  <2>3. \A i \in 1..n : SameName(o[i], w[i])
    BY <2>1, <2>2 DEF Under, SameName
  <2>4. n <= Len(o)
    BY <1>1, <1>2
  <2>. QED  BY <2>1, <2>3, <2>4 DEF Under, w
<1>. QED  BY <1>3, <1>7, <1>8, <1>10, <1>11 DEF n

\* The row of a child that is kept at the last level.
LeafRow(path, p) == Row(IF plan.reports = "unity" THEN p ELSE Append(path, Last(p)), None, 0)

\* Such a row is the row of the object.
LEMMA LeafRowIs ==
    ASSUME PlanOK, NEW path \in Paths, Good(path), Len(path) + 1 = Depth, plan.details = None,
           NEW p \in Children(path), Matches(plan.levels[Len(path) + 1], p)
    PROVE  Wanted(p) /\ ObjectRows(p) = {LeafRow(path, p)}
<1>1. Len(path) < Depth /\ p \in Objects
  <2>1. Len(path) \in Nat
    BY DEF Paths
  <2>. QED  BY <2>1 DEF Children
<1>2. Wanted(p) /\ Reported(p) = IF plan.reports = "unity" THEN p ELSE Append(path, Last(p))
  BY <1>1, KeptChild, LegitWanted
<1>. QED  BY <1>2 DEF ObjectRows, LeafRow

\* The children of a path that are kept of a complete listing.
KeptOf(path, names) == {p \in Range(names) : Matches(plan.levels[Len(path) + 1], p)}

\* The listing of the path at the head is complete.
Complete(path, names) ==
    /\ work # <<>> /\ path = Head(work) /\ Len(path) < Depth
    /\ Enumerates(names, Range(names)) /\ Covers(Range(names), Children(path))

\* What the invariant says of the path at the head, and of what is kept of its listing.
LEMMA CompleteMeans ==
    ASSUME PlanOK, UnityInv, WorkInv, NEW path, NEW names, Complete(path, names)
    PROVE  /\ path \in Paths /\ Good(path) /\ Len(path) < Depth
           /\ Range(names) \subseteq Objects
           /\ \A p \in KeptOf(path, names) : /\ p \in Children(path) /\ p \in ever /\ p \in Objects
                                             /\ Matches(plan.levels[Len(path) + 1], p)
           /\ \A p \in Children(path) \cap always :
                Matches(plan.levels[Len(path) + 1], p) => p \in KeptOf(path, names)
           /\ ~OneTable
<1>1. path \in Paths /\ Good(path) /\ Len(path) < Depth
  BY HeadAndTail DEF Complete, WorkInv
<1>2. ~OneTable
  <2>1. Len(path) + 1 \in 1..Depth
    BY <1>1, PlanFacts DEF Paths
  <2>. QED  BY <1>1, <2>1 DEF OneTable, Good
<1>3. /\ Range(names) \subseteq Objects
      /\ \A p \in Range(names) : p \in Children(path) /\ p \in ever /\ p \in Objects
      /\ \A p \in Children(path) \cap always : p \in Range(names)
  BY DEF Complete, Covers, Children
<1>. QED  BY <1>1, <1>2, <1>3 DEF KeptOf

\* The rows that a listing of the last level adds are rows of the objects there.
LEMMA LeafRowsAre ==
    ASSUME PlanOK, UnityInv, WorkInv, RowsInv, NEW path, NEW names, Complete(path, names),
           Len(path) + 1 = Depth, plan.details = None,
           NEW kept, Enumerates(kept, KeptOf(path, names))
    PROVE  LET new == [i \in DOMAIN kept |-> LeafRow(path, kept[i])]
               S == {LeafRow(path, p) : p \in KeptOf(path, names)}
           IN /\ Enumerates(rows \o new, Range(rows) \cup S)
              /\ \A p \in KeptOf(path, names) : Wanted(p) /\ ObjectRows(p) = {LeafRow(path, p)}
<1>. DEFINE K == KeptOf(path, names)
            new == [i \in DOMAIN kept |-> LeafRow(path, kept[i])]
            S == {LeafRow(path, p) : p \in K}
            f == [p \in K |-> LeafRow(path, p)]
            new2 == [i \in DOMAIN kept |-> f[kept[i]]]
<1>1. /\ path \in Paths /\ Good(path)
      /\ \A p \in K : p \in Children(path) /\ p \in Objects /\ Matches(plan.levels[Len(path) + 1], p)
  BY CompleteMeans
<1>2. \A p \in K : Wanted(p) /\ ObjectRows(p) = {LeafRow(path, p)}
  BY <1>1, LeafRowIs
<1>. HIDE DEF K
<1>3. \A p, q \in K : LeafRow(path, p) = LeafRow(path, q) => p = q
  <2>. SUFFICES ASSUME NEW p \in K, NEW q \in K, LeafRow(path, p) = LeafRow(path, q)
               PROVE  p = q
    OBVIOUS
  <2>1. SameRow(LeafRow(path, p), LeafRow(path, q))
    BY DEF SameRow, SamePath
  <2>2. LeafRow(path, p) \in ObjectRows(p) /\ LeafRow(path, q) \in ObjectRows(q)
    BY <1>2
  <2>. QED  BY <1>1, <1>2, <2>1, <2>2, RowsDiffer
<1>4. Enumerates(new2, {f[p] : p \in K})
  <2>1. \A p, q \in K : f[p] = f[q] => p = q
    BY <1>3
  <2>2. Enumerates(kept, K)
    BY DEF K
  <2>. HIDE DEF f
  <2>. QED  BY <2>1, <2>2, MappedLists
<1>5. new2 = new
  <2>1. \A i \in DOMAIN kept : kept[i] \in K
    BY DEF K, Enumerates, Range
  <2>. QED  BY <2>1
<1>6. {f[p] : p \in K} = S
  OBVIOUS
<1>. HIDE DEF f, new, new2, S
<1>7. Enumerates(new, S)
  BY <1>4, <1>5, <1>6
<1>8. Range(rows) \cap S = {}
  <2>. SUFFICES ASSUME NEW r \in Range(rows), NEW q \in K, r = LeafRow(path, q)
               PROVE  FALSE
    BY DEF S
  <2>1. PICK p \in ever : Wanted(p) /\ r \in ObjectRows(p) /\ ~Pending(p)
    BY DEF RowsInv
  <2>2. r \in ObjectRows(q) /\ SameRow(r, r) /\ p \in Objects /\ q \in Objects
    BY <1>1, <1>2 DEF SameRow, SamePath, UnityInv
  <2>3. p = q
    BY <1>2, <2>1, <2>2, RowsDiffer
  <2>4. Under(q, path)
    BY <1>1, CompleteMeans, KeptChild
  <2>5. Pending(q)
    BY <2>4, HeadAndTail DEF Complete, WorkInv, Pending
  <2>. QED  BY <2>1, <2>3, <2>5
<1>9. Enumerates(rows \o new, Range(rows) \cup S)
  BY <1>7, <1>8, ConcatLists DEF RowsInv
<1>. QED  BY <1>2, <1>9 DEF new, S, K

\* A listing of the last level that is complete.
LEMMA TakeLeaf ==
    ASSUME PlanOK, UnityInv, WorkInv, RowsInv, NEW path, NEW names, Complete(path, names),
           Len(path) + 1 = Depth, plan.details = None,
           NEW kept, Enumerates(kept, KeptOf(path, names)),
           rows' = rows \o [i \in DOMAIN kept |-> LeafRow(path, kept[i])],
           work' = Tail(work), UNCHANGED <<plan, request, always, ever>>
    PROVE  WorkInv' /\ RowsInv'
<1>. DEFINE K == KeptOf(path, names)
            S == {LeafRow(path, p) : p \in K}
            rest == Tail(work)
<1>1. /\ path \in Paths /\ Good(path) /\ Len(path) < Depth
      /\ \A p \in K : /\ p \in Children(path) /\ p \in Objects /\ p \in ever
                      /\ Matches(plan.levels[Len(path) + 1], p)
      /\ \A p \in Children(path) \cap always : Matches(plan.levels[Len(path) + 1], p) => p \in K
  BY CompleteMeans
<1>2. /\ Enumerates(rows', Range(rows) \cup S)
      /\ \A p \in K : Wanted(p) /\ ObjectRows(p) = {LeafRow(path, p)}
  BY LeafRowsAre
<1>3. /\ rest \in Seq(Paths) /\ Apart(rest)
      /\ \A i \in DOMAIN rest : i + 1 \in DOMAIN work /\ rest[i] = work[i + 1]
      /\ \A o : Pending(o) <=> Under(o, path) \/ UnderSome(o, rest)
      /\ \A o \in Objects : ~(Under(o, path) /\ UnderSome(o, rest))
  BY HeadAndTail DEF WorkInv, Complete, Pending
<1>4. /\ \A w : Good(w)' <=> Good(w)
      /\ \A p : (Wanted(p)' <=> Wanted(p)) /\ ObjectRows(p)' = ObjectRows(p)
  BY SamePlan
<1>5. \A p : Pending(p)' <=> UnderSome(p, rest)
  BY DEF Pending
<1>. HIDE DEF K, S, rest
<1>6. WorkInv'
  <2>1. \A i \in DOMAIN rest : Good(rest[i])
    BY <1>3 DEF WorkInv
  <2>. QED  BY <1>3, <1>4, <2>1 DEF WorkInv, rest, Apart
<1>7. Range(rows') = Range(rows) \cup S /\ Enumerates(rows', Range(rows'))
  BY <1>2 DEF Enumerates
<1>8. ASSUME NEW r \in Range(rows')
      PROVE  \E p \in ever : Wanted(p) /\ r \in ObjectRows(p) /\ ~UnderSome(p, rest)
  <2>1. CASE r \in Range(rows)
    BY <1>3, <2>1 DEF RowsInv
  <2>2. CASE r \in S
    <3>1. PICK p \in K : r = LeafRow(path, p)
      BY <2>2 DEF S
    <3>2. Under(p, path)
      BY <1>1, KeptChild
    <3>. QED  BY <1>1, <1>2, <1>3, <3>1, <3>2
  <2>. QED  BY <1>7, <2>1, <2>2
<1>9. ASSUME NEW p \in always, Wanted(p), ~UnderSome(p, rest)
      PROVE  ObjectRows(p) \subseteq Range(rows')
  <2>1. CASE Under(p, path)
    <3>1. p \in K
      BY <1>1, <1>9, <2>1, WantedBelow
    <3>. QED  BY <1>2, <1>7, <3>1 DEF S
  <2>2. CASE ~Under(p, path)
    BY <1>3, <1>7, <1>9, <2>2 DEF RowsInv
  <2>. QED  BY <2>1, <2>2
<1>10. RowsInv'
  BY <1>4, <1>5, <1>7, <1>8, <1>9 DEF RowsInv
<1>. QED  BY <1>6, <1>10

\* A listing of another level that is complete.
LEMMA TakeInner ==
    ASSUME PlanOK, UnityInv, WorkInv, RowsInv, NEW path, NEW names, Complete(path, names),
           ~(Len(path) + 1 = Depth /\ plan.details = None),
           NEW kept, Enumerates(kept, KeptOf(path, names)), rows' = rows,
           work' = PathsBelow(plan.levels, [i \in DOMAIN kept |-> Append(path, Last(kept[i]))])
                     \o Tail(work),
           UNCHANGED <<plan, request, always, ever>>
    PROVE  WorkInv' /\ RowsInv'
<1>. DEFINE K == KeptOf(path, names)
            paths == [i \in DOMAIN kept |-> Append(path, Last(kept[i]))]
            ws == PathsBelow(plan.levels, paths)
            rest == Tail(work)
<1>1. /\ path \in Paths /\ Good(path) /\ Len(path) < Depth
      /\ \A p \in K : /\ p \in Children(path) /\ p \in Objects
                      /\ Matches(plan.levels[Len(path) + 1], p)
      /\ \A p \in Children(path) \cap always : Matches(plan.levels[Len(path) + 1], p) => p \in K
  BY CompleteMeans
<1>2. /\ rest \in Seq(Paths) /\ Apart(rest)
      /\ \A i \in DOMAIN rest : i + 1 \in DOMAIN work /\ rest[i] = work[i + 1]
      /\ \A o : Pending(o) <=> Under(o, path) \/ UnderSome(o, rest)
      /\ \A o \in Objects : ~(Under(o, path) /\ UnderSome(o, rest))
  BY HeadAndTail DEF WorkInv, Complete, Pending
<1>3. /\ \A w : Good(w)' <=> Good(w)
      /\ \A p : (Wanted(p)' <=> Wanted(p)) /\ ObjectRows(p)' = ObjectRows(p)
  BY SamePlan
<1>4. /\ kept \in Seq(K) /\ DOMAIN kept = 1..Len(kept) /\ Len(kept) \in Nat
      /\ \A i \in DOMAIN kept : kept[i] \in K
      /\ \A p \in K : \E i \in DOMAIN kept : kept[i] = p
      /\ \A i, j \in DOMAIN kept : kept[i] = kept[j] => i = j
  BY DEF Enumerates, Range
<1>. HIDE DEF K, rest
<1>5. ASSUME NEW i \in DOMAIN kept
      PROVE  /\ paths[i] = Append(path, Last(kept[i])) /\ paths[i] \in Paths /\ Legit(paths[i])
             /\ Len(paths[i]) = Depth => plan.details # None
             /\ Len(kept[i]) = Len(path) + 1
             /\ \A o \in Objects : Under(o, paths[i]) =>
                  Under(o, path) /\ \A k \in 1..(Len(path) + 1) : o[k] = kept[i][k]
  <2>. DEFINE p == kept[i]
              w == Append(path, Last(p))
  <2>1. p \in K /\ paths[i] = w
    BY <1>4
  <2>. HIDE DEF p, w, paths
  <2>2. /\ w \in Paths /\ Legit(w) /\ Len(w) = Len(path) + 1 /\ Len(p) = Len(path) + 1
        /\ \A o \in Objects : Under(o, w) => /\ Under(o, path)
                                             /\ \A k \in 1..Len(p) : o[k] = p[k]
    BY <1>1, <2>1, KeptChild DEF w
  <2>3. Len(w) = Depth => plan.details # None
    BY <2>2
  <2>. QED  BY <2>1, <2>2, <2>3 DEF p, w
<1>6. paths \in Seq(Paths) /\ DOMAIN paths = DOMAIN kept
  BY <1>4, <1>5
<1>. HIDE DEF paths
<1>7. Apart(paths)
  <2>. SUFFICES ASSUME NEW i \in DOMAIN kept, NEW j \in DOMAIN kept, NEW o \in Objects,
                      Under(o, paths[i]), Under(o, paths[j])
               PROVE  i = j
    BY <1>6 DEF Apart
  <2>1. /\ Len(kept[i]) = Len(path) + 1 /\ Len(kept[j]) = Len(path) + 1
        /\ \A k \in 1..(Len(path) + 1) : kept[i][k] = kept[j][k]
    BY <1>5
  <2>2. kept[i] \in Objects /\ kept[j] \in Objects /\ kept[i] \in Paths /\ kept[j] \in Paths
    BY <1>1, <1>4, ObjectIsPath
  <2>3. SamePath(kept[i], kept[j])
    BY <2>1, <2>2, SamePathMeans DEF SameName
  <2>. QED  BY <1>4, <2>2, <2>3, SameObject
<1>8. /\ ws \in Seq(Paths) /\ Apart(ws) /\ \A k \in DOMAIN ws : Good(ws[k])
      /\ \A k \in DOMAIN ws : \E i \in DOMAIN paths :
           \A o \in Objects : Under(o, ws[k]) => Under(o, paths[i])
      /\ \A i \in DOMAIN paths : \A o \in Objects :
           Wanted(o) /\ Under(o, paths[i]) => \E k \in DOMAIN ws : Under(o, ws[k])
  BY <1>5, <1>6, <1>7, PathsBelowIs
<1>9. work' = ws \o rest
  BY DEF paths, rest
<1>. HIDE DEF ws
<1>10. \A o \in Objects : UnderSome(o, ws) => Under(o, path)
  BY <1>5, <1>6, <1>8 DEF UnderSome
<1>11. /\ work' \in Seq(Paths) /\ Apart(work')
       /\ \A i \in DOMAIN work' : \/ \E k \in DOMAIN ws : work'[i] = ws[k]
                                  \/ \E k \in DOMAIN rest : work'[i] = rest[k]
       /\ \A o : UnderSome(o, work') <=> UnderSome(o, ws) \/ UnderSome(o, rest)
  <2>1. \A o \in Objects : ~(UnderSome(o, ws) /\ UnderSome(o, rest))
    BY <1>2, <1>10
  <2>. DEFINE new == ws \o rest
  <2>2. /\ new \in Seq(Paths) /\ Apart(new)
        /\ \A i \in DOMAIN new : \/ \E k \in DOMAIN ws : new[i] = ws[k]
                                 \/ \E k \in DOMAIN rest : new[i] = rest[k]
        /\ \A o : UnderSome(o, new) <=> UnderSome(o, ws) \/ UnderSome(o, rest)
    BY <1>2, <1>8, <2>1, TwoLists
  <2>3. work' = new
    BY <1>9
  <2>. HIDE DEF new
  <2>. QED  BY <2>2, <2>3
<1>12. WorkInv'
  <2>1. \A i \in DOMAIN rest : Good(rest[i])
    BY <1>2 DEF WorkInv
  <2>2. \A i \in DOMAIN work' : Good(work'[i])
    BY <1>8, <1>11, <2>1
  <2>. QED  BY <1>3, <1>11, <2>2 DEF WorkInv, Apart
<1>13. \A p : Pending(p)' <=> UnderSome(p, ws) \/ UnderSome(p, rest)
  BY <1>11 DEF Pending, UnderSome
<1>14. ASSUME NEW r \in Range(rows)
       PROVE  \E p \in ever : Wanted(p) /\ r \in ObjectRows(p) /\ ~(UnderSome(p, ws) \/ UnderSome(p, rest))
  BY <1>2, <1>10 DEF RowsInv, UnityInv
<1>15. ASSUME NEW p \in always, Wanted(p), ~(UnderSome(p, ws) \/ UnderSome(p, rest))
       PROVE  ObjectRows(p) \subseteq Range(rows)
  <2>1. CASE Under(p, path)
    <3>1. PICK a \in K : Under(p, Append(path, Last(a)))
      BY <1>1, <1>15, <2>1, WantedBelow
    <3>2. PICK i \in DOMAIN kept : kept[i] = a
      BY <1>4
    <3>3. UnderSome(p, ws)
      <4>1. paths[i] = Append(path, Last(kept[i])) /\ i \in DOMAIN paths
        BY <1>5, <1>6
      <4>2. Under(p, paths[i])
        BY <3>1, <3>2, <4>1
      <4>. QED  BY <1>8, <1>15, <4>1, <4>2 DEF UnderSome, UnityInv
    <3>. QED  BY <1>15, <3>3
  <2>2. CASE ~Under(p, path)
    BY <1>2, <1>15, <2>2 DEF RowsInv
  <2>. QED  BY <2>1, <2>2
<1>16. RowsInv'
  BY <1>3, <1>13, <1>14, <1>15 DEF RowsInv
<1>. QED  BY <1>12, <1>16

\* The walk goes on with what it keeps of a listing that is complete.
LEMMA TakeIs ==
    ASSUME PlanOK, UnityInv, WorkInv, RowsInv, NEW path, NEW names, Complete(path, names),
           Take(path, names), UNCHANGED <<plan, request, always, ever>>
    PROVE  WorkInv' /\ RowsInv' /\ OrderInv'
<1>. DEFINE level == plan.levels[Len(path) + 1]
            kept == SortListing(Filtered(names, LAMBDA p : Matches(level, p)))
<1>1. Enumerates(kept, KeptOf(path, names))
  BY CompleteMeans, KeptIs DEF Complete, KeptOf
<1>2. /\ rows' = IF ~(Len(path) + 1 = Depth /\ plan.details = None) THEN rows
                 ELSE rows \o [i \in DOMAIN kept |-> LeafRow(path, kept[i])]
      /\ work' = IF Len(path) + 1 = Depth /\ plan.details = None THEN Tail(work)
                 ELSE PathsBelow(plan.levels, [i \in DOMAIN kept |-> Append(path, Last(kept[i]))])
                        \o Tail(work)
  BY DEF Take, LeafRow
<1>. HIDE DEF kept
<1>3. WorkInv' /\ RowsInv'
  <2>1. CASE Len(path) + 1 = Depth /\ plan.details = None
    BY <1>1, <1>2, <2>1, TakeLeaf
  <2>2. CASE ~(Len(path) + 1 = Depth /\ plan.details = None)
    BY <1>1, <1>2, <2>2, TakeInner
  <2>. QED  BY <2>1, <2>2
<1>4. ~OneTable'
  BY CompleteMeans, SamePlan
<1>. QED  BY <1>3, <1>4 DEF OrderInv

-----------------------------------------------------------------------------
(* The steps keep the invariant. *)

\* The siblings up to the last are all children.
LEMMA UptoLast ==
    ASSUME NEW path \in Paths
    PROVE  /\ Len(Siblings(path)) \in Nat
           /\ Upto(path, Len(Siblings(path))) = Children(path)
           /\ \A n \in 1..(Len(Siblings(path)) - 1) : Upto(path, n) \subseteq Children(path)
<1>. DEFINE siblings == Siblings(path)
            m == Len(siblings)
<1>1. Enumerates(siblings, Children(path))
  BY SiblingsAre
<1>. HIDE DEF siblings
<1>2. siblings \in Seq(Children(path)) /\ Range(siblings) = Children(path)
  BY <1>1 DEF Enumerates
<1>3. m \in Nat /\ DOMAIN siblings = 1..m
  BY <1>2
<1>4. {siblings[k] : k \in 1..m} = Children(path)
  BY <1>2, <1>3 DEF Range
<1>. HIDE DEF m
<1>5. \A n \in 1..(m - 1) : \A k \in 1..n : k \in 1..m
  BY <1>3
<1>6. \A n \in 1..(m - 1) : {siblings[k] : k \in 1..n} \subseteq Children(path)
  BY <1>4, <1>5
<1>. QED  BY <1>3, <1>4, <1>6 DEF Upto, siblings, m

\* While the walk goes on, the rest follows from what holds of the walk.
LEMMA WalkTyped ==
    UnityInv /\ request \in Requests /\ status = "walking" /\ WalkInv => IInv
<1>. SUFFICES ASSUME UnityInv, request \in Requests, status = "walking", WalkInv
             PROVE  IInv
  OBVIOUS
<1>1. \A p \in unity : p \in Objects /\ (Len(p) > 1 => Front(p) \in unity)
  BY DEF UnityInv, FrontClosed
<1>2. \A i \in DOMAIN work : Len(work[i]) <= Depth
  BY DEF WalkInv, WorkInv, Good, Legit
<1>3. ASSUME listed # <<>>
      PROVE  page_token # None /\ \A i \in DOMAIN listed : SamePath(Front(listed[i]), Head(work))
  <2>1. /\ work # <<>>
        /\ \E n \in 1..(Len(Siblings(Head(work))) - 1) :
             page_token = <<n>> /\ Covers(Range(listed), Upto(Head(work), n))
    BY <1>3 DEF WalkInv, ListInv
  <2>2. Head(work) \in Paths
    BY <2>1, HeadAndTail DEF WalkInv, WorkInv
  <2>3. Len(Siblings(Head(work))) \in Nat
    BY <2>2, UptoLast
  <2>4. PICK n \in 1..(Len(Siblings(Head(work))) - 1) :
          page_token = <<n>> /\ Covers(Range(listed), Upto(Head(work), n))
    BY <2>1
  <2>5. <<n>> \in Seq(Nat)
    BY <2>3
  <2>6. page_token # None
    BY <2>4, <2>5, UnityAssumption
  <2>7. Range(listed) \subseteq Children(Head(work))
    BY <2>2, <2>4, UptoLast DEF Covers
  <2>. QED  BY <2>6, <2>7 DEF Range, Children
<1>4. TypeOK
  BY <1>1, <1>2, <1>3 DEF TypeOK, UnityInv, Statuses
<1>5. WalkIsConsistent /\ AnswerIsSorted
  BY DEF WalkIsConsistent, AnswerIsSorted
<1>. QED  BY <1>4, <1>5 DEF IInv

\* The same of the state after a step.
LEMMA WalkTypedNext ==
    ASSUME UnityInv', (request \in Requests)', (status = "walking")', WalkInv'
    PROVE  IInv'
BY WalkTyped, PTL

\* A request that fails, or is none of these, keeps what it has.
LEMMA StopsAsIs ==
    ASSUME IInv, status' \in {"failed", "not_show"}, UNCHANGED <<walk, request, unity, always, ever>>
    PROVE  IInv'
<1>1. plan' = plan /\ work' = work /\ page_token' = page_token /\ listed' = listed /\ rows' = rows
  BY DEF walk
<1>2. TypeOK'
  BY <1>1 DEF IInv, TypeOK, Statuses, Depth
<1>3. UnityInv' /\ request' \in Requests
  BY DEF IInv, UnityInv
<1>4. WalkIsConsistent' /\ AnswerIsSorted'
  BY DEF WalkIsConsistent, AnswerIsSorted
<1>. QED  BY <1>2, <1>3, <1>4 DEF IInv

\* A step that leaves the plan, the paths and the rows leaves what holds of them.
LEMMA SameWork ==
    ASSUME WorkInv, RowsInv, OrderInv, UNCHANGED <<plan, request, work, rows, always, ever>>
    PROVE  WorkInv' /\ RowsInv' /\ OrderInv'
<1>1. /\ \A w : Good(w)' <=> Good(w)
      /\ OneTable' <=> OneTable
      /\ \A p : (Wanted(p)' <=> Wanted(p)) /\ ObjectRows(p)' = ObjectRows(p)
  BY SamePlan
<1>2. WorkInv'
  BY <1>1 DEF WorkInv, Apart
<1>3. RowsInv'
  BY <1>1 DEF RowsInv, Pending
<1>4. OrderInv'
  BY <1>1 DEF OrderInv, InOrder
<1>. QED  BY <1>2, <1>3, <1>4

\* ListPage: a page that is not the last is added to the listing, the last one ends it.
LEMMA ListStep ==
    ASSUME IInv, ListPage
    PROVE  IInv'
<1>. DEFINE path == Head(work)
            siblings == Siblings(path)
            b == ListedBefore(page_token)
            Page(upto) == Filtered(SubSeq(siblings, b + 1, upto), LAMBDA p : p \in unity)
            Names(upto) == listed \o Page(upto)
<1>1. /\ status = "walking" /\ work # <<>> /\ Len(path) < Depth
      /\ UNCHANGED <<request, unity, always, ever>>
  BY DEF ListPage
<1>2. PICK upto \in (b + 1)..Len(siblings) \cup {Len(siblings)} :
        \E next \in IF upto < Len(siblings) THEN {<<upto>>} ELSE {None, <<>>} :
          IF next \notin {None, <<>>}
          THEN /\ listed' = Names(upto) /\ page_token' = next
               /\ UNCHANGED <<status, work, rows, plan>>
          ELSE IF ~Compiles(plan.levels[Len(path) + 1]) THEN Fail
          ELSE EndListing /\ Take(path, Names(upto)) /\ UNCHANGED <<status, plan>>
  BY DEF ListPage
<1>3. PICK next \in IF upto < Len(siblings) THEN {<<upto>>} ELSE {None, <<>>} :
          IF next \notin {None, <<>>}
          THEN /\ listed' = Names(upto) /\ page_token' = next
               /\ UNCHANGED <<status, work, rows, plan>>
          ELSE IF ~Compiles(plan.levels[Len(path) + 1]) THEN Fail
          ELSE EndListing /\ Take(path, Names(upto)) /\ UNCHANGED <<status, plan>>
  BY <1>2
<1>4. /\ UnityInv /\ PlanOK /\ WorkInv /\ ListInv /\ RowsInv /\ OrderInv /\ request \in Requests
  BY <1>1 DEF IInv, WalkInv
<1>5. path \in Paths /\ Len(siblings) \in Nat /\ Upto(path, Len(siblings)) = Children(path)
  <2>1. path \in Paths
    BY <1>1, <1>4, HeadAndTail DEF WorkInv
  <2>. QED  BY <2>1, UptoLast
<1>6. /\ upto \in 1..Len(siblings) \/ upto = Len(siblings)
      /\ Enumerates(Names(upto), Range(Names(upto))) /\ Covers(Range(Names(upto)), Upto(path, upto))
  BY <1>1, <1>4, PageIs
<1>7. UnityInv' /\ (request \in Requests)'
  BY <1>1, <1>4 DEF UnityInv
<1>. HIDE DEF Page, b
<1>8. CASE next \notin {None, <<>>}
  <2>1. next = <<upto>> /\ upto \in 1..(Len(siblings) - 1)
    <3>. DEFINE m == Len(siblings)
    <3>1. m \in Nat /\ upto < m /\ next = <<upto>> /\ (upto \in 1..m \/ upto = m)
      BY <1>3, <1>5, <1>6, <1>8
    <3>. HIDE DEF m
    <3>2. upto \in 1..(m - 1)
      BY <3>1
    <3>. QED  BY <3>1, <3>2 DEF m
  <2>2. /\ listed' = Names(upto) /\ page_token' = <<upto>>
        /\ UNCHANGED <<status, work, rows, plan>>
    BY <1>3, <1>8, <2>1
  <2>. HIDE DEF Names
  <2>3. ListInv'
    <3>1. Depth' = Depth
      BY <2>2 DEF Depth
    <3>2. /\ work' # <<>> /\ Len(Head(work')) < Depth'
          /\ Enumerates(listed', Range(listed')) /\ upto \in 1..(Len(Siblings(Head(work'))) - 1)
          /\ page_token' = <<upto>>
      BY <1>1, <1>6, <2>1, <2>2, <3>1
    <3>3. Covers(Range(listed), Upto(Head(work), upto))'
      BY <1>1, <1>6, <2>2 DEF Covers, Upto
    <3>. QED  BY <3>2, <3>3 DEF ListInv
  <2>4. WorkInv' /\ RowsInv' /\ OrderInv' /\ PlanOK'
    BY <1>1, <1>4, <2>2, SameWork, SamePlan
  <2>5. WalkInv' /\ (status = "walking")'
    BY <1>1, <2>2, <2>3, <2>4 DEF WalkInv
  <2>. QED  BY <1>7, <2>5, WalkTypedNext
<1>9. CASE next \in {None, <<>>} /\ Compiles(plan.levels[Len(path) + 1])
  <2>1. upto = Len(siblings)
    <3>1. ~(upto < Len(siblings))
      <4>. SUFFICES ASSUME upto < Len(siblings)
                   PROVE  FALSE
        OBVIOUS
      <4>1. next = <<upto>>
        BY <1>3
      <4>2. upto \in Nat
        BY <1>5, <1>6
      <4>3. <<upto>> \in Seq(Nat) /\ <<upto>> # <<>>
        BY <4>2
      <4>. QED  BY <1>9, <4>1, <4>3, UnityAssumption
    <3>. QED  BY <1>5, <1>6, <3>1
  <2>2. EndListing /\ Take(path, Names(upto)) /\ status' = status /\ plan' = plan
    BY <1>3, <1>9
  <2>. HIDE DEF Names
  <2>3. Complete(path, Names(upto))
    BY <1>1, <1>5, <1>6, <2>1 DEF Complete
  <2>4. WorkInv' /\ RowsInv' /\ OrderInv'
    BY <1>1, <1>4, <2>2, <2>3, TakeIs
  <2>5. ListInv'
    BY <2>2 DEF EndListing, ListInv
  <2>6. PlanOK'
    BY <1>1, <1>4, <2>2, SamePlan
  <2>7. WalkInv' /\ (status = "walking")'
    BY <1>1, <2>2, <2>4, <2>5, <2>6 DEF WalkInv
  <2>. QED  BY <1>7, <2>7, WalkTypedNext
<1>10. CASE next \in {None, <<>>} /\ ~Compiles(plan.levels[Len(path) + 1])
  <2>1. Fail
    BY <1>3, <1>10
  <2>. QED  BY <1>1, <2>1, StopsAsIs DEF Fail
<1>. QED  BY <1>8, <1>9, <1>10

\* The table whose details are read is wanted, and no other is at that path.
LEMMA ReadIsWanted ==
    ASSUME PlanOK, UnityInv, WorkInv, work # <<>>, Len(Head(work)) = Depth, Exists(Head(work))
    PROVE  LET p == Canonical(Head(work))
           IN /\ p \in unity /\ p \in Objects /\ Wanted(p) /\ Len(p) = 3 /\ plan.details # None
              /\ Reported(p) = (IF plan.reports = "unity" THEN p ELSE Head(work))
              /\ ObjectRows(p) = Range(DetailRows(Reported(p), p))
              /\ \A o \in Objects : Wanted(o) => (Under(o, Head(work)) <=> o = p)
<1>. DEFINE w == Head(work)
            p == Canonical(w)
<1>1. w \in Paths /\ Good(w) /\ Legit(w) /\ Depth \in 1..3 /\ Len(w) = Depth
  BY HeadAndTail, PlanFacts DEF WorkInv, Good
<1>2. plan.details # None /\ Depth = 3
  BY <1>1, PlanFacts DEF Good
<1>3. p \in unity /\ SamePath(p, w)
  <2>1. w # <<>>
    BY <1>1
  <2>2. \E q \in unity : SamePath(q, w)
    BY <2>1 DEF Exists
  <2>. QED  BY <2>2 DEF Canonical
<1>. HIDE DEF p, w
<1>4. p \in Objects /\ p \in Paths
  BY <1>3, ObjectIsPath DEF UnityInv
<1>5. Len(p) = Depth /\ \A i \in 1..Depth : SameName(p[i], w[i])
  BY <1>1, <1>3, <1>4, SamePathMeans
<1>6. Under(p, w)
  BY <1>1, <1>5 DEF Under
<1>7. Wanted(p) /\ Reported(p) = IF plan.reports = "unity" THEN p ELSE w
  BY <1>1, <1>4, <1>5, <1>6, LegitWanted
<1>8. ASSUME NEW o \in Objects, Wanted(o), Under(o, w)
      PROVE  o = p
  <2>1. o \in Paths /\ Len(o) = Depth
    BY <1>8, ObjectIsPath DEF Wanted
  <2>2. \A i \in 1..Depth : SameName(o[i], p[i])
    BY <1>1, <1>5, <1>8 DEF Under, SameName
  <2>3. SamePath(o, p)
    BY <1>4, <1>5, <2>1, <2>2, SamePathMeans
  <2>. QED  BY <1>4, <2>3, SameObject
<1>9. ObjectRows(p) = Range(DetailRows(Reported(p), p))
  BY <1>2 DEF ObjectRows
<1>. QED  BY <1>2, <1>3, <1>4, <1>5, <1>6, <1>7, <1>8, <1>9 DEF p, w

\* The rows of one table are in order.
LEMMA DetailsInOrder ==
    ASSUME PlanOK, NEW p \in Objects, Wanted(p), Len(p) = 3, Positioned(p),
           plan.details # None, plan.details = "columns"
    PROVE  InOrder(DetailRows(Reported(p), p))
<1>. DEFINE rs == DetailRows(Reported(p), p)
            x == LowerPath(Reported(p))
<1>1. /\ \A r \in Range(rs) : r.at = Reported(p) /\ r.ordinal \in Nat
      /\ \A k, l \in DOMAIN rs : k < l => rs[k].ordinal <= rs[l].ordinal
  BY DetailRowsAre
<1>2. DOMAIN x = 1..Depth /\ \A i \in 1..Depth : x[i] \in Strings
  BY ReportedSame
<1>3. \A i \in DOMAIN x : ~StringBefore(x[i], x[i])
  BY <1>2, StringBeforeIrreflexive
<1>. HIDE DEF rs
<1>4. ASSUME NEW k \in DOMAIN rs, NEW l \in DOMAIN rs, k < l, RowBefore(rs[l], rs[k])
      PROVE  FALSE
  <2>1. /\ rs[k].at = Reported(p) /\ rs[l].at = Reported(p)
        /\ rs[k].ordinal \in Nat /\ rs[l].ordinal \in Nat
    BY <1>1 DEF Range
  <2>2. LowerPath(rs[k].at) = x /\ LowerPath(rs[l].at) = x
    BY <2>1
  <2>. HIDE DEF x
  <2>3. rs[l].ordinal < rs[k].ordinal
    BY <1>3, <1>4, <2>2 DEF RowBefore
  <2>. QED  BY <1>1, <1>4, <2>1, <2>3
<1>. QED  BY <1>4 DEF InOrder, rs

\* ReadDetails: the rows of the table at the head are added.
LEMMA ReadStep ==
    ASSUME IInv, ReadDetails
    PROVE  IInv'
<1>. DEFINE w == Head(work)
            p == Canonical(w)
            at == IF plan.reports = "unity" THEN p ELSE w
            new == DetailRows(at, p)
            rest == Tail(work)
<1>1. /\ status = "walking" /\ work # <<>> /\ Len(w) = Depth /\ Exists(w)
      /\ UNCHANGED <<request, unity, always, ever>>
      /\ IF plan.details = "row_filter" /\ About[p].row_filter = "malformed" THEN Fail
         ELSE /\ rows' = rows \o new /\ work' = rest
              /\ UNCHANGED <<status, plan, page_token, listed>>
  BY DEF ReadDetails
<1>2. CASE plan.details = "row_filter" /\ About[p].row_filter = "malformed"
  <2>1. Fail
    BY <1>1, <1>2
  <2>. QED  BY <1>1, <2>1, StopsAsIs DEF Fail
<1>3. CASE ~(plan.details = "row_filter" /\ About[p].row_filter = "malformed")
  <2>1. /\ rows' = rows \o new /\ work' = rest
        /\ UNCHANGED <<status, plan, page_token, listed>>
    BY <1>1, <1>3
  <2>2. /\ UnityInv /\ PlanOK /\ WorkInv /\ ListInv /\ RowsInv /\ OrderInv /\ request \in Requests
    BY <1>1 DEF IInv, WalkInv
  <2>3. UnityInv' /\ (request \in Requests)'
    BY <1>1, <2>2 DEF UnityInv
  <2>4. /\ p \in unity /\ p \in Objects /\ Wanted(p) /\ Len(p) = 3 /\ plan.details # None
        /\ Reported(p) = at /\ ObjectRows(p) = Range(DetailRows(Reported(p), p))
        /\ \A o \in Objects : Wanted(o) => (Under(o, w) <=> o = p)
    BY <1>1, <2>2, ReadIsWanted
  <2>5. ObjectRows(p) = Range(new) /\ new = DetailRows(Reported(p), p)
    BY <2>4
  <2>6. /\ w \in Paths /\ rest \in Seq(Paths) /\ Len(rest) = Len(work) - 1 /\ Apart(rest)
        /\ \A i \in DOMAIN rest : i + 1 \in DOMAIN work /\ rest[i] = work[i + 1]
        /\ \A o : Pending(o) <=> Under(o, w) \/ UnderSome(o, rest)
        /\ \A o \in Objects : ~(Under(o, w) /\ UnderSome(o, rest))
    BY <1>1, <2>2, HeadAndTail DEF WorkInv, Pending
  <2>7. /\ \A v : Good(v)' <=> Good(v)
        /\ PlanOK' /\ (OneTable' <=> OneTable)
        /\ \A o : (Wanted(o)' <=> Wanted(o)) /\ ObjectRows(o)' = ObjectRows(o)
    BY <1>1, <2>1, <2>2, SamePlan
  <2>8. \A o : Pending(o)' <=> UnderSome(o, rest)
    BY <2>1 DEF Pending
  <2>. HIDE DEF w, p, at, new, rest
  <2>9. Enumerates(rows', Range(rows) \cup ObjectRows(p))
    <3>1. Enumerates(new, ObjectRows(p))
      BY <2>2, <2>4, <2>5, DetailRowsAre
    <3>2. Range(rows) \cap ObjectRows(p) = {}
      <4>. SUFFICES ASSUME NEW r \in Range(rows), r \in ObjectRows(p)
                   PROVE  FALSE
        OBVIOUS
      <4>1. PICK q \in ever : Wanted(q) /\ r \in ObjectRows(q) /\ ~Pending(q)
        BY <2>2 DEF RowsInv
      <4>2. q \in Objects /\ SameRow(r, r)
        BY <2>2 DEF UnityInv, SameRow, SamePath
      <4>3. q = p
        BY <2>2, <2>4, <4>1, <4>2, RowsDiffer
      <4>. QED  BY <2>4, <2>6, <4>1, <4>3
    <3>3. Enumerates(rows, Range(rows))
      BY <2>2 DEF RowsInv
    <3>. QED  BY <2>1, <3>1, <3>2, <3>3, ConcatLists
  <2>10. Range(rows') = Range(rows) \cup ObjectRows(p) /\ Enumerates(rows', Range(rows'))
    BY <2>9 DEF Enumerates
  <2>11. WorkInv'
    <3>1. \A i \in DOMAIN rest : Good(rest[i])
      BY <2>2, <2>6 DEF WorkInv
    <3>. QED  BY <2>1, <2>6, <2>7, <3>1 DEF WorkInv, Apart
  <2>12. RowsInv'
    <3>1. ASSUME NEW r \in Range(rows')
          PROVE  \E o \in ever : Wanted(o) /\ r \in ObjectRows(o) /\ ~UnderSome(o, rest)
      <4>1. CASE r \in Range(rows)
        BY <2>2, <2>6, <4>1 DEF RowsInv
      <4>2. CASE r \in ObjectRows(p)
        BY <2>2, <2>4, <2>6, <4>2 DEF UnityInv
      <4>. QED  BY <2>10, <4>1, <4>2
    <3>2. ASSUME NEW o \in always, Wanted(o), ~UnderSome(o, rest)
          PROVE  ObjectRows(o) \subseteq Range(rows')
      <4>1. CASE o = p
        BY <2>10, <4>1
      <4>2. CASE o # p
        <5>1. o \in Objects
          BY <2>2 DEF UnityInv
        <5>2. ~Pending(o)
          BY <2>4, <2>6, <3>2, <4>2, <5>1
        <5>. QED  BY <2>2, <2>10, <3>2, <5>2 DEF RowsInv
      <4>. QED  BY <4>1, <4>2
    <3>. QED  BY <1>1, <2>7, <2>8, <2>10, <3>1, <3>2 DEF RowsInv
  <2>13. ListInv'
    <3>1. page_token = None /\ listed = <<>>
      <4>1. ~(Len(Head(work)) < Depth)
        BY <1>1, <2>2, PlanFacts DEF w
      <4>. QED  BY <2>2, <4>1 DEF ListInv
    <3>. QED  BY <2>1, <3>1 DEF ListInv
  <2>14. OrderInv'
    <3>. SUFFICES ASSUME OneTable
                 PROVE  /\ Len(work') <= 1 /\ (work' # <<>> => rows' = <<>>)
                        /\ AllPositioned => InOrder(rows')
      BY <2>7 DEF OrderInv, InOrder
    <3>1. Len(work) <= 1 /\ rows = <<>> /\ plan.details = "columns"
      BY <1>1, <2>2 DEF OrderInv, OneTable
    <3>2. work' = <<>> /\ Len(work') <= 1
      <4>1. Len(rest) \in Nat /\ Len(work) \in Nat
        BY <2>2, <2>6 DEF WorkInv
      <4>2. Len(rest) = 0
        BY <2>6, <3>1, <4>1
      <4>3. rest = <<>> /\ Len(rest) <= 1
        BY <2>6, <4>2, EmptySeq
      <4>. QED  BY <2>1, <4>3
    <3>3. rows' = new
      <4>1. new \in Seq(Range(new))
        BY <2>2, <2>4, <2>5, DetailRowsAre DEF Enumerates
      <4>. QED  BY <2>1, <3>1, <4>1, ConcatEmptySeq
    <3>4. AllPositioned => InOrder(new)
      BY <2>2, <2>4, <2>5, <3>1, DetailsInOrder DEF AllPositioned
    <3>. QED  BY <3>2, <3>3, <3>4
  <2>15. WalkInv' /\ (status = "walking")'
    BY <1>1, <2>1, <2>7, <2>11, <2>12, <2>13, <2>14 DEF WalkInv
  <2>. QED  BY <2>3, <2>15, WalkTypedNext
<1>. QED  BY <1>2, <1>3

\* What DataFusion keeps of the rows, in their order.
LEMMA AcceptedAre ==
    ASSUME NEW S, NEW rs, Enumerates(rs, S)
    PROVE  LET kept == Filtered(rs, LAMBDA row : Accepts(request, row))
           IN /\ Enumerates(kept, {row \in S : Accepts(request, row)})
              /\ InOrder(rs) => InOrder(kept)
<1>. DEFINE K == {i \in DOMAIN rs : Accepts(request, rs[i])}
            kept == Filtered(rs, LAMBDA row : Accepts(request, row))
            A == {row \in S : Accepts(request, row)}
            ret == Retained(rs, K)
<1>1. kept = Vector(ret)
  BY DEF Filtered
<1>2. {rs[i] : i \in K} = A /\ rs \in Seq(S)
  BY DEF Enumerates, Range
<1>3. K \in SUBSET DOMAIN rs
  OBVIOUS
<1>. HIDE DEF K
<1>4. Enumerates(ret, A)
  <2>. HIDE DEF A
  <2>. QED  BY <1>2, <1>3, RetainedLists
<1>5. kept = ret
  <2>1. Vector(ret) = ret
    BY <1>4, VectorIs DEF Enumerates
  <2>. QED  BY <1>1, <2>1
<1>6. PICK at \in [1..Cardinality(K) -> K] :
             /\ Cardinality(K) \in Nat
             /\ ret = [k \in 1..Cardinality(K) |-> rs[at[k]]]
             /\ \A i \in K : \E k \in 1..Cardinality(K) : at[k] = i
             /\ \A k, l \in 1..Cardinality(K) : k < l => at[k] < at[l]
  BY <1>2, <1>3, RetainedPlaces
<1>. HIDE DEF ret
<1>7. ASSUME InOrder(rs)
      PROVE  InOrder(ret)
  <2>. SUFFICES ASSUME NEW k \in 1..Cardinality(K), NEW l \in 1..Cardinality(K), k < l
               PROVE  ~RowBefore(ret[l], ret[k])
    BY <1>6 DEF InOrder
  <2>1. ret[k] = rs[at[k]] /\ ret[l] = rs[at[l]] /\ at[k] < at[l]
    BY <1>6
  <2>2. at[k] \in DOMAIN rs /\ at[l] \in DOMAIN rs
    BY <1>3, <1>6
  <2>. QED  BY <1>7, <2>1, <2>2 DEF InOrder
<1>. HIDE DEF kept, A
<1>8. Enumerates(kept, A) /\ (InOrder(rs) => InOrder(kept))
  BY <1>4, <1>5, <1>7
<1>. QED  BY <1>8 DEF kept, A

\* Answer: nothing is pending, so the rows are all there.
LEMMA AnswerStep ==
    ASSUME IInv, Answer
    PROVE  IInv'
<1>. DEFINE ordered == IF "rows" \in plan.sorts THEN SortRows(rows) ELSE rows
            A == {r \in Range(rows) : Accepts(request, r)}
<1>1. /\ status = "walking" /\ work = <<>> /\ status' = "answered"
      /\ rows' = Filtered(ordered, LAMBDA row : Accepts(request, row))
      /\ UNCHANGED <<request, plan, work, page_token, listed, unity, always, ever>>
  BY DEF Answer
<1>2. UnityInv /\ PlanOK /\ WorkInv /\ ListInv /\ RowsInv /\ OrderInv /\ request \in Requests /\ TypeOK
  BY <1>1 DEF IInv, WalkInv
<1>3. UnityInv' /\ request' \in Requests
  BY <1>1, <1>2 DEF UnityInv
<1>4. TypeOK'
  BY <1>1, <1>2 DEF TypeOK, Statuses, Depth
<1>5. /\ \A r \in Range(rows) : \E p \in ever : Wanted(p) /\ r \in ObjectRows(p)
      /\ \A p \in always : Wanted(p) => ObjectRows(p) \subseteq Range(rows)
      /\ Enumerates(rows, Range(rows))
  <2>1. \A p : ~Pending(p)
    BY <1>1 DEF Pending, UnderSome
  <2>. QED  BY <1>2, <2>1 DEF RowsInv
<1>6. ever \subseteq Objects /\ Depth \in Nat
  BY <1>2, PlanFacts DEF UnityInv
<1>7. \A r \in Range(rows) : IsRow(r, Depth)
  BY <1>2, <1>5, <1>6, ObjectRowsAre
<1>8. /\ Enumerates(ordered, Range(rows))
      /\ "rows" \in plan.sorts => InOrder(ordered)
  <2>1. CASE "rows" \in plan.sorts
    <3>1. /\ Enumerates(SortRows(rows), Range(rows)) /\ InOrder(SortRows(rows))
      BY <1>5, <1>6, <1>7, SortRowsIs DEF InOrder
    <3>. QED  BY <2>1, <3>1
  <2>2. CASE "rows" \notin plan.sorts
    BY <1>5, <2>2
  <2>. QED  BY <2>1, <2>2
<1>9. ASSUME AllPositioned \/ "rows" \in plan.sorts, Ordered(request)
      PROVE  InOrder(ordered)
  <2>1. CASE "rows" \in plan.sorts
    BY <1>8, <2>1
  <2>2. CASE "rows" \notin plan.sorts
    <3>1. OneTable
      BY <1>2, <1>9, <2>2, PlanFacts DEF OneTable
    <3>. QED  BY <1>2, <1>9, <2>2, <3>1 DEF OrderInv
  <2>. QED  BY <2>1, <2>2
<1>. HIDE DEF ordered
<1>10. Enumerates(rows', A) /\ (InOrder(ordered) => InOrder(rows'))
  <2>. DEFINE kept == Filtered(ordered, LAMBDA row : Accepts(request, row))
  <2>1. Enumerates(kept, A) /\ (InOrder(ordered) => InOrder(kept))
    BY <1>8, AcceptedAre
  <2>2. rows' = kept
    BY <1>1
  <2>. HIDE DEF kept, A
  <2>. QED  BY <2>1, <2>2
<1>11. Range(rows') = A /\ \A i, j \in DOMAIN rows' : rows'[i] = rows'[j] => i = j
  BY <1>10 DEF Enumerates
<1>12. \A p : (Wanted(p)' <=> Wanted(p)) /\ ObjectRows(p)' = ObjectRows(p)
  BY <1>1, SamePlan
<1>13. ASSUME NEW i \in DOMAIN rows', NEW j \in DOMAIN rows', SameRow(rows'[i], rows'[j])
       PROVE  i = j
  <2>1. rows'[i] \in A /\ rows'[j] \in A
    BY <1>11 DEF Range
  <2>2. PICK p \in ever : Wanted(p) /\ rows'[i] \in ObjectRows(p)
    BY <1>5, <2>1
  <2>3. PICK q \in ever : Wanted(q) /\ rows'[j] \in ObjectRows(q)
    BY <1>5, <2>1
  <2>4. rows'[i] = rows'[j]
    BY <1>2, <1>6, <1>13, <2>2, <2>3, RowsDiffer
  <2>. QED  BY <1>11, <2>4
<1>14. /\ \A p \in always : Wanted(p) => \A r \in ObjectRows(p) : Accepts(request, r) => r \in A
       /\ \A r \in A : Accepts(request, r) /\ \E p \in ever : Wanted(p) /\ r \in ObjectRows(p)
  BY <1>5
<1>. HIDE DEF A
<1>15. WalkIsConsistent'
  <2>1. WantedRows(always)' = UNION {ObjectRows(p) : p \in {p \in always : Wanted(p)}}
    BY <1>1, <1>12 DEF WantedRows
  <2>2. WantedRows(ever)' = UNION {ObjectRows(p) : p \in {p \in ever : Wanted(p)}}
    BY <1>1, <1>12 DEF WantedRows
  <2>3. {r \in WantedRows(always)' : Accepts(request', r)} \subseteq Range(rows')
    BY <1>1, <1>11, <1>14, <2>1
  <2>4. Range(rows') \subseteq {r \in WantedRows(ever)' : Accepts(request', r)}
    BY <1>1, <1>11, <1>14, <2>2
  <2>. QED  BY <1>13, <2>3, <2>4 DEF WalkIsConsistent
<1>16. AllPositioned \/ "rows" \in plan.sorts => AnswerIsSorted'
  BY <1>1, <1>9, <1>10 DEF AnswerIsSorted, InOrder
<1>17. (AllPositioned \/ "rows" \in plan.sorts => AnswerIsSorted)'
  BY <1>1, <1>16 DEF AllPositioned, Positioned
<1>. QED  BY <1>1, <1>3, <1>4, <1>15, <1>17 DEF IInv

\* A walk starts with the paths that its plan begins with, and no rows.
LEMMA StartIs ==
    PlanOK /\ UnityInv /\ work = PathsBelow(plan.levels, << <<>> >>)
      /\ page_token = None /\ listed = <<>> /\ rows = <<>> => WalkInv
<1>. SUFFICES ASSUME PlanOK, UnityInv, work = PathsBelow(plan.levels, << <<>> >>),
                     page_token = None, listed = <<>>, rows = <<>>
             PROVE  WalkInv
  OBVIOUS
<1>. DEFINE paths == << <<>> >>
<1>1. /\ paths \in Seq(Paths) /\ Len(paths) = 1 /\ DOMAIN paths = {1} /\ paths[1] = <<>>
      /\ Len(<<>>) = 0
  BY DEF Paths
<1>2. Depth \in 1..3
  BY PlanFacts
<1>. HIDE DEF paths
<1>3. \A i \in DOMAIN paths : Legit(paths[i]) /\ (Len(paths[i]) = Depth => plan.details # None)
  <2>1. Legit(<<>>)
    BY <1>1, <1>2 DEF Legit
  <2>2. Len(<<>>) # Depth
    BY <1>1, <1>2
  <2>. QED  BY <1>1, <2>1, <2>2
<1>4. Apart(paths)
  BY <1>1 DEF Apart
<1>5. /\ work \in Seq(Paths) /\ Apart(work) /\ \A k \in DOMAIN work : Good(work[k])
      /\ \A i \in DOMAIN paths : \A o \in Objects :
           Wanted(o) /\ Under(o, paths[i]) => \E k \in DOMAIN work : Under(o, work[k])
      /\ Len(paths) = 1 => Len(work) <= 1
  <2>. DEFINE ws == PathsBelow(plan.levels, paths)
  <2>1. /\ ws \in Seq(Paths) /\ Apart(ws) /\ \A k \in DOMAIN ws : Good(ws[k])
        /\ \A i \in DOMAIN paths : \A o \in Objects :
             Wanted(o) /\ Under(o, paths[i]) => \E k \in DOMAIN ws : Under(o, ws[k])
        /\ Len(paths) = 1 => Len(ws) <= 1
    BY <1>1, <1>3, <1>4, PathsBelowIs
  <2>2. work = ws
    BY DEF paths
  <2>. HIDE DEF ws
  <2>. QED  BY <2>1, <2>2
<1>6. \A o \in Objects : Under(o, <<>>)
  <2>. SUFFICES ASSUME NEW o \in Objects
               PROVE  Under(o, <<>>)
    OBVIOUS
  <2>1. Len(o) \in Nat
    BY ObjectIsPath
  <2>. QED  BY <1>1, <2>1 DEF Under
<1>7. \A o \in Objects : Wanted(o) => Pending(o)
  BY <1>1, <1>5, <1>6 DEF Pending, UnderSome
<1>8. WorkInv /\ ListInv
  BY <1>5 DEF WorkInv, ListInv
<1>9. rows \in Seq(Range(rows)) /\ Range(rows) = {} /\ DOMAIN rows = {}
  BY DEF Range
<1>10. RowsInv
  BY <1>7, <1>9 DEF RowsInv, UnityInv, Enumerates
<1>11. OrderInv
  BY <1>1, <1>5, <1>9 DEF OrderInv, InOrder
<1>. QED  BY <1>8, <1>10, <1>11 DEF WalkInv

\* The same of the state after a step.
LEMMA StartIsNext ==
    ASSUME PlanOK', UnityInv', (work = PathsBelow(plan.levels, << <<>> >>))',
           (page_token = None)', (listed = <<>>)', (rows = <<>>)'
    PROVE  WalkInv'
BY StartIs, PTL

\* Begin: the request fails, is none of these, or starts a walk.
LEMMA BeginStep ==
    ASSUME IInv, Begin
    PROVE  IInv'
<1>1. status = "received" /\ UNCHANGED <<request, unity, always, ever>>
  BY DEF Begin
<1>2. ReceivedInv /\ UnityInv /\ request \in Requests
  BY <1>1 DEF IInv
<1>3. \/ Fail
      \/ status' = "not_show" /\ UNCHANGED walk
      \/ /\ PlanOf(request).ok = TRUE /\ status' = "walking" /\ plan' = PlanOf(request)
         /\ work' = PathsBelow(PlanOf(request).levels, << <<>> >>)
         /\ UNCHANGED <<page_token, listed, rows>>
  BY DEF Begin
<1>4. CASE Fail \/ (status' = "not_show" /\ UNCHANGED walk)
  BY <1>1, <1>4, StopsAsIs DEF Fail
<1>5. ASSUME PlanOf(request).ok = TRUE, status' = "walking", plan' = PlanOf(request),
             work' = PathsBelow(PlanOf(request).levels, << <<>> >>),
             UNCHANGED <<page_token, listed, rows>>
      PROVE  IInv'
  <2>1. PlanOK'
    BY <1>1, <1>2, <1>5 DEF PlanOK
  <2>2. UnityInv' /\ (request \in Requests)' /\ (status = "walking")'
    BY <1>1, <1>2, <1>5 DEF UnityInv
  <2>3. (work = PathsBelow(plan.levels, << <<>> >>))'
    BY <1>5
  <2>4. (page_token = None)' /\ (listed = <<>>)' /\ (rows = <<>>)'
    BY <1>2, <1>5 DEF ReceivedInv
  <2>5. WalkInv'
    BY <2>1, <2>2, <2>3, <2>4, StartIsNext
  <2>. QED  BY <2>2, <2>5, WalkTypedNext
<1>. QED  BY <1>3, <1>4, <1>5

\* What other clients change while the walk is under way: there is more that existed at
\* some time, and less that existed throughout.
LEMMA OthersStep ==
    ASSUME IInv, status = "walking", UnityInv', always' \subseteq always, ever \subseteq ever',
           UNCHANGED <<request, status, walk>>
    PROVE  IInv'
<1>1. /\ plan' = plan /\ work' = work /\ page_token' = page_token /\ listed' = listed
      /\ rows' = rows /\ request' = request
  BY DEF walk
<1>2. WalkInv /\ request \in Requests
  BY DEF IInv
<1>3. /\ \A w : Good(w)' <=> Good(w)
      /\ Depth' = Depth /\ (OneTable' <=> OneTable) /\ (PlanOK' <=> PlanOK)
      /\ \A p : (Wanted(p)' <=> Wanted(p)) /\ ObjectRows(p)' = ObjectRows(p)
  BY <1>1, SamePlan
<1>4. PlanOK' /\ WorkInv'
  BY <1>1, <1>2, <1>3 DEF WalkInv, WorkInv, Apart
<1>5. ListInv'
  <2>1. CASE page_token = None /\ listed = <<>>
    BY <1>1, <2>1 DEF ListInv
  <2>2. CASE ~(page_token = None /\ listed = <<>>)
    <3>1. /\ work # <<>> /\ Len(Head(work)) < Depth /\ Enumerates(listed, Range(listed))
          /\ \E n \in 1..(Len(Siblings(Head(work))) - 1) :
               page_token = <<n>> /\ Covers(Range(listed), Upto(Head(work), n))
      BY <1>2, <2>2 DEF WalkInv, ListInv
    <3>2. PICK n \in 1..(Len(Siblings(Head(work))) - 1) :
            page_token = <<n>> /\ Covers(Range(listed), Upto(Head(work), n))
      BY <3>1
    <3>3. Covers(Range(listed), Upto(Head(work), n))'
      BY <1>1, <3>2 DEF Covers, Upto
    <3>. QED  BY <1>1, <1>3, <3>1, <3>2, <3>3 DEF ListInv
  <2>. QED  BY <2>1, <2>2
<1>6. RowsInv'
  BY <1>1, <1>2, <1>3 DEF WalkInv, RowsInv, Pending
<1>7. OrderInv'
  BY <1>1, <1>2, <1>3 DEF WalkInv, OrderInv, InOrder
<1>8. WalkInv' /\ (request \in Requests)' /\ (status = "walking")'
  BY <1>1, <1>2, <1>4, <1>5, <1>6, <1>7 DEF WalkInv
<1>. QED  BY <1>8, WalkTypedNext

\* Create: an object appears in one that exists.
LEMMA CreateStep ==
    ASSUME IInv, NEW p \in Objects, Create(p)
    PROVE  IInv'
<1>1. /\ status = "walking" /\ (Len(p) > 1 => Front(p) \in unity)
      /\ unity' = unity \cup {p} /\ ever' = ever \cup {p}
      /\ UNCHANGED <<request, status, walk, always>>
  BY DEF Create
<1>2. UnityInv
  BY DEF IInv
<1>3. UnityInv'
  BY <1>1, <1>2 DEF UnityInv, FrontClosed
<1>4. always' \subseteq always /\ ever \subseteq ever'
  BY <1>1
<1>. QED  BY <1>1, <1>3, <1>4, OthersStep

\* Drop: an object disappears, with all that is in it.
LEMMA DropStep ==
    ASSUME IInv, NEW p \in Objects, Drop(p)
    PROVE  IInv'
<1>1. /\ status = "walking" /\ unity' = {q \in unity : ~IsPrefix(p, q)}
      /\ always' = always \cap unity' /\ UNCHANGED <<request, status, walk, ever>>
  BY DEF Drop
<1>2. UnityInv
  BY DEF IInv
<1>3. ASSUME NEW q \in Objects, Len(q) > 1, IsPrefix(p, Front(q))
      PROVE  IsPrefix(p, q)
  <2>. DEFINE f == Front(q)
              n == Len(p)
  <2>1. /\ p \in Seq(PathNames) /\ q \in Seq(PathNames) /\ Len(q) \in Nat /\ n \in Nat
    BY ObjectIsPath DEF Paths
  <2>2. f \in Seq(PathNames) /\ Len(f) = Len(q) - 1 /\ \A i \in 1..(Len(q) - 1) : f[i] = q[i]
    BY <1>3, <2>1, FrontIs DEF Paths
  <2>. HIDE DEF f, n
  <2>3. n <= Len(f) /\ \A i \in 1..n : f[i] = p[i]
    BY <1>3, <2>1, <2>2, IsPrefixMeans DEF f, n
  <2>4. n <= Len(q) /\ \A i \in 1..n : i \in 1..(Len(q) - 1)
    BY <2>1, <2>2, <2>3
  <2>5. n <= Len(q) /\ \A i \in 1..n : q[i] = p[i]
    BY <2>2, <2>3, <2>4
  <2>. QED  BY <2>1, <2>5, IsPrefixMeans DEF n
<1>4. FrontClosed(unity') /\ FrontClosed(always')
  <2>1. FrontClosed(unity')
    BY <1>1, <1>2, <1>3 DEF UnityInv, FrontClosed
  <2>. QED  BY <1>1, <1>2, <2>1 DEF UnityInv, FrontClosed
<1>5. UnityInv'
  BY <1>1, <1>2, <1>4 DEF UnityInv
<1>6. always' \subseteq always /\ ever \subseteq ever'
  BY <1>1
<1>. QED  BY <1>1, <1>5, <1>6, OthersStep

\* A step that changes nothing.
LEMMA StutterStep ==
    ASSUME IInv, UNCHANGED <<request, status, walk, unity, always, ever>>
    PROVE  IInv'
<1>1. /\ plan' = plan /\ work' = work /\ page_token' = page_token /\ listed' = listed
      /\ rows' = rows /\ request' = request /\ status' = status
      /\ unity' = unity /\ always' = always /\ ever' = ever
  BY DEF walk
<1>2. UnityInv' /\ request' \in Requests
  BY <1>1 DEF IInv, UnityInv
<1>3. TypeOK'
  BY <1>1 DEF IInv, TypeOK, Depth
<1>4. CASE status = "walking"
  BY <1>1, <1>2, <1>4, OthersStep
<1>5. CASE status # "walking"
  <2>1. status' = "received" => ReceivedInv'
    BY <1>1 DEF IInv, ReceivedInv
  <2>2. WalkIsConsistent'
    <3>1. \A p : (Wanted(p)' <=> Wanted(p)) /\ ObjectRows(p)' = ObjectRows(p)
      BY <1>1, SamePlan
    <3>2. WantedRows(always)' = WantedRows(always) /\ WantedRows(ever)' = WantedRows(ever)
      BY <1>1, <3>1 DEF WantedRows
    <3>. QED  BY <1>1, <3>2 DEF IInv, WalkIsConsistent
  <2>3. (AllPositioned \/ "rows" \in plan.sorts => AnswerIsSorted)'
    BY <1>1 DEF IInv, AnswerIsSorted, AllPositioned, Positioned
  <2>. QED  BY <1>1, <1>2, <1>3, <1>5, <2>1, <2>2, <2>3 DEF IInv
<1>. QED  BY <1>4, <1>5

-----------------------------------------------------------------------------
(* The theorems. *)

\* The invariant holds when a request arrives.
LEMMA InitInv == Init => IInv
<1>. SUFFICES ASSUME Init
             PROVE  IInv
  OBVIOUS
<1>1. /\ status = "received" /\ request \in Requests
      /\ always = unity /\ ever = unity /\ unity = Initially
      /\ work = <<>> /\ page_token = None /\ listed = <<>> /\ rows = <<>>
  BY DEF Init
<1>2. UnityInv
  BY <1>1, UnityAssumption DEF UnityInv, FrontClosed
<1>3. TypeOK
  <2>1. DOMAIN work = {}
    BY <1>1
  <2>. QED  BY <1>1, <1>2, <2>1 DEF TypeOK, UnityInv, FrontClosed, Statuses
<1>4. WalkIsConsistent /\ AnswerIsSorted
  BY <1>1 DEF WalkIsConsistent, AnswerIsSorted
<1>. QED  BY <1>1, <1>2, <1>3, <1>4 DEF IInv, ReceivedInv

\* Every step keeps it.
LEMMA NextInv == IInv /\ [Next]_vars => IInv'
<1>. SUFFICES ASSUME IInv, [Next]_vars
             PROVE  IInv'
  OBVIOUS
<1>1. CASE Begin
  BY <1>1, BeginStep
<1>2. CASE ListPage
  BY <1>2, ListStep
<1>3. CASE ReadDetails
  BY <1>3, ReadStep
<1>4. CASE NotFound
  BY <1>4, StopsAsIs DEF NotFound, Fail
<1>5. CASE Answer
  BY <1>5, AnswerStep
<1>6. CASE UnityFails
  BY <1>6, StopsAsIs DEF UnityFails, Fail
<1>7. ASSUME NEW p \in Objects, Create(p)
      PROVE  IInv'
  BY <1>7, CreateStep
<1>8. ASSUME NEW p \in Objects, Drop(p)
      PROVE  IInv'
  BY <1>8, DropStep
<1>9. CASE UNCHANGED vars
  BY <1>9, StutterStep DEF vars
<1>. QED  BY <1>1, <1>2, <1>3, <1>4, <1>5, <1>6, <1>7, <1>8, <1>9 DEF Next, Step

\* So it holds throughout.
LEMMA Invariant == Spec => []IInv
BY InitInv, NextInv, PTL DEF Spec

\* What a request has while execute_get_columns, a SHOW statement or a scan of
\* information_schema walks over Unity is of its type, whatever the plan: no path goes
\* deeper than the plan does, and the pages of a listing are of the path at the head.
THEOREM WalkIsTyped == Spec => []TypeOK
<1>1. IInv => TypeOK
  BY DEF IInv
<1>. QED  BY <1>1, Invariant, PTL

\* The loops of execute_get_columns and of information_schema's relations answer with
\* a row for every object that is there all the time and wanted, once, and with none
\* for an object that is never there, however the listings are cut into pages and
\* whatever other clients create and drop between two calls.
THEOREM WalksAreConsistent == Spec => []WalkIsConsistent
<1>1. IInv => WalkIsConsistent
  BY DEF IInv
<1>. QED  BY <1>1, Invariant, PTL

\* The rows of SHOW, GetColumns and information_schema come by lower-case names and by
\* ordinal.  SHOW COLUMNS, which does not sort rows, is left out where a table has
\* columns with a position and others without: table_column_names puts the others
\* last, whatever number their place in Unity's list would give them.
THEOREM AnswersAreSorted ==
    Spec => [](AllPositioned \/ "rows" \in plan.sorts => AnswerIsSorted)
<1>1. IInv => (AllPositioned \/ "rows" \in plan.sorts => AnswerIsSorted)
  BY DEF IInv
<1>. QED  BY <1>1, Invariant, PTL
=============================================================================
