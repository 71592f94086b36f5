---------------------------- MODULE MetadataWalk -----------------------------
(***************************************************************************)
(* One metadata request: a SHOW statement, a Thrift GetColumns call (both  *)
(* src/engine/metadata/mod.rs) or a scan of an information_schema relation *)
(* (src/engine/information_schema.rs).  Each is a walk over Unity's        *)
(* catalogs, schemas and tables: at every level a name is given, or the    *)
(* level is listed page by page (src/unity.rs) and the names that match    *)
(* are kept; some requests then read each table's details.  Other Unity    *)
(* clients create and drop objects while the walk is under way, and any    *)
(* call may fail.                                                          *)
(*                                                                         *)
(* A Unity object is its path <<catalog>>, <<catalog, schema>> or          *)
(* <<catalog, schema, table>>.  How a request becomes a plan, and which    *)
(* names a level selects, are parameters: MetadataQueries has them as the  *)
(* code does it.                                                           *)
(***************************************************************************)
EXTENDS Names

CONSTANTS
    Universe,      \* the paths that may ever exist, in the order Unity lists them
    About,         \* table path |-> [type, columns, row_filter]
    Initially,     \* the paths that exist when the request arrives
    Requests,      \* the requests
    Contended,     \* those during which other clients change Unity
    PlanOf(_),     \* request |-> [ok |-> FALSE], [ok |-> None] if it is another query,
                   \* or [ok |-> TRUE, levels, kind, details, columns, sorts, reports]
    Selects(_, _), \* level, name |-> whether the level has the name
    Compiles(_),   \* level |-> whether its pattern is a valid one
    Accepts(_, _), \* request, row |-> whether DataFusion's own filters keep the row
    Ordered(_),    \* whether the answer of a request is promised in an order
    MaxI32,        \* i32::MAX
    PageSize,      \* bound: objects in one page of a listing
    MaxChanges     \* bound: changes other clients make during one request

VARIABLES
    request,     \* the request served
    status,      \* received | walking | answered | failed | not_show
    plan,        \* what the walk looks for
    work,        \* paths still to list or to read, in the order of the loops
    page_token,  \* the token of the next page of the listing at the head
    listed,      \* what its pages brought so far
    rows,        \* the rows of the answer
    unity,       \* the paths that exist
    always, ever \* those that existed throughout, and at some time, since it arrived

walk == <<plan, work, page_token, listed, rows>>
vars == <<request, status, walk, unity, always, ever>>

LowerPath(path) == [i \in DOMAIN path |-> Lower(path[i])]
SamePath(p, q) == LowerPath(p) = LowerPath(q)
\* Unity finds an object whatever the case of the name asked for.
Canonical(path) == CHOOSE p \in unity : SamePath(p, path)
Exists(path) == path = <<>> \/ \E p \in unity : SamePath(p, path)

IsViewLike(path) == About[path].type = "VIEW"

Objects == Range(Universe)

\* Objects are in others that exist, and differ in more than the case of letters; a
\* table's columns differ in their names; and None is no token.
ASSUME UnityAssumption ==
    /\ Universe \in Seq(Objects)
    /\ \A i, j \in DOMAIN Universe : SamePath(Universe[i], Universe[j]) => i = j
    /\ \A p \in Objects :
         /\ p \in Seq(Range(p)) /\ Len(p) \in 1..3
         /\ Len(p) > 1 => Front(p) \in Objects
         /\ \A i \in DOMAIN p : Lower(p[i]) \in Seq(Range(Alphabet))
         /\ Len(p) = 3 =>
              LET columns == About[p].columns
              IN /\ columns \in Seq(Range(columns))
                 /\ \A i, j \in DOMAIN columns : columns[i].name = columns[j].name => i = j
                 /\ \A i \in DOMAIN columns : columns[i].position \in 0..MaxI32 \cup {None}
    /\ Initially \subseteq Objects /\ \A p \in Initially : Len(p) > 1 => Front(p) \in Initially
    /\ Alphabet \in Seq(Range(Alphabet)) /\ MaxI32 \in Nat
    /\ None \notin Seq(Nat)

\* A plan has levels; it reads the details of tables or else lists its last level,
\* sorts what is promised in an order unless it is about one given table, and
\* selects tables by their kind only where they are listed.
ASSUME PlanAssumption ==
    \A r \in Requests : \A wanted \in {PlanOf(r)} :
      LET Given(i) == wanted.levels[i].how = "only"
      IN wanted.ok = TRUE =>
           /\ \E n \in 1..3 : wanted.levels = [i \in 1..n |-> wanted.levels[i]]
           /\ IF wanted.details = None THEN ~Given(Len(wanted.levels))
              ELSE /\ wanted.details \in {"columns", "row_filter", "information"}
                   /\ Len(wanted.levels) = 3
           /\ Len(wanted.levels) = 3 /\ Given(3) => wanted.kind = "any"
           /\ Ordered(r) => \/ "rows" \in wanted.sorts
                            \/ wanted.details = "columns" /\ \A i \in DOMAIN wanted.levels : Given(i)

-----------------------------------------------------------------------------
(* Rows *)

Row(at, column, ordinal) == [at |-> at, column |-> column, ordinal |-> ordinal]

\* The columns of a table by position, those without one last; a column is
\* numbered by its position, or by its place in Unity's list.
ColumnRows(at, path, level) ==
    LET columns == About[path].columns
        Key(i) == IF columns[i].position = None THEN MaxI32 ELSE columns[i].position
        order == Vector(StableSort([i \in DOMAIN columns |-> i], LAMBDA i, j : Key(i) < Key(j)))
        Ordinal(i) == IF columns[i].position = None THEN i ELSE columns[i].position + 1
        all == [k \in DOMAIN columns |->
                  Row(at, columns[order[k]].name, Ordinal(order[k]))]
    IN Filtered(all, LAMBDA row : Selects(level, row.column))

\* The order of the answers: names by their lower-case form, then positions.
RowBefore(r, s) ==
    LET x == LowerPath(r.at)
        y == LowerPath(s.at)
    IN \/ \E k \in DOMAIN x : StringBefore(x[k], y[k]) /\ \A i \in 1..(k - 1) : x[i] = y[i]
       \/ x = y /\ r.ordinal < s.ordinal

\* Faulty variant of SortRows: the rows are left as they came.
KeepsOrder(unsorted) == unsorted

SortRows(unsorted) == Vector(StableSort(unsorted, RowBefore))

-----------------------------------------------------------------------------
(* The walk *)

Depth == Len(plan.levels)

\* A path completed with the names given for its next levels.
Fixed(levels, path) ==
    LET Given(n) == \A i \in (Len(path) + 1)..n : levels[i].how = "only"
        upto == Max({n \in Len(path)..Len(levels) : Given(n)})
    IN path \o [i \in 1..(upto - Len(path)) |-> levels[Len(path) + i].of]

\* The paths the loops go through below some paths.
PathsBelow(levels, paths) ==
    LET fixed == [i \in DOMAIN paths |-> Fixed(levels, paths[i])]
        Dead(path) == Len(path) < Len(levels) /\ levels[Len(path) + 1].how = "never"
    IN Filtered(fixed, LAMBDA path : ~Dead(path))

Fail == status' = "failed" /\ UNCHANGED walk

\* The request arrives and is turned into a plan.
Begin ==
    /\ status = "received"
    /\ \E wanted \in {PlanOf(request)} :
         \/ wanted.ok = FALSE /\ Fail
         \/ wanted.ok = None /\ status' = "not_show" /\ UNCHANGED walk
         \/ /\ wanted.ok = TRUE
            /\ status' = "walking"
            /\ plan' = wanted
            /\ work' = PathsBelow(wanted.levels, << <<>> >>)
            /\ UNCHANGED <<page_token, listed, rows>>
    /\ UNCHANGED <<request, unity, always, ever>>

\* The objects Unity may hold below a path, in the order it lists them.
Siblings(path) == Filtered(Universe, LAMBDA p : Len(p) = Len(path) + 1 /\ SamePath(Front(p), path))

\* Faulty variant of ListedBefore: the first object of every further page is lost.
SkipsOne(token) == IF token = None THEN 0 ELSE token[1] + 1

\* Where the page asked for begins: append_page_token.
ListedBefore(token) == IF token = None THEN 0 ELSE token[1]

\* The objects of a listing that match: their names, and the kind of tables.
Matches(level, p) ==
    /\ Selects(level, Last(p))
    /\ Len(p) = 3 /\ plan.kind # "any" => (IsViewLike(p) <=> plan.kind = "view")

\* The listings that are sorted, by their lower-case names.
SortListing(found) ==
    IF "listings" \in plan.sorts
    THEN Vector(StableSort(found, LAMBDA p, q : StringBefore(Lower(Last(p)), Lower(Last(q)))))
    ELSE found

\* What the walk keeps of a complete listing of path: the names that match, as
\* rows when this is the last level and no details are read.
Take(path, names) ==
    LET Walked(p) == Append(path, Last(p))
        leaf == Len(path) + 1 = Depth /\ plan.details = None
    IN \E found \in {Filtered(names, LAMBDA p : Matches(plan.levels[Len(path) + 1], p))} :
       \E kept \in {SortListing(found)} :
         /\ rows' = IF ~leaf THEN rows
                    ELSE rows \o [i \in DOMAIN kept |->
                           Row(IF plan.reports = "unity" THEN kept[i] ELSE Walked(kept[i]), None, 0)]
         /\ work' = IF leaf THEN Tail(work)
                    ELSE PathsBelow(plan.levels, [i \in DOMAIN kept |-> Walked(kept[i])]) \o Tail(work)

\* Faulty variant of EndListing: the next listing adds to this one.
KeepsListed == page_token' = None /\ UNCHANGED listed

\* Every listing starts with no objects and no token.
EndListing == page_token' = None /\ listed' = <<>>

\* One page of the listing at the head; the last one, with no token or an empty
\* one, ends the listing.
ListPage ==
    /\ status = "walking" /\ work # <<>> /\ Len(Head(work)) < Depth
    /\ Exists(Head(work))
    /\ LET path == Head(work)
           level == plan.levels[Len(path) + 1]
       IN \E siblings \in {Siblings(path)} :
          \E upto \in (ListedBefore(page_token) + 1)..Len(siblings) \cup {Len(siblings)} :
          \E page \in {Filtered(SubSeq(siblings, ListedBefore(page_token) + 1, upto),
                                LAMBDA p : p \in unity)} :
          \E next \in IF upto < Len(siblings) THEN {<<upto>>} ELSE {None, <<>>} :
                 /\ Len(page) <= PageSize
                 /\ IF next \notin {None, <<>>}
                    THEN /\ listed' = listed \o page
                         /\ page_token' = next
                         /\ UNCHANGED <<status, work, rows, plan>>
                    ELSE IF ~Compiles(level)
                    THEN Fail
                    ELSE /\ EndListing
                         /\ \E names \in {listed \o page} : Take(path, names)
                         /\ UNCHANGED <<status, plan>>
    /\ UNCHANGED <<request, unity, always, ever>>

\* What is told of a table once its details are read.
DetailRows(at, path) ==
    CASE plan.details = "columns" -> ColumnRows(at, path, plan.columns)
      [] plan.details = "row_filter" ->
           IF About[path].row_filter = None THEN <<>> ELSE <<Row(at, None, 0)>>
      [] plan.details = "information" -> <<Row(at, None, 0)>>

\* The details of the table at the head.
ReadDetails ==
    /\ status = "walking" /\ work # <<>> /\ Len(Head(work)) = Depth
    /\ Exists(Head(work))
    /\ LET path == Canonical(Head(work))
           at == IF plan.reports = "unity" THEN path ELSE Head(work)
       IN IF plan.details = "row_filter" /\ About[path].row_filter = "malformed" THEN Fail
          ELSE /\ rows' = rows \o DetailRows(at, path)
               /\ work' = Tail(work)
               /\ UNCHANGED <<status, plan, page_token, listed>>
    /\ UNCHANGED <<request, unity, always, ever>>

\* Faulty variant of NotFound: what is not there is asked for again.
RetriesNotFound ==
    /\ status = "walking" /\ work # <<>> /\ ~Exists(Head(work))
    /\ UNCHANGED vars

\* What the head names is not, or no longer, there: one 404 fails the request.
NotFound ==
    /\ status = "walking" /\ work # <<>> /\ ~Exists(Head(work))
    /\ Fail
    /\ UNCHANGED <<request, unity, always, ever>>

\* A call to Unity that fails fails the request.
UnityFails ==
    /\ status = "walking" /\ work # <<>>
    /\ Fail
    /\ UNCHANGED <<request, unity, always, ever>>

\* The loops are done.
Answer ==
    /\ status = "walking" /\ work = <<>>
    /\ \E ordered \in {IF "rows" \in plan.sorts THEN SortRows(rows) ELSE rows} :
         rows' = Filtered(ordered, LAMBDA row : Accepts(request, row))
    /\ status' = "answered"
    /\ UNCHANGED <<request, plan, work, page_token, listed, unity, always, ever>>

Changes == Cardinality(ever \ always)

\* Another client creates a catalog, a schema or a table.
Create(p) ==
    /\ status = "walking" /\ request \in Contended /\ Changes < MaxChanges
    /\ p \notin ever
    /\ Len(p) > 1 => Front(p) \in unity
    /\ unity' = unity \cup {p}
    /\ ever' = ever \cup {p}
    /\ UNCHANGED <<request, status, walk, always>>

\* Another client drops an object and what is below it.
Drop(p) ==
    /\ status = "walking" /\ request \in Contended /\ Changes < MaxChanges
    /\ p \in always
    /\ unity' = {q \in unity : ~IsPrefix(p, q)}
    /\ always' = always \cap unity'
    /\ UNCHANGED <<request, status, walk, ever>>

Init ==
    /\ request \in Requests
    /\ unity = Initially
    /\ always = unity /\ ever = unity
    /\ status = "received"
    /\ plan = None
    /\ work = <<>> /\ page_token = None /\ listed = <<>> /\ rows = <<>>

Step == ListPage \/ ReadDetails \/ NotFound \/ Answer

Next ==
    \/ Begin
    \/ Step
    \/ UnityFails
    \/ \E p \in Objects : Create(p) \/ Drop(p)

Spec == Init /\ [][Next]_vars

\* The request's task is polled until it is done, and Unity answers.
FairSpec == Spec /\ WF_vars(Step)

-----------------------------------------------------------------------------
(* Properties *)

Statuses == {"received", "walking", "answered", "failed", "not_show"}

\* Type correctness of the request's state and of Unity's objects.
TypeOK ==
    /\ status \in Statuses
    /\ \A p \in unity : p \in Objects /\ (Len(p) > 1 => Front(p) \in unity)
    /\ always \subseteq unity /\ unity \subseteq ever /\ ever \subseteq Objects
    /\ \A i \in DOMAIN work : Len(work[i]) <= Depth
    /\ listed # <<>> => /\ page_token # None
                        /\ \A i \in DOMAIN listed : SamePath(Front(listed[i]), Head(work))

\* What a plan looks for, said without a walk: the objects all of whose names are
\* those given or selected.
Wanted(p) ==
    /\ Len(p) = Depth
    /\ \A i \in 1..Depth :
         LET level == plan.levels[i]
         IN CASE level.how = "only" -> SameName(p[i], level.of)
              [] level.how = "never" -> FALSE
              [] OTHER -> Selects(level, p[i])
    /\ Depth = 3 /\ plan.kind # "any" => (IsViewLike(p) <=> plan.kind = "view")

\* The names a row has: Unity's, or those given where the walk has looked nothing up.
Reported(p) ==
    [i \in DOMAIN p |-> IF plan.reports # "unity" /\ plan.levels[i].how = "only"
                        THEN plan.levels[i].of ELSE p[i]]

ObjectRows(p) ==
    IF plan.details = None THEN {Row(Reported(p), None, 0)} ELSE Range(DetailRows(Reported(p), p))

WantedRows(objects) == UNION {ObjectRows(p) : p \in {p \in objects : Wanted(p)}}

SameRow(r, s) == SamePath(r.at, s.at) /\ r.column = s.column /\ r.ordinal = s.ordinal

\* The loops of execute_get_columns and of the relations of information_schema miss
\* nothing that is there all the time, and bring nothing twice and nothing that is
\* never there, whatever the pages of the listings and whatever other clients create
\* and drop between two calls to Unity.
WalkIsConsistent ==
    status = "answered" =>
      LET Kept(objects) == {r \in WantedRows(objects) : Accepts(request, r)}
      IN /\ \A i, j \in DOMAIN rows : SameRow(rows[i], rows[j]) => i = j
         /\ Kept(always) \subseteq Range(rows)
         /\ Range(rows) \subseteq Kept(ever)

\* The rows of SHOW, of GetColumns and of information_schema's tables, columns
\* and views come by lower-case names and, within a table, by position, in
\* whatever order Unity lists its objects and a table its columns.
AnswerIsSorted ==
    status = "answered" /\ Ordered(request) =>
      \A i, j \in DOMAIN rows : i < j => ~RowBefore(rows[j], rows[i])

\* Every walk ends, with an answer or an error: every listing comes to its last
\* page, and no name that is gone holds it up.
WalkEnds == status = "walking" ~> status \in {"answered", "failed"}
=============================================================================
