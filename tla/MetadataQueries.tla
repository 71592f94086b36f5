-------------------------- MODULE MetadataQueries ---------------------------
(***************************************************************************)
(* What MetadataWalk leaves open, as the code does it: how a SHOW          *)
(* statement (ShowStatements), a GetColumns call (both                     *)
(* src/engine/metadata/mod.rs) and a scan of an information_schema         *)
(* relation (src/engine/information_schema.rs) become plans, and which     *)
(* names their levels select (NamePatterns); and what each request means,  *)
(* said without a plan.                                                    *)
(***************************************************************************)
EXTENDS MetadataWalk, ShowStatements

CONSTANT Meanings    \* the SHOW statements whose spellings are looked for

-----------------------------------------------------------------------------
(* What one level of a walk looks for: a given name, no name, or the       *)
(* listed names that match.                                                *)

Only(name) == [how |-> "only", of |-> name]
Never == [how |-> "never", of |-> None]
Matching(how, pattern) == [how |-> how, of |-> pattern]

LevelSelects(level, name) ==
    CASE level.how = "show" -> ShowPatternMatches(level.of, name)
      [] level.how = "metadata" -> MetadataPatternMatches(level.of, name)
      [] level.how = "in" -> level.of = None \/ Lower(name) \in level.of

LevelCompiles(level) == level.how = "show" => ShowPatternIsValid(level.of)

\* details: what is read of each table; sorts: whether listings and answer are
\* sorted; reports: whose spelling of the names the rows carry.
Plan(levels, kind, details, sorts, reports) ==
    [ok |-> TRUE, levels |-> levels, kind |-> kind, details |-> details,
     columns |-> Matching("metadata", None), sorts |-> sorts, reports |-> reports]

InSchema(name, level, kind, details) ==
    LET schema == ResolveSchema(name)
    IN IF ~schema.ok \/ ~ShowPatternIsValid(level.of) THEN Failed
       ELSE Plan(<<Only(schema.value[1]), Only(schema.value[2]), level>>, kind, details,
                 {"rows"}, "walk")

ShowPlan(st) ==
    LET level == Matching("show", st.pattern)
        catalog == ResolveCatalog(st.name)
        table == ResolveTable(st.name, st.within)
    IN CASE st.what = "catalogs" -> Plan(<<level>>, "any", None, {"rows"}, "walk")
         [] st.what = "schemas" ->
              IF ~catalog.ok THEN Failed
              ELSE Plan(<<Only(catalog.value), level>>, "any", None, {"rows"}, "walk")
         [] st.what = "tables" -> InSchema(st.name, level, "table", None)
         [] st.what = "views" -> InSchema(st.name, level, "view", None)
         [] st.what = "columns" ->
              IF ~table.ok THEN Failed
              ELSE Plan([i \in 1..3 |-> Only(table.value[i])], "any", "columns", {}, "walk")
         [] st.what = "table_extended" ->
              IF st.partition # None THEN Failed
              ELSE InSchema(st.name, level, "table", "information")

-----------------------------------------------------------------------------
(* GetColumns: each argument is None, a literal or a pattern. *)

\* The parts of a value between its dots.
Split(value) ==
    LET dots == {i \in DOMAIN value : value[i] = "."}
        cuts == SetToSortSeq(dots \cup {0, Len(value) + 1}, <)
    IN [i \in 1..(Len(cuts) - 1) |-> SubSeq(value, cuts[i] + 1, cuts[i + 1] - 1)]

NormalizeGetColumnsRequest(args) ==
    LET schemaParts == Split(args.schema)
        split == args.catalog = None /\ args.schema # None /\ Len(schemaParts) = 2
        a == IF split THEN [args EXCEPT !.catalog = schemaParts[1], !.schema = schemaParts[2]]
             ELSE args
        parts == Split(a.table)
    IN CASE a.table = None -> a
         [] a.table # None /\ Len(parts) = 3 /\ a.catalog = None /\ a.schema = None ->
              [a EXCEPT !.catalog = parts[1], !.schema = parts[2], !.table = parts[3]]
         [] a.table # None /\ Len(parts) = 2 /\ a.schema = None ->
              [a EXCEPT !.schema = parts[1], !.table = parts[2]]
         [] OTHER -> a

\* A literal is looked up by name, a pattern needs a listing.
Candidates(value) ==
    IF ContainsMetadataWildcard(value) THEN Matching("metadata", value)
    ELSE Only(StripMetadataEscapes(value))

ResolveCatalogCandidates(value) ==
    IF value \in {None, <<>>} THEN Only(Defaults[1]) ELSE Candidates(value)

ResolveSchemaCandidates(value) ==
    CASE value = None -> Matching("metadata", None)
      [] value = <<>> -> Never
      [] OTHER -> Candidates(value)

ResolveTableCandidates(value) ==
    IF value \in {None, <<>>} THEN Matching("metadata", None) ELSE Candidates(value)

GetColumnsPlan(args) ==
    LET a == NormalizeGetColumnsRequest(args)
    IN [Plan(<<ResolveCatalogCandidates(a.catalog), ResolveSchemaCandidates(a.schema),
               ResolveTableCandidates(a.table)>>, "any", "columns", {"listings", "rows"}, "unity")
          EXCEPT !.columns = Matching("metadata", a.column)]

-----------------------------------------------------------------------------
(* information_schema: the equalities of the query's filters narrow the    *)
(* walk; DataFusion applies the filters to the rows all the same           *)
(* (TableProviderFilterPushDown::Inexact).                                 *)

EqualityFilter(left, right) ==
    IF left.is = "column" /\ right.is = "literal" THEN {<<left.of, right.of>>} ELSE {}

RECURSIVE Collect(_)
\* MetadataFilters::collect: the equalities a conjunction holds.
Collect(expr) ==
    CASE expr.op = "and" -> Collect(expr.left) \cup Collect(expr.right)
      [] expr.op = "=" -> EqualityFilter(expr.left, expr.right)
                          \cup EqualityFilter(expr.right, expr.left)
      [] OTHER -> {}

\* The lower-cased values asked for in some columns; None when there is none.
FilterValues(filters, columns) ==
    LET all == UNION {Collect(filters[i]) : i \in DOMAIN filters}
        values == {Lower(e[2]) : e \in {e \in all : e[1] \in columns}}
    IN IF values = {} THEN None ELSE values

\* catalogs(): a scope that the filters accept is not looked up.
ScopedCatalogs(scope, accepted) ==
    CASE scope = None -> Matching("in", accepted)
      [] scope # None /\ LevelSelects(Matching("in", accepted), scope) -> Only(scope)
      [] OTHER -> Never

\* catalogs_for_catalog_rows(): a scope is looked for among the catalogs.
CatalogsForCatalogRows(scope, accepted) ==
    Matching("in", IF scope = None THEN accepted
                   ELSE IF accepted = None THEN {Lower(scope)} ELSE {Lower(scope)} \cap accepted)

InformationSchemaPlan(r) ==
    LET Values(columns) == FilterValues(r.filters, columns)
        catalogs == ScopedCatalogs(r.scope, Values({"catalog_name", "table_catalog"}))
        schemas == Matching("in", Values({"schema_name", "table_schema"}))
        tables == Matching("in", Values({"table_name"}))
        columns == Matching("in", Values({"column_name"}))
        all == <<catalogs, schemas, tables>>
    IN CASE r.limit = 0 \/ r.relation = "empty" -> Plan(<<Never>>, "any", None, {}, "walk")
         [] r.relation = "catalogs" /\ r.limit # 0 ->
              Plan(<<CatalogsForCatalogRows(r.scope, Values({"catalog_name", "table_catalog"}))>>,
                   "any", None, {}, "unity")
         [] r.relation = "schemata" /\ r.limit # 0 ->
              Plan(<<catalogs, schemas>>, "any", None, {}, "walk")
         [] r.relation = "tables" /\ r.limit # 0 -> Plan(all, "any", None, {"rows"}, "unity")
         [] r.relation = "columns" /\ r.limit # 0 ->
              [Plan(all, "any", "columns", {"rows"}, "unity") EXCEPT !.columns = columns]
         [] r.relation = "views" /\ r.limit # 0 -> Plan(all, "view", None, {"rows"}, "walk")
         [] r.relation = "row_filters" /\ r.limit # 0 -> Plan(all, "any", "row_filter", {}, "walk")

\* The value of a column of an information_schema row.
Cell(row, column) ==
    CASE column \in {"catalog_name", "table_catalog"} -> row.at[1]
      [] column \in {"schema_name", "table_schema"} -> row.at[2]
      [] column = "table_name" -> row.at[3]
      [] column = "column_name" -> row.column

RECURSIVE Holds(_, _)
\* DataFusion's evaluation of a filter.
Holds(expr, row) ==
    LET Value(operand) == IF operand.is = "column" THEN Cell(row, operand.of) ELSE operand.of
    IN CASE expr.op = "and" -> Holds(expr.left, row) /\ Holds(expr.right, row)
         [] expr.op = "or" -> Holds(expr.left, row) \/ Holds(expr.right, row)
         [] expr.op = "not" -> ~Holds(expr.left, row)
         [] expr.op = "=" -> Value(expr.left) = Value(expr.right)

FiltersAccept(r, row) ==
    r.via = "information_schema" => \A i \in DOMAIN r.filters : Holds(r.filters[i], row)

-----------------------------------------------------------------------------
(* The plan of a request *)

RequestPlan(r) ==
    LET parsed == ParseShowStatement(r.text)
    IN CASE r.via = "get_columns" -> GetColumnsPlan(r)
         [] r.via = "information_schema" -> InformationSchemaPlan(r)
         [] r.via = "sql" ->
              IF ~parsed.ok THEN Failed
              ELSE IF parsed.value = None THEN [ok |-> None]
              ELSE ShowPlan(parsed.value)

\* Rows come in an order but for those of three relations.
IsOrdered(r) == r.via = "information_schema" => r.relation \in {"tables", "columns", "views"}

-----------------------------------------------------------------------------
(* What the requests mean, said without a walk. *)

\* The paths and columns there are, given the objects that exist.
RowsThereAre(objects, depth, columns) ==
    LET paths == {p \in objects : Len(p) = depth}
    IN IF columns THEN UNION {ToSet(ColumnRows(p, p, Matching("metadata", None))) : p \in paths}
       ELSE {Row(p, None, 0) : p \in paths}

\* A partial name completed from the left.
Overlay(base, parts) ==
    IF parts = None THEN base ELSE SubSeq(base, 1, Len(base) - Len(parts)) \o parts

ShowMeans(st, objects) ==
    LET depth == CASE st.what = "catalogs" -> 1 [] st.what = "schemas" -> 2 [] OTHER -> 3
        all == RowsThereAre(objects, depth, st.what = "columns")
        parent == Overlay(SubSeq(Defaults, 1, depth - 1), st.name)
        table == Overlay(Append(Overlay(Defaults, st.within), <<>>), st.name)
    IN IF st.what = "columns" THEN {r \in all : SamePath(r.at, table)}
       ELSE {r \in all : /\ SamePath(Front(r.at), parent)
                         /\ ShowPatternMatches(st.pattern, Last(r.at))
                         /\ st.what \in {"tables", "table_extended"} => ~IsViewLike(r.at)
                         /\ st.what = "views" => IsViewLike(r.at)}

\* Each argument a pattern; a dotted one a pattern for several levels, as long
\* as those are not given on their own.
GetColumnsMeans(args, objects) ==
    LET Level(value, name) == MetadataPatternMatches(value, name)
        Parts(value) == IF value = None THEN <<>> ELSE Split(value)
        t == Parts(args.table)
        s == Parts(args.schema)
        schemaDotted == Len(s) = 2 /\ args.catalog = None
        tableDotted == \/ Len(t) = 2 /\ args.schema = None
                       \/ Len(t) = 3 /\ args.schema = None /\ args.catalog = None
        catalog == CASE schemaDotted -> s[1]
                     [] tableDotted /\ Len(t) = 3 -> t[1]
                     [] OTHER -> args.catalog
        schema == CASE schemaDotted -> s[2]
                    [] tableDotted -> t[Len(t) - 1]
                    [] OTHER -> args.schema
        table == IF tableDotted THEN t[Len(t)] ELSE args.table
    IN {r \in RowsThereAre(objects, 3, TRUE) :
          /\ IF catalog \in {None, <<>>} THEN SameName(r.at[1], Defaults[1])
             ELSE Level(catalog, r.at[1])
          /\ schema # <<>> /\ Level(schema, r.at[2])
          /\ Level(table, r.at[3])
          /\ Level(args.column, r.column)}

InformationSchemaMeans(q, objects) ==
    LET depth == CASE q.relation = "catalogs" -> 1 [] q.relation = "schemata" -> 2 [] OTHER -> 3
        typed == q.scope # None /\ q.relation \in {"schemata", "views", "row_filters"}
        AsAsked(r) == IF typed THEN [r EXCEPT !.at[1] = q.scope] ELSE r
    IN IF q.limit = 0 \/ q.relation = "empty" THEN {}
       ELSE {r \in {AsAsked(r) : r \in
               {r \in RowsThereAre(objects, depth, q.relation = "columns") :
                  /\ q.scope # None => SameName(r.at[1], q.scope)
                  /\ q.relation = "views" => IsViewLike(r.at)
                  /\ q.relation = "row_filters" => About[r.at].row_filter # None}} :
               FiltersAccept(q, r)}

Means(objects) ==
    CASE request.via = "sql" -> ShowMeans(ParseShowStatement(request.text).value, objects)
      [] request.via = "get_columns" -> GetColumnsMeans(request, objects)
      [] request.via = "information_schema" -> InformationSchemaMeans(request, objects)

\* A SHOW statement's grammar: SHOW what [IN name] [[LIKE] pattern] [PARTITION (...)].
SpellsName(tokens, name) ==
    IF name = None THEN tokens = <<>>
    ELSE /\ Len(tokens) = 2 * Len(name) /\ StartsWith(tokens, {"FROM", "IN"})
         /\ \A i \in 1..Len(name) : /\ tokens[2 * i].kind = "word"
                                    /\ tokens[2 * i].text = name[i]
                                    /\ i > 1 => tokens[2 * i - 1].kind = "period"

SpellsPattern(tokens, pattern) ==
    LET text == IF StartsWith(tokens, {"LIKE"}) THEN Tail(tokens) ELSE tokens
    IN IF pattern = None THEN tokens = <<>>
       ELSE /\ text # <<>> /\ PatternText(text) = pattern
            /\ \A i \in DOMAIN text : text[i].kind \in PatternKinds

SpellsPartition(tokens, partition) ==
    IF partition = None THEN tokens = <<>>
    ELSE /\ Len(tokens) > 2 /\ StartsWith(tokens, {"PARTITION"})
         /\ tokens[2].kind = "lparen" /\ Last(tokens).kind = "rparen"
         /\ PatternText(Tail(tokens)) = partition
         /\ \A i \in 2..Len(tokens) : tokens[i].kind \in PatternKinds
         /\ \A n \in 2..(Len(tokens) - 1) :
               Cardinality({i \in 2..n : tokens[i].kind = "lparen"})
                 > Cardinality({i \in 2..n : tokens[i].kind = "rparen"})

Leads(what) ==
    CASE what = "catalogs" -> {<<"CATALOGS">>}
      [] what = "schemas" -> {<<"SCHEMAS">>, <<"DATABASES">>}
      [] what = "tables" -> {<<"TABLES">>}
      [] what = "views" -> {<<"VIEWS">>}
      [] what = "columns" -> {<<"COLUMNS">>}
      [] what = "table_extended" -> {<<"TABLE", "EXTENDED">>}

\* What may not follow a lead, so that a statement has one reading.
Reserved(st) ==
    (IF st.name = None THEN {"FROM", "IN"} ELSE {})
    \cup CASE st.what = "schemas" -> {"HISTORY"} [] st.what = "tables" -> {"HISTORY", "EXTENDED"}
           [] OTHER -> {}

Spells(tokens, st) ==
    LET body == Body(tokens) IN
    /\ IsShow(tokens)
    /\ \E lead \in Leads(st.what) :
         /\ Len(body) >= Len(lead) /\ \A i \in DOMAIN lead : IsKeyword(body[i], lead[i])
         /\ LET rest == From(body, Len(lead) + 1)
                Cut(i, j) == SubSeq(rest, i, j)
                Width(name) == IF name = None THEN 0 ELSE 2 * Len(name)
                i == Width(st.name)
                j == i + Width(st.within)
            IN \E k \in j..Len(rest) :
                 /\ SpellsName(Cut(1, i), st.name) /\ SpellsName(Cut(i + 1, j), st.within)
                 /\ SpellsPattern(Cut(j + 1, k), st.pattern)
                 /\ SpellsPartition(From(rest, k + 1), st.partition)
                 /\ ~StartsWith(rest, Reserved(st))
                 /\ st.name # None => ~(Len(rest) > i /\ rest[i + 1].kind = "period")
                 /\ st.within # None => st.what = "columns"
                 /\ st.what = "catalogs" => st.name = None
                 /\ st.what = "columns" => st.name # None /\ st.pattern = None
                 /\ IF st.what = "table_extended"
                    THEN /\ StartsWith(Cut(j + 1, k), {"LIKE"})
                         /\ \A n \in (j + 2)..k : ~IsKeyword(rest[n], "PARTITION")
                    ELSE st.partition = None

-----------------------------------------------------------------------------
(* Properties *)

LowerRow(row) == [row EXCEPT !.at = LowerPath(@)]

\* An answer that succeeds has each row once, every row that the request means
\* of the objects that were there throughout, and no row that it does not mean
\* of the objects there at some time: whatever the pages of the listings, the
\* literals looked up instead of listed, the escapes, the default names and the
\* filters pushed down to the walk, and whatever other clients change under it.
AnswerIsConsistent ==
    status = "answered" =>
      LET got == {LowerRow(rows[i]) : i \in DOMAIN rows}
      IN /\ Cardinality(got) = Len(rows)
         /\ {LowerRow(r) : r \in Means(always)} \subseteq got
         /\ got \subseteq {LowerRow(r) : r \in Means(ever)}

\* A statement is read as SHOW statement exactly if it is spelled by the grammar
\* and as the statement it spells: nothing at its end is ignored, no keyword is
\* taken for a pattern, and every spelling (IN or FROM, LIKE or not, semicolons)
\* of a statement is accepted.
ReadAsWritten ==
    status = "received" /\ request.via = "sql" =>
      LET parsed == ParseShowStatement(request.text)
      IN /\ parsed.ok /\ parsed.value # None => Spells(request.text, parsed.value)
         /\ \A st \in Meanings : Spells(request.text, st) => parsed.ok /\ parsed.value = st
=============================================================================
