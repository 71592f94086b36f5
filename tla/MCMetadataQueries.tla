------------------------- MODULE MCMetadataQueries --------------------------
(* A small Unity Catalog and the requests made of it, for TLC. *)
EXTENDS MetadataQueries

Capital == [c \in {"A", "S", "T", "SHOW"} |->
              CASE c = "A" -> "a" [] c = "S" -> "s" [] c = "T" -> "t" [] c = "SHOW" -> "show"]
Letters == <<" ", "%", "*", ".", "_", "\\", "a", "b", "s", "t", "v", "x", "y">>
Session == << <<"a">>, <<"s">> >>

a == <<"a">>
b == <<"b">>
s == <<"s">>
t == <<"t">>
t_ == <<"T", "_">>
v == <<"v">>
x == <<"x">>

Paths == << <<b>>, <<a>>, <<b, s>>, <<a, s>>, <<a, b>>,
            <<a, s, v>>, <<a, s, t_>>, <<a, s, x>>, <<a, s, t>>, <<b, s, t>> >>

Column(name, position) == [name |-> name, position |-> position]
Table(type, columns, row_filter) ==
    [type |-> type, columns |-> columns, row_filter |-> row_filter]
Details == [p \in {Paths[i] : i \in 6..10} |->
    CASE p = <<a, s, v>> -> Table("VIEW", <<Column(<<"x">>, None)>>, None)
      [] p = <<a, s, t_>> -> Table("TABLE", <<Column(<<"y">>, 1), Column(<<"x">>, 0)>>, "set")
      [] p = <<a, s, t>> -> Table("TABLE", <<Column(<<"x">>, None), Column(<<"y">>, None)>>, None)
      [] p = <<a, s, x>> -> Table("TABLE", <<Column(<<"x">>, 0)>>, None)
      [] p = <<b, s, t>> -> Table("TABLE", <<Column(<<"x">>, 0)>>, "malformed")]

\* The others are created by other clients.
Contents == ToSet(Paths) \ {<<a, b>>, <<a, s, x>>}

-----------------------------------------------------------------------------
(* GetColumns *)

GetColumns(catalog, schema, table, column) ==
    [via |-> "get_columns", catalog |-> catalog, schema |-> schema, table |-> table,
     column |-> column]

\* Every table argument of up to three characters.
Patterns == {GetColumns(None, s, table, None) :
               table \in BoundedSeq({"t", "T", "_", "\\", "%"}, 3)}

Arguments == {GetColumns(catalog, schema, table, column) :
                catalog \in {None, <<>>, <<"A">>, <<"%">>},
                schema \in {None, <<>>, <<"S">>, <<"a", ".", "s">>, <<"_">>},
                table \in {None, <<>>, t, <<"*">>, <<"s", ".", "t">>, <<"a", ".", "s", ".", "t">>},
                column \in {None, <<"x">>}}

-----------------------------------------------------------------------------
(* SHOW *)

Word(symbol) == [kind |-> "word", text |-> <<symbol>>, quoted |-> FALSE]
Quoted(symbol) == [kind |-> "word", text |-> <<symbol>>, quoted |-> TRUE]
Mark(kind, symbol) == [kind |-> kind, text |-> <<symbol>>, quoted |-> FALSE]
String(text) == [kind |-> "string", text |-> text, quoted |-> FALSE]
Name(text) == [kind |-> "word", text |-> text, quoted |-> TRUE]
Dot == Mark("period", ".")
Semicolon == Mark("semicolon", ";")

Sql(tokens) == [via |-> "sql", text |-> tokens]
Leading(words) == <<Word("SHOW")>> \o [i \in DOMAIN words |-> Word(words[i])]

\* Every short continuation of every kind of SHOW statement.
Texts ==
    {Sql(Leading(words) \o rest) :
       words \in {<<"CATALOGS">>, <<"SCHEMAS">>, <<"TABLES">>, <<"VIEWS">>, <<"COLUMNS">>},
       rest \in BoundedSeq({Word("IN"), Word("LIKE"), Word("a"), Dot, Semicolon}, 4)}
    \cup
    {Sql(Leading(<<"TABLE", "EXTENDED">>) \o rest) :
       rest \in BoundedSeq({Word("IN"), Word("LIKE"), Word("a"), Word("PARTITION")}, 4)}
    \cup
    {Sql(Leading(<<"TABLE", "EXTENDED", "LIKE">>) \o rest) :
       rest \in BoundedSeq({Word("a"), Word("PARTITION"), Mark("lparen", "("),
                            Mark("rparen", ")")}, 5)}
    \cup
    {Sql(tokens) : tokens \in {
       <<>>, <<Word("SELECT")>>, <<Quoted("SHOW"), Word("TABLES")>>, <<Word("show"), Word("TABLE")>>,
       <<Word("SHOW")>>, <<Word("SHOW"), Word("DATABASES"), Word("HISTORY")>>,
       <<Word("SHOW"), Word("TABLES"), Word("EXTENDED")>>,
       <<Word("SHOW"), Word("TABLES"), Word("LIKE"), Mark("other", "+")>>,
       <<Word("SHOW"), Word("TABLES"), Word("LIKE"), String(<<" ">>)>>,
       <<Word("SHOW"), Word("CATALOGS"), Word("LIKE"), String(<<" ">>)>>}}

\* The statements those continuations spell: names of up to two parts.
Spelled ==
    LET names == {None, <<a>>, <<a, a>>} IN
    {Show(what, name, None, pattern, None) :
       what \in {"catalogs", "schemas", "tables", "views"}, name \in names,
       pattern \in {None, a, <<"a", "a">>, <<"a", ".">>, <<".", "a">>, <<"a", "IN">>}}
    \cup {Show("columns", name, within, None, None) : name \in names \ {None}, within \in names}
    \cup {Show("table_extended", name, None, pattern, partition) :
            name \in names, pattern \in {a, <<"a", "(">>, <<"LIKE">>},
            partition \in {None, <<"(", ")">>, <<"(", "a", ")">>}}

In(name) == <<Word("IN")>> \o
    FlattenSeq([i \in DOMAIN name |-> IF i = 1 THEN <<Name(name[1])>> ELSE <<Dot, Name(name[i])>>])
Like(pattern) == <<Word("LIKE"), String(pattern)>>

Shows ==
    {Sql(tokens) : tokens \in
       {Leading(<<what>>) \o within \o like :
          what \in {"TABLES", "VIEWS"}, within \in {<<>>, In(<< <<"S">> >>), In(<<b, s>>)},
          like \in {<<>>, Like(<<"t", "*">>), Like(<<"v", "|", "t">>), Like(<<"t", ".">>)}}
       \cup {Leading(<<"SCHEMAS">>) \o In(<< <<"A">> >>), Leading(<<"SCHEMAS">>) \o Like(<<"s">>),
             Leading(<<"SCHEMAS">>) \o In(<<a, b>>), Leading(<<"CATALOGS">>),
             Leading(<<"CATALOGS">>) \o Like(<<"A">>),
             Leading(<<"TABLE", "EXTENDED">>) \o Like(<<"*">>),
             Leading(<<"TABLE", "EXTENDED">>) \o In(<<b, s>>) \o Like(<<"t">>)}
       \cup {Leading(<<"COLUMNS">>) \o In(table) \o schema :
               table \in {<<t_>>, <<s, t>>, <<b, s, t>>, <<a, a, s, t>>},
               schema \in {<<>>, In(<<s>>), In(<<a, s>>), In(<<b>>)}}}

-----------------------------------------------------------------------------
(* information_schema *)

Col(name) == [is |-> "column", of |-> name]
Lit(value) == [is |-> "literal", of |-> value]
Eq(left, right) == [op |-> "=", left |-> left, right |-> right]
And(left, right) == [op |-> "and", left |-> left, right |-> right]
Or(left, right) == [op |-> "or", left |-> left, right |-> right]
Not(expr) == [op |-> "not", left |-> expr]

InCatalog(c) == Eq(Col("table_catalog"), Lit(c))
Named(n) == Eq(Lit(n), Col("table_name"))

Scan(relation, scope, filters, limit) ==
    [via |-> "information_schema", relation |-> relation, scope |-> scope,
     filters |-> filters, limit |-> limit]

Scans ==
    {Scan("catalogs", scope, filters, limit) : scope \in {None, <<"A">>}, limit \in {None, 0},
       filters \in {<<>>, <<Eq(Col("catalog_name"), Lit(a))>>, <<Eq(Col("catalog_name"), Lit(b))>>}}
    \cup
    {Scan("schemata", scope, filters, None) : scope \in {None, <<"A">>},
       filters \in {<<>>, <<Eq(Col("catalog_name"), Lit(<<"A">>))>>,
                    <<Or(Eq(Col("schema_name"), Lit(s)), Eq(Col("catalog_name"), Lit(b)))>>}}
    \cup
    {Scan(relation, scope, filters, None) : scope \in {None, a},
       relation \in {"tables", "columns", "views", "row_filters", "empty"},
       filters \in {<<>>, <<InCatalog(a), Named(t_)>>, <<And(InCatalog(a), Named(<<"t", "_">>))>>,
                    <<And(Named(t), Named(v))>>, <<Or(Named(t), InCatalog(b))>>,
                    <<Not(Named(t))>>, <<Eq(Col("table_name"), Col("table_schema"))>>}}
    \cup
    {Scan("columns", None, <<Or(Named(t), Named(v)), Eq(Col("column_name"), Lit(<<"y">>))>>, None)}

AllRequests == Patterns \cup Arguments \cup Texts \cup Shows \cup Scans

\* Other clients are busy during one request of each kind.
Busy ==
    {GetColumns(<<"%">>, None, <<"%">>, None), GetColumns(None, s, t, None),
     Sql(Leading(<<"TABLES">>)), Sql(Leading(<<"CATALOGS">>)),
     Sql(Leading(<<"TABLE", "EXTENDED">>) \o Like(<<"*">>)),
     Scan("columns", a, <<>>, None), Scan("tables", None, <<>>, None),
     Scan("row_filters", a, <<>>, None), Scan("schemata", None, <<>>, None)}
=============================================================================
