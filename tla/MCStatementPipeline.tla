------------------------ MODULE MCStatementPipeline -------------------------
(* Messages, texts, tables and batches for StatementPipeline and SqlStatements. *)
EXTENDS SqlStatements

MCSmall == ("COUNT" :> "count") @@ ("IF" :> "if") @@ ("SYSTEM" :> "system")
MCAlphabet == <<"1", "2", "a", "b", "null">>

-----------------------------------------------------------------------------
(* Messages *)

Scalar(of) == [is |-> "scalar", of |-> of]
Struct(fields) == [is |-> "struct", fields |-> fields]
Container(elements, size, values) ==
    [is |-> "container", elements |-> elements, size |-> size, values |-> values]
Field(id, type, value) == [type |-> type, id |-> id, value |-> value]
String(name) == Scalar([bytes |-> 16, utf8 |-> TRUE, is |-> name])
Broken == Scalar([bytes |-> 5, utf8 |-> FALSE, is |-> "broken"])

Guid == Field(1, "string", String("guid"))
Secret == Field(2, "string", String("secret"))
HandleOf(identifier) == Struct(<<Field(1, "struct", Struct(identifier))>>)
Handle == Field(1, "struct", HandleOf(<<Guid, Secret>>))
Sql(name) == Field(2, "string", String(name))

Nested1 == Struct(<<>>)
Nested2 == Struct(<<Field(9, "struct", Nested1)>>)
Nested3 == Struct(<<Field(9, "struct", Nested2)>>)
ListOf(n) == Container(<<"bool">>, n, [i \in 1..n |-> Scalar(TRUE)])
I32List(n) == Field(1281, "list", Container(<<"i32">>, n, [i \in 1..n |-> Scalar(i)]))
Pairs == Container(<<"string", "list">>, 2, <<String("k"), ListOf(1), String("l"), ListOf(0)>>)

Request(fields) == <<Field(1, "struct", Struct(fields))>>

\* What a client may write: the method, and the arguments.
Calls ==
       ("execute" :> <<"ExecuteStatement", Request(<<Handle, Sql("select")>>)>>)
    @@ ("execute_no_sql" :> <<"ExecuteStatement", Request(<<Handle>>)>>)
    @@ ("execute_twice" :> <<"ExecuteStatement", Request(<<Sql("first"), Handle, Sql("last")>>)>>)
    @@ ("execute_broken" :> <<"ExecuteStatement", Request(<<Handle, Field(2, "string", Broken)>>)>>)
    @@ ("execute_unknown" :> <<"ExecuteStatement",
          Request(<<Field(7, "map", Pairs), Handle, Field(2, "i32", Scalar(3)),
                    Field(8, "struct", Nested2), Sql("select"), Field(9, "string", Broken)>>)>>)
    @@ ("execute_deep" :> <<"ExecuteStatement", Request(<<Field(8, "struct", Nested3), Sql("select")>>)>>)
    @@ ("execute_late" :> <<"ExecuteStatement",
          <<Field(3, "bool", Scalar(TRUE)), Field(1, "list", ListOf(1))>>
          \o Request(<<Sql("select")>>) \o <<Field(4, "struct", Nested1), Field(1, "struct", Nested1)>>>>)
    @@ ("execute_deep_after" :> <<"ExecuteStatement",
          Request(<<Sql("select")>>) \o <<Field(4, "struct", Nested2)>>>>)
    @@ ("execute_bad_type" :> <<"ExecuteStatement", Request(<<Sql("select"), Field(3, "uuid", Scalar(1))>>)>>)
    @@ ("no_request" :> <<"ExecuteStatement", <<Field(2, "struct", Struct(<<Sql("select")>>))>>>>)
    @@ ("open" :> <<"OpenSession",
          Request(<<I32List(3), Field(1284, "struct",
            Struct(<<Field(1, "string", String("catalog")), Field(2, "bool", Scalar(TRUE))>>))>>)>>)
    @@ ("open_list_of_lists" :> <<"OpenSession",
          Request(<<I32List(1), Field(1281, "list", Container(<<"list">>, 2, <<ListOf(2), ListOf(0)>>))>>)>>)
    @@ ("open_too_many" :> <<"OpenSession", Request(<<Field(5, "list", ListOf(3))>>)>>)
    @@ ("open_negative" :> <<"OpenSession",
          Request(<<Field(1281, "list", Container(<<"i32">>, -1, <<>>))>>)>>)
    @@ ("close" :> <<"CloseSession",
          Request(<<Handle, Field(1, "struct", HandleOf(<<Guid, Field(2, "string", Broken)>>))>>)>>)
    @@ ("info" :> <<"GetInfo", Request(<<Handle, Field(3, "i32", Scalar(17))>>)>>)
    @@ ("columns" :> <<"GetColumns",
          Request(<<Handle, Field(5, "string", String("column")), Field(3, "string", String("schema"))>>)>>)
    @@ ("fetch" :> <<"FetchResults",
          Request(<<Handle, Field(1282, "i64", Scalar(4)), Field(3, "i32", Scalar(5)),
                    Field(3, "i64", Scalar(2))>>)>>)
    @@ ("status" :> <<"GetOperationStatus", Request(<<Field(2, "bool", Scalar(FALSE)), Handle>>)>>)

Message(call, strict, isCall, missing) ==
    [strict |-> strict, call |-> isCall, name |-> call[1], args |-> call[2], missing |-> missing]

\* Every call, whole and cut short anywhere, and what is no call at all.
MCMessages ==
    [m \in (DOMAIN Calls) \X (0..9) |-> Message(Calls[m[1]], TRUE, TRUE, m[2])]
    @@ (<<"reply", 0>> :> Message(Calls["execute"], TRUE, FALSE, 0))
    @@ (<<"unknown", 0>> :> Message(<<"GetTables", <<>>>>, TRUE, TRUE, 0))
    @@ (<<"lenient", 0>> :> Message(Calls["execute"], FALSE, TRUE, 0))

-----------------------------------------------------------------------------
(* Statements over a table with an array a, an index i, a map m, an array   *)
(* of structs s, a text t, a moment at and a Boolean b.                     *)

C(name) == Column(name)
N(n) == NumberExpr(n)
T(chars) == SingleQuotedStringExpr(chars)
Like(op, expr, pattern) ==
    [is |-> "like", op |-> op, args |-> <<expr>>, pattern |-> T(pattern), any |-> FALSE, escape |-> None]
Cast(expr) == Expr("cast", None, <<expr>>)
Extract(expr) == Expr("extract", "minute", <<expr>>)
Chain(expr, chain) == [is |-> "access", op |-> None, args |-> <<expr>>, chain |-> chain]
Dot(name) == [is |-> "dot", args |-> <<C(name)>>]
Subscript(expr) == [is |-> "subscript", args |-> <<expr>>]
Get(array, index) == Function("get", <<array, index>>)
If(p, x, y) == Function("IF", <<p, x, y>>)
Replace(replacement) == Function("regexp_replace", <<C("t"), T(<<"a", "(", "x", ")">>), T(replacement)>>)

NoClauses == [c \in Clauses |-> <<>>]
Simple(exprs) == Select([i \in DOMAIN exprs |-> Item(exprs[i], None)], NoClauses, "t")
Where(expr) == Select(<<EveryColumn>>, [NoClauses EXCEPT !["selection"] = <<expr>>], "t")
Plain(body) == Query(<<>>, body, <<>>)
Of(exprs) == Plain(Simple(exprs))

Bucket(path) == [scheme |-> "s3", host |-> "bucket", path |-> path, plain |-> TRUE]
Create(name, using, location, of) ==
    [is |-> "create", replace |-> TRUE, name |-> name, using |-> using, location |-> location, of |-> of]
Target1 == <<<<"main">>, <<"sales">>, <<"orders">>>>
Ctas == Create(Target1, "delta", Bucket(<<"/", "o">>), Of(<<Get(C("a"), C("i"))>>))
Insert == [is |-> "insert"]

Text1(statement) == [show |-> FALSE, tokenizes |-> TRUE, parses |-> TRUE, statements |-> <<statement>>]

Statements ==
       ("get" :> Of(<<Get(C("a"), C("i")), C("i")>>))
    @@ ("get_of_get" :> Of(<<Get(C("a"), BinaryOp(Get(C("a"), N(0)), "+", UnaryOp("-", N(10))))>>))
    @@ ("element_at" :> Of(<<Function("element_at", <<C("m"), T(<<"x">>)>>), Call("COUNT", <<Wildcard>>, "plain"),
                             Call("count", <<C("i")>>, "distinct"), Call("count", <<C("i")>>, "windowed")>>))
    @@ ("if" :> Of(<<If(C("b"), If(BinaryOp(C("i"), "<", N(0)), C("i"), N(1)), Get(C("a"), N(1)))>>))
    @@ ("if_of_like" :> Of(<<If(Like("like", C("t"), <<"%", "x", "%">>), N(1), N(2))>>))
    @@ ("field" :> Of(<<Chain(Get(C("s"), N(0)), <<Dot("f")>>), Chain(C("s"), <<Subscript(N(1)), Dot("f")>>),
                        Chain(C("a"), <<Subscript(If(C("b"), N(1), N(2)))>>)>>))
    @@ ("like" :> Plain(Where(BinaryOp(Like("not like", C("t"), <<"%", "x", "%">>), "and",
                        Expr("nested", None, <<UnaryOp("not", Like("like", C("t"), <<"%", "b", "%">>))>>))))
       )
    @@ ("like_pattern" :> Plain(Where(BinaryOp(Like("like", C("t"), <<"a", "%">>), "and",
                                               Like("like", C("t"), <<"%", "_", "%">>)))))
    @@ ("replace" :> Of(<<Replace(<<"$", "1">>), Replace(<<"$", "{", "0", "}">>), Replace(<<"\\", "2">>),
                          Replace(<<"$", "x">>), Replace(<<"b">>)>>))
    @@ ("extract" :> Of(<<Extract(C("at"))>>))
    @@ ("in_cast" :> Of(<<Cast(Extract(C("at"))), Cast(Get(C("a"), N(0))),
                          Expr("case", None, <<C("b"), Get(C("a"), N(0)), N(1)>>)>>))
    @@ ("with" :> Query(<<Of(<<Get(C("a"), N(1))>>)>>, Simple(<<C("i")>>), <<C("i")>>))
    @@ ("union" :> Query(<<>>, [is |-> "set_operation", operands |->
                     <<Simple(<<C("i")>>), Plain(Where(If(C("b"), C("b"), C("b"))))>>],
                     <<Get(C("a"), N(0))>>))
    @@ ("grouped" :> Query(<<>>, Select(<<Item(C("i"), <<"x">>), Item(N(1), None)>>,
                       [NoClauses EXCEPT !["group_by"] = <<C("i")>>,
                          !["having"] = <<If(C("b"), C("b"), C("b"))>>], "t"), <<C("i")>>))
    @@ ("explain" :> [is |-> "explain", of |-> Of(<<If(C("b"), N(1), N(2))>>)])
    @@ ("explain_insert" :> [is |-> "explain", of |-> Insert])
    @@ ("insert" :> Insert)
    @@ ("query_insert" :> Query(<<Of(<<C("i")>>)>>, Insert, <<>>))
    @@ ("values" :> Plain([is |-> "values"]))
    @@ ("ctas" :> Ctas)
    @@ ("ctas_insert" :> [Ctas EXCEPT !.of = Query(<<>>, Insert, <<>>)])
    @@ ("ctas_system" :> [Ctas EXCEPT !.name = <<<<"SYSTEM">>, <<"a">>, <<"b">>>>])
    @@ ("ctas_dotted" :> [Ctas EXCEPT !.name = <<<<"a", ".", "b">>>>])
    @@ ("ctas_managed" :> [Ctas EXCEPT !.location = None])
    @@ ("ctas_root" :> [Ctas EXCEPT !.location = Bucket(<<"/">>)])
    @@ ("create" :> [Ctas EXCEPT !.replace = FALSE])

MCSqlTexts ==
    [t \in DOMAIN Statements |-> Text1(Statements[t])]
    @@ ("two" :> [Text1(Insert) EXCEPT !.statements = <<Of(<<Get(C("a"), N(0))>>), Insert>>])
    @@ ("ctas_two" :> [Text1(Insert) EXCEPT !.statements = <<Ctas, Insert>>])
    @@ ("garbage" :> [Text1(Insert) EXCEPT !.parses = FALSE])
    @@ ("no_tokens" :> [Text1(Insert) EXCEPT !.parses = FALSE, !.tokenizes = FALSE])
    @@ ("show" :> [Text1(Insert) EXCEPT !.show = TRUE])

Row(a, i, m, s, t, at, b) ==
    ("a" :> a) @@ ("i" :> i) @@ ("m" :> m) @@ ("s" :> s) @@ ("t" :> t) @@ ("at" :> at) @@ ("b" :> b)
MCRows == <<
    Row(<<10, 20>>, 1, <<"x">> :> 1, <<<<"f">> :> 7>>, <<"a", "x", "b">>,
        [ticks |-> -30, unit |-> "second"], TRUE),
    Row(<<11, 20>>, -2, <<"y">> :> 1, <<>>, <<"x">>, [ticks |-> 4000000, unit |-> "millisecond"], FALSE),
    Row(<<>>, 5, <<"x">> :> None, <<None>>, <<"b", "a">>, [ticks |-> -3600000, unit |-> "millisecond"], None),
    Row(None, None, None, None, None, None, None)>>

-----------------------------------------------------------------------------
(* Tables within tables, and beside one another. *)

At1(host, path) == [host |-> host, path |-> path]
MCLocations ==
       ("a" :> At1("bucket", <<"/", "a", "/">>))
    @@ ("inner" :> At1("bucket", <<"/", "a", "/", "b">>))
    @@ ("beside" :> At1("bucket", <<"/", "a", "b">>))
    @@ ("root" :> At1("other", <<"/">>))
    @@ ("nowhere" :> At1(None, <<"/", "a">>))
    @@ ("bad" :> At1("bucket", <<"/", "a", "/", "/", "b">>))
MCOpened == {"first", "reopened"}

Paths == {<<"a">>, <<"a", "/", "c">>, <<"a", "/", "b">>, <<"a", "/", "b", "/", "c">>,
          <<"a", "b", "/", "c">>, <<"c">>, <<>>}
Asked(op, url, path, to) == [op |-> op, url |-> url, path |-> path, to |-> to]
MCAccesses ==
    {Asked("get_opts", url, path, None) : url \in {"bucket", "other"}, path \in Paths}
    \cup {Asked("list", "bucket", path, None) : path \in Paths \cup {None}}
    \cup {Asked("copy_opts", "bucket", <<"a", "/", "c">>, to) : to \in Paths}
    \cup {Asked(op, "bucket", <<"a", "/", "b", "/", "c">>, None) :
            op \in {"put_opts", "put_multipart_opts", "delete_stream", "list_with_offset", "list_with_delimiter"}}

MCErrorChains == {<<"DataFusion">>, <<"DataFusion", "External", "Unity">>, <<"DataFusion", "Io", "Unity">>}

-----------------------------------------------------------------------------
(* Batches *)

Atom(kind) == Type(kind, <<>>)
Batch(rows, bytes) == [rows |-> rows, bytes |-> bytes]
MapOf == Type("Map", <<Atom("Utf8"), Atom("Int32")>>)
MCSchemas ==
       (<<Atom("Int32"), Atom("Utf8")>> :>
          {Batch(<<<<1, <<"a">>>>, <<None, <<"b">>>>>>, 2), Batch(<<<<3, None>>>>, 1), Batch(<<>>, 0), Batch(<<>>, 5)})
    @@ (<<Atom("Boolean"), Atom("UInt64")>> :>
          {Batch(<<<<TRUE, 9>>, <<FALSE, 10>>>>, 2), Batch(<<<<None, None>>, <<TRUE, 1>>, <<TRUE, 2>>>>, 2)})
    @@ (<<MapOf>> :>
          {Batch(<<<<<<<<<<"a">>, 1>>, <<<<"b">>, None>>>>>>, <<<<<<<<"b">>, None>>, <<<<"a">>, 1>>>>>>>>, 2),
           Batch(<<<<None>>, <<<<<<None, 2>>>>>>>>, 1)})
    @@ (<<Type("Struct", <<Type("List", <<Atom("Date32")>>), Type("Map", <<Atom("Int64"), Atom("Float64")>>)>>)>> :>
          {Batch(<<<<<<<<1, None>>, <<<<2, 5>>, <<1, 4>>>>>>>>>>, 1), Batch(<<<<<<<<6>>, None>>>>>>, 1)})
    @@ (<<Atom("Date32"), Type("ListView", <<Atom("Int64")>>), Atom("Binary")>> :>
          {Batch(<<<<7, None, <<"a">>>>>>, 1), Batch(<<<<1, <<1>>, None>>>>, 1)})
    @@ (<<Atom("Int8"), Atom("Interval")>> :> {Batch(<<<<1, 2>>>>, 1)})

\* One statement, whose result has a column of list views.
OneMessage == (<<"execute", 0>> :> Message(Calls["execute"], TRUE, TRUE, 0))
ListViewColumn ==
    (<<Type("ListView", <<Atom("Int64")>>)>> :> {Batch(<<<<None>>>>, 1), Batch(<<<<<<1, None>>>>>>, 1)})

MCOffsets == {-1, 0, 1, 3, 20}
MCLimits == {None, -1, 0, 1, 2, 20}
=============================================================================
