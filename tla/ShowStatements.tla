--------------------------- MODULE ShowStatements ---------------------------
(***************************************************************************)
(* The SHOW statements: src/engine/metadata/parser.rs reads the tokens of  *)
(* one statement, src/engine/metadata/mod.rs completes its names with the  *)
(* defaults.  A token is a record [kind, text, quoted]; a keyword is one   *)
(* symbol, a name a sequence of characters.                                *)
(***************************************************************************)
EXTENDS NamePatterns

CONSTANT Defaults   \* <<default catalog, default schema>> of the session

Failed == [ok |-> FALSE]
Ok(value, rest) == [ok |-> TRUE, value |-> value, rest |-> rest]

Show(what, name, within, pattern, partition) ==
    [what |-> what, name |-> name, within |-> within, pattern |-> pattern,
     partition |-> partition]

IsKeyword(token, word) == token.kind = "word" /\ SameName(token.text, <<word>>)
StartsWith(tokens, words) == tokens # <<>> /\ \E w \in words : IsKeyword(Head(tokens), w)

\* The kinds of token pattern_token accepts; each adds its text to the pattern.
PatternKinds == {"word", "string", "number", "mul", "pipe", "period", "eq", "comma",
                 "lparen", "rparen"}
PatternText(tokens) == FlattenSeq([i \in DOMAIN tokens |-> tokens[i].text])
From(tokens, n) == SubSeq(tokens, n, Len(tokens))

\* identifier (. identifier)*, as many as there are.
ParseObjectName(tokens) ==
    LET Reads(n) == \A i \in 1..(2 * n - 1) :
                       tokens[i].kind = IF i % 2 = 1 THEN "word" ELSE "period"
        parts == Max({n \in 0..((Len(tokens) + 1) \div 2) : n = 0 \/ Reads(n)})
        after == From(tokens, 2 * parts)
    IN IF parts = 0 \/ (after # <<>> /\ Head(after).kind = "period") THEN Failed
       ELSE Ok([i \in 1..parts |-> tokens[2 * i - 1].text], after)

ParseOptionalInName(tokens) ==
    IF StartsWith(tokens, {"FROM", "IN"}) THEN ParseObjectName(Tail(tokens))
    ELSE Ok(None, tokens)

ParseRequiredInName(tokens) ==
    IF StartsWith(tokens, {"FROM", "IN"}) THEN ParseObjectName(Tail(tokens)) ELSE Failed

\* Everything up to a token that stops it, or up to the end.
ParsePatternUntil(tokens, Stops(_)) ==
    LET ends == {i \in DOMAIN tokens : Stops(tokens[i])} \cup {Len(tokens) + 1}
        taken == SubSeq(tokens, 1, Min(ends) - 1)
    IN IF taken = <<>> \/ \E i \in DOMAIN taken : taken[i].kind \notin PatternKinds
       THEN Failed
       ELSE Ok(PatternText(taken), From(tokens, Min(ends)))

ParsePatternUntilEnd(tokens) == ParsePatternUntil(tokens, LAMBDA token : FALSE)

\* LIKE may be left out.
ParseOptionalPattern(tokens) ==
    IF tokens = <<>> THEN Ok(None, tokens)
    ELSE IF StartsWith(tokens, {"LIKE"}) THEN ParsePatternUntilEnd(Tail(tokens))
    ELSE ParsePatternUntilEnd(tokens)

\* PARTITION ( ... ) up to the parenthesis that closes the first one.
ParseOptionalPartition(tokens) ==
    LET clause == Tail(tokens)
        Count(kind, n) == Cardinality({i \in 1..n : clause[i].kind = kind})
        closed == {n \in DOMAIN clause : Count("lparen", n) = Count("rparen", n)}
        taken == SubSeq(clause, 1, Min(closed))
    IN IF ~StartsWith(tokens, {"PARTITION"}) THEN Ok(None, tokens)
       ELSE IF clause = <<>> \/ Head(clause).kind # "lparen" \/ closed = {} THEN Failed
       ELSE IF \E i \in DOMAIN taken : taken[i].kind \notin PatternKinds THEN Failed
       ELSE Ok(PatternText(taken), From(clause, Min(closed) + 1))

\* Faulty variant of Finished: what follows the statement is ignored.
FinishedAnywhere(reading, statement) ==
    IF reading.ok THEN Ok(statement, <<>>) ELSE Failed

\* expect_end, and the statement that was read.
Finished(reading, statement) ==
    IF reading.ok /\ reading.rest = <<>> THEN Ok(statement, <<>>) ELSE Failed

\* [IN name] [[LIKE] pattern]
NameThenPattern(what, tokens) ==
    LET name == ParseOptionalInName(tokens)
        pattern == ParseOptionalPattern(name.rest)
    IN IF ~name.ok \/ ~pattern.ok THEN Failed
       ELSE Finished(pattern, Show(what, name.value, None, pattern.value, None))

ParseCatalogs(tokens) ==
    LET pattern == ParseOptionalPattern(tokens)
    IN IF StartsWith(tokens, {"FROM", "IN"}) \/ ~pattern.ok THEN Failed
       ELSE Finished(pattern, Show("catalogs", None, None, pattern.value, None))

ParseSchemas(tokens) ==
    IF StartsWith(tokens, {"HISTORY"}) THEN Failed ELSE NameThenPattern("schemas", tokens)

ParseTables(tokens) ==
    IF StartsWith(tokens, {"EXTENDED", "HISTORY"}) THEN Failed
    ELSE NameThenPattern("tables", tokens)

ParseColumns(tokens) ==
    LET table == ParseRequiredInName(tokens)
        schema == ParseOptionalInName(table.rest)
    IN IF ~table.ok \/ ~schema.ok THEN Failed
       ELSE Finished(schema, Show("columns", table.value, schema.value, None, None))

\* EXTENDED [IN name] LIKE pattern [PARTITION (...)]
ParseTableExtended(tokens) ==
    LET schema == ParseOptionalInName(Tail(tokens))
        pattern == ParsePatternUntil(Tail(schema.rest), LAMBDA t : IsKeyword(t, "PARTITION"))
        partition == ParseOptionalPartition(pattern.rest)
    IN IF \/ ~StartsWith(tokens, {"EXTENDED"}) \/ ~schema.ok
          \/ ~StartsWith(schema.rest, {"LIKE"}) \/ ~pattern.ok \/ ~partition.ok
       THEN Failed
       ELSE Finished(partition, Show("table_extended", schema.value, None, pattern.value,
                                     partition.value))

IsShow(tokens) ==
    tokens # <<>> /\ IsKeyword(Head(tokens), "SHOW") /\ ~Head(tokens).quoted

\* ShowParser::new drops the semicolons at the end.
Body(tokens) ==
    LET last == Max({0} \cup {i \in DOMAIN tokens : tokens[i].kind # "semicolon"})
    IN SubSeq(tokens, 2, last)

\* parse_show_statement: None when the statement is not a SHOW statement.
ParseShowStatement(tokens) ==
    LET body == Body(tokens) IN
    CASE ~IsShow(tokens) -> Ok(None, tokens)
      [] IsShow(tokens) /\ StartsWith(body, {"CATALOGS"}) -> ParseCatalogs(Tail(body))
      [] IsShow(tokens) /\ StartsWith(body, {"SCHEMAS", "DATABASES"}) -> ParseSchemas(Tail(body))
      [] IsShow(tokens) /\ StartsWith(body, {"TABLES"}) -> ParseTables(Tail(body))
      [] IsShow(tokens) /\ StartsWith(body, {"VIEWS"}) -> NameThenPattern("views", Tail(body))
      [] IsShow(tokens) /\ StartsWith(body, {"COLUMNS"}) -> ParseColumns(Tail(body))
      [] IsShow(tokens) /\ StartsWith(body, {"TABLE"}) -> ParseTableExtended(Tail(body))
      [] OTHER -> Failed

-----------------------------------------------------------------------------
(* Names completed with the session's defaults. *)

ResolveCatalog(name) ==
    CASE name = None -> Ok(Defaults[1], <<>>)
      [] name # None /\ Len(name) = 1 -> Ok(name[1], <<>>)
      [] OTHER -> Failed

\* <<catalog, schema>>
ResolveSchema(name) ==
    CASE name = None -> Ok(Defaults, <<>>)
      [] name # None /\ Len(name) = 1 -> Ok(<<Defaults[1], name[1]>>, <<>>)
      [] name # None /\ Len(name) = 2 -> Ok(name, <<>>)
      [] OTHER -> Failed

\* <<catalog, schema, table>> of SHOW COLUMNS IN name [IN within].
ResolveTable(name, within) ==
    LET tableSchema == IF Len(name) >= 2 THEN name[Len(name) - 1] ELSE None
        tableCatalog == IF Len(name) = 3 THEN name[1] ELSE None
        schema == IF within = None THEN None ELSE within[Len(within)]
        schemaCatalog == IF within = None \/ Len(within) = 1 THEN None ELSE within[1]
        Given(x, y, default) == IF x # None THEN x ELSE IF y # None THEN y ELSE default
        Conflict(x, y) == x # None /\ y # None /\ x # y
    IN IF \/ Len(name) > 3 \/ (within # None /\ Len(within) > 2)
          \/ Conflict(tableSchema, schema) \/ Conflict(tableCatalog, schemaCatalog)
       THEN Failed
       ELSE Ok(<<Given(tableCatalog, schemaCatalog, Defaults[1]),
                 Given(tableSchema, schema, Defaults[2]), name[Len(name)]>>, <<>>)
=============================================================================
