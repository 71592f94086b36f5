---------------------------- MODULE SqlStatements ----------------------------
(***************************************************************************)
(* What StatementPipeline leaves open, as the code does it: what is read   *)
(* from a message (ThriftCodec), which statements pass for queries and     *)
(* which of them would write, what is a CTAS (src/engine/write.rs), how a  *)
(* text is rewritten (SqlRewrites) and how nested values are shown         *)
(* (DisplayValues); and what the pipeline promises about each.             *)
(***************************************************************************)
EXTENDS StatementPipeline, WrittenMessages, SqlMeaning, DisplayValues

CONSTANT Rows   \* rows to evaluate expressions over, a sequence

\* The message as the reader of its method sees it: its bytes.
ReadCall(call) == DecodeMessage(call, Payload(call))

RECURSIVE IsReadOnly(_)
IsReadOnly(statement) ==
    \/ statement.is = "query"
    \/ statement.is = "explain" /\ IsReadOnly(statement.of)

RECURSIVE Writes(_)
\* A plan of it would write or change the session.
Writes(part) ==
    CASE part.is = "explain" -> Writes(part.of)
      [] part.is = "query" -> Writes(part.body) \/ \E i \in DOMAIN part.with : Writes(part.with[i])
      [] part.is = "set_operation" -> \E i \in 1..2 : Writes(part.operands[i])
      [] part.is \in {"select", "values"} -> FALSE
      [] OTHER -> TRUE

\* validate_location; plain: no query, fragment, user, password, % or dot segment.
ValidLocation(location) ==
    /\ location.scheme = "s3" /\ location.host # None /\ location.plain
    /\ \E i \in DOMAIN location.path : location.path[i] # Slash
    /\ \A i \in DOMAIN location.path \ {1} : Slash \notin {location.path[i - 1]} \cap {location.path[i]}

\* write::parse: None for a text that does not begin with CREATE, an error, or the
\* query of a CREATE OR REPLACE TABLE ... USING DELTA LOCATION ... AS ...
ParseCtas(sqlText) ==
    LET first == Head(sqlText.statements)
        name == SubSeq(<<<<"default">>, <<"default">>>>, 1, 3 - Len(first.name)) \o first.name
    IN CASE ~sqlText.tokenizes -> [ok |-> FALSE]
         [] sqlText.tokenizes /\ first.is # "create" -> [ok |-> TRUE, query |-> None]
         [] OTHER ->
              IF /\ first.replace /\ Len(first.name) \in 1..3
                 /\ \A i \in 1..3 : name[i] # <<>> /\ \A j \in DOMAIN name[i] : name[i][j] # "."
                 /\ Lower(name[1]) # <<"system">> /\ Lower(name[2]) # <<"information_schema">>
                 /\ first.using = "delta" /\ first.location # None /\ ValidLocation(first.location)
                 /\ first.of.is = "query" /\ Len(sqlText.statements) = 1
              THEN [ok |-> TRUE, query |-> first.of] ELSE [ok |-> FALSE]

-----------------------------------------------------------------------------
(* Properties *)

\* A call is read as it was written: of the fields a request knows by number and
\* type the last counts, all others are skipped to their end, whatever is nested in
\* them, and a message that is cut, too deep or too large is refused.
DecodedIsWritten ==
    message # None /\ stage \in {"decoded", "malformed"} =>
      LET call == Messages[message]
          readable == /\ call.strict /\ call.missing = 0
                      /\ IsWellFormed(call.args, call.name)
      IN /\ stage = "decoded" <=> readable
         /\ readable => request = Meaning(call.args[RequestOf(call.args)].value, call.name)

\* What is planned is the one statement the client sent, and only reads; or the
\* query of a CREATE OR REPLACE TABLE, where writes are enabled.
OnlyReadsArePlanned ==
    stage = "planning" /\ text # None /\ plan.allowed =>
      LET statement == Head(SqlTexts[text].statements)
      IN /\ Len(SqlTexts[text].statements) = 1
         /\ IF plan.ctas THEN enable_writes /\ ~Writes(statement.of) ELSE ~Writes(statement)

\* Rewriting changes no value of any row, no clause, no column and no name the
\* client gave, and leaves no function of Databricks' behind where it looks for them.
RewriteKeepsMeaning ==
    stage = "planning" /\ executed # None =>
      LET statement == Head(SqlTexts[text].statements)
      IN SameQuery(IF plan.ctas THEN statement.of ELSE statement, Head(executed.statements), Rows)

\* The types whose values the table of docs/delta-types-compatibility.md has sent.
ListViews == {"ListView", "LargeListView"}
ListedTypes == {"Boolean"} \cup Small32 \cup Signed64 \cup Floats \cup Strings \cup Dates
    \cup {"Timestamp"} \cup Binaries \cup Decimals \cup Lists \cup ListViews \cup {"Map", "Struct"}

RECURSIVE IsRepresentable(_, _, _)
\* A value there is a form for on the wire; inside another one dates are checked as well.
IsRepresentable(type, value, inside) ==
    value = None \/
    CASE type.kind = "UInt64" -> value <= MaxI64
      [] type.kind \in Dates \cup {"Timestamp"} -> inside => value <= MaxDate
      [] type.kind \in Lists \cup ListViews ->
           \A i \in DOMAIN value : IsRepresentable(type.of[1], value[i], TRUE)
      [] type.kind = "Struct" -> \A i \in DOMAIN value : IsRepresentable(type.of[i], value[i], TRUE)
      [] type.kind = "Map" ->
           \A i \in DOMAIN value : \A k \in 1..2 : IsRepresentable(type.of[k], value[i][k], TRUE)
      [] OTHER -> type.kind \in ListedTypes

RECURSIVE HasListView(_)
HasListView(type) ==
    type.kind \in ListViews \/ \E i \in DOMAIN type.of : HasListView(type.of[i])

\* The rows asked for can be sent, by the table.
Sendable(rows) ==
    \A c \in DOMAIN types :
      /\ types[c].kind \in ListedTypes
      /\ \A i \in DOMAIN rows : IsRepresentable(types[c], rows[i][c], FALSE)

\* No page is sent that has a column or a value that cannot be; a fetch that fails
\* sends no row of its page; and it fails for nothing else, but for list views:
\* ListedTypesAreSent is about them.
FetchFailsWhole ==
    stage = "fetched" =>
      LET sendable == Sendable(AskedRows(reply).rows)
      IN IF reply.response.status = "success" THEN sendable
         ELSE /\ reply.response.columns = None
              /\ sendable => \E c \in DOMAIN types : HasListView(types[c])

\* Every type of the table is sent, list views too: "| `List`, `LargeList`,
\* `FixedSizeList`, list views | array | string column |"
\* (docs/delta-types-compatibility.md:39).
ListedTypesAreSent ==
    stage = "fetched" /\ Sendable(AskedRows(reply).rows) => reply.response.status = "success"

\* Maps with the same entries look the same, whatever the order Arrow has them in.
EqualMapsLookAlike ==
    stage = "fetched" /\ reply.response.status = "success" =>
      LET rows == AskedRows(reply).rows
          sent == reply.response.columns
      IN \A c \in DOMAIN types : \A i, j \in DOMAIN rows :
           /\ types[c].kind = "Map" /\ rows[i][c] # None /\ rows[j][c] # None
           /\ ToSet(rows[i][c]) = ToSet(rows[j][c])
           => sent[c].values[i] = sent[c].values[j]
=============================================================================
