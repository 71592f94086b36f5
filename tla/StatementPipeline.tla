-------------------------- MODULE StatementPipeline --------------------------
(***************************************************************************)
(* One request from the bytes of its message to the rows its client gets:  *)
(* the message is decoded (ThriftCodec); the text of a statement is gated, *)
(* rewritten (SqlRewrites) and planned; planning looks tables up, whose    *)
(* object stores are then routed to by path (ObjectRoutes); the stream of  *)
(* batches is collected within the limits (ResultPages); and the client    *)
(* fetches the result page by page (ResultEncoding).  A time limit covers  *)
(* everything between the text and the result (src/engine.rs).             *)
(*                                                                         *)
(* The sessions and operations a statement belongs to are those of         *)
(* ThriftService, SHOW statements those of MetadataQueries, the loading of *)
(* tables that of TableCache, and the writing of a CTAS that of            *)
(* ExternalWrite.  What a stage has passed on is forgotten, so a message   *)
(* stands for every text it may carry and a plan for every stream.  How a  *)
(* message is read, what is a CTAS, how a text is rewritten and what the   *)
(* gate lets pass are parameters: SqlStatements has them as the code does  *)
(* it.                                                                     *)
(***************************************************************************)
EXTENDS ObjectRoutes, ResultEncoding

CONSTANTS
    CallRead(_),     \* message |-> what the reader of its method makes of it, [ok, value]
    CtasOf(_),       \* text |-> write::parse of it: [ok, query], the query None if it is no CTAS
    Rewritten(_),    \* text |-> the text after the rewrites for DataFusion
    ReadOnly(_),     \* whether a statement passes for a query
    Changes(_),      \* whether the plan of a statement would write or change the session
    Messages,        \* the messages [strict, call, name, args, missing]: the arguments
                     \* its client wrote, and how much of them is cut off; by a name
    SqlTexts,        \* the texts [show, tokenizes, parses, statements], by a name
    EnableWrites,    \* the values HARBORSQL_ENABLE_EXTERNAL_WRITES may have
    Locations,       \* table |-> its storage location [host, path]
    Opened,          \* the stores a table may be opened with, one after the other
    Accesses,        \* the operations on object stores [op, url, path, to]
    ErrorChains,     \* the errors DataFusion may return, each with its sources
    Schemas,         \* the types of a stream's columns |-> the batches it may bring
    Offsets, Limits, \* what a client asks for: start_row_offset and max_rows
    MaxLookups,      \* bound: table lookups of one statement
    MaxBatches       \* bound: batches of one stream

Listings == {"list", "list_with_offset", "list_with_delimiter"}

\* A location has the characters of its path; only a listing may be without a path;
\* and a store is never None.
ASSUME RouteAssumption ==
    /\ \A table \in DOMAIN Locations : Locations[table].path \in Seq(STRING)
    /\ \A a \in Accesses :
         /\ a.op \in Listings \cup {"put_opts", "put_multipart_opts", "get_opts",
                                  "delete_stream", "copy_opts"}
         /\ a.path = None => a.op \in Listings
         /\ a.path # None => a.path \in Seq(STRING)
         /\ a.op = "copy_opts" => a.to \in Seq(STRING)
    /\ \A table \in DOMAIN Locations, store \in Opened : <<table, store>> # None

\* A stream has columns, and batches of rows; a client asks with integers.
ASSUME StreamAssumption ==
    /\ \A schema \in DOMAIN Schemas :
         /\ schema \in Seq(Range(schema)) /\ schema # <<>>
         /\ \A batch \in Schemas[schema] :
              /\ batch = [rows |-> batch.rows, bytes |-> batch.bytes]
              /\ batch.rows \in Seq(Range(batch.rows)) /\ batch.bytes \in Nat
    /\ Offsets \subseteq Int /\ \A n \in Limits : n # None => n \in Int

VARIABLES
    stage,           \* how far the request is
    message, request,\* what was received, and what was read
    text, executed,  \* the statement's text, and what DataFusion gets
    enable_writes,   \* whether writes are enabled, until the statement is planned
    plan,            \* the plan [ctas, allowed]: whether it is a CTAS's, and only reads
    recorded,        \* the stores recorded for the statement, one after the other
    registry,        \* ObjectStoreRouteRegistry: bucket |-> routes
    access,          \* the last operation on an object store, with its store
    types, batches,  \* the columns and the batches of the stream so far
    row_count, result_bytes,
    error,           \* the kind of error the request ended with
    reply,           \* the last answer to a fetch, with what was asked for
    got              \* the rows the client has got, in order

wire == <<message, request>>
sql == <<text, executed, enable_writes, plan>>
io == <<recorded, registry, access>>
stream == <<types, batches, row_count, result_bytes>>
client == <<reply, got>>
vars == <<stage, wire, sql, io, stream, error, client>>

Methods == {"OpenSession", "CloseSession", "GetInfo", "GetColumns", "ExecuteStatement",
            "GetOperationStatus", "GetQueryId", "GetResultSetMetadata", "FetchResults",
            "CloseOperation", "CancelOperation"}

Init ==
    /\ stage = "received" /\ message \in DOMAIN Messages /\ request = None
    /\ text = None /\ executed = None /\ enable_writes = FALSE /\ plan = None
    /\ recorded = <<>> /\ registry = <<>> /\ access = None
    /\ types = <<>> /\ batches = <<>> /\ row_count = 0 /\ result_bytes = 0
    /\ error = None /\ reply = None /\ got = <<>>

\* The message is read; one that is no call, or of an unknown method, is answered
\* by an exception.
Decode ==
    /\ stage = "received"
    /\ LET call == Messages[message]
           known == call.call /\ call.name \in Methods
       IN \E read \in {IF known \/ ~call.strict THEN CallRead(call) ELSE [ok |-> FALSE]} :
            /\ stage' = IF call.strict /\ ~known THEN "exception"
                        ELSE IF read.ok THEN "decoded" ELSE "malformed"
            /\ request' = IF read.ok THEN read.value ELSE None
    /\ UNCHANGED <<message, sql, io, stream, error, client>>

\* A statement is executed.
Submit ==
    /\ stage = "decoded" /\ Messages[message].name = "ExecuteStatement"
    /\ stage' = "submitted" /\ text' \in DOMAIN SqlTexts /\ enable_writes' \in EnableWrites
    /\ message' = None /\ request' = None
    /\ UNCHANGED <<executed, plan, io, stream, error, client>>

\* The statement ends with an error; what it holds is dropped.
FailWith(kind) ==
    /\ stage' = "failed" /\ error' = kind
    /\ text' = None /\ executed' = None /\ enable_writes' = FALSE /\ plan' = None
    /\ recorded' = <<>> /\ registry' = <<>> /\ access' = None
    /\ types' = <<>> /\ batches' = <<>> /\ row_count' = 0 /\ result_bytes' = 0
    /\ UNCHANGED <<wire, client>>

-----------------------------------------------------------------------------
(* From the text to a plan *)

Cloned == {"Config", "MissingBearerToken", "UnsupportedSql", "Unity", "Query",
           "UnsupportedResultType", "Thrift"}
ASSUME ErrorAssumption == None \notin Cloned \cup {"DataFusion"}
HarborErrors == Cloned \cup {"Http", "Url", "Delta", "Json", "Io"}
\* Faulty variant of CloneHarborError: every error keeps its kind.
KeepsKind(kind) == kind

CloneHarborError(kind) == IF kind \in Cloned THEN kind ELSE "Query"

\* A HarborError among the sources of an error is what the client is told.
HarborErrorFromDataFusion(chain) ==
    LET sources == {i \in 2..Len(chain) : chain[i] \in HarborErrors}
    IN IF sources = {} THEN "DataFusion" ELSE CloneHarborError(chain[Min(sources)])

\* Faulty variant of SqlOptionsAllow: DML is allowed.
OptionsAllowDml(statement) == TRUE

\* SQLOptions without DDL, DML and statements.
SqlOptionsAllow(statement) == ~Changes(statement)

\* execute_show_statement answers it: MetadataQueries.
ShowStatement ==
    /\ stage = "submitted" /\ SqlTexts[text].show
    /\ stage' = "metadata" /\ text' = None /\ enable_writes' = FALSE
    /\ UNCHANGED <<wire, executed, plan, io, stream, error, client>>

\* The rest of execute_inner up to the tables that planning looks up: a single
\* statement, and a query.
PlanSql ==
    /\ stage = "submitted" /\ ~SqlTexts[text].show
    /\ \E parsed \in {CtasOf(SqlTexts[text])} :
         LET isCtas == parsed.ok /\ parsed.query # None
             source == IF isCtas THEN [SqlTexts[text] EXCEPT !.statements = <<parsed.query>>]
                       ELSE SqlTexts[text]
         IN \/ (~parsed.ok \/ (isCtas /\ ~enable_writes)) /\ FailWith("UnsupportedSql")
            \/ /\ parsed.ok /\ (isCtas => enable_writes)
               /\ \E rewritten \in {Rewritten(source)} :
                    LET single == rewritten.parses /\ Len(rewritten.statements) = 1
                        statement == Head(rewritten.statements)
                    IN \/ ~single /\ FailWith("DataFusion")
                       \/ single /\ ~ReadOnly(statement) /\ FailWith("UnsupportedSql")
                       \/ /\ single /\ ReadOnly(statement)
                          /\ stage' = "planning" /\ executed' = rewritten
                          /\ plan' = [ctas |-> isCtas, allowed |-> SqlOptionsAllow(statement)]
                          /\ UNCHANGED <<wire, text, enable_writes, io, stream, error, client>>

\* The plan is there, and is refused.
PlanRefused ==
    /\ stage = "planning" /\ ~plan.allowed
    /\ FailWith("DataFusion")

\* DataFusion fails to plan or to run it.
QueryFails ==
    /\ stage \in {"planning", "executing"}
    /\ \E chain \in ErrorChains : FailWith(HarborErrorFromDataFusion(chain))

-----------------------------------------------------------------------------
(* Tables and their object stores *)

\* The routes of a bucket; a bucket that is new has none.
RoutesOf(url) == IF url \in DOMAIN registry THEN registry[url] ELSE <<>>

\* SchemaProvider::table: a table is opened, or found open, and its store recorded.
Lookup ==
    /\ stage = "planning" /\ Len(recorded) < MaxLookups
    /\ \E table \in DOMAIN Locations, store \in Opened :
         LET route == TableObjectStoreRoute(Locations[table])
         IN IF route = None THEN FailWith("Query")
            ELSE /\ recorded' = Append(recorded, [route |-> route, store |-> <<table, store>>])
                 /\ registry' = [url \in DOMAIN registry \cup {route.url} |->
                                   IF url = route.url
                                   THEN RecordStore(RoutesOf(url), route.prefix, <<table, store>>)
                                   ELSE registry[url]]
                 /\ text' = None /\ executed' = None /\ enable_writes' = FALSE
                 /\ UNCHANGED <<stage, wire, plan, access, stream, error, client>>

\* The routes of every bucket become its object store; a CTAS goes on to write.
RegisterObjectStores ==
    /\ stage = "planning" /\ plan.allowed
    /\ stage' = IF plan.ctas THEN "writing" ELSE "executing"
    /\ registry' = [url \in DOMAIN registry |-> PrefixRouting(registry[url])]
    /\ text' = None /\ executed' = None /\ enable_writes' = FALSE /\ plan' = None
    /\ UNCHANGED <<wire, recorded, access, stream, error, client>>

\* The store an operation is sent to: put, get and delete by their path, a copy by
\* both its paths, a listing by its prefix.
Target(routes, a) ==
    CASE a.op \in {"put_opts", "put_multipart_opts", "get_opts", "delete_stream"} ->
           StoreForLocation(routes, a.path)
      [] a.op = "copy_opts" -> CopyStore(routes, a.path, a.to)
      [] a.op \in Listings ->
           StoreForPrefix(routes, a.path)

\* The routes change no more, so one operation stands for each.
UseObjectStore ==
    /\ stage = "executing" /\ access = None
    /\ \E a \in Accesses :
         /\ a.url \in DOMAIN registry
         /\ access' = [asked |-> a, store |-> Target(registry[a.url], a)]
    /\ UNCHANGED <<stage, wire, sql, recorded, registry, stream, error, client>>

-----------------------------------------------------------------------------
(* The stream and its limits *)

ExecuteStream ==
    /\ stage = "executing"
    /\ stage' = "streaming" /\ types' \in DOMAIN Schemas
    /\ recorded' = <<>> /\ registry' = <<>> /\ access' = None
    /\ UNCHANGED <<wire, sql, batches, row_count, result_bytes, error, client>>

\* Faulty variant of OverLimit: a result that reaches a limit exceeds it.
ReachesLimit(rows, bytes) ==
    \/ MaxResultRows # None /\ rows >= MaxResultRows
    \/ MaxResultBytes # None /\ bytes > MaxResultBytes

OverLimit(rows, bytes) == Exceeds(rows, MaxResultRows) \/ Exceeds(bytes, MaxResultBytes)

\* A batch arrives; the one that exceeds a limit ends the statement (batches keeps
\* it, as what the stream has brought).  A result in memory has at most MaxUsize rows.
NextBatch ==
    /\ stage = "streaming" /\ Len(batches) < MaxBatches
    /\ \E batch \in Schemas[types] :
         /\ row_count + Len(batch.rows) <= MaxUsize
         /\ batches' = Append(batches, batch)
         /\ row_count' = row_count + Len(batch.rows)
         /\ result_bytes' = IF Exceeds(row_count', MaxResultRows) THEN result_bytes
                            ELSE SaturatingAdd(result_bytes, batch.bytes)
         /\ stage' = IF OverLimit(row_count', result_bytes') THEN "over_limit" ELSE "streaming"
         /\ error' = IF OverLimit(row_count', result_bytes') THEN "Query" ELSE None
    /\ UNCHANGED <<wire, sql, io, types, client>>

BatchFails ==
    /\ stage = "streaming"
    /\ FailWith("DataFusion")

Materialize ==
    /\ stage = "streaming"
    /\ stage' = "finished"
    /\ UNCHANGED <<wire, sql, io, stream, error, client>>

\* The stages of execute_inner.
Executing == {"submitted", "metadata", "planning", "writing", "executing", "streaming"}

\* A SHOW statement or a CTAS has ended.
EndsElsewhere ==
    /\ stage \in {"metadata", "writing"}
    /\ stage' = "answered"
    /\ UNCHANGED <<wire, sql, io, stream, error, client>>

\* Faulty variant of Timeout: planning, with its calls to Unity, is not timed.
TimesExecution ==
    /\ stage \in {"executing", "streaming"}
    /\ FailWith("Query")

\* query_timeout passes while the statement awaits something.
Timeout ==
    /\ stage \in Executing
    /\ FailWith("Query")

-----------------------------------------------------------------------------
(* Fetching the result *)

\* What a client makes of a column: the values but where the bitset says NULL.
DecodedRows(response) ==
    LET n == IF response.columns = <<>> THEN 0 ELSE Len(response.columns[1].values)
    IN [i \in 1..n |-> [c \in DOMAIN response.columns |->
          IF i - 1 \in response.columns[c].nulls THEN None ELSE response.columns[c].values[i]]]

\* FetchResults with any offset and limit.
FetchAt ==
    /\ stage = "finished" /\ got = <<>>
    /\ \E offset \in Offsets, max_rows \in Limits :
         reply' = [offset |-> offset, max_rows |-> max_rows,
                   response |-> FetchResponse(RowPage(batches, offset, max_rows), types)]
    /\ stage' = "fetched"
    /\ UNCHANGED <<wire, sql, io, stream, error, got>>

GetResultSetMetadata ==
    /\ stage = "finished" /\ got = <<>> /\ reply = None
    /\ reply' = [schema |-> MetadataResponse(types)]
    /\ stage' = "described"
    /\ UNCHANGED <<wire, sql, io, stream, error, got>>

\* A client that reads on from where it is until there are no more rows.
FetchNext ==
    /\ stage \in {"finished", "fetching"}
    /\ \E max_rows \in {n \in Limits : RequestedRowLimit(n) > 0} :
         \E page \in {RowPage(batches, Len(got), max_rows)} :
         \E response \in {FetchResponse(page, types)} :
            /\ got' = IF response.status = "error" THEN got ELSE got \o DecodedRows(response)
            /\ stage' = IF response.status = "error" THEN "undeliverable"
                        ELSE IF response.has_more_rows THEN "fetching" ELSE "delivered"
    /\ UNCHANGED <<wire, sql, io, stream, error, reply>>

-----------------------------------------------------------------------------
Next ==
    \/ Decode \/ Submit \/ ShowStatement \/ PlanSql \/ PlanRefused \/ QueryFails
    \/ Lookup \/ RegisterObjectStores \/ UseObjectStore
    \/ ExecuteStream \/ NextBatch \/ BatchFails \/ Materialize
    \/ EndsElsewhere \/ Timeout
    \/ FetchAt \/ GetResultSetMetadata \/ FetchNext

\* The timer of the time limit fires.
FairSpec ==
    /\ Init /\ [][Next]_vars
    /\ WF_vars(Timeout)

-----------------------------------------------------------------------------
(* Properties *)

\* The stages, and that what a stage has passed on is forgotten; a client is told
\* one of the kinds of error that clone_harbor_error lets through.
TypeOK ==
    /\ stage \in Executing \cup {"received", "exception", "malformed", "decoded", "answered",
                   "failed", "over_limit", "finished", "fetched", "described", "fetching",
                   "delivered", "undeliverable"}
    /\ message # None => message \in DOMAIN Messages
    /\ text # None => text \in DOMAIN SqlTexts
    /\ plan # None => plan.ctas \in BOOLEAN /\ plan.allowed \in BOOLEAN
    /\ DOMAIN registry \subseteq {Locations[table].host : table \in DOMAIN Locations}
    /\ row_count \in Nat /\ result_bytes \in 0..MaxUsize
    /\ error \in Cloned \cup {"DataFusion", None}
    /\ error # None <=> stage \in {"failed", "over_limit"}

IsBelow(path, prefix) == prefix = <<>> \/ IsPrefix(Append(prefix, Slash), Append(path, Slash))

\* The last store of the innermost table that a path is in.
OwnerOf(url, path) ==
    LET covering == {i \in DOMAIN recorded : recorded[i].route.url = url
                                             /\ IsBelow(path, recorded[i].route.prefix)}
        innermost == {i \in covering : \A j \in covering :
                        Len(recorded[j].route.prefix) <= Len(recorded[i].route.prefix)}
    IN IF covering = {} THEN None ELSE recorded[Max(innermost)].store

\* The stores of the tables below a prefix.
StoresBelow(url, prefix) ==
    {OwnerOf(url, recorded[i].route.prefix) : i \in {i \in DOMAIN recorded :
       recorded[i].route.url = url /\ IsBelow(recorded[i].route.prefix, prefix)}}

\* An object is read and written with the credentials of the innermost table it is
\* in, the ones got last, and never with those of a table whose location is only a
\* prefix of its name; only a listing may go to a table below what it lists.
RoutedByLongestPrefix ==
    access # None =>
      LET a == access.asked
          owner == OwnerOf(a.url, a.path)
      IN CASE a.path = None -> access.store \in StoresBelow(a.url, <<>>)
           [] a.op = "copy_opts" ->
                access.store = IF owner = OwnerOf(a.url, a.to) THEN owner ELSE None
           [] a.path # None /\ a.op # "copy_opts" /\ owner # None -> access.store = owner
           [] OTHER -> IF a.op \in Listings /\ StoresBelow(a.url, a.path) # {}
                       THEN access.store \in StoresBelow(a.url, a.path) ELSE access.store = None

ByteCount(received) == SumsUpTo([i \in DOMAIN received |-> received[i].bytes])[Len(received)]

\* A result is returned only within both limits, and refused only beyond one.
ResultWithinLimits ==
    LET within == /\ ~Exceeds(RowCount(batches), MaxResultRows)
                  /\ ~Exceeds(ByteCount(batches), MaxResultBytes)
    IN /\ stage \in {"finished", "fetched", "fetching", "delivered"} => within
       /\ stage = "over_limit" => ~within

\* The rows as a client shall see them.
ClientRows(rows) ==
    [i \in DOMAIN rows |-> [c \in DOMAIN types |->
       IF rows[i][c] = None THEN None ELSE EncodeValue(types[c], rows[i][c]).value]]

\* The rows a fetch asks for.
AskedRows(asked) ==
    LET rows == AllRows(batches)
        first == Smaller(IF asked.offset < 0 THEN 0 ELSE asked.offset, Len(rows))
    IN [before |-> first,
        rows |-> SubSeq(rows, first + 1, Smaller(first + RequestedRowLimit(asked.max_rows), Len(rows)))]

\* A page holds the rows asked for, each once and with its NULLs, wherever the
\* batches end; and says truly where it begins and whether rows follow.
PageIsSlice ==
    stage = "fetched" /\ reply.response.status = "success" =>
      LET asked == AskedRows(reply)
      IN /\ DecodedRows(reply.response) = ClientRows(asked.rows)
         /\ reply.response.start = asked.before
         /\ reply.response.has_more_rows <=>
              asked.before + Len(asked.rows) < Len(AllRows(batches))

\* A client that goes on from where it is, with pages of any size, gets every row
\* once and in order.
PagesCoverResult ==
    /\ stage \in {"fetching", "delivered"} =>
         LET rows == AllRows(batches)
         IN Len(got) <= Len(rows) /\ got = ClientRows(SubSeq(rows, 1, Len(got)))
    /\ stage = "delivered" => Len(got) = Len(AllRows(batches))

\* No statement runs for ever, whether it waits for Unity, for storage or for a batch.
StatementEnds == stage \in Executing ~> stage \notin Executing

\* A page that is not the last brings rows, so a client that reads on comes to the
\* end of the result.
PagesMakeProgress == [][stage' = "fetching" => Len(got') > Len(got)]_vars
=============================================================================
