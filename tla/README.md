# A TLA+ verification of HarborSQL

HarborSQL is a SQL gateway: it speaks the Databricks Thrift protocol to SQL
clients, resolves tables through Unity Catalog with the client's own bearer
token, and runs the query in process with DataFusion and delta-rs. This
directory models the parts of it that carry state shared between concurrent
requests, and the way of one request from its bytes through the catalog and the
query engine to the rows on the wire; it checks them with TLC on small instances
and proves with TLAPS, for every instance, the main results about the shared
state, about the routing of object stores, about the limits and the pages of
a result, and about the answers of metadata requests. Paths below are relative to the repository
(`src/` is its Rust code).

## The system

| Part | State | Operations | What makes it hard | What makes it correct |
|---|---|---|---|---|
| Table cache (`src/table_cache.rs`) | map from key to slot, one state machine per slot (Empty, Loading, Ready), one `Notify` per slot | `get_or_load`, `invalidate_table`, pruning | two locks and two awaits per lookup; loads race each other, expiry, invalidation and dropped queries | single flight per slot, bounded map, live credentials, no snapshot older than the last invalidation, no other principal's table, every wait ends |
| Table loading (`src/engine/catalog.rs`) | none of its own | `load_cached_table` | fails, or is dropped, at any await | opens the table named, with this principal's credentials |
| Thrift sessions and operations (`src/thrift.rs`, `src/thrift/state.rs`) | sessions map, operations map, one tokio task per operation, oneshot channel of GetColumns, gauges | the Thrift requests, the query-history request, the sweeper | two RwLocks taken one after the other, tasks taken out of their operation and put back after an await, cancel, close, expiry and client disconnects anywhere | limits hold, outcomes are final, tasks of removed operations are aborted, nothing is removed but by its owner or a time limit, completed operations leave |
| External writes (`src/engine/write.rs`) | Unity registration and Delta log, both external | `execute_ctas` | check-then-act over two external systems, dropped anywhere | never overwrites what is not registered; the cache is invalidated on every way out |
| Query execution (`src/engine.rs`, `src/engine/results.rs`) | per query only | gate, rewrite, plan, stream, limit, timeout | writes hidden in reads, errors wrapped by DataFusion, hanging planning, limits while streaming | only reads are planned, no result beyond its limits, none within them refused, every statement ends |
| SQL rewrites and functions (`src/engine.rs`, `src/udf.rs`) | none | Databricks constructs to DataFusion's, column names | zero- and one-based indexes, NULLs, times before 1970, nesting | a rewritten query has the values of the original |
| Object store routing (`src/engine.rs`, `src/engine/catalog.rs`) | route registry of a query | record a table's store, route by path | locations that are prefixes of each other | an object is reached with the credentials of its own table |
| Result paging and encoding (`src/engine.rs`, `src/thrift/result_encoding.rs`) | none | `page`, `row_page`, column encoders | offsets and limits at the edges, uneven batches, values that cannot be encoded | pages are slices, cover the result, and fail as a whole |
| Thrift messages (`src/thrift/codec.rs`, `src/thrift.rs`) | none | binary reader and writer | unknown fields, nesting and size limits, cut messages | a message is read as written or refused |
| Unity client (`src/unity.rs`) | none | paginated lists, details, credentials | page tokens, not-found answers | every page once |
| Metadata statements (`src/engine/metadata/`) | none | SHOW grammar, GetColumns, name patterns | names that are keywords or patterns, escapes, catalogs that change under the walk | statements are read as written; answers are complete and hold no phantoms |
| Information schema (`src/engine/information_schema.rs`) | none | one walk per relation, filters pushed down | the same, and filters that must not lose rows | the same |
| Configuration, HTTP server, errors, observability | metrics registry | start-up, routing, logging | none shared with the above but dropped handlers | |

How they interact: the HTTP server runs one handler future per request and
drops it when the connection closes. A Thrift `ExecuteStatement` spawns a task
that calls the engine; the engine plans the query, and planning calls
`get_or_load` of the table cache through the catalog providers, which record the
object store of each table; a CTAS invalidates the cache through a drop guard. A
SHOW statement or a GetColumns call goes to Unity instead, and so do the
relations of `information_schema` when DataFusion scans them. The query timeout, `JoinHandle::abort`
and a closed connection all drop a future at an await.

## Modules

| Module | Models |
|---|---|
| `SnapshotReads` | what the cache promises a query, without a cache |
| `TableCache` | `TableCache` and the load it wraps; implements `SnapshotReads` |
| `ThriftService` | sessions, operations, tasks, requests and the sweeper |
| `ExternalTables` | what CTAS statements may do to Delta data and Unity registrations |
| `ExternalWrite` | `execute_ctas`, await by await; implements `ExternalTables` |
| `RustStd` | `collect`, `filter`, `retain` and `sort_by` of Rust's standard library |
| `Names` | names and how they compare |
| `NamePatterns` | the patterns of SHOW and of GetColumns |
| `ShowStatements` | the SHOW grammar and the defaults of its names |
| `MetadataWalk` | one metadata request as a walk over Unity, which others change; what is looked for is a parameter |
| `MetadataQueries` | how each request becomes such a walk, and what it means, said without a walk |
| `ThriftCodec`, `WrittenMessages` | the reader of Thrift requests; a message as its client wrote it, and what it means |
| `SqlRewrites`, `SqlMeaning` | the rewrites of a query; the values of an expression |
| `ObjectRoutes` | route registry and `PrefixRoutingObjectStore` |
| `ResultPages`, `ResultEncoding` | pages of a result; a page on the wire |
| `DisplayValues` | nested values as text |
| `StatementPipeline` | composes `ObjectRoutes` and `ResultEncoding`: one request from its bytes to its rows; the reader of messages, the gate, the rewrites and the text of nested values are parameters |
| `SqlStatements` | those parameters as the code has them, from `ThriftCodec`, `SqlRewrites` and `DisplayValues`, and the properties that are about them |
| `MCTableCache`, `MCThriftService`, `MCExternalWrite`, `MCMetadataQueries`, `MCStatementPipeline` | constants, symmetry and views of the TLC instances |
| `TableCacheProofs`, `ThriftServiceProofs`, `ExternalWriteProofs`, `StatementPipelineProofs`, `MetadataWalkProofs` | theorems and their proofs |
| `SequenceFacts`, `ObjectRoutesProofs`, `ResultPagesProofs` | lemmas about sequences (sorting, retaining, listing each once), routes and pages that these rest on |

Definitions whose comment begins "Faulty variant of" are not part of any
specification. They restate an action with a plausible mistake, and show that
the properties notice it.

### TableCache

A worker is one running `get_or_load` call. Its program counter stops where the
code leaves a lock region or awaits:

| pc | the code is about to |
|---|---|
| `slot` | lock the map in `slot_for_key`: prune, then find, insert or give up |
| `arm` | create the `Notified` future |
| `check` | lock the slot's state: hit, wait or claim |
| `park` | poll `notified.await` for the first time, the slot's lock released |
| `waiting` | return from `notified.await` |
| `load`, `loaded` | run `load_cached_table`; finish with its result |
| `remove`, `notify` | the rest of `finish_load` |
| `direct` | load without the cache (full or disabled) |

A slot (`Arc<EntrySlot>`) is a member of `Slots`; the map (`entries`) and the
workers (`held`) refer to it, and a slot nobody refers to may be allocated
again. Keys are a principal and a spelling of a table name: the code compares
spellings exactly when it looks up, and ignores letter case when it
invalidates, and so does the model (`TableOf`). Expiry is the code's arithmetic:
the credential lifetime less the skew, capped by the TTL, with an addition that
overflows at `MaxInstant` and then falls back to now.
`published`, `floor`, `owner`, and the fields `credExp` and `since` of a cached
table are history for the properties.

Abstractions:

- Pruning holds the map's lock and takes each slot's lock in turn; it is one
  step. Each slot is judged by its own state alone, so seeing two slots at
  slightly different times changes at most which of two unrelated keys is still
  cached; in the runs with a map of one entry there is only one slot to visit.
- Unity and Delta are external: a load reads the newest committed version in
  one step, or fails. The credential lifetime is any of `Lifetimes`.
- The AWS region of a key is the server's one configured region, and is left
  out. A principal stands for the keyed hash of a bearer token.
- `Commit` and `Invalidate` are independent: a commit may come with its
  invalidation late or never, as when the server's writer is another engine.
  Only `Written` tables are committed to.
- Poisoned mutexes are left out: no code panics while holding one.

### ThriftService

A process is one request or the sweeper. A step is one lock region; the program
counter names the region that comes next. `cleanup_expired`, which most
requests run first, is `list`, `refresh`/`join` (once per finished operation),
then the sessions and the `operations` regions, so that other requests and
dropped handlers come in between. `execution` is the `OperationExecution` of an
operation in the map, or `unused`/`removed` when it is not in it. `task` is the
tokio task: an abort takes effect some time later and never after the task has
ended. `channel` is the oneshot by which the GetColumns task tells its request
the outcome.

Abstractions:

- Ages (`idle`, `age`) replace instants and stop at the limit they are compared
  with. `Instant::now()` and the sessions lock that follows it are one step.
- `valid` says whether the handle's secret and the bearer token match: the code
  never tells them apart. Requests whose handle names nothing the service has
  given out change no state, and are left out.
- Requests that only read the session (GetInfo, and the metadata requests that
  answer at once) are one kind, and so are those that only read an operation
  (`Poll`: status, result metadata, fetch).
- Identifiers are UUIDs and are never reused. The bound is in `Arrive`: no new
  session or operation is asked for while no identifier is left.
- What a query computes is left out: its task ends well, with an error, or in a
  panic.

### ExternalWrite

A writer is one CTAS statement. Its program counter names the await it comes to
next: the Unity listing, the details of an existing table, credentials, loading
the Delta log, the write, the registration. `written` and `registered` are the
same awaits after the request has taken effect and before its answer. `Fail` is
every early end: an error, the query timeout, a canceled operation. What was
asked for last may then have happened, may not, or may happen later
(`lateWrite`, `lateRegister`). Every way out of the guarded awaits invalidates
the name (`Leave`), as the drop guard does. `published` is the history variable
that joins this module to `SnapshotReads`: its `PublishVersion` is `Leave`, and a
lookup that begins after a statement has ended has a floor no lower than that
statement's version.

Abstractions:

- A statement is what parsing leaves of it; a refused one does not begin.
- A Delta log is its number of versions and its columns. A commit in the mode
  ErrorIfExists is put-if-absent of the first version; one in the mode Overwrite
  adds a version, and delta-rs may report a conflict instead. The model does not
  lean on delta-rs's own schema checks.
- A registration that may be replaced is EXTERNAL, DELTA and without row filter
  and masks (`replaceable`).
- Others may register left-behind data, and nothing else: dropping or altering a
  table during a statement is left out.

### MetadataWalk and MetadataQueries

A request becomes a plan: for each of catalog, schema and table a given name, a
pattern, a set of names, or nothing. `work` is the list of paths the nested loops
still have to list or to read, in their order; `page_token` and `listed` are the
locals of the listing loop in `src/unity.rs`. One step is one call to Unity, and
between two of them other clients create and drop objects. A literal is looked
up and not listed, so that it is only found missing when its children are asked
for. `always` and `ever` are history: what existed throughout the request, and
at some time.

`MetadataWalk` has the walk, with its parameters: the plan of a request (`PlanOf`),
the names that a level selects (`Selects`, `Compiles`) and the filters applied
afterwards (`Accepts`). `MetadataQueries` has them as the code does it, from the
SHOW parser, the normalization of GetColumns arguments, the filters pushed down and
the two pattern languages, which are RECURSIVE operators; its cfg gives them as the
values of those parameters. Correctness is said twice accordingly. `WalkIsConsistent`
says that an answer is what its *plan* wants of Unity's objects: every row of what
existed throughout, each once, and no row of what never existed. `AnswerIsConsistent`
says the same of what the *request* means (`Means`), so that it depends on the plan
as well.

Abstractions: names are sequences of characters, of which there are a few; a
SHOW pattern has of regular expressions `.`, `*` and `|`; a row is its names, its
column and its ordinal. Unity lists in one order, in pages that may be empty, and
ends a listing without a token or with an empty one. `FiltersAccept` is DataFusion,
which applies the filters again because `supports_filters_pushdown` says Inexact.
Databricks system tables, whose scan is refused, are left out.

### StatementPipeline

`stage` is how far the request is: `received`, `decoded`; `submitted`, `planning`,
`executing`, `streaming`, `finished`; then `fetched` (one fetch with any offset and
limit) or `fetching`, `delivered` (a client that reads on), and the ways it can end
in between. `metadata` and `writing` stand for a SHOW statement and for a CTAS,
which are `MetadataWalk` and `ExternalWrite`. What a stage has handed on is
forgotten, so that the stages are explored one after the other and not in their
product.

- *Messages.* Bytes are items: field headers, container headers, scalars. The
  reference is the tree the client wrote; a message may lack its last items.
- *Texts.* A text is its parse tree with what the tokenizer and the parser say of
  it. An expression has a value over a row (`SqlMeaning`), in Databricks' functions
  as well as in DataFusion's, so that a query and its rewriting can be compared.
- *Errors.* An error of DataFusion is its chain of sources; a `HarborError` among
  them is what the client is told.
- *Routes.* Characters of paths are kept, since a prefix of a string is not a
  prefix of a path. Tables are looked up up to three times, a table possibly
  twice with newer credentials.
- *Results.* A batch has rows and a size in bytes, a value is what its type says.
  The text of a number, a date or a time is that number.

What is recursive over nested data (reading a message, the gate, the rewrites,
the text of a nested value) is a parameter of `StatementPipeline`, since the
prover cannot reason about RECURSIVE operators. `SqlStatements` defines each as
the code does it; `MCStatementPipeline` extends that module, so the run `pipeline`
checks the whole, and the theorems hold for any definition of the parameters.

A result in memory has at most `MaxUsize` rows (the guard of `NextBatch`): the
addition of the row counter does not saturate, and a vector of more rows does not
fit into memory. A stream has at least one column (`StreamAssumption`).

The time limit is `Timeout`, of every stage between the text and the result.
Deadlock is not checked in this run and in `metadata`: a request that is answered
has ended.

## Runs

| Run | Bounds | Shows |
|---|---|---|
| `cache_races` | 2 lookups, 2 principals, 1 table in 2 spellings (4 keys), map of 1, 1 commit, any number of invalidations, failing loads, dropped queries, TTL 1, clock to 1, instants to 2, lifetimes 1 and 3 | `TypeOK`, `CapacityBound`, `SingleFlight`, `HitIsLive`, `LoadingSlotStays`, `ImplementsSnapshotReads` |
| `cache_liveness` | 2 lookups of one key, failing loads, invalidations, nothing dropped, TTL 2, clock to 1, lifetimes -1, 1, 2, 50 | `WaiterHasLoader`, `HitIsLive`, `WaitEnds` |
| `cache_dropped` | the same lookups with dropped queries | `WaiterHasLoader` is violated |
| `cache_coalescing` | 2 lookups of one key | `CoalescedLoads` is violated |
| `thrift_limits` | 1 request at a time and the sweeper, 2 sessions, 2 operations, limits 1, requests dropped anywhere | `TypeOK`, `CapacityBound`, `GaugesAgree`, `NoRunawayTask`, `OutcomeIsFinal` |
| `thrift_races` | 2 concurrent requests and the sweeper, 1 session, 1 operation, nothing dropped | `RefreshingIsHeld`, `UnreturnedIsHeld`, `OnlyOwnerOrTimeLimit` |
| `thrift_liveness` | 1 request, the sweeper, 1 session, 1 operation, nothing dropped | `CompletedOperationsLeave` |
| `thrift_dropped` | the same with dropped requests | `CompletedOperationsLeave` is violated |
| `external_writes` | 2 statements, 2 names, 2 locations, 2 schemas, logs of up to 3 versions, any consistent start | `SuccessIsDurable`, `EndedIsPublished`, `ImplementsExternalTables` |
| `metadata` | 10 objects in 2 catalogs, 2 of them created later, pages of up to 2, up to 2 objects changed by other clients; SHOW statements of every kind and up to 4 tokens more, GetColumns calls with every table pattern up to 3 characters, information_schema scans | `TypeOK`, `WalkIsConsistent`, `AnswerIsConsistent`, `AnswerIsSorted`, `ReadAsWritten`, `WalkEnds` |
| `pipeline` | skip depth 3, containers of 2, 3 lookups, 3 batches, 5 rows, fetches of 3, i64 to 9 | `TypeOK`, `DecodedIsWritten`, `OnlyReadsArePlanned`, `RewriteKeepsMeaning`, `RoutedByLongestPrefix`, `ResultWithinLimits`, `PageIsSlice`, `PagesCoverResult`, `FetchFailsWhole`, `EqualMapsLookAlike`, `StatementEnds`, `PagesMakeProgress` |
| `list_views` | the same with one message and a column of list views | `ListedTypesAreSent` is violated |

The bounds are enough for the cases in question: a second lookup is what a slot
can be shared with, detached from or stolen by; a map of one entry is full with
the first key; three slots are one in the map and one per worker; with
instants up to 2 and a skew and a TTL of 1, a lifetime of 1 is within the skew, one
of 3 outlives the TTL when the clock is 0 and overflows when it is 1, and the clock
passes what was cached before it moved; the lifetimes of `cache_liveness` add
credentials that have expired and some that expire before the TTL. Two
operations with a limit of one make a refusal happen, and a second request is
what a lock region can be overtaken by; a third has no further state to meet
with one operation. Two names and two locations give every way in which two
statements' targets agree or differ, and a log of three versions has one from
before and one of each. The theorems drop all of these bounds.

For `metadata`, one change is what a listing and the reading of details can fall
on two sides of, a second makes an object go while another comes, and pages of two make listings of one, two and more pages. For
`pipeline`, a skip depth of 3 has messages at, below and beyond it; three batches
have a page begin in one, run through one and end in one; three lookups are two
tables, one inside the other, and one of them again; a limit of 5 rows and 6 bytes
is met exactly, exceeded by one row, and exceeded by bytes alone. The requests,
messages, texts and types themselves are enumerated in the MC modules, each for
a case of the code.

`SYMMETRY` permutes workers and principals, requests, sessions and operations:
no run that uses it checks liveness. The views leave out what the rest of a
behaviour cannot depend on: where a slot lies and the contents of free ones, locals that are written
before they are read, ages and tasks of operations that are gone.

### Fairness

`TableCache!FairSpec` is weak fairness of each worker's own steps: threads run,
tokio polls what was woken, mutexes are held for a few instructions only, and a
load ends because Unity requests have a timeout
(`HARBORSQL_UNITY_TIMEOUT_SECONDS`). Nothing is assumed of new lookups, writers,
or the clock. `ThriftService!FairSpec` is weak fairness of each process's steps,
of the tasks, of the sweeper's interval and of time: tokio's RwLock is fair and
is never held across an await, queries have a timeout
(`HARBORSQL_QUERY_TIMEOUT_SECONDS`), and the sweeper's loop never ends. Clients
owe nothing: they may send any requests, or none. `MetadataWalk!FairSpec` is
weak fairness of the walk: its task is polled, and Unity answers or the request
times out. `StatementPipeline!FairSpec` assumes of a statement that its time limit
passes and nothing else: DataFusion, Unity and object stores may all hang.

## Where the code and its own words differ

- **A dropped load strands its key** (`cache_dropped`). `get_or_load` marks a
  slot Loading and awaits the load without a drop guard. If the query times out
  or is closed there, the slot stays Loading in the map: pruning keeps it and
  every later lookup of the key waits, until a write of the table invalidates
  it. README.md describes a cache miss as requesting credentials.
- **Two loads of one key** (`cache_coalescing`). Pruning removes Empty slots,
  also one that a concurrent lookup inserted and has not claimed yet. The test
  `coalesces_concurrent_loads_for_same_principal_and_table` expects one load.
  The results are right all the same, as `ImplementsSnapshotReads` shows.
- **A dropped poll strands an operation** (`thrift_dropped`). `refresh_operation`
  takes the finished task, and stores the result after an await. If the request
  is dropped in between, the operation stays Refreshing: it has no result and
  is never expired by `HARBORSQL_COMPLETED_OPERATION_TTL_SECONDS`, only by its
  session's end.
- **List views are announced and not sent** (`list_views`). The type table of
  docs/delta-types-compatibility.md (line 39) has list views as arrays in a string
  column. `column_encoder` and `arrow_value_to_string` accept them, so
  `GetResultSetMetadata` answers with such a column, but `databricks_display_value`
  has no arm for them: a page with a list view that is not NULL fails with
  `UNSUPPORTED_RESULT_TYPE`, while one whose list views are all NULL is sent.
  README.md (line 189) counts list views among the unsupported types, so the two
  documents disagree as well, and the code agrees with neither throughout.
  `FetchFailsWhole` takes its types from the table; it claims that a page of them is
  sent only for results without list views, at any depth.

Without a run of their own, for want of a line in the repository to hold them to:
a backslash in a LIKE pattern that becomes `contains` is taken literally, and
`RewriteKeepsMeaning` is claimed of the other patterns only; `get`, `if` and
`element_at` inside CASE, CAST, IN or BETWEEN, or on the left of a LIKE that is
rewritten, are not looked for and reach DataFusion as they are; `get` repeats its
index expression, which matters if that is volatile; and `count(*)` and `count(1)` in one SELECT get the same column
name.

`GaugesAgree` claims no more of the session gauge than that it is never too low:
`cleanup_expired` and a lapsed session in `session_for` remove sessions without
recording it.

## Theorems

`TableCacheProofs` proves, from `CacheAssumption` and `RequestAssumption` and for
any number of workers, principals, names, tables and slots:

- `InductiveInvariant`: `IInv` is `TypeOK` with what each program counter implies
  for the worker's locals (`Shape`), slots serve the one key they were allocated
  for (`Owned`), `SingleFlight`, cached tables are of the key's table and
  principal (`Provenance`), are no older than the floor of any lookup that can
  reach them and no newer than the table (`Fresh`), and expire before their
  credentials less the skew and within the TTL (`Timed`). `Fresh` is the heart
  of it: it holds because invalidation detaches even slots that are being
  loaded, so that a lookup which begins afterwards cannot reach them. `Owned` is
  needed because slots are reused.
- `TypeCorrect`, `LoadsAreSingleFlight`, `HitsAreLive`, `CapacityIsBounded`.
- `NoWaiterIsStranded`: without dropped queries a waiter has a loader
  (strengthened by: a Loading slot has one).
- `LoadingSlotsStay`: a slot that is being loaded leaves the map only by an
  invalidation or by the clean-up of an earlier failed load of that very slot; so
  pruning never detaches a running load, nor does the failure of an older one.
- `CacheRefinesSnapshotReads`: initial states map to initial states, and every
  step to a step or a stutter of `SnapshotReads`.

`ThriftServiceProofs` proves, from `ServiceAssumption` and for any number of
requests, sessions and operations:

- `InductiveInvariant`: `TypeOK`, what each program counter implies for the
  process's locals (`Located`), how an operation's execution, task and channel
  go together (`Consistent`), and `NoRunawayTask`. `Consistent` is what rules out
  that a task result is stored over a cancellation: an operation is Refreshing
  only once its task has ended, so `cancel` finds nothing to abort.
- `TypeCorrect`, `NoTaskRunsAway`, `OutcomesAreFinal`, `CapacityIsBounded`,
  `GaugesAreRight`.
- `RefreshesAreHeld`: without dropped requests a Refreshing operation has a
  process that will store its result.
- `UnreturnedAreHeld`: without dropped requests an operation whose handle no
  client has is waited for by its GetColumns request, or about to be removed by
  it. The property is inductive together with the invariant above.
- `RemovalsAreEntitled`: however requests, sweeps and drops interleave, a session
  or a finished operation goes only by a close of its owner, by its time limit, or
  with its session (`OnlyOwnerOrTimeLimit`). A sweep removes in one lock
  region what it found in an earlier one, and others run in between; `Entitled`
  says what of it is still so: what has expired stays expired until it is
  removed, and a removed session is not opened again.

`ExternalWriteProofs` proves, from `WriteAssumption` and for any number of
writers, names, locations and schemas:

- `InductiveInvariant`: `TypeOK`, registrations tell the columns of the data
  (`Consistent`), what each await implies for the statement's target (`Located`),
  and which commits invalidations cover (`Covered`). It rests on the stores only
  growing (`StoresGrow`): a target once validated stays one.
- `WritesRefineExternalTables`, `SuccessesAreDurable`, `EndedArePublished`.

`StatementPipelineProofs` proves, from `FetchAssumption`, `RouteAssumption`,
`StreamAssumption` and `ErrorAssumption`, for any number of tables, lookups,
routes, batches, rows and columns, any limits and any fetches, and whatever the
parameters of the pipeline are:

- `PipelineIsTyped`: the stages, and that what a stage has passed on is forgotten.
  The invariant is `TypeInv`, which is `TypeOK` with `StreamInv`: the counters are
  those of the batches, the bytes up to saturation, and a stream goes on exactly
  while it is within the limits.
- `ResultsStayWithinLimits`: no result beyond its limits is returned and none
  within them is refused. It follows from `StreamInv`, where the count of bytes is
  only claimed while the rows are within their limit, because the code does not
  add the bytes of the batch that exceeds it. The theorem leaves out one setting,
  a limit of exactly `usize::MAX` bytes: a saturated sum cannot exceed that.
- `AccessesAreRouted`: an operation goes to the store of the innermost table its
  path is in, with the credentials recorded last, or is refused
  (`RoutedByLongestPrefix`). `RouteInv` says of every bucket that its routes are
  exactly the last ones recorded for each prefix, which is what `retain` and
  `push` keep, and that they are sorted longest first from the registration
  on. `ObjectRoutesProofs` has what sorting and retaining do, and that the first
  route found is the longest; that two routes of one length cannot both be
  prefixes of one path makes the choice unique.
- `PagesAreSlices`, `PagesCoverTheResult`, `EveryPageProgresses`: a page that is
  sent decodes to the rows asked for, at any offset and limit and across uneven
  batches; a client that reads on gets every row once and in order, is told the
  end only when it has them all, and is never told to come back without having got
  a row. `ResultPagesProofs` proves the loop of `page` with `LoopInv` (where the
  loop is after some batches); `FetchInv` says that what the client has got is a
  prefix of the result.

`MetadataWalkProofs` proves, from `UnityAssumption` (objects are in others that
exist and differ in more than letter case; columns of a table differ in their names)
and `PlanAssumption` (a plan has one to three levels, and reads details or ends with
a listing), for any Unity Catalog, any requests, plans, patterns and filters, any
pages and any changes by others:

- `WalksAreConsistent`: an answer has every row of what existed throughout and is
  wanted, once, and no row of what never existed. The property speaks of the end;
  the invariant of every state on the way. An object is *pending* while it is at or
  below a path of `work`. `WorkInv`: no object is below two of those paths, and the
  names of a path are those given or ones their level selects (`Legit`). `RowsInv`:
  the rows are rows of wanted objects that are not pending any more, each once, and
  every wanted object that exists throughout is pending or has its rows. `ListInv`:
  what the pages brought so far holds, of the siblings up to the token, all that
  exist throughout and only such as existed. A complete listing replaces a path by
  its children that are kept: an object below the path is below one of them, because
  what it is in exists throughout as well (`WantedBelow`), which is why `Drop` has to
  take what is below an object along. Nothing comes twice because no two objects
  differ only in letter case, whatever spelling is asked for (`SameObject`).
- `AnswersAreSorted`: the sorts of the code are stable sorts by a weak order
  (`RowBeforeWeak`, `SortPlaces`), and filtering keeps the order. SHOW COLUMNS does
  not sort its rows: they are in order as `OneTable` plans walk one path only, and as
  the columns were sorted by position. Where only some columns of a table have a
  position, the others come last and the property, which goes by ordinals, is not
  claimed; SHOW COLUMNS reports no ordinals.
- `WalkIsTyped`.

That the plan is the right one for the request, `AnswerIsConsistent`, stays with TLC.

The library's induction theorems have an operator as parameter and cannot be
used. Instead `SequenceFacts` proves induction over an interval for a *set* of
numbers, by its least counterexample, and the loops over batches are recursive
functions of the number of batches (`SumsUpTo`, `RowsUpTo`, `TakenUpTo`), whose
every value is defined by the one before.

Only model-checked:

- `WaitEnds`, `CompletedOperationsLeave`, `WalkEnds` and `StatementEnds`: liveness
  under fairness is beyond the prover;
- `DecodedIsWritten`, `OnlyReadsArePlanned`, `RewriteKeepsMeaning`,
  `FetchFailsWhole` and `EqualMapsLookAlike`: they are about readers, rewrites and
  encoders of nested data, which are RECURSIVE operators;
- `AnswerIsConsistent` and `ReadAsWritten`: that a plan is what its request means,
  and that a SHOW statement is read as written. Patterns, filters and the parser are
  RECURSIVE operators too. What `AnswerIsConsistent` has beyond the plan is
  `WalkIsConsistent`, which is proved.

## Plan

Done: the modules and the theorems above. What would come next is reads and writes
together: readers of `SnapshotReads` beside the writers of `ExternalWrite`, so that a
query which begins after a statement has ended reads what it wrote. `EndedIsPublished`
is the half of it that is proved: when a statement has ended, the floor of every later
lookup of its name is no lower than its version, and `CacheRefinesSnapshotReads` is
that a lookup returns nothing older than its floor.

## Not modelled

DataFusion, delta-rs and Unity themselves; `length` and `raise_error` of
`src/udf.rs`, functions of one value; the layout of metadata rows as Arrow columns
and their JDBC type columns (`src/engine/metadata/result.rs`); the Thrift Writer
and the responses without rows; the text of numbers, dates and times; building
and decoding of HTTP requests to Unity; configuration parsing, TLS, logging and
metrics other than the Thrift gauges. `PROJECT.json` lists every part with its
status, and every hazard with the properties that watch over it.

In `RoutedByLongestPrefix` a listing of a whole bucket, or of a prefix above the
tables, may go to any table below it: so does the code, which has no credentials
for the prefix itself.
