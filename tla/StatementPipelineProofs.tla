----------------------- MODULE StatementPipelineProofs -----------------------
(***************************************************************************)
(* What StatementPipeline promises, for all messages, texts, tables and    *)
(* streams, however a message is read and a text rewritten: that a result  *)
(* stays within its limits, that an object is accessed with the store of   *)
(* the innermost table it is in, and that the pages a client fetches are   *)
(* the rows of the result.                                                 *)
(***************************************************************************)
EXTENDS StatementPipeline, ObjectRoutesProofs, ResultPagesProofs

-----------------------------------------------------------------------------
(* Types, and the limits of a result *)

\* The stages with a stream or its result.
Streamed == {"streaming", "over_limit", "finished", "fetched", "described", "fetching",
             "delivered", "undeliverable"}

StreamRows == UNION {UNION {Range(batch.rows) : batch \in Schemas[schema]} : schema \in DOMAIN Schemas}

\* The counters are those of the batches; a stream goes on while it is within the
\* limits and ends with the first batch beyond one.
StreamInv ==
    /\ stage \in Streamed => types \in DOMAIN Schemas
    /\ stage \notin Streamed => batches = <<>> /\ row_count = 0 /\ result_bytes = 0
    /\ batches \in Seq(BatchesOf(StreamRows))
    /\ row_count = RowCount(batches) /\ row_count <= MaxUsize
    /\ ~Exceeds(row_count, MaxResultRows) => result_bytes = Smaller(ByteCount(batches), MaxUsize)
    /\ stage \in Streamed => (stage = "over_limit" <=> OverLimit(row_count, result_bytes))

TypeInv == TypeOK /\ StreamInv

\* What a stream brings are batches of rows.
LEMMA BatchType ==
    ASSUME NEW schema \in DOMAIN Schemas, NEW batch \in Schemas[schema]
    PROVE  batch \in BatchesOf(StreamRows)
<1>1. batch = [rows |-> batch.rows, bytes |-> batch.bytes]
      /\ batch.rows \in Seq(Range(batch.rows)) /\ batch.bytes \in Nat
  BY StreamAssumption
<1>2. Range(batch.rows) \subseteq StreamRows
  BY DEF StreamRows
<1>3. batch.rows \in Seq(StreamRows)
  BY <1>1, <1>2, SeqMonotonic
<1>. QED  BY <1>1, <1>3 DEF BatchesOf

\* A batch more adds its bytes.
LEMMA BytesOfAppend ==
    ASSUME NEW V, NEW received \in Seq(BatchesOf(V)), NEW batch \in BatchesOf(V)
    PROVE  /\ ByteCount(received) \in Nat
           /\ ByteCount(Append(received, batch)) = ByteCount(received) + batch.bytes
           /\ RowCount(Append(received, batch)) = RowCount(received) + Len(batch.rows)
<1>. DEFINE longer == Append(received, batch)
            N == Len(received)
            bytes == [i \in DOMAIN received |-> received[i].bytes]
            rows == [i \in DOMAIN received |-> Len(received[i].rows)]
            moreBytes == [i \in DOMAIN longer |-> longer[i].bytes]
            moreRows == [i \in DOMAIN longer |-> Len(longer[i].rows)]
<1>1. N \in Nat /\ DOMAIN received = 1..N /\ \A i \in 1..N : received[i] \in BatchesOf(V)
  OBVIOUS
<1>2. longer \in Seq(BatchesOf(V)) /\ Len(longer) = N + 1 /\ DOMAIN longer = 1..(N + 1)
      /\ (\A i \in 1..N : longer[i] = received[i]) /\ longer[N + 1] = batch
  BY AppendProperties
<1>3. batch.bytes \in Nat /\ Len(batch.rows) \in Nat
      /\ \A i \in 1..N : received[i].bytes \in Nat /\ Len(received[i].rows) \in Nat
  BY <1>1 DEF BatchesOf
<1>. HIDE DEF longer
<1>4. bytes \in Seq(Nat) /\ Len(bytes) = N /\ rows \in Seq(Nat) /\ Len(rows) = N
  BY <1>1, <1>3
<1>5. moreBytes = Append(bytes, batch.bytes)
  <2>1. Append(bytes, batch.bytes) \in Seq(Nat) /\ Len(Append(bytes, batch.bytes)) = N + 1
        /\ (\A i \in 1..N : Append(bytes, batch.bytes)[i] = bytes[i])
        /\ Append(bytes, batch.bytes)[N + 1] = batch.bytes
    <3>. HIDE DEF bytes
    <3>. QED  BY <1>3, <1>4, AppendProperties
  <2>2. moreBytes \in Seq(Nat) /\ Len(moreBytes) = N + 1
    BY <1>1, <1>2, <1>3
  <2>3. \A i \in 1..(N + 1) : moreBytes[i] = Append(bytes, batch.bytes)[i]
    <3>. TAKE i \in 1..(N + 1)
    <3>1. i \in 1..N \/ i = N + 1
      BY <1>1
    <3>2. moreBytes[i] = longer[i].bytes
      BY <1>2
    <3>3. i \in 1..N => bytes[i] = received[i].bytes
      BY <1>1
    <3>. HIDE DEF bytes, moreBytes
    <3>. QED  BY <1>2, <2>1, <3>1, <3>2, <3>3
  <2>. HIDE DEF bytes, moreBytes
  <2>. QED  BY <2>1, <2>2, <2>3, SeqEqual
<1>6. moreRows = Append(rows, Len(batch.rows))
  <2>1. Append(rows, Len(batch.rows)) \in Seq(Nat) /\ Len(Append(rows, Len(batch.rows))) = N + 1
        /\ (\A i \in 1..N : Append(rows, Len(batch.rows))[i] = rows[i])
        /\ Append(rows, Len(batch.rows))[N + 1] = Len(batch.rows)
    <3>. HIDE DEF rows
    <3>. QED  BY <1>3, <1>4, AppendProperties
  <2>2. moreRows \in Seq(Nat) /\ Len(moreRows) = N + 1
    BY <1>1, <1>2, <1>3
  <2>3. \A i \in 1..(N + 1) : moreRows[i] = Append(rows, Len(batch.rows))[i]
    <3>. TAKE i \in 1..(N + 1)
    <3>1. i \in 1..N \/ i = N + 1
      BY <1>1
    <3>2. moreRows[i] = Len(longer[i].rows)
      BY <1>2
    <3>3. i \in 1..N => rows[i] = Len(received[i].rows)
      BY <1>1
    <3>. HIDE DEF rows, moreRows
    <3>. QED  BY <1>2, <2>1, <3>1, <3>2, <3>3
  <2>. HIDE DEF rows, moreRows
  <2>. QED  BY <2>1, <2>2, <2>3, SeqEqual
<1>7. ByteCount(received) = SumsUpTo(bytes)[N] /\ RowCount(received) = SumsUpTo(rows)[N]
  BY DEF ByteCount, RowCount
<1>8. ByteCount(longer) = SumsUpTo(moreBytes)[N + 1] /\ RowCount(longer) = SumsUpTo(moreRows)[N + 1]
  BY <1>2 DEF ByteCount, RowCount
<1>. HIDE DEF bytes, rows, moreBytes, moreRows
<1>9. SumsUpTo(moreBytes)[N + 1] = SumsUpTo(bytes)[N] + batch.bytes
      /\ SumsUpTo(moreRows)[N + 1] = SumsUpTo(rows)[N] + Len(batch.rows)
  BY <1>3, <1>4, <1>5, <1>6, SumOfAppend
<1>10. SumsUpTo(bytes)[N] \in Nat
  BY <1>1, <1>4, SumsGrow
<1>. QED  BY <1>7, <1>8, <1>9, <1>10 DEF longer

\* Without a batch there is nothing to count.
LEMMA NothingCounted == RowCount(<<>>) = 0 /\ ByteCount(<<>>) = 0
<1>. DEFINE none == <<>>
            bytes == [i \in DOMAIN none |-> none[i].bytes]
<1>1. none \in Seq(BatchesOf({})) /\ Len(none) = 0 /\ DOMAIN none = {}
  BY EmptySeq
<1>2. RowCount(<<>>) = 0
  BY <1>1, RowsAreCounted
<1>3. bytes \in Seq(Nat) /\ Len(bytes) = 0
  BY <1>1, EmptySeq
<1>4. ByteCount(<<>>) = SumsUpTo(bytes)[0]
  BY <1>1 DEF ByteCount
<1>5. SumsUpTo(bytes)[0] = 0
  <2>. HIDE DEF bytes
  <2>. QED  BY <1>3, SumsGrow
<1>. QED  BY <1>2, <1>4, <1>5

\* A client is told one of the kinds of error that clone_harbor_error lets through.
LEMMA ErrorKinds ==
    ASSUME NEW chain
    PROVE  HarborErrorFromDataFusion(chain) \in Cloned \cup {"DataFusion"}
<1>1. \A kind : CloneHarborError(kind) \in Cloned
  BY DEF CloneHarborError, Cloned
<1>. QED  BY <1>1 DEF HarborErrorFromDataFusion

\* A statement that fails with one of these leaves nothing behind.
LEMMA FailKeepsTypes ==
    ASSUME TypeInv, NEW kind \in Cloned \cup {"DataFusion"}, FailWith(kind)
    PROVE  TypeInv'
<1>1. TypeOK'
  BY FetchAssumption, ErrorAssumption DEF TypeInv, TypeOK, FailWith, wire, client, Executing
<1>2. RowCount(batches') = 0 /\ ByteCount(batches') = 0 /\ batches' \in Seq(BatchesOf(StreamRows))
  BY NothingCounted, EmptySeq DEF FailWith
<1>3. StreamInv'
  BY <1>2, FetchAssumption DEF StreamInv, FailWith, Streamed, Smaller, ByteCount
<1>. QED  BY <1>1, <1>3 DEF TypeInv

\* A batch is counted, and the first one beyond a limit ends the stream.
LEMMA NextBatchKeepsTypes ==
    ASSUME TypeInv, NextBatch
    PROVE  TypeInv'
<1>. USE DEF TypeInv
<1>1. stage = "streaming" /\ types \in DOMAIN Schemas /\ types' = types
  BY DEF NextBatch, StreamInv, Streamed
<1>2. PICK batch \in Schemas[types] :
        /\ row_count + Len(batch.rows) <= MaxUsize
        /\ batches' = Append(batches, batch)
        /\ row_count' = row_count + Len(batch.rows)
        /\ result_bytes' = IF Exceeds(row_count', MaxResultRows) THEN result_bytes
                           ELSE SaturatingAdd(result_bytes, batch.bytes)
        /\ stage' = IF OverLimit(row_count', result_bytes') THEN "over_limit" ELSE "streaming"
        /\ error' = IF OverLimit(row_count', result_bytes') THEN "Query" ELSE None
  BY DEF NextBatch
<1>3. batch \in BatchesOf(StreamRows) /\ batch.bytes \in Nat /\ Len(batch.rows) \in Nat
  <2>1. batch \in BatchesOf(StreamRows)
    BY <1>1, BatchType
  <2>. QED  BY <2>1 DEF BatchesOf
<1>4. batches \in Seq(BatchesOf(StreamRows)) /\ row_count = RowCount(batches)
      /\ row_count \in Nat /\ result_bytes \in 0..MaxUsize
  BY DEF StreamInv, TypeOK
<1>5. /\ ByteCount(batches) \in Nat
      /\ ByteCount(batches') = ByteCount(batches) + batch.bytes
      /\ RowCount(batches') = RowCount(batches) + Len(batch.rows)
      /\ batches' \in Seq(BatchesOf(StreamRows))
  BY <1>2, <1>3, <1>4, BytesOfAppend
<1>6. row_count' \in Nat /\ result_bytes' \in 0..MaxUsize
  BY <1>2, <1>3, <1>4, FetchAssumption DEF SaturatingAdd, Smaller
<1>7. TypeOK'
  <2>1. UNCHANGED <<wire, sql, io>>
    BY DEF NextBatch
  <2>2. stage' \in {"over_limit", "streaming"} /\ error' \in Cloned \cup {None}
        /\ (error' # None <=> stage' = "over_limit")
    BY <1>2, ErrorAssumption DEF Cloned
  <2>. QED  BY <1>6, <2>1, <2>2 DEF TypeOK, wire, sql, io, Executing
<1>8. ~Exceeds(row_count', MaxResultRows) => result_bytes' = Smaller(ByteCount(batches'), MaxUsize)
  <2>. SUFFICES ASSUME ~Exceeds(row_count', MaxResultRows)
                PROVE  result_bytes' = Smaller(ByteCount(batches'), MaxUsize)
    OBVIOUS
  <2>1. ~Exceeds(row_count, MaxResultRows)
    BY <1>2, <1>3, <1>4, FetchAssumption DEF Exceeds
  <2>2. result_bytes = Smaller(ByteCount(batches), MaxUsize)
    BY <2>1 DEF StreamInv
  <2>3. result_bytes' = Smaller(result_bytes + batch.bytes, MaxUsize)
    BY <1>2 DEF SaturatingAdd
  <2>. DEFINE b == ByteCount(batches)
              c == ByteCount(batches')
  <2>4. b \in Nat /\ c = b + batch.bytes /\ result_bytes = Smaller(b, MaxUsize)
    BY <1>5, <2>2
  <2>. HIDE DEF b, c
  <2>5. result_bytes' = Smaller(c, MaxUsize)
    BY <1>3, <2>3, <2>4, FetchAssumption DEF Smaller
  <2>. QED  BY <2>5 DEF c
<1>9. StreamInv'
  <2>1. row_count' = RowCount(batches') /\ row_count' <= MaxUsize
    BY <1>2, <1>4, <1>5
  <2>2. stage' \in Streamed /\ (stage' = "over_limit" <=> OverLimit(row_count', result_bytes'))
    BY <1>2 DEF Streamed
  <2>3. ByteCount(batches)' = ByteCount(batches') /\ RowCount(batches)' = RowCount(batches')
        /\ OverLimit(row_count, result_bytes)' = OverLimit(row_count', result_bytes')
        /\ Exceeds(row_count, MaxResultRows)' = Exceeds(row_count', MaxResultRows)
    BY DEF ByteCount, RowCount, OverLimit, Exceeds
  <2>. QED  BY <1>1, <1>5, <1>8, <2>1, <2>2, <2>3 DEF StreamInv
<1>. QED  BY <1>7, <1>9

\* Every step keeps the types and the counters.
LEMMA TypeInvStep ==
    ASSUME TypeInv, [Next]_vars
    PROVE  TypeInv'
<1>. USE DEF TypeInv
<1>0. "Query" \in Cloned /\ "UnsupportedSql" \in Cloned
  BY DEF Cloned
<1>1. CASE Decode
  BY <1>1 DEF Decode, TypeOK, StreamInv, Streamed, sql, io, stream, client, Executing, OverLimit, ByteCount
<1>2. CASE Submit
  BY <1>2 DEF Submit, TypeOK, StreamInv, Streamed, io, stream, client, Executing, OverLimit, ByteCount
<1>3. CASE ShowStatement
  BY <1>3 DEF ShowStatement, TypeOK, StreamInv, Streamed, wire, io, stream, client, Executing,
              OverLimit, ByteCount
<1>4. CASE PlanSql
  <2>1. PICK parsed : \/ FailWith("UnsupportedSql") \/ FailWith("DataFusion")
                      \/ \E rewritten, statement :
                           /\ stage = "submitted" /\ stage' = "planning"
                           /\ plan' = [ctas |-> parsed.ok /\ parsed.query # None,
                                       allowed |-> SqlOptionsAllow(statement)]
                           /\ UNCHANGED <<wire, text, enable_writes, io, stream, error, client>>
    BY <1>4 DEF PlanSql
  <2>2. CASE FailWith("UnsupportedSql") \/ FailWith("DataFusion")
    BY <1>0, <2>2, FailKeepsTypes
  <2>3. CASE \E statement :
               /\ stage = "submitted" /\ stage' = "planning"
               /\ plan' = [ctas |-> parsed.ok /\ parsed.query # None,
                           allowed |-> SqlOptionsAllow(statement)]
               /\ UNCHANGED <<wire, text, enable_writes, io, stream, error, client>>
    <3>1. plan'.ctas \in BOOLEAN /\ plan'.allowed \in BOOLEAN
      BY <2>3 DEF SqlOptionsAllow
    <3>. QED  BY <2>3, <3>1 DEF TypeOK, StreamInv, Streamed, wire, io, stream, client, Executing,
                    OverLimit, ByteCount
  <2>. QED  BY <2>1, <2>2, <2>3
<1>5. CASE PlanRefused
  BY <1>5, FailKeepsTypes DEF PlanRefused
<1>6. CASE QueryFails
  BY <1>6, ErrorKinds, FailKeepsTypes DEF QueryFails
<1>7. CASE Lookup
  <2>1. PICK table \in DOMAIN Locations, store \in Opened :
          LET route == TableObjectStoreRoute(Locations[table])
          IN \/ FailWith("Query")
             \/ /\ route # None /\ DOMAIN registry' = DOMAIN registry \cup {route.url}
                /\ text' = None
                /\ UNCHANGED <<stage, wire, plan, access, stream, error, client>>
    BY <1>7 DEF Lookup
  <2>2. CASE FailWith("Query")
    BY <1>0, <2>2, FailKeepsTypes
  <2>3. CASE ~FailWith("Query")
    <3>. DEFINE route == TableObjectStoreRoute(Locations[table])
    <3>1. route # None /\ DOMAIN registry' = DOMAIN registry \cup {route.url} /\ text' = None
          /\ UNCHANGED <<stage, wire, plan, access, stream, error, client>>
      BY <2>1, <2>3
    <3>2. route.url = Locations[table].host
      BY <3>1 DEF TableObjectStoreRoute
    <3>. HIDE DEF route
    <3>. QED  BY <3>1, <3>2 DEF TypeOK, StreamInv, wire, stream, OverLimit, ByteCount
  <2>. QED  BY <2>2, <2>3
<1>8. CASE RegisterObjectStores
  BY <1>8 DEF RegisterObjectStores, TypeOK, StreamInv, Streamed, wire, stream, client, Executing,
              OverLimit, ByteCount
<1>9. CASE UseObjectStore
  BY <1>9 DEF UseObjectStore, TypeOK, StreamInv, wire, sql, stream, client, OverLimit, ByteCount
<1>10. CASE ExecuteStream
  <2>1. ~OverLimit(0, 0)
    BY FetchAssumption DEF OverLimit, Exceeds
  <2>. QED  BY <1>10, <2>1 DEF ExecuteStream, TypeOK, StreamInv, Streamed, wire, sql, client, Executing,
                              OverLimit, ByteCount
<1>11. CASE NextBatch
  BY <1>11, NextBatchKeepsTypes
<1>12. CASE BatchFails
  BY <1>12, FailKeepsTypes DEF BatchFails
<1>13. CASE Materialize
  BY <1>13 DEF Materialize, TypeOK, StreamInv, Streamed, wire, sql, io, stream, client, Executing,
               OverLimit, ByteCount
<1>14. CASE EndsElsewhere
  BY <1>14 DEF EndsElsewhere, TypeOK, StreamInv, Streamed, wire, sql, io, stream, client, Executing,
               OverLimit, ByteCount
<1>15. CASE Timeout
  BY <1>0, <1>15, FailKeepsTypes DEF Timeout
<1>16. CASE FetchAt
  BY <1>16 DEF FetchAt, TypeOK, StreamInv, Streamed, wire, sql, io, stream, Executing, OverLimit, ByteCount
<1>17. CASE GetResultSetMetadata
  BY <1>17 DEF GetResultSetMetadata, TypeOK, StreamInv, Streamed, wire, sql, io, stream, Executing,
               OverLimit, ByteCount
<1>18. CASE FetchNext
  <2>1. /\ stage \in {"finished", "fetching"} /\ stage' \in {"undeliverable", "fetching", "delivered"}
        /\ UNCHANGED <<wire, sql, io, stream, error>>
    BY <1>18 DEF FetchNext
  <2>. QED  BY <2>1 DEF TypeOK, StreamInv, Streamed, wire, sql, io, stream, Executing, OverLimit, ByteCount
<1>19. CASE UNCHANGED vars
  BY <1>19 DEF vars, TypeOK, StreamInv, wire, sql, io, stream, OverLimit, ByteCount
<1>. QED  BY <1>1, <1>2, <1>3, <1>4, <1>5, <1>6, <1>7, <1>8, <1>9, <1>10, <1>11, <1>12, <1>13, <1>14,
             <1>15, <1>16, <1>17, <1>18, <1>19 DEF Next

\* The request has not been read: there is no stream.
LEMMA TypeInvInit ==
    ASSUME Init
    PROVE  TypeInv
<1>1. RowCount(batches) = 0 /\ ByteCount(batches) = 0 /\ batches \in Seq(BatchesOf(StreamRows))
  BY NothingCounted, EmptySeq DEF Init
<1>2. StreamInv
  BY <1>1, FetchAssumption DEF Init, StreamInv, Streamed, Smaller
<1>3. TypeOK
  BY FetchAssumption DEF Init, TypeOK, Executing
<1>. QED  BY <1>2, <1>3 DEF TypeInv

\* The inductive invariant holds always.
LEMMA TypeInvHolds == FairSpec => []TypeInv
<1>1. Init => TypeInv
  BY TypeInvInit
<1>2. TypeInv /\ [Next]_vars => TypeInv'
  BY TypeInvStep
<1>. QED  BY <1>1, <1>2, PTL DEF FairSpec

\* The stages, and that what a stage has passed on is forgotten: execute_inner and
\* the handlers of src/thrift.rs keep TypeOK, whatever is sent and read.
THEOREM PipelineIsTyped == FairSpec => []TypeOK
<1>1. TypeInv => TypeOK
  BY DEF TypeInv
<1>. QED  BY <1>1, TypeInvHolds, PTL

\* The counters of materialize_stream decide as the result itself would: a result
\* that is returned is within both limits, one that is refused is not.  The sum of
\* bytes stops at usize::MAX, so that no result exceeds a limit of usize::MAX bytes:
\* for that limit alone the statement is about the counter and not about the bytes.
THEOREM ResultsStayWithinLimits ==
    ASSUME MaxResultBytes # MaxUsize
    PROVE  FairSpec => []ResultWithinLimits
<1>1. ASSUME TypeInv
      PROVE  ResultWithinLimits
  <2>. DEFINE b == ByteCount(batches)
              n == RowCount(batches)
              within == ~Exceeds(n, MaxResultRows) /\ ~Exceeds(b, MaxResultBytes)
  <2>1. b \in Nat
    <3>1. batches \in Seq(BatchesOf(StreamRows))
      BY <1>1 DEF TypeInv, StreamInv
    <3>. DEFINE bytes == [i \in DOMAIN batches |-> batches[i].bytes]
    <3>2. \A i \in DOMAIN batches : batches[i].bytes \in Nat
      <4>. TAKE i \in DOMAIN batches
      <4>1. batches[i] \in BatchesOf(StreamRows)
        BY <3>1
      <4>. QED  BY <4>1 DEF BatchesOf
    <3>3. bytes \in Seq(Nat) /\ Len(bytes) = Len(batches) /\ Len(batches) \in Nat
      BY <3>1, <3>2
    <3>4. b = SumsUpTo(bytes)[Len(batches)]
      BY DEF ByteCount
    <3>. HIDE DEF bytes
    <3>. QED  BY <3>3, <3>4, SumsGrow
  <2>2. row_count = n /\ (~Exceeds(n, MaxResultRows) => result_bytes = Smaller(b, MaxUsize))
    BY <1>1 DEF TypeInv, StreamInv
  <2>3. stage \in Streamed => (stage = "over_limit" <=> OverLimit(row_count, result_bytes))
    BY <1>1 DEF TypeInv, StreamInv
  <2>4. ResultWithinLimits <=> /\ stage \in {"finished", "fetched", "fetching", "delivered"} => within
                               /\ stage = "over_limit" => ~within
    BY DEF ResultWithinLimits
  <2>. HIDE DEF b, n
  <2>5. ~Exceeds(n, MaxResultRows) => (Exceeds(b, MaxResultBytes) <=> Exceeds(result_bytes, MaxResultBytes))
    BY <2>1, <2>2, FetchAssumption DEF Exceeds, Smaller
  <2>. QED  BY <2>2, <2>3, <2>4, <2>5 DEF OverLimit, Streamed
<1>2. TypeInv => ResultWithinLimits
  BY <1>1
<1>. QED  BY <1>2, TypeInvHolds, PTL

-----------------------------------------------------------------------------
(* Object stores: what the registry has of the stores recorded *)

Stores == (DOMAIN Locations) \X Opened
Hosts == {Locations[table].host : table \in DOMAIN Locations}
Records == [route : [url : Hosts, prefix : Seq(STRING)], store : Stores]

\* The last records of their routes, in a bucket; and the routes they make.
Latest(records, url) ==
    {i \in DOMAIN records : /\ records[i].route.url = url
                            /\ \A j \in DOMAIN records : j > i => records[j].route # records[i].route}
Current(records, url) ==
    {ObjectStoreRoute(records[i].route.prefix, records[i].store) : i \in Latest(records, url)}

\* A bucket's routes are the last ones recorded, longest prefix first once they are
\* registered; and an access went to the store that they say.
RouteInv ==
    /\ recorded \in Seq(Records)
    /\ DOMAIN registry = {recorded[i].route.url : i \in DOMAIN recorded}
    /\ \A url \in DOMAIN registry :
         registry[url] \in Seq(Routes(Stores)) /\ Range(registry[url]) = Current(recorded, url)
    /\ stage = "executing" => \A url \in DOMAIN registry : LongestFirst(registry[url])
    /\ access # None =>
         /\ stage = "executing" /\ access.asked \in Accesses /\ access.asked.url \in DOMAIN registry
         /\ access.store = Target(registry[access.asked.url], access.asked)

\* A location's route has the host and a path.
LEMMA RouteType ==
    ASSUME NEW table \in DOMAIN Locations, TableObjectStoreRoute(Locations[table]) # None
    PROVE  TableObjectStoreRoute(Locations[table]) \in [url : Hosts, prefix : Seq(STRING)]
<1>. DEFINE path == Locations[table].path
            first == IF path # <<>> /\ Head(path) = Slash THEN 2 ELSE 1
            last == IF Len(path) > first /\ Last(path) = Slash THEN Len(path) - 1 ELSE Len(path)
            inner == SubSeq(path, first, last)
<1>1. path \in Seq(STRING) /\ Len(path) \in Nat
  BY RouteAssumption
<1>2. first \in {1, 2} /\ last \in {Len(path), Len(path) - 1}
  OBVIOUS
<1>3. ObjectPath(path) = IF \E i \in 1..(Len(inner) - 1) : inner[i] = Slash /\ inner[i + 1] = Slash
                         THEN None ELSE inner
  BY DEF ObjectPath
<1>. HIDE DEF path, first, last
<1>4. inner \in Seq(STRING)
  <2>1. \A i \in first..last : path[i] \in STRING
    BY <1>1, <1>2
  <2>2. first \in Int /\ last \in Int
    BY <1>1, <1>2
  <2>. QED  BY <2>1, <2>2, SubSeqProperties
<1>. HIDE DEF inner
<1>5. TableObjectStoreRoute(Locations[table]) = [url |-> Locations[table].host, prefix |-> ObjectPath(path)]
      /\ ObjectPath(path) # None
  BY DEF TableObjectStoreRoute, path
<1>. QED  BY <1>3, <1>4, <1>5 DEF Hosts

\* A record replaces the one of its route, and no other.
LEMMA CurrentOfAppend ==
    ASSUME NEW records \in Seq(Records), NEW record \in Records, NEW url
    PROVE  Current(Append(records, record), url) =
             IF url = record.route.url
             THEN {r \in Current(records, url) : r.prefix # record.route.prefix}
                  \cup {ObjectStoreRoute(record.route.prefix, record.store)}
             ELSE Current(records, url)
<1>. DEFINE n == Len(records)
            longer == Append(records, record)
<1>1. n \in Nat /\ DOMAIN records = 1..n /\ \A i \in 1..n : records[i] \in Records
  OBVIOUS
<1>2. longer \in Seq(Records) /\ DOMAIN longer = 1..(n + 1)
      /\ (\A i \in 1..n : longer[i] = records[i]) /\ longer[n + 1] = record
  BY AppendProperties
<1>. HIDE DEF longer
<1>3. ASSUME NEW i \in 1..n
      PROVE  i \in Latest(longer, url) <=> i \in Latest(records, url) /\ records[i].route # record.route
  <2>1. (\A j \in 1..(n + 1) : j > i => longer[j].route # longer[i].route) <=>
          /\ \A j \in 1..n : j > i => records[j].route # records[i].route
          /\ record.route # records[i].route
    <3>1. \A j \in 1..(n + 1) : j \in 1..n \/ j = n + 1
      BY <1>1
    <3>2. n + 1 \in 1..(n + 1) /\ n + 1 > i /\ \A j \in 1..n : j \in 1..(n + 1)
      BY <1>1
    <3>. QED  BY <1>2, <3>1, <3>2
  <2>2. i \in DOMAIN longer /\ i \in DOMAIN records /\ longer[i] = records[i]
    BY <1>1, <1>2
  <2>. QED  BY <1>1, <1>2, <2>1, <2>2 DEF Latest
<1>4. n + 1 \in Latest(longer, url) <=> url = record.route.url
  <2>1. n + 1 \in DOMAIN longer /\ \A j \in DOMAIN longer : ~(j > n + 1)
    BY <1>1, <1>2
  <2>. QED  BY <1>2, <2>1 DEF Latest
<1>5. \A i \in Latest(longer, url) : i \in 1..n \/ i = n + 1
  BY <1>1, <1>2 DEF Latest
<1>6. Latest(records, url) \subseteq 1..n
  BY <1>1 DEF Latest
<1>7. ASSUME NEW i \in Latest(records, url)
      PROVE  records[i].route # record.route <=>
               ~(url = record.route.url /\ records[i].route.prefix = record.route.prefix)
  <2>1. records[i] \in Records /\ records[i].route.url = url
    BY <1>1, <1>6 DEF Latest
  <2>2. records[i].route = [url |-> records[i].route.url, prefix |-> records[i].route.prefix]
        /\ record.route = [url |-> record.route.url, prefix |-> record.route.prefix]
    BY <2>1 DEF Records
  <2>. QED  BY <2>1, <2>2
<1>. DEFINE Route(r) == ObjectStoreRoute(r.route.prefix, r.store)
<1>8. \A i \in 1..n : Route(longer[i]) = Route(records[i])
  BY <1>2
<1>9. \A r : Route(r).prefix = r.route.prefix
  BY DEF ObjectStoreRoute
<1>10. Current(longer, url) = {Route(longer[i]) : i \in Latest(longer, url)}
       /\ Current(records, url) = {Route(records[i]) : i \in Latest(records, url)}
  BY DEF Current
<1>. HIDE DEF Route
<1>11. CASE url = record.route.url
  <2>1. ASSUME NEW r \in Current(longer, url)
        PROVE  r \in {q \in Current(records, url) : q.prefix # record.route.prefix} \cup {Route(record)}
    <3>1. PICK i \in Latest(longer, url) : r = Route(longer[i])
      BY <1>10
    <3>2. CASE i \in 1..n
      <4>1. i \in Latest(records, url) /\ records[i].route.prefix # record.route.prefix
        BY <1>3, <1>7, <1>11, <3>2
      <4>. QED  BY <1>8, <1>9, <1>10, <3>1, <3>2, <4>1
    <3>3. CASE i = n + 1
      BY <1>2, <3>1, <3>3
    <3>. QED  BY <1>5, <3>2, <3>3
  <2>2. ASSUME NEW r \in Current(records, url), r.prefix # record.route.prefix
        PROVE  r \in Current(longer, url)
    <3>1. PICK i \in Latest(records, url) : r = Route(records[i])
      BY <1>10
    <3>2. i \in 1..n /\ i \in Latest(longer, url)
      BY <1>3, <1>6, <1>7, <1>9, <2>2, <3>1
    <3>. QED  BY <1>8, <1>10, <3>1, <3>2
  <2>3. Route(record) \in Current(longer, url)
    BY <1>2, <1>4, <1>10, <1>11
  <2>. QED  BY <1>11, <2>1, <2>2, <2>3 DEF longer, Route
<1>12. CASE url # record.route.url
  <2>1. Latest(longer, url) = Latest(records, url)
    BY <1>3, <1>4, <1>5, <1>6, <1>7, <1>12
  <2>2. \A i \in Latest(records, url) : Route(longer[i]) = Route(records[i])
    BY <1>6, <1>8
  <2>. QED  BY <1>10, <1>12, <2>1, <2>2 DEF longer
<1>. QED  BY <1>11, <1>12

\* What is dropped leaves no routes.
LEMMA NoRoutes ==
    ASSUME recorded' = <<>>, registry' = <<>>, access' = None
    PROVE  RouteInv'
<1>1. recorded' \in Seq(Records) /\ DOMAIN recorded' = {} /\ DOMAIN registry' = {}
  BY EmptySeq
<1>. QED  BY <1>1 DEF RouteInv

\* The stores of what has not been planned: none.
LEMMA RouteInvInit ==
    ASSUME Init
    PROVE  RouteInv
<1>1. recorded \in Seq(Records) /\ DOMAIN recorded = {} /\ DOMAIN registry = {} /\ access = None
  BY EmptySeq DEF Init
<1>. QED  BY <1>1 DEF RouteInv

\* A table that is looked up adds its store to its bucket.
LEMMA LookupKeepsRoutes ==
    ASSUME RouteInv, Lookup
    PROVE  RouteInv'
<1>. USE DEF RouteInv
<1>1. PICK table \in DOMAIN Locations, store \in Opened :
        LET route == TableObjectStoreRoute(Locations[table])
        IN IF route = None THEN FailWith("Query")
           ELSE /\ recorded' = Append(recorded, [route |-> route, store |-> <<table, store>>])
                /\ registry' = [url \in DOMAIN registry \cup {route.url} |->
                                  IF url = route.url
                                  THEN RecordStore(RoutesOf(url), route.prefix, <<table, store>>)
                                  ELSE registry[url]]
                /\ UNCHANGED <<stage, access>>
  BY DEF Lookup
<1>. DEFINE route == TableObjectStoreRoute(Locations[table])
            record == [route |-> route, store |-> <<table, store>>]
<1>2. CASE route = None
  BY <1>1, <1>2, NoRoutes DEF FailWith
<1>3. CASE route # None
  <2>1. /\ recorded' = Append(recorded, record)
        /\ registry' = [url \in DOMAIN registry \cup {route.url} |->
                          IF url = route.url
                          THEN RecordStore(RoutesOf(url), route.prefix, record.store)
                          ELSE registry[url]]
        /\ stage' = stage /\ access' = access
    BY <1>1, <1>3
  <2>2. route \in [url : Hosts, prefix : Seq(STRING)]
    BY <1>3, RouteType
  <2>3. record \in Records /\ record.route = route /\ record.store \in Stores
    BY <2>2 DEF Records, Stores
  <2>. HIDE DEF route, record
  <2>4. route.prefix \in Seq(STRING)
    BY <2>2
  <2>5. /\ recorded' \in Seq(Records)
        /\ {recorded'[i].route.url : i \in DOMAIN recorded'} =
             {recorded[i].route.url : i \in DOMAIN recorded} \cup {route.url}
    <3>1. Len(recorded) \in Nat /\ DOMAIN recorded = 1..Len(recorded)
      OBVIOUS
    <3>. DEFINE n == Len(recorded)
                longer == Append(recorded, record)
    <3>2. longer \in Seq(Records) /\ Len(longer) = n + 1
          /\ (\A i \in 1..n : longer[i] = recorded[i]) /\ longer[n + 1] = record
      BY <2>3, AppendProperties
    <3>3. DOMAIN longer = 1..(n + 1)
      BY <3>2
    <3>. HIDE DEF longer
    <3>4. \A i \in 1..(n + 1) : i \in 1..n \/ i = n + 1
      BY <3>1
    <3>5. n + 1 \in 1..(n + 1) /\ \A i \in 1..n : i \in 1..(n + 1)
      BY <3>1
    <3>6. {longer[i].route.url : i \in DOMAIN longer} =
             {recorded[i].route.url : i \in DOMAIN recorded} \cup {route.url}
      BY <2>3, <3>1, <3>2, <3>3, <3>4, <3>5
    <3>. QED  BY <2>1, <3>2, <3>6 DEF longer
  <2>6. DOMAIN registry' = DOMAIN registry \cup {route.url}
    BY <2>1
  <2>7. /\ RoutesOf(route.url) \in Seq(Routes(Stores))
        /\ Range(RoutesOf(route.url)) = Current(recorded, route.url)
    <3>1. CASE route.url \in DOMAIN registry
      BY <3>1 DEF RoutesOf
    <3>2. CASE route.url \notin DOMAIN registry
      <4>1. Latest(recorded, route.url) = {}
        BY <3>2 DEF Latest
      <4>2. Current(recorded, route.url) = {}
        BY <4>1 DEF Current
      <4>3. RoutesOf(route.url) = <<>>
        BY <3>2 DEF RoutesOf
      <4>. QED  BY <4>2, <4>3, EmptySeq DEF Range
    <3>. QED  BY <3>1, <3>2
  <2>8. /\ registry'[route.url] \in Seq(Routes(Stores))
        /\ Range(registry'[route.url]) = Current(recorded', route.url)
    <3>1. registry'[route.url] = RecordStore(RoutesOf(route.url), route.prefix, record.store)
      BY <2>1
    <3>2. /\ registry'[route.url] \in Seq(Routes(Stores))
          /\ Range(registry'[route.url]) = {r \in Range(RoutesOf(route.url)) : r.prefix # route.prefix}
                                             \cup {ObjectStoreRoute(route.prefix, record.store)}
      BY <2>3, <2>4, <2>7, <3>1, RecordStoreReplaces
    <3>3. Current(recorded', route.url) = {r \in Current(recorded, route.url) : r.prefix # route.prefix}
                                            \cup {ObjectStoreRoute(route.prefix, record.store)}
      BY <2>1, <2>3, CurrentOfAppend
    <3>. QED  BY <2>7, <3>2, <3>3
  <2>9. ASSUME NEW url \in DOMAIN registry, url # route.url
        PROVE  registry'[url] = registry[url] /\ Current(recorded', url) = Current(recorded, url)
    BY <2>1, <2>3, <2>9, CurrentOfAppend
  <2>10. \A url \in DOMAIN registry' : /\ registry'[url] \in Seq(Routes(Stores))
                                       /\ Range(registry'[url]) = Current(recorded', url)
    BY <2>6, <2>8, <2>9
  <2>11. stage = "planning" /\ access = None
    BY DEF Lookup
  <2>. QED  BY <2>1, <2>5, <2>6, <2>10, <2>11 DEF Current, Latest
<1>. QED  BY <1>2, <1>3

\* What is registered are the same routes, in their order.
LEMMA RegisterKeepsRoutes ==
    ASSUME RouteInv, RegisterObjectStores
    PROVE  RouteInv'
<1>. USE DEF RouteInv
<1>1. /\ stage = "planning" /\ access = None
      /\ registry' = [url \in DOMAIN registry |-> PrefixRouting(registry[url])]
      /\ recorded' = recorded /\ access' = access
  BY DEF RegisterObjectStores
<1>2. ASSUME NEW url \in DOMAIN registry
      PROVE  /\ registry'[url] \in Seq(Routes(Stores))
             /\ Range(registry'[url]) = Current(recorded, url)
             /\ LongestFirst(registry'[url])
  <2>1. registry[url] \in Seq(Routes(Stores)) /\ Range(registry[url]) = Current(recorded, url)
    BY <1>2
  <2>2. registry'[url] = PrefixRouting(registry[url])
    BY <1>1
  <2>. QED  BY <2>1, <2>2, PrefixRoutingSorts
<1>3. DOMAIN registry' = DOMAIN registry
  BY <1>1
<1>4. \A url : Current(recorded, url)' = Current(recorded, url)
  BY <1>1 DEF Current, Latest
<1>5. \A url \in DOMAIN registry : LongestFirst(registry[url])' = LongestFirst(registry'[url])
  BY DEF LongestFirst
<1>. QED  BY <1>1, <1>2, <1>3, <1>4, <1>5

\* Every step keeps the routes.
LEMMA RouteInvStep ==
    ASSUME RouteInv, [Next]_vars
    PROVE  RouteInv'
<1>0. ASSUME UNCHANGED io, access = None, stage' # "executing"
      PROVE  RouteInv'
  <2>1. recorded' = recorded /\ registry' = registry /\ access' = None
    BY <1>0 DEF io
  <2>2. \A url : Current(recorded, url)' = Current(recorded, url)
    BY <2>1 DEF Current, Latest
  <2>. QED  BY <1>0, <2>1, <2>2 DEF RouteInv
<1>1. ASSUME stage # "executing"
      PROVE  access = None
  BY <1>1 DEF RouteInv
<1>2. CASE Decode
  BY <1>0, <1>1, <1>2 DEF Decode
<1>3. CASE Submit
  BY <1>0, <1>1, <1>3 DEF Submit
<1>4. CASE ShowStatement
  BY <1>0, <1>1, <1>4 DEF ShowStatement
<1>5. CASE PlanSql
  <2>1. \/ FailWith("UnsupportedSql") \/ FailWith("DataFusion")
        \/ stage = "submitted" /\ stage' = "planning" /\ UNCHANGED io
    BY <1>5 DEF PlanSql
  <2>. QED  BY <1>0, <1>1, <2>1, NoRoutes DEF FailWith
<1>6. CASE PlanRefused \/ QueryFails \/ BatchFails \/ Timeout
  BY <1>6, NoRoutes DEF PlanRefused, QueryFails, BatchFails, Timeout, FailWith
<1>7. CASE Lookup
  BY <1>7, LookupKeepsRoutes
<1>8. CASE RegisterObjectStores
  BY <1>8, RegisterKeepsRoutes
<1>9. CASE UseObjectStore
  <2>1. PICK a \in Accesses : /\ a.url \in DOMAIN registry
                              /\ access' = [asked |-> a, store |-> Target(registry[a.url], a)]
    BY <1>9 DEF UseObjectStore
  <2>2. stage = "executing" /\ UNCHANGED <<stage, recorded, registry>>
    BY <1>9 DEF UseObjectStore
  <2>3. access'.asked = a /\ access'.store = Target(registry[a.url], a)
    BY <2>1
  <2>4. \A url : /\ Current(recorded, url)' = Current(recorded, url)
                 /\ LongestFirst(registry[url])' = LongestFirst(registry[url])
    BY <2>2 DEF Current, Latest, LongestFirst
  <2>5. access'.store = Target(registry[access.asked.url], access.asked)'
    BY <2>2, <2>3 DEF Target
  <2>. QED  BY <2>1, <2>2, <2>3, <2>4, <2>5 DEF RouteInv
<1>10. CASE ExecuteStream
  BY <1>10, NoRoutes DEF ExecuteStream
<1>11. CASE NextBatch
  BY <1>0, <1>1, <1>11 DEF NextBatch
<1>12. CASE Materialize
  BY <1>0, <1>1, <1>12 DEF Materialize
<1>13. CASE EndsElsewhere
  BY <1>0, <1>1, <1>13 DEF EndsElsewhere
<1>14. CASE FetchAt
  BY <1>0, <1>1, <1>14 DEF FetchAt
<1>15. CASE GetResultSetMetadata
  BY <1>0, <1>1, <1>15 DEF GetResultSetMetadata
<1>16. CASE FetchNext
  <2>1. stage \in {"finished", "fetching"} /\ stage' \in {"undeliverable", "fetching", "delivered"}
        /\ UNCHANGED io
    BY <1>16 DEF FetchNext
  <2>. QED  BY <1>0, <1>1, <2>1
<1>17. CASE UNCHANGED vars
  <2>1. stage' = stage /\ recorded' = recorded /\ registry' = registry /\ access' = access
    BY <1>17 DEF vars, io
  <2>2. \A url : /\ Current(recorded, url)' = Current(recorded, url)
                 /\ LongestFirst(registry[url])' = LongestFirst(registry[url])
    BY <2>1 DEF Current, Latest, LongestFirst
  <2>3. Target(registry[access.asked.url], access.asked)' = Target(registry[access.asked.url], access.asked)
    BY <2>1 DEF Target
  <2>. QED  BY <2>1, <2>2, <2>3 DEF RouteInv
<1>. QED  BY <1>2, <1>3, <1>4, <1>5, <1>6, <1>7, <1>8, <1>9, <1>10, <1>11, <1>12, <1>13, <1>14,
             <1>15, <1>16, <1>17 DEF Next

\* The inductive invariant holds always.
LEMMA RouteInvHolds == FairSpec => []RouteInv
<1>1. Init => RouteInv
  BY RouteInvInit
<1>2. RouteInv /\ [Next]_vars => RouteInv'
  BY RouteInvStep
<1>. QED  BY <1>1, <1>2, PTL DEF FairSpec

-----------------------------------------------------------------------------
(* Object stores: whose store an access goes to *)

\* path_has_prefix compares whole segments.
LEMMA IsBelowMeans ==
    ASSUME NEW path \in Seq(STRING), NEW prefix \in Seq(STRING)
    PROVE  IsBelow(path, prefix) <=> PathHasPrefix(path, prefix)
<1>. DEFINE m == Len(prefix)
            n == Len(path)
            inner == Append(prefix, Slash)
            outer == Append(path, Slash)
            V == STRING \cup {Slash}
<1>1. m \in Nat /\ n \in Nat /\ (prefix = <<>> <=> m = 0)
  BY EmptySeq
<1>0. prefix \in Seq(V) /\ path \in Seq(V) /\ Slash \in V
  BY SeqMonotonic
<1>. HIDE DEF V
<1>2. inner \in Seq(V) /\ Len(inner) = m + 1
      /\ (\A i \in 1..m : inner[i] = prefix[i]) /\ inner[m + 1] = Slash
  BY <1>0, AppendProperties
<1>3. outer \in Seq(V) /\ Len(outer) = n + 1
      /\ (\A i \in 1..n : outer[i] = path[i]) /\ outer[n + 1] = Slash
  BY <1>0, AppendProperties
<1>4. IsBelow(path, prefix) <=> prefix = <<>> \/ IsPrefix(inner, outer)
  BY DEF IsBelow
<1>5. PathHasPrefix(path, prefix) <=>
        /\ m <= n /\ \A i \in 1..m : path[i] = prefix[i]
        /\ m = 0 \/ n = m \/ path[m + 1] = Slash
  BY PathHasPrefixMeans
<1>. HIDE DEF inner, outer
<1>6. IsPrefix(inner, outer) <=> m + 1 <= n + 1 /\ \A i \in 1..(m + 1) : outer[i] = inner[i]
  BY <1>2, <1>3, IsPrefixMeans
<1>7. ASSUME m <= n
      PROVE  (\A i \in 1..(m + 1) : outer[i] = inner[i]) <=>
               (\A i \in 1..m : path[i] = prefix[i]) /\ (n = m \/ path[m + 1] = Slash)
  <2>1. \A i \in 1..(m + 1) : i \in 1..m \/ i = m + 1
    BY <1>1
  <2>2. m + 1 \in 1..(m + 1) /\ \A i \in 1..m : i \in 1..(m + 1) /\ i \in 1..n
    BY <1>1, <1>7
  <2>3. outer[m + 1] = Slash <=> (n = m \/ path[m + 1] = Slash)
    BY <1>1, <1>3, <1>7
  <2>. HIDE DEF m, n
  <2>. QED  BY <1>2, <1>3, <2>1, <2>2, <2>3
<1>8. m + 1 <= n + 1 <=> m <= n
  BY <1>1
<1>9. m = 0 => m <= n /\ \A i \in 1..m : path[i] = prefix[i]
  BY <1>1
<1>. HIDE DEF m, n
<1>. QED  BY <1>1, <1>4, <1>5, <1>6, <1>7, <1>8, <1>9

\* Every route that was recorded has a last record.
LEMMA LatestIsThere ==
    ASSUME NEW records \in Seq(Records), NEW i \in DOMAIN records
    PROVE  \E j \in Latest(records, records[i].route.url) : records[j].route = records[i].route
<1>. DEFINE n == Len(records)
            same == {j \in DOMAIN records : records[j].route = records[i].route}
<1>1. n \in Nat /\ DOMAIN records = 1..n
  OBVIOUS
<1>2. same \subseteq 0..n /\ i \in same
  BY <1>1
<1>. HIDE DEF same
<1>3. Max(same) \in same /\ \A j \in same : j <= Max(same)
  BY <1>1, <1>2, MaxIsGreatest
<1>. DEFINE last == Max(same)
<1>. HIDE DEF last
<1>4. last \in same /\ \A j \in same : j <= last
  BY <1>3 DEF last
<1>5. last \in DOMAIN records /\ records[last].route = records[i].route
  BY <1>4 DEF same
<1>6. \A j \in DOMAIN records : j > last => records[j].route # records[last].route
  <2>. SUFFICES ASSUME NEW j \in DOMAIN records, j > last, records[j].route = records[last].route
                PROVE  FALSE
    OBVIOUS
  <2>1. j \in same
    BY <1>5 DEF same
  <2>2. j <= last
    BY <1>4, <2>1
  <2>. QED  BY <1>1, <1>5, <2>2
<1>. QED  BY <1>5, <1>6 DEF Latest

\* A route has only one last record.
LEMMA LatestIsOne ==
    ASSUME NEW records \in Seq(Records), NEW url, NEW i \in Latest(records, url),
           NEW j \in Latest(records, url), records[i].route.prefix = records[j].route.prefix
    PROVE  i = j
<1>1. /\ i \in DOMAIN records /\ j \in DOMAIN records
      /\ records[i].route.url = url /\ records[j].route.url = url
      /\ j > i => records[j].route # records[i].route
      /\ i > j => records[i].route # records[j].route
  BY DEF Latest
<1>2. i \in Nat /\ j \in Nat /\ records[i] \in Records /\ records[j] \in Records
  BY <1>1
<1>3. records[i].route = records[j].route
  BY <1>1, <1>2 DEF Records
<1>. QED  BY <1>1, <1>2, <1>3

\* The routes of a bucket that stand for a record, with its store.
LEMMA CurrentRoutes ==
    ASSUME NEW records \in Seq(Records), NEW url
    PROVE  /\ \A r \in Current(records, url) : \E j \in Latest(records, url) :
                /\ j \in DOMAIN records /\ records[j].route.url = url
                /\ r.prefix = records[j].route.prefix /\ r.store = records[j].store
                /\ r.prefix \in Seq(STRING) /\ r.store \in Stores
           /\ \A i \in DOMAIN records : records[i].route.url = url =>
                /\ records[i].route.prefix \in Seq(STRING)
                /\ \E r \in Current(records, url) : r.prefix = records[i].route.prefix
<1>1. ASSUME NEW r \in Current(records, url)
      PROVE  \E j \in Latest(records, url) :
                /\ j \in DOMAIN records /\ records[j].route.url = url
                /\ r.prefix = records[j].route.prefix /\ r.store = records[j].store
                /\ r.prefix \in Seq(STRING) /\ r.store \in Stores
  <2>1. PICK j \in Latest(records, url) : r = ObjectStoreRoute(records[j].route.prefix, records[j].store)
    BY <1>1 DEF Current
  <2>2. j \in DOMAIN records /\ records[j].route.url = url
    BY DEF Latest
  <2>3. records[j] \in Records
    BY <2>2
  <2>4. records[j].route.prefix \in Seq(STRING) /\ records[j].store \in Stores
    BY <2>3 DEF Records
  <2>. QED  BY <2>1, <2>2, <2>4 DEF ObjectStoreRoute
<1>2. ASSUME NEW i \in DOMAIN records, records[i].route.url = url
      PROVE  /\ records[i].route.prefix \in Seq(STRING)
             /\ \E r \in Current(records, url) : r.prefix = records[i].route.prefix
  <2>1. PICK j \in Latest(records, url) : records[j].route = records[i].route
    BY <1>2, LatestIsThere
  <2>2. ObjectStoreRoute(records[j].route.prefix, records[j].store) \in Current(records, url)
    BY DEF Current
  <2>3. records[i] \in Records
    OBVIOUS
  <2>4. records[i].route.prefix \in Seq(STRING)
    BY <2>3 DEF Records
  <2>. QED  BY <2>1, <2>2, <2>4 DEF ObjectStoreRoute
<1>. QED  BY <1>1, <1>2

\* The routes of a bucket as they are when the statement runs.
Registered(url) ==
    /\ recorded \in Seq(Records) /\ url \in DOMAIN registry
    /\ \E i \in DOMAIN recorded : recorded[i].route.url = url
    /\ registry[url] \in Seq(Routes(Stores)) /\ Range(registry[url]) = Current(recorded, url)
    /\ LongestFirst(registry[url])

\* The first route that matches is the last store of the innermost table.
LEMMA OwnerIsRoute ==
    ASSUME NEW url, Registered(url), NEW path \in Seq(STRING)
    PROVE  OwnerOf(url, path) = StoreForLocation(registry[url], path)
<1>. DEFINE Covers(i) == /\ recorded[i].route.url = url /\ IsBelow(path, recorded[i].route.prefix)
            covering == {i \in DOMAIN recorded : Covers(i)}
            innermost == {i \in covering : \A j \in covering :
                            Len(recorded[j].route.prefix) <= Len(recorded[i].route.prefix)}
            routes == Current(recorded, url)
            store == StoreForLocation(registry[url], path)
<1>1. OwnerOf(url, path) = IF covering = {} THEN None ELSE recorded[Max(innermost)].store
  BY DEF OwnerOf
<1>2. \/ /\ store = None /\ \A r \in routes : ~PathHasPrefix(path, r.prefix)
      \/ \E r \in routes :
           /\ store = r.store /\ PathHasPrefix(path, r.prefix)
           /\ \A s \in routes : PathHasPrefix(path, s.prefix) => Len(s.prefix) <= Len(r.prefix)
  BY StoreForLocationIsLongest DEF Registered
<1>. HIDE DEF store, routes
<1>3. ASSUME NEW i \in covering
      PROVE  /\ i \in DOMAIN recorded /\ recorded[i].route.url = url
             /\ recorded[i].route.prefix \in Seq(STRING)
             /\ PathHasPrefix(path, recorded[i].route.prefix)
             /\ \E r \in routes : r.prefix = recorded[i].route.prefix
  BY <1>3, CurrentRoutes, IsBelowMeans DEF Registered, routes
<1>4. CASE store = None /\ \A r \in routes : ~PathHasPrefix(path, r.prefix)
  <2>1. covering = {}
    BY <1>3, <1>4
  <2>. QED  BY <1>1, <1>4, <2>1 DEF store
<1>5. ASSUME NEW r \in routes, store = r.store, PathHasPrefix(path, r.prefix),
             \A s \in routes : PathHasPrefix(path, s.prefix) => Len(s.prefix) <= Len(r.prefix)
      PROVE  OwnerOf(url, path) = store
  <2>1. PICK j \in Latest(recorded, url) :
               /\ j \in DOMAIN recorded /\ recorded[j].route.url = url
               /\ r.prefix = recorded[j].route.prefix /\ r.store = recorded[j].store
               /\ r.prefix \in Seq(STRING) /\ r.store \in Stores
    BY CurrentRoutes DEF Registered, routes
  <2>2. j \in covering
    BY <1>5, <2>1, IsBelowMeans
  <2>3. \A k \in covering : Len(recorded[k].route.prefix) <= Len(recorded[j].route.prefix)
    BY <1>3, <1>5, <2>1
  <2>4. j \in innermost
    BY <2>2, <2>3
  <2>5. innermost \subseteq 0..Len(recorded) /\ Len(recorded) \in Nat
    BY DEF Registered
  <2>. DEFINE top == Max(innermost)
  <2>6. top \in innermost /\ \A k \in innermost : k <= top
    <3>. HIDE DEF innermost
    <3>. QED  BY <2>4, <2>5, MaxIsGreatest
  <2>. HIDE DEF top
  <2>7. top \in covering /\ Len(recorded[j].route.prefix) <= Len(recorded[top].route.prefix) /\ j <= top
    BY <2>2, <2>4, <2>6
  <2>8. Len(recorded[top].route.prefix) <= Len(recorded[j].route.prefix)
    BY <2>3, <2>7
  <2>9. /\ top \in DOMAIN recorded /\ recorded[top].route.url = url
        /\ recorded[top].route.prefix \in Seq(STRING) /\ PathHasPrefix(path, recorded[top].route.prefix)
    BY <1>3, <2>7
  <2>10. recorded[top].route.prefix = recorded[j].route.prefix
    <3>. DEFINE p == recorded[top].route.prefix
                q == recorded[j].route.prefix
    <3>1. p \in Seq(STRING) /\ q \in Seq(STRING) /\ PathHasPrefix(path, p) /\ PathHasPrefix(path, q)
      BY <1>5, <2>1, <2>9
    <3>2. Len(p) <= Len(q) /\ Len(q) <= Len(p)
      BY <2>7, <2>8
    <3>. HIDE DEF p, q
    <3>3. Len(p) = Len(q)
      BY <3>1, <3>2
    <3>4. p = q
      BY <3>1, <3>3, SamePrefix
    <3>. QED  BY <3>4 DEF p, q
  <2>11. top = j
    <3>1. recorded[top] \in Records /\ recorded[j] \in Records /\ top \in Nat /\ j \in Nat
      BY <2>1, <2>9 DEF Registered
    <3>2. recorded[top].route = recorded[j].route
      BY <2>1, <2>9, <2>10, <3>1 DEF Records
    <3>3. ~(top > j)
      BY <2>9, <3>2 DEF Latest
    <3>. QED  BY <2>7, <3>1, <3>3
  <2>. QED  BY <1>1, <1>5, <2>1, <2>2, <2>11 DEF top
<1>. QED  BY <1>2, <1>4, <1>5 DEF store

\* A route is where its own prefix goes to.
LEMMA RouteOwnsItsPrefix ==
    ASSUME NEW url, Registered(url), NEW r \in Current(recorded, url)
    PROVE  OwnerOf(url, r.prefix) = r.store
<1>. DEFINE routes == Current(recorded, url)
            store == StoreForLocation(registry[url], r.prefix)
<1>1. PICK j \in Latest(recorded, url) :
        r.prefix = recorded[j].route.prefix /\ r.store = recorded[j].store /\ r.prefix \in Seq(STRING)
  BY CurrentRoutes DEF Registered
<1>2. \/ /\ store = None /\ \A s \in routes : ~PathHasPrefix(r.prefix, s.prefix)
      \/ \E q \in routes :
           /\ store = q.store /\ PathHasPrefix(r.prefix, q.prefix)
           /\ \A s \in routes : PathHasPrefix(r.prefix, s.prefix) => Len(s.prefix) <= Len(q.prefix)
  BY <1>1, StoreForLocationIsLongest DEF Registered
<1>3. OwnerOf(url, r.prefix) = store
  BY <1>1, OwnerIsRoute
<1>. HIDE DEF store
<1>4. PathHasPrefix(r.prefix, r.prefix)
  BY <1>1, PrefixOrder
<1>5. PICK q \in routes :
        /\ store = q.store /\ PathHasPrefix(r.prefix, q.prefix) /\ Len(r.prefix) <= Len(q.prefix)
  BY <1>2, <1>4
<1>6. PICK k \in Latest(recorded, url) :
        q.prefix = recorded[k].route.prefix /\ q.store = recorded[k].store /\ q.prefix \in Seq(STRING)
  BY CurrentRoutes DEF Registered
<1>7. Len(q.prefix) <= Len(r.prefix)
  BY <1>1, <1>5, <1>6, PrefixOrder
<1>8. Len(q.prefix) = Len(r.prefix)
  BY <1>1, <1>5, <1>6, <1>7
<1>9. q.prefix = r.prefix
  BY <1>1, <1>4, <1>5, <1>6, <1>8, SamePrefix
<1>10. j = k
  BY <1>1, <1>6, <1>9, LatestIsOne DEF Registered
<1>. QED  BY <1>1, <1>3, <1>5, <1>6, <1>10

\* The stores below a prefix are those of the routes below it.
LEMMA StoresBelowAre ==
    ASSUME NEW url, Registered(url), NEW prefix \in Seq(STRING)
    PROVE  StoresBelow(url, prefix) =
             {r.store : r \in {r \in Current(recorded, url) : PathHasPrefix(r.prefix, prefix)}}
<1>. DEFINE below == {r \in Current(recorded, url) : PathHasPrefix(r.prefix, prefix)}
            tables == {i \in DOMAIN recorded :
                         recorded[i].route.url = url /\ IsBelow(recorded[i].route.prefix, prefix)}
<1>1. StoresBelow(url, prefix) = {OwnerOf(url, recorded[i].route.prefix) : i \in tables}
  BY DEF StoresBelow
<1>2. ASSUME NEW i \in tables
      PROVE  \E r \in below : OwnerOf(url, recorded[i].route.prefix) = r.store
  <2>1. PICK r \in Current(recorded, url) :
               r.prefix = recorded[i].route.prefix /\ r.prefix \in Seq(STRING)
    BY <1>2, CurrentRoutes DEF Registered
  <2>2. r \in below
    BY <1>2, <2>1, IsBelowMeans
  <2>3. OwnerOf(url, r.prefix) = r.store
    BY RouteOwnsItsPrefix
  <2>. QED  BY <2>1, <2>2, <2>3
<1>3. ASSUME NEW r \in below
      PROVE  \E i \in tables : OwnerOf(url, recorded[i].route.prefix) = r.store
  <2>1. PICK j \in Latest(recorded, url) :
               /\ j \in DOMAIN recorded /\ recorded[j].route.url = url
               /\ r.prefix = recorded[j].route.prefix /\ r.prefix \in Seq(STRING)
    BY <1>3, CurrentRoutes DEF Registered
  <2>2. j \in tables
    BY <1>3, <2>1, IsBelowMeans
  <2>3. OwnerOf(url, r.prefix) = r.store
    BY <1>3, RouteOwnsItsPrefix
  <2>. QED  BY <2>1, <2>2, <2>3
<1>. HIDE DEF below, tables
<1>4. StoresBelow(url, prefix) = {r.store : r \in below}
  BY <1>1, <1>2, <1>3
<1>. QED  BY <1>4 DEF below

\* With the routes as they are recorded, an access goes where it should.
LEMMA AccessIsRouted ==
    ASSUME RouteInv, access # None
    PROVE  RoutedByLongestPrefix
<1>. DEFINE a == access.asked
            url == a.url
            routes == registry[url]
            store == access.store
            owner == OwnerOf(url, a.path)
<1>1. /\ a \in Accesses /\ url \in DOMAIN registry /\ store = Target(routes, a)
      /\ stage = "executing" /\ recorded \in Seq(Records)
  BY DEF RouteInv
<1>2. Registered(url)
  <2>1. /\ routes \in Seq(Routes(Stores)) /\ Range(routes) = Current(recorded, url) /\ LongestFirst(routes)
        /\ url \in {recorded[i].route.url : i \in DOMAIN recorded}
    BY <1>1 DEF RouteInv
  <2>2. \E i \in DOMAIN recorded : recorded[i].route.url = url
    BY <2>1
  <2>. QED  BY <1>1, <2>1, <2>2 DEF Registered
<1>3. /\ a.op \in Listings \cup {"put_opts", "put_multipart_opts", "get_opts", "delete_stream", "copy_opts"}
      /\ a.path = None => a.op \in Listings
      /\ a.path # None => a.path \in Seq(STRING)
      /\ a.op = "copy_opts" => a.to \in Seq(STRING)
  BY <1>1, RouteAssumption
<1>. DEFINE Under(prefix) == {r.store : r \in {r \in Current(recorded, url) : PathHasPrefix(r.prefix, prefix)}}
<1>4. RoutedByLongestPrefix <=>
        CASE a.path = None -> store \in StoresBelow(url, <<>>)
          [] a.op = "copy_opts" ->
               store = IF owner = OwnerOf(url, a.to) THEN owner ELSE None
          [] a.path # None /\ a.op # "copy_opts" /\ owner # None -> store = owner
          [] OTHER -> IF a.op \in Listings /\ StoresBelow(url, a.path) # {}
                      THEN store \in StoresBelow(url, a.path) ELSE store = None
  BY DEF RoutedByLongestPrefix
<1>. HIDE DEF url, routes, store, owner, a
<1>5. CASE a.path = None
  <2>1. store = StoreForPrefix(routes, None)
    BY <1>1, <1>3, <1>5 DEF Target, Listings
  <2>2. routes \in Seq(Routes(Stores)) /\ Range(routes) = Current(recorded, url)
        /\ \E i \in DOMAIN recorded : recorded[i].route.url = url
    BY <1>2 DEF Registered, routes
  <2>3. Current(recorded, url) # {}
    BY <1>1, <2>2, CurrentRoutes
  <2>4. routes # <<>> /\ Len(routes) \in Nat /\ DOMAIN routes = 1..Len(routes)
    BY <2>2, <2>3, EmptySeq DEF Range
  <2>5. routes[1] \in Current(recorded, url)
    <3>1. 1 \in DOMAIN routes
      BY <2>2, <2>4, EmptySeq
    <3>. QED  BY <2>2, <3>1 DEF Range
  <2>6. store = routes[1].store
    BY <2>1, <2>2, <2>4, AnyRouteIsOne
  <2>7. StoresBelow(url, <<>>) = Under(<<>>)
    BY <1>2, EmptySeq, StoresBelowAre
  <2>8. PathHasPrefix(routes[1].prefix, <<>>)
    BY DEF PathHasPrefix
  <2>9. store \in StoresBelow(url, <<>>)
    BY <2>5, <2>6, <2>7, <2>8
  <2>. QED  BY <1>3, <1>4, <1>5, <2>9 DEF Listings
<1>6. CASE a.path # None
  <2>1. a.path \in Seq(STRING)
    BY <1>3, <1>6
  <2>2. owner = StoreForLocation(routes, a.path)
    BY <1>2, <2>1, OwnerIsRoute DEF owner, routes
  <2>3. CASE a.op = "copy_opts"
    <3>1. OwnerOf(url, a.to) = StoreForLocation(routes, a.to)
      BY <1>2, <1>3, <2>3, OwnerIsRoute DEF routes
    <3>2. store = CopyStore(routes, a.path, a.to)
      BY <1>1, <2>3 DEF Target, Listings
    <3>3. store = IF owner = OwnerOf(url, a.to) THEN owner ELSE None
      BY <2>2, <3>1, <3>2 DEF CopyStore
    <3>. QED  BY <1>4, <1>6, <2>3, <3>3
  <2>4. CASE a.op \in {"put_opts", "put_multipart_opts", "get_opts", "delete_stream"}
    <3>1. store = owner /\ a.op \notin Listings
      BY <1>1, <2>2, <2>4 DEF Target, Listings
    <3>. QED  BY <1>4, <1>6, <2>4, <3>1
  <2>5. CASE a.op \in Listings
    <3>1. store = StoreForPrefix(routes, a.path) /\ a.op # "copy_opts"
      BY <1>1, <2>5 DEF Target, Listings
    <3>2. CASE owner # None
      <4>1. store = owner
        BY <1>6, <2>2, <3>1, <3>2 DEF StoreForPrefix
      <4>. QED  BY <1>4, <1>6, <3>1, <3>2, <4>1
    <3>3. CASE owner = None
      <4>1. StoresBelow(url, a.path) = Under(a.path)
        BY <1>2, <2>1, StoresBelowAre
      <4>2. routes \in Seq(Routes(Stores)) /\ Range(routes) = Current(recorded, url)
        BY <1>2 DEF Registered, routes
      <4>3. \/ store = None /\ \A r \in Range(routes) : ~PathHasPrefix(r.prefix, a.path)
            \/ \E r \in Range(routes) : store = r.store /\ PathHasPrefix(r.prefix, a.path)
        BY <1>6, <2>1, <2>2, <3>1, <3>3, <4>2, StoreForPrefixIsBelow
      <4>4. IF StoresBelow(url, a.path) # {} THEN store \in StoresBelow(url, a.path) ELSE store = None
        BY <4>1, <4>2, <4>3
      <4>. QED  BY <1>4, <1>6, <2>5, <3>1, <3>3, <4>4
    <3>. QED  BY <3>2, <3>3
  <2>. QED  BY <1>3, <2>3, <2>4, <2>5
<1>. QED  BY <1>5, <1>6

\* PrefixRoutingObjectStore sends every operation to the store of the innermost
\* table its path is in, with the credentials recorded last, whatever tables a
\* statement names and in whatever order they are looked up.
THEOREM AccessesAreRouted == FairSpec => []RoutedByLongestPrefix
<1>1. ASSUME RouteInv
      PROVE  RoutedByLongestPrefix
  <2>1. CASE access = None
    BY <2>1 DEF RoutedByLongestPrefix
  <2>2. CASE access # None
    BY <1>1, <2>2, AccessIsRouted
  <2>. QED  BY <2>1, <2>2
<1>2. RouteInv => RoutedByLongestPrefix
  BY <1>1
<1>. QED  BY <1>2, RouteInvHolds, PTL

-----------------------------------------------------------------------------
(* Fetching the result *)

\* The rows of a result and of a part of it, as the client sees them.
LEMMA ClientRowsConcat ==
    ASSUME NEW V, NEW s \in Seq(V), NEW t \in Seq(V)
    PROVE  ClientRows(s \o t) = ClientRows(s) \o ClientRows(t) /\ Len(ClientRows(s)) = Len(s)
<1>. DEFINE Shown(row) == [c \in DOMAIN types |->
                IF row[c] = None THEN None ELSE EncodeValue(types[c], row[c]).value]
            both == s \o t
            m == Len(s)
            n == Len(t)
            W == {Shown(s[i]) : i \in 1..m} \cup {Shown(t[i]) : i \in 1..n}
            left == [i \in 1..m |-> Shown(s[i])]
            right == [i \in 1..n |-> Shown(t[i])]
            all == [i \in 1..(m + n) |-> Shown(both[i])]
<1>1. m \in Nat /\ n \in Nat /\ DOMAIN s = 1..m /\ DOMAIN t = 1..n
  OBVIOUS
<1>2. both \in Seq(V) /\ Len(both) = m + n /\ DOMAIN both = 1..(m + n)
      /\ (\A i \in 1..m : both[i] = s[i]) /\ \A i \in (m + 1)..(m + n) : both[i] = t[i - m]
  BY ConcatProperties
<1>. HIDE DEF both
<1>3. ClientRows(s) = left /\ ClientRows(t) = right /\ ClientRows(both) = all
  BY <1>1, <1>2 DEF ClientRows
<1>. HIDE DEF Shown
<1>4. left \in Seq(W) /\ Len(left) = m /\ right \in Seq(W) /\ Len(right) = n
  BY <1>1
<1>5. \A i \in 1..(m + n) : all[i] = IF i <= m THEN left[i] ELSE right[i - m]
  <2>. TAKE i \in 1..(m + n)
  <2>1. CASE i <= m
    <3>1. i \in 1..m
      BY <1>1, <2>1
    <3>. QED  BY <1>2, <2>1, <3>1
  <2>2. CASE ~(i <= m)
    <3>1. i \in (m + 1)..(m + n) /\ i - m \in 1..n
      BY <1>1, <2>2
    <3>2. both[i] = t[i - m]
      BY <1>2, <3>1
    <3>3. right[i - m] = Shown(t[i - m])
      BY <3>1
    <3>. QED  BY <2>2, <3>2, <3>3
  <2>. QED  BY <2>1, <2>2
<1>6. all \in Seq(W) /\ Len(all) = m + n
  <2>1. \A i \in 1..(m + n) : all[i] \in W
    <3>. TAKE i \in 1..(m + n)
    <3>1. i <= m => i \in 1..m /\ left[i] \in W
      BY <1>1
    <3>2. ~(i <= m) => i - m \in 1..n
      BY <1>1
    <3>3. \A j \in 1..n : right[j] \in W
      OBVIOUS
    <3>. HIDE DEF left, right, all, W
    <3>. QED  BY <1>5, <3>1, <3>2, <3>3
  <2>2. all = [i \in 1..(m + n) |-> all[i]] /\ m + n \in Nat
    BY <1>1
  <2>. HIDE DEF all, W
  <2>. QED  BY <2>1, <2>2, IsASeq
<1>. DEFINE joined == left \o right
<1>. HIDE DEF left, right, all, W
<1>7. joined \in Seq(W) /\ Len(joined) = m + n
      /\ \A i \in 1..(m + n) : joined[i] = IF i <= m THEN left[i] ELSE right[i - m]
  <2>. HIDE DEF m, n
  <2>. QED  BY <1>4, ConcatProperties
<1>. HIDE DEF joined
<1>8. \A i \in 1..(m + n) : all[i] = joined[i]
  BY <1>5, <1>7
<1>9. all = joined
  BY <1>6, <1>7, <1>8, SeqEqual
<1>. QED  BY <1>3, <1>4, <1>9 DEF both, joined

\* A page that is sent, and what its client makes of it.
LEMMA PageIsRead ==
    ASSUME TypeInv, stage \in Streamed, NEW offset \in Int, NEW limit \in Nat,
           FetchResponse(Page(batches, offset, limit), types).status = "success"
    PROVE  LET response == FetchResponse(Page(batches, offset, limit), types)
               rows == AllRows(batches)
               first == FirstRow(rows, offset)
               last == LastRow(rows, offset, limit)
           IN /\ rows \in Seq(StreamRows)
              /\ first \in 0..Len(rows) /\ last \in first..Len(rows)
              /\ DecodedRows(response) = ClientRows(SubSeq(rows, first + 1, last))
              /\ response.start = first
              /\ response.has_more_rows = (last < Len(rows))
<1>. DEFINE page == Page(batches, offset, limit)
            response == FetchResponse(page, types)
            rows == AllRows(batches)
            first == FirstRow(rows, offset)
            last == LastRow(rows, offset, limit)
            slice == SubSeq(rows, first + 1, last)
            sent == AllRows(page.batches)
            n == Len(sent)
<1>1. types \in DOMAIN Schemas /\ batches \in Seq(BatchesOf(StreamRows)) /\ RowCount(batches) <= MaxUsize
  BY DEF TypeInv, StreamInv
<1>2. types \in Seq(Range(types)) /\ types # <<>>
  BY <1>1, StreamAssumption
<1>3. DOMAIN types = 1..Len(types) /\ Len(types) \in Nat /\ 1 \in DOMAIN types
  BY <1>2, EmptySeq
<1>4. /\ first \in 0..Len(rows) /\ last \in first..Len(rows) /\ page.batches \in Seq(BatchesOf(StreamRows))
      /\ sent = slice /\ page.start_row_offset = first /\ page.has_more_rows = (last < Len(rows))
  BY <1>1, PageOfRows
<1>5. rows \in Seq(StreamRows)
  BY <1>1, RowsAreCounted
<1>6. sent \in Seq(StreamRows) /\ n \in Nat /\ DOMAIN sent = 1..n
  <2>. HIDE DEF page
  <2>1. sent \in Seq(StreamRows)
    BY <1>4, RowsAreCounted
  <2>. HIDE DEF sent
  <2>. QED  BY <2>1
<1>. DEFINE values == [c \in DOMAIN types |-> [i \in 1..n |-> EncodeValue(types[c], sent[i][c]).value]]
            columns == [c \in DOMAIN types |-> [values |-> [i \in 1..n |-> EncodeValue(types[c], sent[i][c]).value],
                                                nulls |-> NullBitset(page.batches, c)]]
<1>7. response.columns = columns /\ response.start = first /\ response.has_more_rows = (last < Len(rows))
  <2>1. response.status = "success"
    OBVIOUS
  <2>2. FetchResponse(page, types).status = "success"
    BY <2>1
  <2>. HIDE DEF page, rows, first, last
  <2>3. page.batches \in Seq(BatchesOf(StreamRows))
    BY <1>4
  <2>4. /\ FetchResponse(page, types).has_more_rows = page.has_more_rows
        /\ FetchResponse(page, types).start = page.start_row_offset
        /\ FetchResponse(page, types).columns = columns
    BY <1>2, <2>2, <2>3, ColumnsOfPage
  <2>. QED  BY <1>4, <2>4
<1>8. Len(columns[1].values) = n
  <2>. DEFINE v == [i \in 1..n |-> EncodeValue(types[1], sent[i][1]).value]
  <2>1. columns[1].values = v
    BY <1>3
  <2>2. v \in Seq({v[i] : i \in 1..n}) /\ Len(v) = n
    <3>. HIDE DEF sent
    <3>. QED  BY <1>6
  <2>. QED  BY <2>1, <2>2
<1>9. DOMAIN columns = DOMAIN types /\ columns # <<>>
  <2>1. DOMAIN columns = DOMAIN types
    OBVIOUS
  <2>2. DOMAIN << >> = {}
    BY EmptySeq
  <2>. QED  BY <1>3, <2>1, <2>2
<1>10. ASSUME NEW i \in 1..n, NEW c \in DOMAIN types
       PROVE  i - 1 \in columns[c].nulls <=> sent[i][c] = None
  <2>1. columns[c].nulls = {k - 1 : k \in {k \in 1..n : sent[k][c] = None}}
    BY <1>6 DEF NullBitset
  <2>2. \A k \in 1..n : i - 1 = k - 1 => i = k
    BY <1>6
  <2>. HIDE DEF columns
  <2>. QED  BY <2>1, <2>2
<1>11. ASSUME NEW i \in 1..n, NEW c \in DOMAIN types
       PROVE  columns[c].values[i] = EncodeValue(types[c], sent[i][c]).value
  OBVIOUS
<1>12. DecodedRows(response) = [i \in 1..n |-> [c \in DOMAIN types |->
          IF i - 1 \in columns[c].nulls THEN None ELSE columns[c].values[i]]]
  <2>. HIDE DEF columns, response
  <2>. QED  BY <1>7, <1>8, <1>9 DEF DecodedRows
<1>13. ClientRows(sent) = [i \in 1..n |-> [c \in DOMAIN types |->
          IF sent[i][c] = None THEN None ELSE EncodeValue(types[c], sent[i][c]).value]]
  BY <1>6 DEF ClientRows
<1>14. DecodedRows(response) = ClientRows(sent)
  <2>. HIDE DEF columns, response, sent, n
  <2>. QED  BY <1>10, <1>11, <1>12, <1>13
<1>. QED  BY <1>4, <1>5, <1>7, <1>14

\* What a fetch has answered, and what the client that reads on has got.
FetchInv ==
    /\ stage = "fetched" => \E offset \in Offsets, max_rows \in Limits :
         reply = [offset |-> offset, max_rows |-> max_rows,
                  response |-> FetchResponse(RowPage(batches, offset, max_rows), types)]
    /\ stage \notin {"fetching", "delivered", "undeliverable"} => got = <<>>
    /\ stage = "fetching" => Len(got) \in Nat
    /\ PagesCoverResult

\* A page is sent or refused as a whole.
LEMMA SentOrRefused ==
    ASSUME NEW page, NEW schema, FetchResponse(page, schema).status # "error"
    PROVE  FetchResponse(page, schema).status = "success"
BY DEF FetchResponse, FetchFailed

\* The next page has the rows after those the client has.
LEMMA NextPage ==
    ASSUME TypeInv, FetchInv, FetchNext, stage' # "undeliverable"
    PROVE  LET rows == AllRows(batches)
           IN /\ UNCHANGED <<types, batches, reply>>
              /\ stage' \in {"fetching", "delivered"}
              /\ Len(got') \in Nat /\ Len(got') <= Len(rows)
              /\ got' = ClientRows(SubSeq(rows, 1, Len(got')))
              /\ stage' = "fetching" => Len(got') > Len(got)
              /\ stage' = "delivered" => Len(got') = Len(rows)
<1>. DEFINE rows == AllRows(batches)
            n == Len(got)
<1>1. PICK max_rows \in {k \in Limits : RequestedRowLimit(k) > 0} :
        LET response == FetchResponse(RowPage(batches, Len(got), max_rows), types)
        IN /\ got' = IF response.status = "error" THEN got ELSE got \o DecodedRows(response)
           /\ stage' = IF response.status = "error" THEN "undeliverable"
                       ELSE IF response.has_more_rows THEN "fetching" ELSE "delivered"
  BY DEF FetchNext
<1>2. stage \in {"finished", "fetching"} /\ UNCHANGED <<types, batches, reply>>
  BY DEF FetchNext, stream
<1>. DEFINE limit == RequestedRowLimit(max_rows)
            response == FetchResponse(Page(batches, n, limit), types)
            first == FirstRow(rows, n)
            last == LastRow(rows, n, limit)
            done == SubSeq(rows, 1, n)
            next == SubSeq(rows, n + 1, last)
<1>3. /\ got' = IF response.status = "error" THEN got ELSE got \o DecodedRows(response)
      /\ stage' = IF response.status = "error" THEN "undeliverable"
                  ELSE IF response.has_more_rows THEN "fetching" ELSE "delivered"
  BY <1>1 DEF RowPage
<1>4. response.status = "success" /\ got' = got \o DecodedRows(response)
      /\ stage' = IF response.has_more_rows THEN "fetching" ELSE "delivered"
  <2>1. response.status # "error"
    <3>. HIDE DEF response
    <3>. QED  BY <1>3
  <2>2. response.status = "success"
    BY <2>1, SentOrRefused
  <2>. HIDE DEF response
  <2>. QED  BY <1>3, <2>1, <2>2
<1>5. limit \in Nat /\ limit > 0
  <2>1. max_rows = None \/ max_rows \in Int
    BY StreamAssumption
  <2>2. limit \in 0..MaxUsize
    BY <2>1, LimitIsSmall
  <2>. QED  BY <1>1, <2>2, FetchAssumption
<1>6. rows \in Seq(StreamRows) /\ Len(rows) \in Nat
  <2>1. batches \in Seq(BatchesOf(StreamRows))
    BY DEF TypeInv, StreamInv
  <2>. HIDE DEF rows
  <2>2. rows \in Seq(StreamRows)
    BY <2>1, RowsAreCounted DEF rows
  <2>. QED  BY <2>2
<1>7. n \in 0..Len(rows) /\ got = ClientRows(done)
  <2>1. CASE stage = "fetching"
    <3>1. n <= Len(rows) /\ got = ClientRows(done)
      BY <2>1 DEF FetchInv, PagesCoverResult
    <3>2. n \in Nat
      BY <2>1 DEF FetchInv
    <3>. QED  BY <1>6, <3>1, <3>2
  <2>2. CASE stage = "finished"
    <3>1. got = <<>> /\ n = 0
      BY <2>2, EmptySeq DEF FetchInv
    <3>2. done = <<>>
      BY <1>6, <3>1, EmptySeq
    <3>. HIDE DEF done
    <3>3. DOMAIN done = 1..0
      BY <3>2
    <3>. DEFINE shown == ClientRows(done)
    <3>4. shown = [i \in 1..0 |-> shown[i]]
      BY <3>3 DEF ClientRows
    <3>. HIDE DEF shown
    <3>5. shown \in Seq({}) /\ Len(shown) = 0
      BY <3>4
    <3>6. shown = <<>>
      BY <3>5, EmptySeq
    <3>. QED  BY <1>6, <3>1, <3>6 DEF shown
  <2>. QED  BY <1>2, <2>1, <2>2
<1>8. /\ DecodedRows(response) = ClientRows(SubSeq(rows, first + 1, last))
      /\ response.has_more_rows = (last < Len(rows)) /\ last \in first..Len(rows)
  <2>1. stage \in Streamed
    BY <1>2 DEF Streamed
  <2>2. n \in Int
    BY <1>6, <1>7
  <2>. HIDE DEF n, limit
  <2>. QED  BY <1>4, <1>5, <2>1, <2>2, PageIsRead
<1>9. first = n /\ last = Smaller(n + limit, Len(rows))
  <2>. HIDE DEF rows, n, limit
  <2>. QED  BY <1>6, <1>7 DEF FirstRow, LastRow, Smaller
<1>. HIDE DEF rows, n, limit, first, last, response, done, next
<1>10. last \in n..Len(rows) /\ (last < Len(rows) => last > n) /\ (~(last < Len(rows)) => last = Len(rows))
  BY <1>5, <1>6, <1>7, <1>8, <1>9 DEF Smaller
<1>11. done \in Seq(StreamRows) /\ next \in Seq(StreamRows) /\ done \o next = SubSeq(rows, 1, last)
       /\ Len(SubSeq(rows, 1, last)) = last
  <2>1. rows \in Seq(StreamRows) /\ n \in 0..Len(rows) /\ last \in n..Len(rows) /\ last \in 0..Len(rows)
    BY <1>6, <1>7, <1>10
  <2>2. done \in Seq(StreamRows) /\ Len(SubSeq(rows, 1, last)) = last
    <3>1. \A k \in 0..Len(rows) : SubSeq(rows, 1, k) \in Seq(StreamRows) /\ Len(SubSeq(rows, 1, k)) = k
      <4>. TAKE k \in 0..Len(rows)
      <4>1. 0 \in 0..Len(rows) /\ k \in 0..Len(rows) /\ 0 + 1 = 1 /\ k - 0 = k
        BY <1>6
      <4>. QED  BY <2>1, <4>1, Slice
    <3>. QED  BY <2>1, <3>1 DEF done
  <2>3. next \in Seq(StreamRows)
    BY <2>1, Slice DEF next
  <2>4. done \o next = SubSeq(rows, 1, last)
    BY <2>1, ConcatAdjacentSubSeq DEF done, next
  <2>. QED  BY <2>2, <2>3, <2>4
<1>12. got' = ClientRows(SubSeq(rows, 1, last)) /\ Len(got') = last
  <2>1. DecodedRows(response) = ClientRows(next)
    BY <1>8, <1>9 DEF next
  <2>2. got' = ClientRows(done) \o ClientRows(next)
    BY <1>4, <1>7, <2>1
  <2>3. got' = ClientRows(done \o next)
    BY <1>11, <2>2, ClientRowsConcat
  <2>4. \A s \in Seq(StreamRows) : Len(ClientRows(s)) = Len(s)
    BY ClientRowsConcat
  <2>5. SubSeq(rows, 1, last) \in Seq(StreamRows)
    BY <1>11, ConcatProperties
  <2>. QED  BY <1>11, <2>3, <2>4, <2>5
<1>13. stage' = IF last < Len(rows) THEN "fetching" ELSE "delivered"
  BY <1>4, <1>8
<1>14. last <= Len(rows) /\ n \in Nat /\ last \in Nat
  BY <1>6, <1>7, <1>10
<1>. QED  BY <1>2, <1>10, <1>12, <1>13, <1>14 DEF rows, n

\* Every step keeps what the client has.
LEMMA FetchInvStep ==
    ASSUME TypeInv, FetchInv, [Next]_vars
    PROVE  FetchInv'
<1>0. ASSUME stage' \notin {"fetched", "fetching", "delivered", "undeliverable"}, got = <<>>, got' = got
      PROVE  FetchInv'
  BY <1>0 DEF FetchInv, PagesCoverResult
<1>1. ASSUME stage \notin {"fetching", "delivered", "undeliverable"}
      PROVE  got = <<>>
  BY <1>1 DEF FetchInv
<1>2. ASSUME NEW kind, FailWith(kind), stage \in Executing
      PROVE  FetchInv'
  BY <1>0, <1>1, <1>2 DEF FailWith, client, Executing
<1>3. CASE Decode
  <2>1. stage' \in {"exception", "decoded", "malformed"}
    BY <1>3 DEF Decode
  <2>. QED  BY <1>0, <1>1, <1>3, <2>1 DEF Decode, client
<1>4. CASE Submit
  BY <1>0, <1>1, <1>4 DEF Submit, client
<1>5. CASE ShowStatement
  BY <1>0, <1>1, <1>5 DEF ShowStatement, client
<1>6. CASE PlanSql
  <2>1. stage = "submitted" /\ \/ \E kind : FailWith(kind)
                               \/ stage' = "planning" /\ UNCHANGED client
    BY <1>6 DEF PlanSql
  <2>. QED  BY <1>0, <1>1, <1>2, <2>1 DEF client, Executing
<1>7. CASE PlanRefused \/ QueryFails \/ BatchFails \/ Timeout
  BY <1>2, <1>7 DEF PlanRefused, QueryFails, BatchFails, Timeout, Executing
<1>8. CASE Lookup
  <2>1. stage = "planning" /\ (FailWith("Query") \/ (stage' = stage /\ UNCHANGED client))
    BY <1>8 DEF Lookup
  <2>. QED  BY <1>0, <1>1, <1>2, <2>1 DEF client, Executing
<1>9. CASE RegisterObjectStores
  BY <1>0, <1>1, <1>9 DEF RegisterObjectStores, client
<1>10. CASE UseObjectStore
  BY <1>0, <1>1, <1>10 DEF UseObjectStore, client
<1>11. CASE ExecuteStream
  BY <1>0, <1>1, <1>11 DEF ExecuteStream, client
<1>12. CASE NextBatch
  BY <1>0, <1>1, <1>12 DEF NextBatch, client
<1>13. CASE Materialize
  BY <1>0, <1>1, <1>13 DEF Materialize, client
<1>14. CASE EndsElsewhere
  BY <1>0, <1>1, <1>14 DEF EndsElsewhere, client
<1>15. CASE FetchAt
  <2>1. PICK offset \in Offsets, max_rows \in Limits :
          reply' = [offset |-> offset, max_rows |-> max_rows,
                    response |-> FetchResponse(RowPage(batches, offset, max_rows), types)]
    BY <1>15 DEF FetchAt
  <2>2. stage' = "fetched" /\ got = <<>> /\ got' = got /\ UNCHANGED <<types, batches>>
    BY <1>15 DEF FetchAt, stream
  <2>3. FetchResponse(RowPage(batches, offset, max_rows), types)' =
          FetchResponse(RowPage(batches, offset, max_rows), types)
    BY <2>2
  <2>. QED  BY <2>1, <2>2, <2>3 DEF FetchInv, PagesCoverResult
<1>16. CASE GetResultSetMetadata
  BY <1>0, <1>1, <1>16 DEF GetResultSetMetadata
<1>17. CASE FetchNext
  <2>1. CASE stage' = "undeliverable"
    BY <2>1 DEF FetchInv, PagesCoverResult
  <2>2. CASE stage' # "undeliverable"
    <3>. DEFINE rows == AllRows(batches)
    <3>1. /\ UNCHANGED <<types, batches>> /\ stage' \in {"fetching", "delivered"}
          /\ Len(got') \in Nat /\ Len(got') <= Len(rows) /\ got' = ClientRows(SubSeq(rows, 1, Len(got')))
          /\ stage' = "delivered" => Len(got') = Len(rows)
      BY <1>17, <2>2, NextPage
    <3>2. AllRows(batches)' = rows
      BY <3>1 DEF AllRows
    <3>3. ClientRows(SubSeq(AllRows(batches), 1, Len(got)))' = ClientRows(SubSeq(rows, 1, Len(got')))
      BY <3>1, <3>2 DEF ClientRows
    <3>. QED  BY <3>1, <3>2, <3>3 DEF FetchInv, PagesCoverResult
  <2>. QED  BY <2>1, <2>2
<1>18. CASE UNCHANGED vars
  <2>1. UNCHANGED <<stage, types, batches, reply, got>>
    BY <1>18 DEF vars, stream, client
  <2>2. /\ AllRows(batches)' = AllRows(batches)
        /\ ClientRows(SubSeq(AllRows(batches), 1, Len(got)))' = ClientRows(SubSeq(AllRows(batches), 1, Len(got)))
        /\ \A offset, max_rows : FetchResponse(RowPage(batches, offset, max_rows), types)' =
                                   FetchResponse(RowPage(batches, offset, max_rows), types)
    BY <2>1 DEF ClientRows
  <2>. QED  BY <2>1, <2>2 DEF FetchInv, PagesCoverResult
<1>. QED  BY <1>3, <1>4, <1>5, <1>6, <1>7, <1>8, <1>9, <1>10, <1>11, <1>12, <1>13, <1>14, <1>15,
             <1>16, <1>17, <1>18 DEF Next

\* The inductive invariant holds always.
LEMMA FetchInvHolds == FairSpec => [](TypeInv /\ FetchInv)
<1>1. Init => FetchInv
  BY DEF Init, FetchInv, PagesCoverResult
<1>2. TypeInv /\ FetchInv /\ [Next]_vars => FetchInv'
  BY FetchInvStep
<1>. QED  BY <1>1, <1>2, TypeInvHolds, PTL DEF FairSpec

\* InlineResultStore::page and the encoding of a page: whatever the offset, the
\* limit and the batches, a page that is sent decodes to the rows asked for, with
\* their NULLs, and says truly where it begins and whether rows follow.
THEOREM PagesAreSlices == FairSpec => []PageIsSlice
<1>1. ASSUME TypeInv, FetchInv
      PROVE  PageIsSlice
  <2>. SUFFICES ASSUME stage = "fetched", reply.response.status = "success"
                PROVE  LET asked == AskedRows(reply)
                       IN /\ DecodedRows(reply.response) = ClientRows(asked.rows)
                          /\ reply.response.start = asked.before
                          /\ reply.response.has_more_rows <=>
                               asked.before + Len(asked.rows) < Len(AllRows(batches))
    BY DEF PageIsSlice
  <2>1. PICK offset \in Offsets, max_rows \in Limits :
          reply = [offset |-> offset, max_rows |-> max_rows,
                   response |-> FetchResponse(RowPage(batches, offset, max_rows), types)]
    BY <1>1 DEF FetchInv
  <2>. DEFINE limit == RequestedRowLimit(max_rows)
              rows == AllRows(batches)
              first == FirstRow(rows, offset)
              last == LastRow(rows, offset, limit)
              response == FetchResponse(Page(batches, offset, limit), types)
  <2>2. reply.response = response /\ reply.offset = offset /\ reply.max_rows = max_rows
    BY <2>1 DEF RowPage
  <2>3. AskedRows(reply) = [before |-> first, rows |-> SubSeq(rows, first + 1, last)]
    BY <2>2 DEF AskedRows, FirstRow, LastRow
  <2>4. offset \in Int /\ limit \in Nat
    <3>1. max_rows = None \/ max_rows \in Int
      BY StreamAssumption
    <3>2. limit \in 0..MaxUsize
      BY <3>1, LimitIsSmall
    <3>. QED  BY <3>2, StreamAssumption, FetchAssumption
  <2>5. /\ rows \in Seq(StreamRows) /\ first \in 0..Len(rows) /\ last \in first..Len(rows)
        /\ DecodedRows(response) = ClientRows(SubSeq(rows, first + 1, last))
        /\ response.start = first /\ response.has_more_rows = (last < Len(rows))
    <3>1. stage \in Streamed
      BY DEF Streamed
    <3>2. response.status = "success"
      BY <2>2
    <3>. HIDE DEF limit
    <3>. QED  BY <1>1, <2>4, <3>1, <3>2, PageIsRead
  <2>. HIDE DEF rows, first, last, response, limit
  <2>6. Len(SubSeq(rows, first + 1, last)) = last - first
    BY <2>5, Slice
  <2>7. first + Len(SubSeq(rows, first + 1, last)) = last
    BY <2>5, <2>6
  <2>8. AskedRows(reply).before = first /\ AskedRows(reply).rows = SubSeq(rows, first + 1, last)
    <3>. DEFINE slice == SubSeq(rows, first + 1, last)
    <3>1. AskedRows(reply) = [before |-> first, rows |-> slice]
      BY <2>3
    <3>. HIDE DEF slice
    <3>2. AskedRows(reply).before = first /\ AskedRows(reply).rows = slice
      BY <3>1
    <3>. QED  BY <3>2 DEF slice
  <2>9. reply.response.has_more_rows <=>
          AskedRows(reply).before + Len(AskedRows(reply).rows) < Len(rows)
    BY <2>2, <2>5, <2>7, <2>8
  <2>10. /\ DecodedRows(reply.response) = ClientRows(AskedRows(reply).rows)
         /\ reply.response.start = AskedRows(reply).before
    BY <2>2, <2>5, <2>8
  <2>. QED  BY <2>9, <2>10 DEF rows
<1>2. TypeInv /\ FetchInv => PageIsSlice
  BY <1>1
<1>. QED  BY <1>2, FetchInvHolds, PTL

\* A client that asks for the rows after those it has, with pages of any size, gets
\* every row of the result once and in order, and is told that there are no more
\* only when it has them all.
THEOREM PagesCoverTheResult == FairSpec => []PagesCoverResult
<1>1. FetchInv => PagesCoverResult
  BY DEF FetchInv
<1>. QED  BY <1>1, FetchInvHolds, PTL

\* A page that says that there are more rows has brought some.
THEOREM EveryPageProgresses == FairSpec => PagesMakeProgress
<1>1. ASSUME TypeInv, FetchInv, [Next]_vars, ~UNCHANGED vars, stage' = "fetching"
      PROVE  Len(got') > Len(got)
  <2>1. FetchNext
    <3>1. \A kind : FailWith(kind) => stage' = "failed"
      BY DEF FailWith
    <3>2. ~Decode
      BY <1>1 DEF Decode
    <3>3. ~PlanSql
      BY <1>1, <3>1 DEF PlanSql
    <3>4. ~Lookup
      BY <1>1, <3>1 DEF Lookup
    <3>5. ~UseObjectStore /\ ~NextBatch /\ ~RegisterObjectStores
      BY <1>1 DEF UseObjectStore, NextBatch, RegisterObjectStores
    <3>6. ~(PlanRefused \/ QueryFails \/ BatchFails \/ Timeout)
      BY <1>1, <3>1 DEF PlanRefused, QueryFails, BatchFails, Timeout
    <3>7. ~(Submit \/ ShowStatement \/ ExecuteStream \/ Materialize \/ EndsElsewhere
            \/ FetchAt \/ GetResultSetMetadata)
      BY <1>1 DEF Submit, ShowStatement, ExecuteStream, Materialize, EndsElsewhere, FetchAt,
                  GetResultSetMetadata
    <3>. QED  BY <1>1, <3>2, <3>3, <3>4, <3>5, <3>6, <3>7 DEF Next
  <2>. QED  BY <1>1, <2>1, NextPage
<1>2. TypeInv /\ FetchInv /\ [Next]_vars => [stage' = "fetching" => Len(got') > Len(got)]_vars
  BY <1>1
<1>. QED  BY <1>2, FetchInvHolds, PTL DEF FairSpec, PagesMakeProgress
=============================================================================
