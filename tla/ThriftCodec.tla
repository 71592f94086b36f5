----------------------------- MODULE ThriftCodec -----------------------------
(***************************************************************************)
(* The Thrift messages a client sends: the Reader of src/thrift/codec.rs   *)
(* and the read_* functions of src/thrift.rs.  The bytes of a payload are  *)
(* a sequence of items: a field header [type, id], the type "stop", the    *)
(* header of a container [elements, size], or a scalar.  A reader takes    *)
(* items from the front and returns what is left.                          *)
(***************************************************************************)
EXTENDS RustStd

CONSTANTS
    MaxSkipDepth,           \* MAX_SKIP_DEPTH
    MaxContainerElements    \* MAX_CONTAINER_ELEMENTS

Scalars == {"bool", "byte", "i16", "i32", "i64", "double", "string"}
ValidFieldTypes == Scalars \cup {"struct", "map", "list", "set"}

ReadError == [ok |-> FALSE]
ReadOk(value, rest) == [ok |-> TRUE, value |-> value, rest |-> rest]

\* The next item, if the message has one.
ReadItem(items) == IF items = <<>> THEN ReadError ELSE ReadOk(Head(items), Tail(items))

\* read_field_begin: the header of a field, or stop.
ReadFieldBegin(items) ==
    IF items = <<>> \/ Head(items).type \notin ValidFieldTypes \cup {"stop"}
    THEN ReadError ELSE ReadItem(items)

\* Faulty variant of CheckDepth: one level too many.
CheckDepthLate(depth) == depth <= MaxSkipDepth + 1

CheckDepth(depth) == depth <= MaxSkipDepth

\* The header of a container whose elements are skipped.
ReadContainerBegin(items) ==
    LET header == ReadItem(items)
    IN IF \/ ~header.ok
          \/ \E i \in DOMAIN header.value.elements : header.value.elements[i] \notin ValidFieldTypes
          \/ header.value.size \notin 0..MaxContainerElements
       THEN ReadError ELSE header

RECURSIVE SkipAtDepth(_, _, _), SkipAll(_, _, _), SkipFields(_, _)
SkipAtDepth(items, type, depth) ==
    LET header == ReadContainerBegin(items)
        Elements(n) == FlattenSeq([i \in 1..n |-> header.value.elements])
    IN CASE ~CheckDepth(depth) \/ type \notin ValidFieldTypes -> ReadError
         [] CheckDepth(depth) /\ type \in Scalars -> ReadItem(items)
         [] CheckDepth(depth) /\ type = "struct" -> SkipFields(items, depth + 1)
         [] CheckDepth(depth) /\ type \in {"map", "list", "set"} ->
              IF ~header.ok THEN ReadError
              ELSE SkipAll(header.rest, Elements(header.value.size), depth + 1)

\* Values of the given types, one after the other.
SkipAll(items, types, depth) ==
    IF types = <<>> THEN ReadOk(None, items)
    ELSE LET first == SkipAtDepth(items, Head(types), depth)
         IN IF first.ok THEN SkipAll(first.rest, Tail(types), depth) ELSE ReadError

\* skip_remaining_struct_fields_at_depth
SkipFields(items, depth) ==
    LET field == ReadFieldBegin(items)
        value == SkipAtDepth(field.rest, field.value.type, depth + 1)
    IN IF ~CheckDepth(depth) \/ ~field.ok THEN ReadError
       ELSE IF field.value.type = "stop" THEN ReadOk(None, field.rest)
       ELSE IF value.ok THEN SkipFields(value.rest, depth) ELSE ReadError

\* A list of i32, whose size only the message bounds; other elements are skipped.
ReadI32List(items) ==
    LET header == ReadItem(items)
        n == header.value.size
        skipped == SkipAll(header.rest, [i \in 1..n |-> header.value.elements[1]], 0)
    IN IF ~header.ok \/ n < 0 THEN ReadError
       ELSE IF header.value.elements # <<"i32">> THEN
              IF skipped.ok THEN ReadOk(<<>>, skipped.rest) ELSE ReadError
       ELSE IF Len(header.rest) < n THEN ReadError
       ELSE ReadOk([i \in 1..n |-> header.rest[i].of], SubSeq(header.rest, n + 1, Len(header.rest)))

-----------------------------------------------------------------------------
(* The structs, each the fields its reader knows: their number, their type *)
(* and the reader of their value.                                          *)

Known(id, type, reader) == [id |-> id, type |-> type, reader |-> reader]
Text(id) == Known(id, "string", "text")

HandleIdentifier == [guid |-> Known(1, "string", "scalar"), secret |-> Known(2, "string", "scalar")]
SessionHandle == [identifier |-> Known(1, "struct", "handle_identifier")]
OperationHandle == [identifier |-> Known(1, "struct", "handle_identifier")]
Namespace == [catalog |-> Text(1), schema |-> Text(2)]

OpenSessionReq == [get_info_types |-> Known(1281, "list", "i32_list"),
                   namespace |-> Known(1284, "struct", "namespace")]
CloseSessionReq == [session_handle |-> Known(1, "struct", "session_handle")]
GetInfoReq == [session_handle |-> Known(1, "struct", "session_handle"),
               info_type |-> Known(2, "i32", "scalar")]
GetColumnsReq == [session_handle |-> Known(1, "struct", "session_handle"),
                  catalog_name |-> Text(2), schema_name |-> Text(3), table_name |-> Text(4),
                  column_name |-> Text(5)]
ExecuteStatementReq == [session_handle |-> Known(1, "struct", "session_handle"),
                        statement |-> Text(2)]
OperationReq == [operation_handle |-> Known(1, "struct", "operation_handle")]
FetchResultsReq == [operation_handle |-> Known(1, "struct", "operation_handle"),
                    max_rows |-> Known(3, "i64", "scalar"),
                    start_row_offset |-> Known(1282, "i64", "scalar")]

Fields(reader) ==
    CASE reader = "handle_identifier" -> HandleIdentifier
      [] reader = "session_handle" -> SessionHandle
      [] reader = "operation_handle" -> OperationHandle
      [] reader = "namespace" -> Namespace
      [] reader = "OpenSession" -> OpenSessionReq
      [] reader = "CloseSession" -> CloseSessionReq
      [] reader = "GetInfo" -> GetInfoReq
      [] reader = "GetColumns" -> GetColumnsReq
      [] reader = "ExecuteStatement" -> ExecuteStatementReq
      [] reader = "FetchResults" -> FetchResultsReq
      [] reader \in {"GetOperationStatus", "GetQueryId", "CloseOperation", "CancelOperation",
                     "GetResultSetMetadata"} -> OperationReq

\* What a reader makes of its fields when the struct is over: a handle needs a
\* guid and a secret of 16 bytes, and what was not sent may have a default.
Finish(reader, read) ==
    CASE reader = "handle_identifier" ->
           IF read.guid # None /\ read.guid.bytes = 16 /\ read.secret # None /\ read.secret.bytes = 16
           THEN read ELSE None
      [] reader \in {"session_handle", "operation_handle"} -> read.identifier
      [] reader = "OpenSession" ->
           IF read.get_info_types = None THEN [read EXCEPT !.get_info_types = <<>>] ELSE read
      [] reader = "GetInfo" ->
           IF read.info_type = None THEN [read EXCEPT !.info_type = "CLI_DBMS_NAME"] ELSE read
      [] OTHER -> read

Knows(reader, name, header) ==
    Fields(reader)[name].id = header.id /\ Fields(reader)[name].type = header.type

RECURSIVE ReadFields(_, _, _)
\* The loop of every read_* function: a field it knows is read, any other skipped.
ReadFields(items, reader, read) ==
    LET field == ReadFieldBegin(items)
        known == {name \in DOMAIN Fields(reader) : Knows(reader, name, field.value)}
        name == CHOOSE n \in known : TRUE
        how == Fields(reader)[name].reader
        nested == ReadFields(field.rest, how, [n \in DOMAIN Fields(how) |-> None])
        scalar == ReadItem(field.rest)
        value == CASE known = {} -> SkipAtDepth(field.rest, field.value.type, 0)
                   [] known # {} /\ how \in {"scalar", "text"} ->
                        IF ~scalar.ok \/ (how = "text" /\ ~scalar.value.of.utf8) THEN ReadError
                        ELSE ReadOk(scalar.value.of, scalar.rest)
                   [] known # {} /\ how = "i32_list" -> ReadI32List(field.rest)
                   [] OTHER -> nested
    IN IF ~field.ok THEN ReadError
       ELSE IF field.value.type = "stop" THEN ReadOk(Finish(reader, read), field.rest)
       ELSE IF ~value.ok THEN ReadError
       ELSE ReadFields(value.rest, reader,
                       IF known = {} THEN read ELSE [read EXCEPT ![name] = value.value])

RECURSIVE ReadArgs(_, _)
\* read_args: the request is field 1 of the arguments, the fields after it are
\* skipped.
ReadArgs(items, method) ==
    LET field == ReadFieldBegin(items)
        request == ReadFields(field.rest, method, [n \in DOMAIN Fields(method) |-> None])
        after == SkipFields(request.rest, 0)
        skipped == SkipAtDepth(field.rest, field.value.type, 0)
    IN IF ~field.ok \/ field.value.type = "stop" THEN ReadError
       ELSE IF field.value.id = 1 /\ field.value.type = "struct" THEN
              IF \/ ~request.ok \/ ~after.ok
                 \/ method = "ExecuteStatement" /\ request.value.statement = None
              THEN ReadError ELSE ReadOk(request.value, after.rest)
       ELSE IF skipped.ok THEN ReadArgs(skipped.rest, method) ELSE ReadError

\* decode_message, and the reader of the method called.
DecodeMessage(message, payload) ==
    IF ~message.strict THEN ReadError ELSE ReadArgs(payload, message.name)
=============================================================================
