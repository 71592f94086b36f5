---------------------------- MODULE ResultEncoding ---------------------------
(***************************************************************************)
(* A page on the wire: src/thrift/result_encoding.rs.  A type is           *)
(* [kind, of], with the types of its elements; a value is None for NULL, a *)
(* Boolean, a number, a sequence (text, list, map entries, fields).  What  *)
(* is written as text is a sequence of words.  How a nested value is       *)
(* written is a parameter: DisplayValues has it as the code does it.       *)
(***************************************************************************)
EXTENDS ResultPages

CONSTANTS
    MaxI64,             \* i64::MAX
    DisplayOf(_, _)     \* type, value |-> databricks_display_value of them

Type(kind, of) == [kind |-> kind, of |-> of]

Signed64 == {"Int64", "UInt8", "UInt16", "UInt32", "UInt64"}
Small32 == {"Int8", "Int16", "Int32"}
Floats == {"Float32", "Float64"}
Strings == {"Utf8", "LargeUtf8", "Utf8View"}
Dates == {"Date32", "Date64"}
Binaries == {"Binary", "LargeBinary", "FixedSizeBinary"}
Decimals == {"Decimal128", "Decimal256"}
Lists == {"List", "LargeList", "FixedSizeList"}
Texts == Strings \cup Dates \cup Decimals \cup Lists \cup {"Timestamp", "Map", "Struct"}

\* column_encoder: how the values of a type are written; None if they cannot be.
ColumnEncoder(type) ==
    CASE type.kind = "Boolean" -> "Bool"
      [] type.kind \in Small32 -> "I32"
      [] type.kind \in Signed64 -> "I64"
      [] type.kind \in Floats -> "F64"
      [] type.kind \in Texts \cup {"ListView", "LargeListView"} -> "String"
      [] type.kind \in Binaries -> "Binary"
      [] OTHER -> None

ColumnEncoders(types) == [i \in DOMAIN types |-> ColumnEncoder(types[i])]

EncodeError == [ok |-> FALSE]
Encoded(value) == [ok |-> TRUE, value |-> value]
\* collect::<Result<Vec<_>>>
Collected(results) ==
    LET all == Vector(results)
    IN IF \E i \in DOMAIN all : ~all[i].ok THEN EncodeError
       ELSE Encoded(Vector([i \in DOMAIN all |-> all[i].value]))

\* arrow_value_to_i64: unsigned values may not fit.
ValueToI64(type, value) ==
    IF type.kind = "UInt64" /\ value > MaxI64 THEN EncodeError ELSE Encoded(value)

\* arrow_value_to_string
ValueToString(type, value) ==
    CASE type.kind \in Strings -> Encoded(value)
      [] type.kind \in Dates \cup {"Timestamp"} -> Encoded(<<ToString(value)>>)
      [] OTHER -> DisplayOf(type, value)

\* The value a column holds where it is NULL.
NullValue(encoder) ==
    CASE encoder = "Bool" -> FALSE
      [] encoder \in {"I32", "I64", "F64"} -> 0
      [] OTHER -> <<>>

EncodeValue(type, value) ==
    LET encoder == ColumnEncoder(type)
    IN CASE value = None -> Encoded(NullValue(encoder))
         [] value # None /\ encoder = "I64" -> ValueToI64(type, value)
         [] value # None /\ encoder = "String" -> ValueToString(type, value)
         [] OTHER -> Encoded(value)

\* Faulty variant of NullBitset: the rows are counted from one in every batch.
BitsetOfBatch(batches, column) ==
    UNION {{i - 1 : i \in {i \in DOMAIN batches[b].rows : batches[b].rows[i][column] = None}} :
             b \in DOMAIN batches}

\* The bits that are set in null_bitset, by their position in the page.
NullBitset(batches, column) ==
    LET rows == AllRows(batches)
    IN {i - 1 : i \in {i \in DOMAIN rows : rows[i][column] = None}}

WriteColumn(page, type, column) ==
    LET rows == AllRows(page.batches)
        values == Collected([i \in DOMAIN rows |-> EncodeValue(type, rows[i][column])])
    IN IF ~values.ok THEN EncodeError
       ELSE Encoded([values |-> values.value, nulls |-> NullBitset(page.batches, column)])

WriteRowSet(page, types) == Collected([c \in DOMAIN types |-> WriteColumn(page, types[c], c)])

\* Faulty variant of FetchFailed: the rows written before the error are sent.
SendsPartialPage(page, types) ==
    LET written == {n \in 0..Len(types) : WriteRowSet(page, SubSeq(types, 1, n)).ok}
    IN [status |-> "error", has_more_rows |-> FALSE,
        columns |-> WriteRowSet(page, SubSeq(types, 1, Max(written))).value]

\* write_fetch_results_response, of a page that cannot be encoded.
FetchFailed(page, types) == [status |-> "error", has_more_rows |-> FALSE, columns |-> None]

\* write_fetch_results_response_struct: nothing is sent before the rows are
\* encoded.
FetchResponse(page, types) ==
    LET columns == WriteRowSet(page, types)
    IN IF \/ \E i \in DOMAIN types : ColumnEncoder(types[i]) = None
          \/ ~columns.ok
       THEN FetchFailed(page, types)
       ELSE [status |-> "success", has_more_rows |-> page.has_more_rows,
             start |-> page.start_row_offset, columns |-> columns.value]

\* write_result_set_metadata_response
MetadataResponse(types) ==
    IF \E i \in DOMAIN types : ColumnEncoder(types[i]) = None
    THEN [status |-> "error", schema |-> None]
    ELSE [status |-> "success", schema |-> ColumnEncoders(types)]
=============================================================================
