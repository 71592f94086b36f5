---------------------------- MODULE DisplayValues ----------------------------
(* databricks_display_value of src/thrift/result_encoding.rs: nested values *)
(* as text.                                                                 *)
EXTENDS ResultEncoding, NamePatterns

CONSTANT MaxDate    \* the last day chrono can represent

\* format_date_value, format_timestamp_value
FormatDate(value) == IF value > MaxDate THEN EncodeError ELSE Encoded(<<ToString(value)>>)

Joined(texts) ==
    FlattenSeq([i \in DOMAIN texts |-> IF i = 1 THEN texts[i] ELSE <<",">> \o texts[i]])
Quoted(text) == <<"'">> \o text \o <<"'">>

\* Faulty variant of SortPairs: the entries stay in the order of the map.
KeepsPairs(pairs) == pairs

\* The entries of a map by the text of their keys.
SortPairs(pairs) == StableSort(pairs, LAMBDA p, q : StringBefore(p[1], q[1]))

RECURSIVE DisplayValue(_, _)
DisplayMap(type, value) ==
    LET Key(k) == IF k = None THEN Encoded(<<"null">>)
                  ELSE IF type.of[1].kind \in Strings THEN Encoded(k)
                  ELSE DisplayValue(type.of[1], k)
        keys == Collected([i \in DOMAIN value |-> Key(value[i][1])])
        values == Collected([i \in DOMAIN value |-> DisplayValue(type.of[2], value[i][2])])
        pairs == SortPairs([i \in DOMAIN value |-> <<keys.value[i], values.value[i]>>])
    IN IF ~keys.ok \/ ~values.ok THEN EncodeError
       ELSE Encoded(<<"{">> \o Joined([i \in DOMAIN pairs |->
              Quoted(pairs[i][1]) \o <<":">> \o pairs[i][2]]) \o <<"}">>)

\* Each field by its name; the model has the position for the name.
DisplayStruct(type, value) ==
    LET fields == Collected([i \in DOMAIN value |-> DisplayValue(type.of[i], value[i])])
    IN IF ~fields.ok THEN EncodeError
       ELSE Encoded(<<"{">> \o Joined([i \in DOMAIN value |->
              <<ToString(i), ":">> \o fields.value[i]]) \o <<"}">>)

DisplayList(type, value) ==
    LET elements == Collected([i \in DOMAIN value |-> DisplayValue(type.of[1], value[i])])
    IN IF ~elements.ok THEN EncodeError
       ELSE Encoded(<<"[">> \o Joined(elements.value) \o <<"]">>)

\* A value inside another one, and any nested value, as Databricks shows it.
DisplayValue(type, value) ==
    CASE value = None -> Encoded(<<"null">>)
      [] value # None /\ type.kind \in {"Boolean"} \cup Small32 \cup Floats \cup Decimals ->
           Encoded(<<ToString(value)>>)
      [] value # None /\ type.kind \in Signed64 ->
           IF ValueToI64(type, value).ok THEN Encoded(<<ToString(value)>>) ELSE EncodeError
      [] value # None /\ type.kind \in Strings -> Encoded(Quoted(value))
      [] value # None /\ type.kind \in Dates \cup {"Timestamp"} -> FormatDate(value)
      [] value # None /\ type.kind \in Binaries -> Encoded(<<ToString(value)>>)
      [] value # None /\ type.kind \in Lists -> DisplayList(type, value)
      [] value # None /\ type.kind = "Map" -> DisplayMap(type, value)
      [] value # None /\ type.kind = "Struct" -> DisplayStruct(type, value)
      [] OTHER -> EncodeError
=============================================================================
