--------------------------- MODULE WrittenMessages ---------------------------
(***************************************************************************)
(* The reference of ThriftCodec: a message as its client wrote it, a tree, *)
(* and the request that the tree means.  A value is [is |-> "scalar", of], *)
(* [is |-> "struct", fields] with fields [type, id, value], or             *)
(* [is |-> "container", elements, size, values].                           *)
(***************************************************************************)
EXTENDS ThriftCodec

RECURSIVE Written(_), WrittenFields(_)
\* The items of a value, and of the fields of a struct.
Written(value) ==
    CASE value.is = "scalar" -> <<[of |-> value.of]>>
      [] value.is = "struct" -> WrittenFields(value.fields)
      [] value.is = "container" ->
           <<[elements |-> value.elements, size |-> value.size]>>
           \o FlattenSeq([i \in DOMAIN value.values |-> Written(value.values[i])])

WrittenFields(fields) ==
    FlattenSeq([i \in DOMAIN fields |->
                  <<[type |-> fields[i].type, id |-> fields[i].id]>> \o Written(fields[i].value)])
    \o <<[type |-> "stop"]>>

\* What has arrived of a message: all but the items that are missing at its end.
Payload(message) ==
    LET written == WrittenFields(message.args)
    IN SubSeq(written, 1, Len(written) - message.missing)

Within(value) ==
    CASE value.is = "scalar" -> <<>>
      [] value.is = "struct" -> [i \in DOMAIN value.fields |-> value.fields[i].value]
      [] value.is = "container" -> value.values

RECURSIVE Height(_)
\* How deep a value goes; a struct counts twice, as itself and as its fields.
Height(value) ==
    LET own == IF value.is = "struct" THEN 1 ELSE 0
        inner == {own + 1 + Height(Within(value)[i]) : i \in DOMAIN Within(value)}
    IN Max(inner \cup {own})

RECURSIVE IsSound(_)
\* Types that exist, and containers of a size that is allowed and is theirs.
IsSound(value) ==
    /\ value.is = "struct" =>
         \A i \in DOMAIN value.fields : value.fields[i].type \in ValidFieldTypes
    /\ value.is = "container" =>
         /\ ToSet(value.elements) \subseteq ValidFieldTypes
         /\ value.size \in 0..MaxContainerElements
    /\ \A i \in DOMAIN Within(value) : IsSound(Within(value)[i])

Ignorable(value, depth) == IsSound(value) /\ depth + Height(value) <= MaxSkipDepth

\* The fields with the number and the type a reader knows.
Expected(fields, known) ==
    {i \in DOMAIN fields : fields[i].id = known.id /\ fields[i].type = known.type}

RECURSIVE IsReadable(_, _), Meaning(_, _)
\* A reader takes a value: what it knows is well formed, the rest can be skipped.
IsReadable(value, reader) ==
    CASE reader = "scalar" -> TRUE
      [] reader = "text" -> value.of.utf8
      [] reader = "i32_list" ->
           /\ value.size >= 0
           /\ value.elements # <<"i32">> =>
                \A i \in DOMAIN value.values : /\ value.elements[1] \in ValidFieldTypes
                                               /\ Ignorable(value.values[i], 0)
      [] OTHER ->
           \A i \in DOMAIN value.fields :
             LET by == {name \in DOMAIN Fields(reader) :
                          i \in Expected(value.fields, Fields(reader)[name])}
             IN /\ value.fields[i].type \in ValidFieldTypes
                /\ by = {} => Ignorable(value.fields[i].value, 0)
                /\ \A name \in by : IsReadable(value.fields[i].value, Fields(reader)[name].reader)

\* The last of the fields with a number and type counts.
Meaning(value, reader) ==
    CASE reader \in {"scalar", "text"} -> value.of
      [] reader = "i32_list" ->
           IF value.elements = <<"i32">> THEN [i \in DOMAIN value.values |-> value.values[i].of]
           ELSE <<>>
      [] OTHER ->
           Finish(reader,
                  [name \in DOMAIN Fields(reader) |->
                     LET sent == Expected(value.fields, Fields(reader)[name])
                     IN IF sent = {} THEN None
                        ELSE Meaning(value.fields[Max(sent)].value, Fields(reader)[name].reader)])

\* The arguments of a call: the first struct numbered 1 is the request.
RequestOf(args) ==
    LET requests == Expected(args, [id |-> 1, type |-> "struct"])
    IN IF requests = {} THEN 0 ELSE Min(requests)

IsWellFormed(args, method) ==
    LET at == RequestOf(args)
    IN /\ at # 0
       /\ \A i \in DOMAIN args : args[i].type \in ValidFieldTypes
       /\ \A i \in 1..(at - 1) : Ignorable(args[i].value, 0)
       /\ IsReadable(args[at].value, method)
       /\ \A i \in (at + 1)..Len(args) : Ignorable(args[i].value, 1)
       /\ method = "ExecuteStatement" => Meaning(args[at].value, method).statement # None
=============================================================================
