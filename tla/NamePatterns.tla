---------------------------- MODULE NamePatterns ----------------------------
(***************************************************************************)
(* Names and the patterns metadata requests select them with:              *)
(* src/engine/metadata/pattern.rs (SHOW ... LIKE) and the MetadataPattern  *)
(* of src/engine/metadata/mod.rs (GetColumns).  A name or a pattern is a   *)
(* sequence of characters.  A compiled regular expression is a sequence of *)
(* characters, ManyChars for `.*` and OneChar for `.`.                     *)
(***************************************************************************)
EXTENDS Names

ManyChars == ".*"
OneChar == "any"
Wildcards == {"%", "_", "*"}
Escape == "\\"

RECURSIVE IsMatch(_, _)
\* Whether a compiled expression, anchored at both ends, matches a name.
IsMatch(regex, name) ==
    IF regex = <<>> THEN name = <<>>
    ELSE \/ Head(regex) = ManyChars /\ IsMatch(Tail(regex), name)
         \/ /\ name # <<>>
            /\ \/ Head(regex) = ManyChars /\ IsMatch(regex, Tail(name))
               \/ Head(regex) \in {OneChar, Head(name)} /\ IsMatch(Tail(regex), Tail(name))

-----------------------------------------------------------------------------
(* GetColumns: % and * stand for any characters, _ for one, \ escapes. *)

MetadataPatternRegex(pattern) ==
    LET Step(done, c) ==
          CASE done.escaped -> [escaped |-> FALSE, out |-> Append(done.out, c)]
            [] ~done.escaped /\ c = Escape -> [done EXCEPT !.escaped = TRUE]
            [] ~done.escaped /\ c \in {"%", "*"} -> [done EXCEPT !.out = Append(@, ManyChars)]
            [] ~done.escaped /\ c = "_" -> [done EXCEPT !.out = Append(@, OneChar)]
            [] OTHER -> [done EXCEPT !.out = Append(@, c)]
        end == FoldLeft(Step, [escaped |-> FALSE, out |-> <<>>], pattern)
    IN IF end.escaped THEN Append(end.out, Escape) ELSE end.out

MetadataPatternMatches(pattern, name) ==
    \/ pattern \in {None, <<>>}
    \/ IsMatch(MetadataPatternRegex(Lower(pattern)), Lower(name))

\* Whether a character that is not escaped is a wildcard.
ContainsMetadataWildcard(value) ==
    LET Step(done, c) ==
          IF done.escaped THEN [done EXCEPT !.escaped = FALSE]
          ELSE [escaped |-> c = Escape, found |-> done.found \/ c \in Wildcards]
    IN FoldLeft(Step, [escaped |-> FALSE, found |-> FALSE], value).found

\* Faulty variant of StripMetadataEscapes: it drops every backslash, an escaped
\* one and one at the end included.
DropsEscapes(value) == SelectSeq(value, LAMBDA c : c # Escape)

\* The name a value without wildcards spells.
StripMetadataEscapes(value) ==
    LET Step(done, c) ==
          IF ~done.escaped /\ c = Escape THEN [done EXCEPT !.escaped = TRUE]
          ELSE [escaped |-> FALSE, out |-> Append(done.out, c)]
        end == FoldLeft(Step, [escaped |-> FALSE, out |-> <<>>], value)
    IN IF end.escaped THEN Append(end.out, Escape) ELSE end.out

-----------------------------------------------------------------------------
(* SHOW: * stands for any characters, anything else is the text of a       *)
(* regular expression, of which the model has `.` and alternatives `|`.    *)

Trim(text) ==
    LET kept == {i \in DOMAIN text : text[i] # " "}
    IN IF kept = {} THEN <<>> ELSE SubSeq(text, Min(kept), Max(kept))

\* ShowPattern::new accepts it.
ShowPatternIsValid(pattern) == pattern = None \/ Trim(pattern) # <<>>

DatabricksShowRegex(alternative) ==
    [i \in DOMAIN alternative |->
       CASE alternative[i] = "*" -> ManyChars
         [] alternative[i] = "." -> OneChar
         [] OTHER -> alternative[i]]

\* The alternatives of a pattern, the stretches between its bars.
Alternatives(pattern) ==
    LET bars == {0, Len(pattern) + 1} \cup {i \in DOMAIN pattern : pattern[i] = "|"}
    IN {SubSeq(pattern, i + 1, (CHOOSE j \in bars : j > i /\ \A k \in bars : k > i => j <= k) - 1) :
          i \in bars \ {Len(pattern) + 1}}

ShowPatternMatches(pattern, name) ==
    \/ pattern = None
    \/ \E alternative \in Alternatives(Lower(Trim(pattern))) :
          IsMatch(DatabricksShowRegex(alternative), Lower(name))
=============================================================================
