-------------------------------- MODULE Names --------------------------------
(* Names and how they compare: sequences of characters, of which            *)
(* to_ascii_lowercase changes some.                                         *)
EXTENDS RustStd

CONSTANTS
    Small,      \* the characters to_ascii_lowercase changes |-> what they become
    Alphabet    \* the characters in the order strings compare by

LowerChar(c) == IF c \in DOMAIN Small THEN Small[c] ELSE c
Lower(name) == [i \in DOMAIN name |-> LowerChar(name[i])]
SameName(x, y) == Lower(x) = Lower(y)

Rank(c) == CHOOSE i \in DOMAIN Alphabet : Alphabet[i] = c
\* The order of two strings (the Ord of Rust's String).
StringBefore(x, y) ==
    \E k \in 1..Len(y) :
       /\ k <= Len(x) + 1
       /\ \A i \in 1..(k - 1) : x[i] = y[i]
       /\ k <= Len(x) => Rank(x[k]) < Rank(y[k])
=============================================================================
