------------------------------- MODULE RustStd -------------------------------
(* What the modules take from Rust's standard library. *)
EXTENDS Naturals, SequencesExt

CONSTANT None   \* Option::None

\* Iterator::collect into a vector: the elements are computed, once.
Vector(elements) == <<>> \o elements

\* Vec::retain: the elements at some of the places, in their order.
Retained(seq, kept) ==
    [k \in 1..Cardinality(kept) |->
       seq[CHOOSE i \in kept : k - 1 = Cardinality({j \in kept : j < i})]]

\* Iterator::filter, the places that pass computed once.
Filtered(seq, Test(_)) ==
    LET At[kept \in SUBSET DOMAIN seq] == Vector(Retained(seq, kept))
    IN At[{i \in DOMAIN seq : Test(seq[i])}]

\* slice::sort_by: each element goes after those before it, equals keep their
\* order.
StableSort(seq, Before(_, _)) ==
    [k \in DOMAIN seq |->
       seq[CHOOSE i \in DOMAIN seq :
             k - 1 = Cardinality({j \in DOMAIN seq :
                       \/ Before(seq[j], seq[i])
                       \/ ~Before(seq[i], seq[j]) /\ j < i})]]
=============================================================================
