--------------------------- MODULE MCExternalWrite ---------------------------
(* Small instances of ExternalWrite for TLC. *)
EXTENDS ExternalWrite, TLC

CONSTANTS w1, w2, n1, n2, l1, l2, c1, c2

Symmetry ==
    Permutations(Writers) \cup Permutations(Names) \cup Permutations(Locations)
        \cup Permutations(Schemas)
=============================================================================
