---------------------------- MODULE MCTableCache ----------------------------
(* Small instances of TableCache for TLC. *)
EXTENDS TableCache, TLC

CONSTANTS w1, w2, p1, p2, t1, s1, s2, s3

\* Two spellings of t1 that differ in letter case, or one.
OneTable == ("c.s.t1" :> t1) @@ ("C.S.T1" :> t1)
OneSpelling == ("c.s.t1" :> t1)

\* Credentials that expire within the skew, and that outlive the TTL.
ShortAndLong == {1, 3}
LongLifetime == {3}
\* Credentials that have expired, that expire within the skew, that expire before
\* the TTL, and whose deadline overflows.
MixedLifetimes == {-1, 1, 2, 50}

Symmetry == Permutations(Workers) \cup Permutations(Principals)

\* What the rest of a behaviour depends on: of a slot, who refers to it and what it
\* holds, not where it lies nor what free memory last held; and not a worker's
\* locals that it will overwrite before reading them.  (The comparison of entries adds
\* nothing; it has TLC evaluate the map before it stores a state.)
CacheView ==
    <<clock, version, published, pc, key, loaded, answer, floor,
      entries = [k \in Keys |-> None],
      {<<{k \in Keys : entries[k] = s}, {w \in Workers : held[w] = s},
         state[s], ready[s], owner[s]>> : s \in {s \in Slots : ~Free(s)}},
      [w \in Workers |-> IF pc[w] = "slot" THEN at[w] ELSE None],
      [w \in Workers |-> pc[w] \in {"check", "park", "waiting"} /\ woken[w]]>>
=============================================================================
