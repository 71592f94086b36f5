--------------------------- MODULE MCThriftService ---------------------------
(* Small instances of ThriftService for TLC. *)
EXTENDS ThriftService, TLC

CONSTANTS r1, r2, sweeper, s1, s2, o1, o2

Symmetry == Permutations(Requests) \cup Permutations(Sessions) \cup Permutations(Operations)

\* What the rest of a behaviour depends on: not the idle time of a session that
\* is not open, nor the age, task and channel of an operation that is over.
ServiceView ==
    <<session, execution, of, issued, gauges, locals,
      [s \in Sessions |-> IF s \in Open THEN idle[s] ELSE 0],
      [o \in Operations |-> IF execution[o] \in Terminal THEN age[o] ELSE 0],
      [o \in Operations |->
         IF \/ execution[o] \in Active \/ Unfinished(o)
            \/ \E p \in Processes : holds[p] = o
         THEN <<task[o], channel[o]>> ELSE None]>>
=============================================================================
