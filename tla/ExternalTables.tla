--------------------------- MODULE ExternalTables ---------------------------
(***************************************************************************)
(* What CREATE OR REPLACE TABLE may do to external Delta tables and their  *)
(* Unity registrations, whoever runs it and however it ends                *)
(* (docs/external-writes.md, "Transaction and recovery boundaries").       *)
(*                                                                         *)
(* A location holds nothing, a Delta table nobody has registered, or a     *)
(* registered one.  Data is created only where there is none, registered   *)
(* with the columns it has, and replaced only under a registration that    *)
(* allows it, columns unchanged.                                           *)
(***************************************************************************)
EXTENDS Naturals

CONSTANTS Names, Locations, Schemas, None

VARIABLES
    unity,      \* unity[n]: the registration of table n, or None
    version,    \* version[l]: how many versions the Delta log at l has
    schema      \* schema[l]: the columns of the Delta table at l, or None

tvars == <<unity, version, schema>>

\* replaceable: an EXTERNAL DELTA table without row filter and column masks.
Registrations == [location : Locations, columns : Schemas, replaceable : BOOLEAN]

\* A replaceable registration tells what the Delta log holds.
Matched(n) ==
    LET r == unity[n] IN
    r # None /\ r.replaceable =>
        version[r.location] > 0 /\ schema[r.location] = r.columns

TablesInit ==
    /\ unity \in [Names -> Registrations \cup {None}]
    /\ version \in [Locations -> {0, 1}]
    /\ schema \in [Locations -> Schemas \cup {None}]
    /\ \A l \in Locations : schema[l] = None <=> version[l] = 0
    /\ \A n \in Names : Matched(n)

CreateData(l, c) ==
    /\ version[l] = 0
    /\ version' = [version EXCEPT ![l] = 1]
    /\ schema' = [schema EXCEPT ![l] = c]
    /\ UNCHANGED unity

RegisterData(n, l) ==
    /\ unity[n] = None
    /\ version[l] > 0
    /\ unity' = [unity EXCEPT ![n] = [location |-> l, columns |-> schema[l],
                                      replaceable |-> TRUE]]
    /\ UNCHANGED <<version, schema>>

ReplaceData(n) ==
    /\ unity[n] # None
    /\ unity[n].replaceable
    /\ version' = [version EXCEPT ![unity[n].location] = @ + 1]
    /\ UNCHANGED <<unity, schema>>

TablesNext ==
    \/ \E l \in Locations, c \in Schemas : CreateData(l, c)
    \/ \E n \in Names, l \in Locations : RegisterData(n, l)
    \/ \E n \in Names : ReplaceData(n)

TablesSpec == TablesInit /\ [][TablesNext]_tvars
=============================================================================
