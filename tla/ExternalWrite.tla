--------------------------- MODULE ExternalWrite ---------------------------
(***************************************************************************)
(* CREATE OR REPLACE TABLE ... LOCATION ... AS SELECT                      *)
(* (QueryEngine::execute_ctas in src/engine/write.rs): Unity Catalog and   *)
(* the Delta log of the location are two external stores, and the          *)
(* statement reads and writes them one await after another.                *)
(*                                                                         *)
(*   list -> [details ->] credentials -> load -> write -> written -> ok    *)
(*                         (new table)   written -> register -> registered *)
(*                                                                  -> ok  *)
(*                                                                         *)
(* At every await the statement may end early (Fail): an error, the query  *)
(* timeout, a canceled operation, a closed connection.  The request it was *)
(* waiting for may have had its effect unnoticed (written, registered), or *)
(* may have it later (lateWrite, lateRegister).                            *)
(*                                                                         *)
(* Tables are not dropped or altered by others while statements run; an    *)
(* operator may register data that a failed statement left behind.         *)
(***************************************************************************)
EXTENDS Naturals

CONSTANTS
    Writers,     \* concurrent CTAS statements
    Names,       \* full table names, letter case ignored
    Locations,   \* S3 table prefixes, trailing slashes trimmed
    Schemas,     \* column names and types
    None,        \* no registration, no Delta table, no statement
    MaxVersion   \* bound on the versions of a Delta log

Statements == [name : Names, location : Locations, columns : Schemas]
Registrations == [location : Locations, columns : Schemas, replaceable : BOOLEAN]

ASSUME WriteAssumption ==
    /\ None \notin Registrations \cup Schemas \cup Statements
    /\ MaxVersion \in Nat

VARIABLES
    unity,      \* unity[n]: the registration of table n
    version,    \* version[l]: how many versions the Delta log at l has
    schema,     \* schema[l]: the columns of the Delta table at l
    pc,         \* pc[w]: the await writer w comes to next
    stmt,       \* stmt[w]: the parsed Ctas
    existing,   \* existing[w]: whether the listing had the table
    \* History, for the properties only:
    committed,  \* committed[w]: the version w has committed, or 0
    published   \* published[n]: version when n was last invalidated in the cache

stores == <<unity, version, schema>>
wvars == <<pc, stmt, existing, committed, published>>
vars == <<stores, wvars>>

\* The awaits during which InvalidateOnDrop is alive.
Guarded == {"write", "written", "register", "registered"}
Awaits == {"list", "details", "credentials", "load"} \cup Guarded
PCs == Awaits \cup {"idle", "lateWrite", "lateRegister", "ok", "err"}

TypeOK ==
    /\ unity \in [Names -> Registrations \cup {None}]
    /\ version \in [Locations -> Nat]
    /\ schema \in [Locations -> Schemas \cup {None}]
    /\ pc \in [Writers -> PCs]
    /\ stmt \in [Writers -> Statements \cup {None}]
    /\ existing \in [Writers -> BOOLEAN]
    /\ committed \in [Writers -> Nat]
    /\ published \in [Names -> [Locations -> Nat]]

\* Registered tables have their data; orphaned data may be there from before.
Init ==
    /\ unity \in [Names -> Registrations \cup {None}]
    /\ version \in [Locations -> {0, 1}]
    /\ schema \in [Locations -> Schemas \cup {None}]
    /\ \A l \in Locations : schema[l] = None <=> version[l] = 0
    /\ \A n \in Names :
         unity[n] # None /\ unity[n].replaceable =>
             /\ version[unity[n].location] > 0
             /\ schema[unity[n].location] = unity[n].columns
    /\ pc = [w \in Writers |-> "idle"]
    /\ stmt = [w \in Writers |-> None]
    /\ existing = [w \in Writers |-> FALSE]
    /\ committed = [w \in Writers |-> 0]
    /\ published = [n \in Names |-> version]

-----------------------------------------------------------------------------

Goto(w, label) == pc' = [pc EXCEPT ![w] = label]

\* Faulty variant of Leave: an error leaves the cache alone.
LeaveByAnswer(w, label) ==
    /\ Goto(w, label)
    /\ published' = IF pc[w] \in Guarded /\ label = "ok"
                    THEN [published EXCEPT ![stmt[w].name] = version]
                    ELSE published

\* The statement is over: InvalidateOnDrop, if it exists, invalidates the name.
Leave(w, label) ==
    /\ Goto(w, label)
    /\ published' = IF pc[w] \in Guarded
                    THEN [published EXCEPT ![stmt[w].name] = version]
                    ELSE published

\* A parsed statement whose query has been planned.
Begin(w, s) ==
    /\ pc[w] = "idle"
    /\ Goto(w, "list")
    /\ stmt' = [stmt EXCEPT ![w] = s]
    /\ UNCHANGED <<stores, existing, committed, published>>

\* unity.tables: the whole listing, or an error (Fail).
ListTables(w) ==
    LET found == unity[stmt[w].name] # None IN
    /\ pc[w] = "list"
    /\ existing' = [existing EXCEPT ![w] = found]
    /\ Goto(w, IF found THEN "details" ELSE "credentials")
    /\ UNCHANGED <<stores, stmt, committed, published>>

\* validate_existing
ValidateExisting(r, s) ==
    /\ r.replaceable
    /\ r.location = s.location
    /\ r.columns = s.columns

TableDetails(w) ==
    LET r == unity[stmt[w].name] IN
    /\ pc[w] = "details"
    /\ r # None
    /\ IF ValidateExisting(r, stmt[w]) THEN Goto(w, "credentials") ELSE Goto(w, "err")
    /\ UNCHANGED <<stores, stmt, existing, committed, published>>

\* write_credentials of the table, or create_path_credentials of the location:
\* Unity may refuse, or answer with another URL (Fail).
WriteCredentials(w) ==
    /\ pc[w] = "credentials"
    /\ Goto(w, "load")
    /\ UNCHANGED <<stores, stmt, existing, committed, published>>

\* table.load(): a table that is registered must be there, any other must not.
LoadTable(w) ==
    /\ pc[w] = "load"
    /\ IF existing[w] <=> version[stmt[w].location] > 0
       THEN Goto(w, "write") ELSE Goto(w, "err")
    /\ UNCHANGED <<stores, stmt, existing, committed, published>>

\* Faulty variant of SaveModeAllows: the mode is always Overwrite.
SaveModeOverwrite(w) == version[stmt[w].location] < MaxVersion

\* ErrorIfExists writes version 0 of the log if there is none; Overwrite adds a
\* version, and conflicts show as errors (Fail).
SaveModeAllows(w) ==
    /\ existing[w] \/ version[stmt[w].location] = 0
    /\ version[stmt[w].location] < MaxVersion

\* The commit reaches the log.
StoreCommit(w) ==
    /\ SaveModeAllows(w)
    /\ version' = [version EXCEPT ![stmt[w].location] = @ + 1]
    /\ schema' = [schema EXCEPT ![stmt[w].location] = stmt[w].columns]
    /\ UNCHANGED unity

Write(w) ==
    /\ pc[w] = "write"
    /\ StoreCommit(w)
    /\ committed' = [committed EXCEPT ![w] = version[stmt[w].location] + 1]
    /\ Goto(w, "written")
    /\ UNCHANGED <<stmt, existing, published>>

\* The writer learns of its commit: a new table has yet to be registered.
WriteReturns(w) ==
    /\ pc[w] = "written"
    /\ IF existing[w] THEN Leave(w, "ok") ELSE Goto(w, "register") /\ UNCHANGED published
    /\ UNCHANGED <<stores, stmt, existing, committed>>

\* Unity's create table request: an error (Fail) if the name is taken.
StoreRegistration(w) ==
    /\ unity[stmt[w].name] = None
    /\ unity' = [unity EXCEPT ![stmt[w].name] =
                    [location |-> stmt[w].location, columns |-> stmt[w].columns,
                     replaceable |-> TRUE]]
    /\ UNCHANGED <<version, schema>>

\* Faulty variant of CreateExternalTable: a table that is already there will do.
CreateUnlessRegistered(w) ==
    /\ pc[w] = "register"
    /\ StoreRegistration(w) \/ (unity[stmt[w].name] # None /\ UNCHANGED stores)
    /\ Goto(w, "registered")
    /\ UNCHANGED <<stmt, existing, committed, published>>

CreateExternalTable(w) ==
    /\ pc[w] = "register"
    /\ StoreRegistration(w)
    /\ Goto(w, "registered")
    /\ UNCHANGED <<stmt, existing, committed, published>>

CreateReturns(w) ==
    /\ pc[w] = "registered"
    /\ Leave(w, "ok")
    /\ UNCHANGED <<stores, stmt, existing, committed>>

\* An error, a timeout, a dropped future, at any await.  The request under way
\* may be lost, or reach its store later.
Fail(w) ==
    /\ pc[w] \in Awaits
    /\ \/ Leave(w, "err")
       \/ pc[w] = "write" /\ Leave(w, "lateWrite")
       \/ pc[w] = "register" /\ Leave(w, "lateRegister")
    /\ UNCHANGED <<stores, stmt, existing, committed>>

-----------------------------------------------------------------------------

\* Between statements.
Finished(w) ==
    /\ Goto(w, "idle")
    /\ stmt' = [stmt EXCEPT ![w] = None]
    /\ existing' = [existing EXCEPT ![w] = FALSE]
    /\ committed' = [committed EXCEPT ![w] = 0]
    /\ UNCHANGED published

\* The request of a statement that has ended lands, or is lost after all.
LandWrite(w) == pc[w] = "lateWrite" /\ StoreCommit(w) /\ Finished(w)
LandRegistration(w) == pc[w] = "lateRegister" /\ StoreRegistration(w) /\ Finished(w)
Return(w) ==
    /\ pc[w] \in {"ok", "err", "lateWrite", "lateRegister"}
    /\ Finished(w)
    /\ UNCHANGED stores

\* An operator registers data that is there, as it is.
Recover(n, l) ==
    /\ unity[n] = None
    /\ version[l] > 0
    /\ unity' = [unity EXCEPT ![n] = [location |-> l, columns |-> schema[l],
                                      replaceable |-> TRUE]]
    /\ UNCHANGED <<version, schema, wvars>>

Step(w) ==
    \/ ListTables(w) \/ TableDetails(w) \/ WriteCredentials(w) \/ LoadTable(w)
    \/ Write(w) \/ WriteReturns(w) \/ CreateExternalTable(w) \/ CreateReturns(w)
    \/ Fail(w) \/ LandWrite(w) \/ LandRegistration(w) \/ Return(w)

Next ==
    \/ \E w \in Writers, s \in Statements : Begin(w, s)
    \/ \E w \in Writers : Step(w)
    \/ \E n \in Names, l \in Locations : Recover(n, l)

Spec == Init /\ [][Next]_vars

-----------------------------------------------------------------------------
(* Properties *)

Tables == INSTANCE ExternalTables

\* Whatever statements race, fail and land late: data is created only where
\* there is none ("HarborSQL refuses to overwrite an unregistered Delta table"),
\* registered with the columns it has, and replaced only at the location of a
\* replaceable registration, columns unchanged.
ImplementsExternalTables == Tables!TablesSpec

\* A statement that answers success has committed its data, and its name is
\* registered for the location and columns it wrote.
SuccessIsDurable ==
    \A w \in Writers : pc[w] = "ok" =>
        LET r == unity[stmt[w].name] IN
        /\ committed[w] \in 1..version[stmt[w].location]
        /\ r # None
        /\ r.location = stmt[w].location
        /\ r.columns = stmt[w].columns

\* When a statement has ended, by success, error or cancellation, its name has
\* been invalidated since its commit: with SnapshotReads, every lookup that
\* begins now sees that commit.
EndedIsPublished ==
    \A w \in Writers : pc[w] \in {"ok", "err", "lateWrite", "lateRegister"} =>
        committed[w] <= published[stmt[w].name][stmt[w].location]
=============================================================================
