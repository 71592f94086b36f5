--------------------------- MODULE SnapshotReads ---------------------------
(***************************************************************************)
(* What HarborSQL's table cache promises to a query, with the cache left   *)
(* out.  A reader asks for one table on behalf of one principal.  Whatever *)
(* slots, waits and loads the implementation uses, the reader either gets  *)
(* nothing (the load failed or the query was dropped) or a snapshot        *)
(*   - of the table it named, opened with its own principal's credentials, *)
(*   - no older than the last invalidation of that table that was complete *)
(*     when the reader began, and no newer than the table itself.          *)
(* Snapshots read before an invalidation may still be used by readers that *)
(* began before it (docs/external-writes.md, "Already-running reads may    *)
(* continue using their old snapshots").                                   *)
(***************************************************************************)
EXTENDS Naturals

CONSTANTS Readers,      \* concurrent lookups
          Principals,   \* bearer tokens, as fingerprints
          Tables,       \* Unity tables
          None          \* no request, or no snapshot yet

VARIABLES
    version,     \* version[t]: the newest committed Delta version of t
    published,   \* published[t]: the version of t at its last invalidation
    want,        \* want[r]: the table and principal r is asking for, if any
    floor,       \* floor[r]: published[want[r].table] when r began
    answer       \* answer[r]: the snapshot r's running lookup has settled on

svars == <<version, published, want, floor, answer>>

Requests == [table : Tables, principal : Principals]

SnapshotInit ==
    /\ version = [t \in Tables |-> 0]
    /\ published = [t \in Tables |-> 0]
    /\ want = [r \in Readers |-> None]
    /\ floor = [r \in Readers |-> 0]
    /\ answer = [r \in Readers |-> None]

\* A writer commits a new version of t.
CommitVersion(t) ==
    /\ version' = [version EXCEPT ![t] = @ + 1]
    /\ UNCHANGED <<published, want, floor, answer>>

\* An invalidation of t completes.
PublishVersion(t) ==
    /\ published' = [published EXCEPT ![t] = version[t]]
    /\ UNCHANGED <<version, want, floor, answer>>

BeginRead(r, q) ==
    /\ want[r] = None
    /\ want' = [want EXCEPT ![r] = q]
    /\ floor' = [floor EXCEPT ![r] = published[q.table]]
    /\ UNCHANGED <<version, published, answer>>

\* The snapshots a running lookup of r may settle on.
Admissible(r, a) ==
    /\ a.table = want[r].table
    /\ a.principal = want[r].principal
    /\ floor[r] <= a.version
    /\ a.version <= version[a.table]

SettleRead(r) ==
    /\ want[r] # None
    /\ answer[r] = None
    /\ answer'[r] # None
    /\ Admissible(r, answer'[r])
    /\ \A o \in Readers \ {r} : answer'[o] = answer[o]
    /\ UNCHANGED <<version, published, want, floor>>

\* A lookup ends; one that has settled on no snapshot failed or was dropped.
EndRead(r) ==
    /\ want[r] # None
    /\ want' = [want EXCEPT ![r] = None]
    /\ floor' = [floor EXCEPT ![r] = 0]
    /\ answer' = [answer EXCEPT ![r] = None]
    /\ UNCHANGED <<version, published>>

SnapshotNext ==
    \/ \E t \in Tables : CommitVersion(t) \/ PublishVersion(t)
    \/ \E r \in Readers, q \in Requests : BeginRead(r, q)
    \/ \E r \in Readers : SettleRead(r) \/ EndRead(r)

SnapshotSpec == SnapshotInit /\ [][SnapshotNext]_svars
=============================================================================
