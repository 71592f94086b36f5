----------------------------- MODULE TableCache -----------------------------
(***************************************************************************)
(* The token-scoped cache of opened Delta tables (src/table_cache.rs) and  *)
(* the load it wraps (load_cached_table in src/engine/catalog.rs).         *)
(*                                                                         *)
(* Each worker is one get_or_load call of a running query.  Its program    *)
(* counter stops wherever another thread can get in between two lock       *)
(* regions, and at the awaits (waiting for a notification, loading), where *)
(* the future may be dropped: the query timeout, an aborted operation task *)
(* or a disconnected client drop it there and nowhere else.                *)
(*                                                                         *)
(*   idle -> slot -> arm -> check -> done                      (hit)       *)
(*                           check -> park -> waiting -> slot  (coalesce)  *)
(*                           check -> load -> loaded -> [remove ->] notify *)
(*                                                    -> done  (load)      *)
(*           slot -> direct -> done                      (cache full, off) *)
(*                                                                         *)
(* An Arc<EntrySlot> is a member of Slots; a slot that neither the map nor *)
(* a worker refers to is free memory, and allocation may return it.  The   *)
(* AWS region of a key is the server's single configured region and is     *)
(* left out of Keys.                                                       *)
(***************************************************************************)
EXTENDS Integers, FiniteSets

CONSTANTS
    Workers,        \* concurrent get_or_load calls
    Principals,     \* bearer tokens, as fingerprints
    Names,          \* spellings of full table names
    Tables,         \* Unity tables
    TableOf,        \* TableOf[n]: the table n names, letter case ignored
    Slots,          \* memory for EntrySlots
    None,           \* no slot, key, table
    MaxEntries,     \* HARBORSQL_TABLE_CACHE_MAX_ENTRIES
    Ttl,            \* HARBORSQL_TABLE_CACHE_TTL_SECONDS
    Skew,           \* HARBORSQL_TABLE_CACHE_CREDENTIAL_EXPIRY_SKEW_SECONDS
    Lifetimes,      \* remaining lifetimes Unity may give credentials
    MaxInstant,     \* the largest Instant; adding past it overflows
    Written,        \* tables that CREATE TABLE AS SELECT replaces
    MaxVersion,     \* bound on commits per table
    MaxClock,       \* bound on the clock
    Abandonment     \* whether lookups are dropped at an await

Keys == [principal : Principals, name : Names]

\* CachedTable.  credExp and since (when the entry was published) are history.
CachedTables == [table : Tables, principal : Principals, version : Nat,
                 expires : 0..MaxInstant, credExp : Int, since : Int]

ASSUME CacheAssumption ==
    /\ TableOf \in [Names -> Tables]
    /\ Written \subseteq Tables
    /\ None \notin Slots \cup Keys \cup CachedTables
    /\ IsFiniteSet(Keys)
    /\ MaxEntries \in Nat /\ Ttl \in Nat /\ Skew \in Nat
    /\ Lifetimes \subseteq Int
    /\ MaxInstant \in Nat /\ MaxVersion \in Nat /\ MaxClock \in Nat
    /\ MaxClock <= MaxInstant
    /\ Abandonment \in BOOLEAN

\* No request is None.
ASSUME RequestAssumption == None \notin [table : Tables, principal : Principals]

VARIABLES
    clock,      \* Instant::now()
    version,    \* version[t]: the newest committed Delta version of t
    entries,    \* entries[k]: the slot of key k in TableCacheInner::entries
    state,      \* state[s]: EntrySlot::state of slot s
    ready,      \* ready[s]: the CachedTable of a "ready" slot
    pc,         \* pc[w]: where worker w's get_or_load stands
    key,        \* key[w]: the TableCacheKey w looks up
    at,         \* at[w]: the Instant w passed to slot_for_key
    held,       \* held[w]: the Arc<EntrySlot> w holds
    woken,      \* woken[w]: w's Notified future has been notified
    loaded,     \* loaded[w]: the CachedTable w's load has opened
    answer,     \* answer[w]: what w returns
    \* History, for the properties only:
    published,  \* published[t]: version[t] when t was last invalidated
    floor,      \* floor[w]: published[t] when w's lookup of t began
    owner       \* owner[s]: the key slot s was allocated for

wvars == <<pc, key, at, held, woken, loaded, answer, floor>>
svars == <<entries, state, ready, owner>>
vars == <<clock, version, published, svars, wvars>>

PCs == {"idle", "slot", "arm", "check", "park", "waiting", "load", "loaded",
        "remove", "notify", "direct", "done"}

TypeOK ==
    /\ clock \in 0..MaxClock
    /\ version \in [Tables -> Nat]
    /\ published \in [Tables -> Nat]
    /\ entries \in [Keys -> Slots \cup {None}]
    /\ state \in [Slots -> {"empty", "loading", "ready"}]
    /\ ready \in [Slots -> CachedTables \cup {None}]
    /\ owner \in [Slots -> Keys \cup {None}]
    /\ pc \in [Workers -> PCs]
    /\ key \in [Workers -> Keys \cup {None}]
    /\ at \in [Workers -> 0..MaxClock]
    /\ held \in [Workers -> Slots \cup {None}]
    /\ woken \in [Workers -> BOOLEAN]
    /\ loaded \in [Workers -> CachedTables \cup {None}]
    /\ answer \in [Workers -> CachedTables \cup {None}]
    /\ floor \in [Workers -> Nat]

Init ==
    /\ clock = 0
    /\ version = [t \in Tables |-> 0]
    /\ published = [t \in Tables |-> 0]
    /\ entries = [k \in Keys |-> None]
    /\ state = [s \in Slots |-> "empty"]
    /\ ready = [s \in Slots |-> None]
    /\ owner = [s \in Slots |-> None]
    /\ pc = [w \in Workers |-> "idle"]
    /\ key = [w \in Workers |-> None]
    /\ at = [w \in Workers |-> 0]
    /\ held = [w \in Workers |-> None]
    /\ woken = [w \in Workers |-> FALSE]
    /\ loaded = [w \in Workers |-> None]
    /\ answer = [w \in Workers |-> None]
    /\ floor = [w \in Workers |-> 0]

-----------------------------------------------------------------------------
(* Expiry arithmetic *)

\* Faulty variant of CheckedDeadline: the addition is not checked.
UncheckedDeadline(now, duration) == now + duration

\* checked_deadline: an overflowing Instant falls back to now.
CheckedDeadline(now, duration) ==
    IF now + duration > MaxInstant THEN now ELSE now + duration

SaturatingSub(a, b) == IF a > b THEN a - b ELSE 0

\* expires_at_from_unity_expiration_ms: what is left of the credentials'
\* lifetime, less the safety skew.
ExpiresAt(now, credExp) ==
    CheckedDeadline(now, SaturatingSub(SaturatingSub(credExp, now), Skew))

\* Faulty variant of CapExpiresAt: the TTL replaces the credentials' expiry.
CapExpiresAtTtlOnly(c, now) ==
    [c EXCEPT !.expires = CheckedDeadline(now, Ttl), !.since = now]

\* CachedTable::cap_expires_at.
CapExpiresAt(c, now) ==
    LET deadline == CheckedDeadline(now, Ttl) IN
    [table |-> c.table, principal |-> c.principal, version |-> c.version,
     expires |-> IF c.expires < deadline THEN c.expires ELSE deadline,
     credExp |-> c.credExp, since |-> now]

IsExpired(c, now) == c.expires <= now

IsEnabled == MaxEntries > 0 /\ Ttl > 0

-----------------------------------------------------------------------------
(* The entry map *)

Prunable(s, now) ==
    \/ state[s] = "empty"
    \/ state[s] = "ready" /\ IsExpired(ready[s], now)

\* prune_expired_entries: loading slots stay.
Pruned(now) ==
    [k \in Keys |-> IF entries[k] # None /\ Prunable(entries[k], now)
                    THEN None ELSE entries[k]]

Live(map) == {k \in Keys : map[k] # None}

Free(s) ==
    /\ \A k \in Keys : entries[k] # s
    /\ \A w \in Workers : held[w] # s

\* Arc::new: which free memory it takes makes no difference.
NewSlot == CHOOSE s \in Slots : Free(s)

CacheKey(p, n) == [principal |-> p, name |-> n]

-----------------------------------------------------------------------------
(* get_or_load *)

\* The call begins: a disabled cache loads directly.
Begin(w, p, n) ==
    /\ pc[w] = "idle"
    /\ pc' = [pc EXCEPT ![w] = IF IsEnabled THEN "slot" ELSE "direct"]
    /\ key' = [key EXCEPT ![w] = CacheKey(p, n)]
    /\ at' = [at EXCEPT ![w] = clock]
    /\ floor' = [floor EXCEPT ![w] = published[TableOf[n]]]
    /\ UNCHANGED <<clock, version, published, svars, held, woken, loaded, answer>>

\* slot_for_key finds the key's slot.
FindSlot(w) ==
    LET map == Pruned(at[w]) IN
    /\ pc[w] = "slot"
    /\ map[key[w]] # None
    /\ entries' = map
    /\ held' = [held EXCEPT ![w] = map[key[w]]]
    /\ pc' = [pc EXCEPT ![w] = "arm"]
    /\ UNCHANGED <<clock, version, published, state, ready, owner,
                   key, at, woken, loaded, answer, floor>>

\* Faulty variant of InsertSlot: the capacity test is off by one.
InsertSlotOffByOne(w) ==
    LET map == Pruned(at[w]) IN
    /\ pc[w] = "slot"
    /\ map[key[w]] = None
    /\ Cardinality(Live(map)) <= MaxEntries
    /\ \E s \in Slots : Free(s)
    /\ entries' = [map EXCEPT ![key[w]] = NewSlot]
    /\ state' = [state EXCEPT ![NewSlot] = "empty"]
    /\ ready' = [ready EXCEPT ![NewSlot] = None]
    /\ owner' = [owner EXCEPT ![NewSlot] = key[w]]
    /\ held' = [held EXCEPT ![w] = NewSlot]
    /\ pc' = [pc EXCEPT ![w] = "arm"]
    /\ UNCHANGED <<clock, version, published, key, at, woken, loaded, answer, floor>>

\* slot_for_key inserts a new, empty slot.
InsertSlot(w) ==
    LET map == Pruned(at[w]) IN
    /\ pc[w] = "slot"
    /\ map[key[w]] = None
    /\ Cardinality(Live(map)) < MaxEntries
    /\ \E s \in Slots : Free(s)
    /\ entries' = [map EXCEPT ![key[w]] = NewSlot]
    /\ state' = [state EXCEPT ![NewSlot] = "empty"]
    /\ ready' = [ready EXCEPT ![NewSlot] = None]
    /\ owner' = [owner EXCEPT ![NewSlot] = key[w]]
    /\ held' = [held EXCEPT ![w] = NewSlot]
    /\ pc' = [pc EXCEPT ![w] = "arm"]
    /\ UNCHANGED <<clock, version, published, key, at, woken, loaded, answer, floor>>

\* slot_for_key finds the cache full: the table is loaded uncached.
CacheFull(w) ==
    LET map == Pruned(at[w]) IN
    /\ pc[w] = "slot"
    /\ map[key[w]] = None
    /\ Cardinality(Live(map)) >= MaxEntries
    /\ entries' = map
    /\ pc' = [pc EXCEPT ![w] = "direct"]
    /\ UNCHANGED <<clock, version, published, state, ready, owner,
                   key, at, held, woken, loaded, answer, floor>>

\* slot.notify.notified(): from here on notify_waiters reaches w.
Arm(w) ==
    /\ pc[w] = "arm"
    /\ pc' = [pc EXCEPT ![w] = "check"]
    /\ woken' = [woken EXCEPT ![w] = FALSE]
    /\ UNCHANGED <<clock, version, published, svars, key, at, held, loaded, answer, floor>>

Hit(w) ==
    /\ pc[w] = "check"
    /\ state[held[w]] = "ready"
    /\ ~IsExpired(ready[held[w]], clock)
    /\ answer' = [answer EXCEPT ![w] = ready[held[w]]]
    /\ held' = [held EXCEPT ![w] = None]
    /\ pc' = [pc EXCEPT ![w] = "done"]
    /\ UNCHANGED <<clock, version, published, svars, key, at, woken, loaded, floor>>

WaitForLoad(w) ==
    /\ pc[w] = "check"
    /\ state[held[w]] = "loading"
    /\ pc' = [pc EXCEPT ![w] = "park"]
    /\ UNCHANGED <<clock, version, published, svars, key, at, held, woken,
                   loaded, answer, floor>>

\* The slot's lock is released and notified.await polled for the first time.
Park(w) ==
    /\ pc[w] = "park"
    /\ pc' = [pc EXCEPT ![w] = "waiting"]
    /\ UNCHANGED <<clock, version, published, svars, key, at, held, woken,
                   loaded, answer, floor>>

\* Faulty variant of Claim: anything but a fresh table is loaded again.
ClaimWhileLoading(w) ==
    LET s == held[w] IN
    /\ pc[w] = "check"
    /\ state[s] = "ready" => IsExpired(ready[s], clock)
    /\ state' = [state EXCEPT ![s] = "loading"]
    /\ ready' = [ready EXCEPT ![s] = None]
    /\ pc' = [pc EXCEPT ![w] = "load"]
    /\ UNCHANGED <<clock, version, published, entries, owner,
                   key, at, held, woken, loaded, answer, floor>>

\* The slot is empty or stale: w takes the load upon itself.
Claim(w) ==
    LET s == held[w] IN
    /\ pc[w] = "check"
    /\ \/ state[s] = "empty"
       \/ state[s] = "ready" /\ IsExpired(ready[s], clock)
    /\ state' = [state EXCEPT ![s] = "loading"]
    /\ ready' = [ready EXCEPT ![s] = None]
    /\ pc' = [pc EXCEPT ![w] = "load"]
    /\ UNCHANGED <<clock, version, published, entries, owner,
                   key, at, held, woken, loaded, answer, floor>>

\* notified.await returns and the loop starts over.
Wake(w) ==
    /\ pc[w] = "waiting"
    /\ woken[w]
    /\ pc' = [pc EXCEPT ![w] = "slot"]
    /\ at' = [at EXCEPT ![w] = clock]
    /\ held' = [held EXCEPT ![w] = None]
    /\ woken' = [woken EXCEPT ![w] = FALSE]
    /\ UNCHANGED <<clock, version, published, svars, key, loaded, answer, floor>>

-----------------------------------------------------------------------------
(* The load: load_cached_table, Unity and Delta being external *)

\* The table as it is now, opened with credentials that live on for life.
Opened(w, life) ==
    [table |-> TableOf[key[w].name], principal |-> key[w].principal,
     version |-> version[TableOf[key[w].name]],
     expires |-> ExpiresAt(clock, clock + life),
     credExp |-> clock + life, since |-> clock]

OpenTable(w) ==
    /\ pc[w] = "load"
    /\ \E life \in Lifetimes :
         loaded' = [loaded EXCEPT ![w] = Opened(w, life)]
    /\ pc' = [pc EXCEPT ![w] = "loaded"]
    /\ UNCHANGED <<clock, version, published, svars, key, at, held, woken, answer, floor>>

\* The uncached load of a full or disabled cache, which may fail.
LoadDirect(w) ==
    /\ pc[w] = "direct"
    /\ \/ \E life \in Lifetimes : answer' = [answer EXCEPT ![w] = Opened(w, life)]
       \/ UNCHANGED answer
    /\ pc' = [pc EXCEPT ![w] = "done"]
    /\ UNCHANGED <<clock, version, published, svars, key, at, held, woken, loaded, floor>>

-----------------------------------------------------------------------------
(* finish_load: three lock regions, with no await between them *)

\* Ok: the slot becomes ready, or empty if the table has already expired.
Publish(w) ==
    LET s == held[w]
        c == CapExpiresAt(loaded[w], clock)
        stale == IsExpired(c, clock)
    IN
    /\ pc[w] = "loaded"
    /\ state' = [state EXCEPT ![s] = IF stale THEN "empty" ELSE "ready"]
    /\ ready' = [ready EXCEPT ![s] = IF stale THEN None ELSE c]
    /\ answer' = [answer EXCEPT ![w] = c]
    /\ loaded' = [loaded EXCEPT ![w] = None]
    /\ pc' = [pc EXCEPT ![w] = IF stale THEN "remove" ELSE "notify"]
    /\ UNCHANGED <<clock, version, published, entries, owner, key, at, held, woken, floor>>

\* Faulty variant of FailLoad: the error is returned at once.
FailLoadSilently(w) ==
    LET s == held[w] IN
    /\ pc[w] \in {"load", "loaded"}
    /\ state' = [state EXCEPT ![s] = "empty"]
    /\ ready' = [ready EXCEPT ![s] = None]
    /\ loaded' = [loaded EXCEPT ![w] = None]
    /\ held' = [held EXCEPT ![w] = None]
    /\ pc' = [pc EXCEPT ![w] = "done"]
    /\ UNCHANGED <<clock, version, published, entries, owner, key, at, woken,
                   answer, floor>>

\* Err: Unity, the credentials or the Delta log failed.
FailLoad(w) ==
    LET s == held[w] IN
    /\ pc[w] \in {"load", "loaded"}
    /\ state' = [state EXCEPT ![s] = "empty"]
    /\ ready' = [ready EXCEPT ![s] = None]
    /\ loaded' = [loaded EXCEPT ![w] = None]
    /\ pc' = [pc EXCEPT ![w] = "remove"]
    /\ UNCHANGED <<clock, version, published, entries, owner, key, at, held, woken,
                   answer, floor>>

\* Faulty variant of RemoveSlot: the key is removed, whoever's slot it holds.
RemoveAnySlot(w) ==
    /\ pc[w] = "remove"
    /\ entries' = [entries EXCEPT ![key[w]] = None]
    /\ pc' = [pc EXCEPT ![w] = "notify"]
    /\ UNCHANGED <<clock, version, published, state, ready, owner,
                   key, at, held, woken, loaded, answer, floor>>

\* remove_slot: only if the map still holds this very slot (Arc::ptr_eq).
RemoveSlot(w) ==
    /\ pc[w] = "remove"
    /\ entries' = IF entries[key[w]] = held[w]
                  THEN [entries EXCEPT ![key[w]] = None] ELSE entries
    /\ pc' = [pc EXCEPT ![w] = "notify"]
    /\ UNCHANGED <<clock, version, published, state, ready, owner,
                   key, at, held, woken, loaded, answer, floor>>

\* Faulty variant of NotifyWaiters: only futures already polled are woken.
NotifyParked(w) ==
    /\ pc[w] = "notify"
    /\ woken' = [v \in Workers |->
                    woken[v] \/ (held[v] = held[w] /\ pc[v] = "waiting")]
    /\ held' = [held EXCEPT ![w] = None]
    /\ pc' = [pc EXCEPT ![w] = "done"]
    /\ UNCHANGED <<clock, version, published, svars, key, at, loaded, answer, floor>>

\* Notify::notify_waiters reaches every Notified created before the call,
\* polled or not.
NotifyWaiters(w) ==
    /\ pc[w] = "notify"
    /\ woken' = [v \in Workers |->
                    \/ woken[v]
                    \/ held[v] = held[w] /\ pc[v] \in {"check", "park", "waiting"}]
    /\ held' = [held EXCEPT ![w] = None]
    /\ pc' = [pc EXCEPT ![w] = "done"]
    /\ UNCHANGED <<clock, version, published, svars, key, at, loaded, answer, floor>>

-----------------------------------------------------------------------------

\* The locals of worker w when it is between calls.
Reset(w) ==
    /\ pc' = [pc EXCEPT ![w] = "idle"]
    /\ key' = [key EXCEPT ![w] = None]
    /\ at' = [at EXCEPT ![w] = 0]
    /\ held' = [held EXCEPT ![w] = None]
    /\ woken' = [woken EXCEPT ![w] = FALSE]
    /\ loaded' = [loaded EXCEPT ![w] = None]
    /\ answer' = [answer EXCEPT ![w] = None]
    /\ floor' = [floor EXCEPT ![w] = 0]

Return(w) ==
    /\ pc[w] = "done"
    /\ Reset(w)
    /\ UNCHANGED <<clock, version, published, svars>>

\* The query's future is dropped at an await: no destructor touches the slot.
Abandon(w) ==
    /\ Abandonment
    /\ pc[w] \in {"waiting", "load", "loaded", "direct"}
    /\ Reset(w)
    /\ UNCHANGED <<clock, version, published, svars>>

-----------------------------------------------------------------------------
(* Writers *)

\* A writer commits a new version of t to the Delta log.
Commit(t) ==
    /\ version[t] < MaxVersion
    /\ version' = [version EXCEPT ![t] = @ + 1]
    /\ UNCHANGED <<clock, published, svars, wvars>>

\* Faulty variant of Invalidate: in-flight loads stay attached.
InvalidateReady(t) ==
    /\ entries' = [k \in Keys |->
                      IF /\ TableOf[k.name] = t
                         /\ entries[k] # None
                         /\ state[entries[k]] = "ready"
                      THEN None ELSE entries[k]]
    /\ published' = [published EXCEPT ![t] = version[t]]
    /\ UNCHANGED <<clock, version, state, ready, owner, wvars>>

\* invalidate_table, run by execute_ctas when it ends, fails or is dropped.
Invalidate(t) ==
    /\ entries' = [k \in Keys |-> IF TableOf[k.name] = t THEN None ELSE entries[k]]
    /\ published' = [published EXCEPT ![t] = version[t]]
    /\ UNCHANGED <<clock, version, state, ready, owner, wvars>>

Tick ==
    /\ clock < MaxClock
    /\ clock' = clock + 1
    /\ UNCHANGED <<version, published, svars, wvars>>

-----------------------------------------------------------------------------

\* The steps of worker w's call that its thread takes by itself.
Step(w) ==
    \/ FindSlot(w) \/ InsertSlot(w) \/ CacheFull(w)
    \/ Arm(w) \/ Hit(w) \/ WaitForLoad(w) \/ Park(w)
    \/ Claim(w) \/ Wake(w)
    \/ OpenTable(w) \/ LoadDirect(w)
    \/ Publish(w) \/ FailLoad(w) \/ RemoveSlot(w) \/ NotifyWaiters(w)
    \/ Return(w)

Next ==
    \/ \E w \in Workers : Step(w)
    \/ \E w \in Workers, p \in Principals, n \in Names : Begin(w, p, n)
    \/ \E w \in Workers : Abandon(w)
    \/ \E t \in Written : Commit(t) \/ Invalidate(t)
    \/ Tick

Spec == Init /\ [][Next]_vars

\* Every thread keeps running, and every load ends (Unity requests time out).
FairSpec == Spec /\ \A w \in Workers : WF_vars(Step(w))

-----------------------------------------------------------------------------
(* Properties *)

\* The map never outgrows HARBORSQL_TABLE_CACHE_MAX_ENTRIES, although lookups
\* race to insert and invalidations and prunings race with them.
CapacityBound == Cardinality(Live(entries)) <= MaxEntries

Loading(w) == pc[w] \in {"load", "loaded"}

\* A slot is loaded by at most one lookup at a time, and shows it.
SingleFlight ==
    /\ \A w \in Workers : Loading(w) => state[held[w]] = "loading"
    /\ \A v, w \in Workers :
         v # w /\ Loading(v) /\ Loading(w) => held[v] # held[w]

\* A lookup that decided to wait and has not been woken waits for a loader that is still
\* there and has its notify_waiters call ahead of it.
WaiterHasLoader ==
    \A w \in Workers :
        pc[w] \in {"park", "waiting"} /\ ~woken[w] =>
            \E v \in Workers :
                held[v] = held[w] /\ (Loading(v) \/ pc[v] \in {"remove", "notify"})

\* A cache hit is served with credentials that outlive the safety skew, and is
\* younger than the TTL, however late it comes after the load.
HitIsLive ==
    [][\A w \in Workers :
          pc[w] = "check" /\ pc'[w] = "done" =>
              /\ clock + Skew < answer'[w].credExp
              /\ clock < answer'[w].since + Ttl]_vars

\* A slot that is being loaded leaves the map by invalidation, or by the
\* clean-up of an earlier failed load of that very slot.  Neither pruning nor
\* the failure of an older, detached load of the same key removes it.
LoadingSlotStays ==
    [][\A k \in Keys :
          /\ entries[k] # None
          /\ state[entries[k]] = "loading"
          /\ entries'[k] # entries[k]
          => \/ Invalidate(TableOf[k.name])
             \/ \E w \in Workers : pc[w] = "remove" /\ held[w] = entries[k]]_vars

\* Concurrent lookups of one key share one load (the test
\* coalesces_concurrent_loads_for_same_principal_and_table).
CoalescedLoads ==
    \A v, w \in Workers :
        v # w /\ Loading(v) /\ Loading(w) => key[v] # key[w]

\* A lookup that waits for another's load is released from it.
WaitEnds == \A w \in Workers : pc[w] = "waiting" ~> pc[w] # "waiting"

\* What the cache implements: readers see admissible snapshots.
Reads == INSTANCE SnapshotReads WITH
    Readers <- Workers,
    want <- [w \in Workers |->
                IF key[w] = None THEN None
                ELSE [table |-> TableOf[key[w].name], principal |-> key[w].principal]]

\* Every lookup returns a snapshot of the named table, opened for its own
\* principal, and no older than the last invalidation before it began.
ImplementsSnapshotReads == Reads!SnapshotSpec
=============================================================================
