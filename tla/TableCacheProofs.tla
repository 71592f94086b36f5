-------------------------- MODULE TableCacheProofs --------------------------
(***************************************************************************)
(* Machine-checked proofs about TableCache, for any number of workers,     *)
(* principals, tables and slots and any limits.                            *)
(***************************************************************************)
EXTENDS TableCache, FiniteSetTheorems, TLAPS

Holding == {"arm", "check", "park", "waiting", "load", "loaded", "remove", "notify"}

\* Which locals and slot fields are set, by program counter and slot state.
Shape ==
    /\ \A w \in Workers :
         /\ held[w] # None <=> pc[w] \in Holding
         /\ key[w] # None <=> pc[w] # "idle"
         /\ loaded[w] # None <=> pc[w] = "loaded"
         /\ answer[w] # None => pc[w] \in {"remove", "notify", "done"}
    /\ \A s \in Slots : ready[s] # None <=> state[s] = "ready"

\* A slot belongs to one key, in the map and in every worker's hands.
Owned ==
    /\ \A k \in Keys : entries[k] # None => owner[entries[k]] = k
    /\ \A w \in Workers : held[w] # None => owner[held[w]] = key[w]

\* A snapshot comes from the table and principal it is kept for.
From(c, k) ==
    /\ c.table = TableOf[k.name]
    /\ c.principal = k.principal
    /\ c.version <= version[c.table]

Provenance ==
    /\ \A s \in Slots : state[s] = "ready" => owner[s] \in Keys /\ From(ready[s], owner[s])
    /\ \A w \in Workers : pc[w] = "loaded" => From(loaded[w], key[w])

\* Nothing attached to the map predates the last invalidation, and nothing in
\* a worker's hands predates the invalidation its lookup began after.
Fresh ==
    /\ \A t \in Tables : published[t] <= version[t]
    /\ \A w \in Workers : key[w] # None => floor[w] <= published[TableOf[key[w].name]]
    /\ \A k \in Keys :
         entries[k] # None /\ state[entries[k]] = "ready" =>
             published[TableOf[k.name]] <= ready[entries[k]].version
    /\ \A w \in Workers :
         pc[w] = "loaded" /\ entries[key[w]] = held[w] =>
             published[TableOf[key[w].name]] <= loaded[w].version
    /\ \A w \in Workers :
         held[w] # None /\ state[held[w]] = "ready" => floor[w] <= ready[held[w]].version
    /\ \A v, w \in Workers :
         pc[v] = "loaded" /\ held[v] = held[w] => floor[w] <= loaded[v].version

\* What expires_at bounds.
Timed ==
    /\ \A s \in Slots :
         state[s] = "ready" => /\ ready[s].expires + Skew <= ready[s].credExp
                               /\ ready[s].expires <= ready[s].since + Ttl
    /\ \A w \in Workers :
         pc[w] = "loaded" => \/ loaded[w].expires + Skew <= loaded[w].credExp
                             \/ loaded[w].expires <= clock

IInv == TypeOK /\ Shape /\ Owned /\ SingleFlight /\ Provenance /\ Fresh /\ Timed

-----------------------------------------------------------------------------
(* Operators *)

\* Pruning keeps a subset of the map and touches nothing it keeps.
LEMMA PrunedType ==
    ASSUME TypeOK, NEW now
    PROVE  /\ Pruned(now) \in [Keys -> Slots \cup {None}]
           /\ \A k \in Keys : Pruned(now)[k] # None => Pruned(now)[k] = entries[k]
           /\ \A k \in Keys : Pruned(now)[k] # None => state[entries[k]] # "empty"
  BY DEF Pruned, Prunable, TypeOK

\* Allocation returns memory nobody refers to.
LEMMA NewSlotFree ==
    ASSUME \E s \in Slots : Free(s)
    PROVE  NewSlot \in Slots /\ Free(NewSlot)
  BY DEF NewSlot

\* The lookups' key is a key.
LEMMA KeyType ==
    ASSUME TypeOK, NEW w \in Workers, key[w] # None
    PROVE  /\ key[w] \in Keys
           /\ key[w].name \in Names
           /\ key[w].principal \in Principals
           /\ TableOf[key[w].name] \in Tables
  BY CacheAssumption DEF TypeOK, Keys

\* What a load opens is a cached table of the looked-up key.
LEMMA OpenedType ==
    ASSUME TypeOK, NEW w \in Workers, key[w] # None, NEW life \in Lifetimes
    PROVE  Opened(w, life) \in CachedTables
  BY KeyType, CacheAssumption
  DEF Opened, CachedTables, ExpiresAt, CheckedDeadline, SaturatingSub, TypeOK

\* Capping keeps a cached table's provenance.
LEMMA CapType ==
    ASSUME NEW c \in CachedTables, NEW now \in 0..MaxInstant
    PROVE  /\ CapExpiresAt(c, now) \in CachedTables
           /\ CapExpiresAt(c, now).table = c.table
           /\ CapExpiresAt(c, now).principal = c.principal
           /\ CapExpiresAt(c, now).version = c.version
           /\ CapExpiresAt(c, now).credExp = c.credExp
           /\ CapExpiresAt(c, now).since = now
           /\ CapExpiresAt(c, now).expires <= c.expires
           /\ CapExpiresAt(c, now).expires <= now + Ttl
  BY CacheAssumption DEF CapExpiresAt, CheckedDeadline, CachedTables

-----------------------------------------------------------------------------
(* Type correctness *)

\* The inductive invariant holds initially.
LEMMA InitInv == Init => IInv
  <1> SUFFICES ASSUME Init PROVE IInv
    OBVIOUS
  <1>1. TypeOK
    BY CacheAssumption DEF Init, TypeOK, PCs
  <1>2. Shape /\ Owned /\ SingleFlight /\ Provenance /\ Fresh /\ Timed
    BY CacheAssumption
    DEF Init, Shape, Owned, SingleFlight, Loading, Provenance, Fresh, Timed, Holding
  <1> QED BY <1>1, <1>2 DEF IInv

\* Every step keeps the variables in their types.
LEMMA TypeStep == ASSUME IInv, [Next]_vars PROVE TypeOK'
  <1> USE CacheAssumption
  <1>a. TypeOK /\ Shape BY DEF IInv
  <1>1. ASSUME NEW w \in Workers, NEW p \in Principals, NEW n \in Names, Begin(w, p, n)
        PROVE  TypeOK'
    BY <1>1, <1>a DEF Begin, TypeOK, svars, PCs, CacheKey, Keys
  <1>2. ASSUME NEW w \in Workers, FindSlot(w) PROVE TypeOK'
    BY <1>2, <1>a, PrunedType DEF FindSlot, TypeOK, PCs, Shape, Holding
  <1>3. ASSUME NEW w \in Workers, InsertSlot(w) PROVE TypeOK'
    BY <1>3, <1>a, PrunedType, NewSlotFree DEF InsertSlot, TypeOK, PCs
  <1>4. ASSUME NEW w \in Workers, CacheFull(w) PROVE TypeOK'
    BY <1>4, <1>a, PrunedType DEF CacheFull, TypeOK, PCs
  <1>5. ASSUME NEW w \in Workers, Arm(w) PROVE TypeOK'
    BY <1>5, <1>a DEF Arm, TypeOK, PCs, svars
  <1>6. ASSUME NEW w \in Workers, Hit(w) PROVE TypeOK'
    BY <1>6, <1>a DEF Hit, TypeOK, PCs, svars, Shape, Holding
  <1>7. ASSUME NEW w \in Workers, WaitForLoad(w) \/ Park(w) PROVE TypeOK'
    BY <1>7, <1>a DEF WaitForLoad, Park, TypeOK, PCs, svars
  <1>8. ASSUME NEW w \in Workers, Claim(w) PROVE TypeOK'
    BY <1>8, <1>a DEF Claim, TypeOK, PCs
  <1>9. ASSUME NEW w \in Workers, Wake(w) PROVE TypeOK'
    BY <1>9, <1>a DEF Wake, TypeOK, PCs, svars
  <1>10. ASSUME NEW w \in Workers, OpenTable(w) PROVE TypeOK'
    BY <1>10, <1>a, OpenedType DEF OpenTable, TypeOK, PCs, svars, Shape
  <1>11. ASSUME NEW w \in Workers, LoadDirect(w) PROVE TypeOK'
    BY <1>11, <1>a, OpenedType DEF LoadDirect, TypeOK, PCs, svars, Shape
  <1>12. ASSUME NEW w \in Workers, Publish(w) PROVE TypeOK'
    <2>1. CapExpiresAt(loaded[w], clock) \in CachedTables
      BY <1>12, <1>a, CapType DEF Publish, TypeOK, Shape
    <2> QED
      BY <1>12, <1>a, <2>1 DEF Publish, TypeOK, PCs
  <1>13. ASSUME NEW w \in Workers, FailLoad(w) PROVE TypeOK'
    BY <1>13, <1>a DEF FailLoad, TypeOK, PCs
  <1>14. ASSUME NEW w \in Workers, RemoveSlot(w) PROVE TypeOK'
    BY <1>14, <1>a DEF RemoveSlot, TypeOK, PCs
  <1>15. ASSUME NEW w \in Workers, NotifyWaiters(w) PROVE TypeOK'
    BY <1>15, <1>a DEF NotifyWaiters, TypeOK, PCs, svars
  <1>16. ASSUME NEW w \in Workers, Return(w) \/ Abandon(w) PROVE TypeOK'
    <2>1. Reset(w) /\ UNCHANGED <<clock, version, published, svars>>
      BY <1>16 DEF Return, Abandon
    <2> QED
      BY <2>1, <1>a DEF Reset, TypeOK, PCs, svars
  <1>17. ASSUME NEW t \in Tables, Commit(t) PROVE TypeOK'
    BY <1>17, <1>a DEF Commit, TypeOK, svars, wvars
  <1>18. ASSUME NEW t \in Tables, Invalidate(t) PROVE TypeOK'
    BY <1>18, <1>a DEF Invalidate, TypeOK, wvars
  <1>19. CASE Tick
    BY <1>19, <1>a DEF Tick, TypeOK, svars, wvars
  <1>20. CASE UNCHANGED vars
    BY <1>20, <1>a DEF TypeOK, vars, svars, wvars
  <1> QED
    BY <1>1, <1>2, <1>3, <1>4, <1>5, <1>6, <1>7, <1>8, <1>9, <1>10, <1>11, <1>12,
       <1>13, <1>14, <1>15, <1>16, <1>17, <1>18, <1>19, <1>20 DEF Next, Step

-----------------------------------------------------------------------------
(* The inductive invariant *)

\* Every step keeps locals and slot fields in step with the program counters.
LEMMA ShapeStep == ASSUME IInv, [Next]_vars PROVE Shape'
  <1> USE CacheAssumption
  <1>a. TypeOK /\ Shape BY DEF IInv
  <1>1. ASSUME NEW w \in Workers, NEW p \in Principals, NEW n \in Names, Begin(w, p, n)
        PROVE  Shape'
    BY <1>1, <1>a DEF Begin, TypeOK, Shape, Holding, svars, CacheKey, Keys
  <1>2. ASSUME NEW w \in Workers, FindSlot(w) PROVE Shape'
    BY <1>2, <1>a, PrunedType DEF FindSlot, TypeOK, Shape, Holding
  <1>3. ASSUME NEW w \in Workers, InsertSlot(w) PROVE Shape'
    BY <1>3, <1>a, NewSlotFree DEF InsertSlot, TypeOK, Shape, Holding
  <1>4. ASSUME NEW w \in Workers, CacheFull(w) PROVE Shape'
    BY <1>4, <1>a DEF CacheFull, TypeOK, Shape, Holding
  <1>5. ASSUME NEW w \in Workers, Arm(w) \/ WaitForLoad(w) \/ Park(w) PROVE Shape'
    BY <1>5, <1>a DEF Arm, WaitForLoad, Park, TypeOK, Shape, Holding, svars
  <1>6. ASSUME NEW w \in Workers, Hit(w) PROVE Shape'
    BY <1>6, <1>a DEF Hit, TypeOK, Shape, Holding, svars
  <1>7. ASSUME NEW w \in Workers, Claim(w) PROVE Shape'
    BY <1>7, <1>a DEF Claim, TypeOK, Shape, Holding
  <1>8. ASSUME NEW w \in Workers, Wake(w) PROVE Shape'
    BY <1>8, <1>a DEF Wake, TypeOK, Shape, Holding, svars
  <1>9. ASSUME NEW w \in Workers, OpenTable(w) PROVE Shape'
    BY <1>9, <1>a, OpenedType DEF OpenTable, TypeOK, Shape, Holding, svars
  <1>10. ASSUME NEW w \in Workers, LoadDirect(w) PROVE Shape'
    BY <1>10, <1>a DEF LoadDirect, TypeOK, Shape, Holding, svars
  <1>11. ASSUME NEW w \in Workers, Publish(w) PROVE Shape'
    <2>1. CapExpiresAt(loaded[w], clock) # None
      BY <1>11, <1>a, CapType DEF Publish, TypeOK, Shape
    <2> QED
      BY <1>11, <1>a, <2>1 DEF Publish, TypeOK, Shape, Holding
  <1>12. ASSUME NEW w \in Workers, FailLoad(w) PROVE Shape'
    BY <1>12, <1>a DEF FailLoad, TypeOK, Shape, Holding
  <1>13. ASSUME NEW w \in Workers, RemoveSlot(w) PROVE Shape'
    BY <1>13, <1>a DEF RemoveSlot, TypeOK, Shape, Holding
  <1>14. ASSUME NEW w \in Workers, NotifyWaiters(w) PROVE Shape'
    BY <1>14, <1>a DEF NotifyWaiters, TypeOK, Shape, Holding, svars
  <1>15. ASSUME NEW w \in Workers, Return(w) \/ Abandon(w) PROVE Shape'
    <2>1. Reset(w) /\ UNCHANGED <<clock, version, published, svars>>
      BY <1>15 DEF Return, Abandon
    <2> QED
      BY <2>1, <1>a DEF Reset, TypeOK, Shape, Holding, svars
  <1>16. ASSUME NEW t \in Tables, Commit(t) \/ Invalidate(t) PROVE Shape'
    BY <1>16, <1>a DEF Commit, Invalidate, Shape, svars, wvars
  <1>17. CASE Tick \/ UNCHANGED vars
    BY <1>17, <1>a DEF Tick, Shape, vars, svars, wvars
  <1> QED
    BY <1>1, <1>2, <1>3, <1>4, <1>5, <1>6, <1>7, <1>8, <1>9, <1>10, <1>11, <1>12, <1>13,
       <1>14, <1>15, <1>16, <1>17
    DEF Next, Step

\* No slot is ever shared by two keys: a slot is only reused when it is free.
LEMMA OwnedStep == ASSUME IInv, [Next]_vars PROVE Owned'
  <1> USE CacheAssumption
  <1>a. TypeOK /\ Shape /\ Owned BY DEF IInv
  <1>1. ASSUME NEW w \in Workers, NEW p \in Principals, NEW n \in Names, Begin(w, p, n)
        PROVE  Owned'
    BY <1>1, <1>a DEF Begin, TypeOK, Shape, Holding, Owned, svars
  <1>2. ASSUME NEW w \in Workers, FindSlot(w) PROVE Owned'
    BY <1>2, <1>a, KeyType, PrunedType DEF FindSlot, TypeOK, Shape, Owned
  <1>3. ASSUME NEW w \in Workers, InsertSlot(w) PROVE Owned'
    <2>1. NewSlot \in Slots /\ Free(NewSlot) /\ key[w] \in Keys
      BY <1>3, <1>a, NewSlotFree, KeyType DEF InsertSlot, Shape
    <2>2. \A k \in Keys : Pruned(at[w])[k] # None => Pruned(at[w])[k] = entries[k]
      BY <1>a, PrunedType
    <2>3. Pruned(at[w]) \in [Keys -> Slots \cup {None}]
      BY <1>a, PrunedType
    <2> QED
      BY <1>3, <1>a, <2>1, <2>2, <2>3 DEF InsertSlot, TypeOK, Owned, Free
  <1>4. ASSUME NEW w \in Workers, CacheFull(w) PROVE Owned'
    BY <1>4, <1>a, PrunedType DEF CacheFull, TypeOK, Owned
  <1>5. ASSUME NEW w \in Workers, Arm(w) \/ WaitForLoad(w) \/ Park(w) \/ Claim(w) PROVE Owned'
    BY <1>5, <1>a DEF Arm, WaitForLoad, Park, Claim, TypeOK, Owned, svars
  <1>6. ASSUME NEW w \in Workers, Hit(w) \/ Wake(w) \/ NotifyWaiters(w) PROVE Owned'
    BY <1>6, <1>a DEF Hit, Wake, NotifyWaiters, TypeOK, Owned, svars
  <1>7. ASSUME NEW w \in Workers, OpenTable(w) \/ LoadDirect(w) PROVE Owned'
    BY <1>7, <1>a DEF OpenTable, LoadDirect, Owned, svars
  <1>8. ASSUME NEW w \in Workers, Publish(w) \/ FailLoad(w) PROVE Owned'
    BY <1>8, <1>a DEF Publish, FailLoad, Owned
  <1>9. ASSUME NEW w \in Workers, RemoveSlot(w) PROVE Owned'
    BY <1>9, <1>a DEF RemoveSlot, TypeOK, Owned
  <1>10. ASSUME NEW w \in Workers, Return(w) \/ Abandon(w) PROVE Owned'
    BY <1>10, <1>a DEF Return, Abandon, Reset, TypeOK, Owned, svars
  <1>11. ASSUME NEW t \in Tables, Commit(t) \/ Invalidate(t) PROVE Owned'
    BY <1>11, <1>a DEF Commit, Invalidate, TypeOK, Owned, svars, wvars
  <1>12. CASE Tick \/ UNCHANGED vars
    BY <1>12, <1>a DEF Tick, Owned, vars, svars, wvars
  <1> QED
    BY <1>1, <1>2, <1>3, <1>4, <1>5, <1>6, <1>7, <1>8, <1>9, <1>10, <1>11, <1>12
    DEF Next, Step

\* Only a slot that is not being loaded is claimed, and only its loader unmarks it.
LEMMA SingleFlightStep == ASSUME IInv, [Next]_vars PROVE SingleFlight'
  <1> USE CacheAssumption DEF SingleFlight, Loading
  <1>a. TypeOK /\ Shape /\ SingleFlight BY DEF IInv
  <1>1. ASSUME NEW w \in Workers, NEW p \in Principals, NEW n \in Names, Begin(w, p, n)
        PROVE  SingleFlight'
    BY <1>1, <1>a DEF Begin, TypeOK, Shape, svars
  <1>2. ASSUME NEW w \in Workers, FindSlot(w) \/ CacheFull(w) PROVE SingleFlight'
    BY <1>2, <1>a DEF FindSlot, CacheFull, TypeOK, Shape, Holding
  <1>3. ASSUME NEW w \in Workers, InsertSlot(w) PROVE SingleFlight'
    <2>1. NewSlot \in Slots /\ Free(NewSlot)
      BY <1>3, NewSlotFree DEF InsertSlot
    <2> QED
      BY <1>3, <1>a, <2>1 DEF InsertSlot, TypeOK, Free
  <1>4. ASSUME NEW w \in Workers, Arm(w) \/ WaitForLoad(w) \/ Park(w) PROVE SingleFlight'
    BY <1>4, <1>a DEF Arm, WaitForLoad, Park, TypeOK, svars
  <1>5. ASSUME NEW w \in Workers, Hit(w) \/ Wake(w) \/ NotifyWaiters(w) PROVE SingleFlight'
    BY <1>5, <1>a DEF Hit, Wake, NotifyWaiters, TypeOK, svars
  <1>6. ASSUME NEW w \in Workers, Claim(w) PROVE SingleFlight'
    BY <1>6, <1>a DEF Claim, TypeOK, Shape, Holding
  <1>7. ASSUME NEW w \in Workers, OpenTable(w) \/ LoadDirect(w) PROVE SingleFlight'
    BY <1>7, <1>a DEF OpenTable, LoadDirect, TypeOK, svars
  <1>8. ASSUME NEW w \in Workers, Publish(w) \/ FailLoad(w) PROVE SingleFlight'
    BY <1>8, <1>a DEF Publish, FailLoad, TypeOK, Shape, Holding
  <1>9. ASSUME NEW w \in Workers, RemoveSlot(w) PROVE SingleFlight'
    BY <1>9, <1>a DEF RemoveSlot, TypeOK
  <1>10. ASSUME NEW w \in Workers, Return(w) \/ Abandon(w) PROVE SingleFlight'
    BY <1>10, <1>a DEF Return, Abandon, Reset, TypeOK, svars
  <1>11. ASSUME NEW t \in Tables, Commit(t) \/ Invalidate(t) PROVE SingleFlight'
    BY <1>11, <1>a DEF Commit, Invalidate, svars, wvars
  <1>12. CASE Tick \/ UNCHANGED vars
    BY <1>12, <1>a DEF Tick, vars, svars, wvars
  <1> QED
    BY <1>1, <1>2, <1>3, <1>4, <1>5, <1>6, <1>7, <1>8, <1>9, <1>10, <1>11, <1>12
    DEF Next, Step

\* Loads open the table of their key, and publish it in a slot of that key.
LEMMA ProvenanceStep == ASSUME IInv, [Next]_vars PROVE Provenance'
  <1> USE CacheAssumption DEF Provenance, From
  <1>a. TypeOK /\ Shape /\ Owned /\ Provenance BY DEF IInv
  <1>1. ASSUME NEW w \in Workers, NEW p \in Principals, NEW n \in Names, Begin(w, p, n)
        PROVE  Provenance'
    BY <1>1, <1>a DEF Begin, TypeOK, Shape, svars
  <1>2. ASSUME NEW w \in Workers, FindSlot(w) \/ CacheFull(w) PROVE Provenance'
    BY <1>2, <1>a DEF FindSlot, CacheFull, TypeOK
  <1>3. ASSUME NEW w \in Workers, InsertSlot(w) PROVE Provenance'
    BY <1>3, <1>a, NewSlotFree DEF InsertSlot, TypeOK
  <1>4. ASSUME NEW w \in Workers, Arm(w) \/ WaitForLoad(w) \/ Park(w) PROVE Provenance'
    BY <1>4, <1>a DEF Arm, WaitForLoad, Park, TypeOK, svars
  <1>5. ASSUME NEW w \in Workers, Hit(w) \/ Wake(w) \/ NotifyWaiters(w) PROVE Provenance'
    BY <1>5, <1>a DEF Hit, Wake, NotifyWaiters, TypeOK, svars
  <1>6. ASSUME NEW w \in Workers, Claim(w) PROVE Provenance'
    BY <1>6, <1>a DEF Claim, TypeOK
  <1>7. ASSUME NEW w \in Workers, OpenTable(w) PROVE Provenance'
    BY <1>7, <1>a, KeyType DEF OpenTable, Opened, TypeOK, Shape, svars
  <1>8. ASSUME NEW w \in Workers, LoadDirect(w) PROVE Provenance'
    BY <1>8, <1>a DEF LoadDirect, TypeOK, svars
  <1>9. ASSUME NEW w \in Workers, Publish(w) PROVE Provenance'
    <2>1. loaded[w] \in CachedTables /\ held[w] \in Slots
          /\ owner[held[w]] = key[w] /\ key[w] \in Keys
      BY <1>9, <1>a, KeyType DEF Publish, TypeOK, Shape, Holding, Owned
    <2>2. clock \in 0..MaxInstant /\ From(loaded[w], key[w])
      BY <1>9, <1>a DEF Publish, TypeOK
    <2>3. From(CapExpiresAt(loaded[w], clock), key[w])
      BY <2>1, <2>2, CapType
    <2> QED
      BY <1>9, <1>a, <2>1, <2>3 DEF Publish, TypeOK
  <1>10. ASSUME NEW w \in Workers, FailLoad(w) \/ RemoveSlot(w) PROVE Provenance'
    BY <1>10, <1>a DEF FailLoad, RemoveSlot, TypeOK
  <1>11. ASSUME NEW w \in Workers, Return(w) \/ Abandon(w) PROVE Provenance'
    BY <1>11, <1>a DEF Return, Abandon, Reset, TypeOK, svars
  <1>12. ASSUME NEW t \in Tables, Commit(t) \/ Invalidate(t) PROVE Provenance'
    BY <1>12, <1>a DEF Commit, Invalidate, TypeOK, CachedTables, Shape, svars, wvars
  <1>13. CASE Tick \/ UNCHANGED vars
    BY <1>13, <1>a DEF Tick, vars, svars, wvars
  <1> QED
    BY <1>1, <1>2, <1>3, <1>4, <1>5, <1>6, <1>7, <1>8, <1>9, <1>10, <1>11, <1>12, <1>13
    DEF Next, Step

\* Invalidation detaches whatever it outdates; what lookups already hold is as
\* new as they were promised.
LEMMA FreshStep == ASSUME IInv, [Next]_vars PROVE Fresh'
  <1> USE CacheAssumption DEF Fresh
  <1>a. TypeOK /\ Shape /\ Owned /\ SingleFlight /\ Provenance /\ Fresh BY DEF IInv
  <1>b. \A s \in Slots : state[s] = "ready" => ready[s] \in CachedTables /\ ready[s].version \in Nat
    BY <1>a DEF TypeOK, Shape, CachedTables
  <1>c. \A w \in Workers : pc[w] = "loaded" => loaded[w] \in CachedTables /\ loaded[w].version \in Nat
    BY <1>a DEF TypeOK, Shape, CachedTables
  <1>1. ASSUME NEW w \in Workers, NEW p \in Principals, NEW n \in Names, Begin(w, p, n)
        PROVE  Fresh'
    BY <1>1, <1>a DEF Begin, TypeOK, Shape, Holding, CacheKey, Keys, svars
  <1>2. ASSUME NEW w \in Workers, FindSlot(w) PROVE Fresh'
    <2>0. key[w] \in Keys /\ Pruned(at[w])[key[w]] # None
      BY <1>2, <1>a, KeyType DEF FindSlot, Shape
    <2>1. key[w] \in Keys /\ entries[key[w]] \in Slots /\ entries' = Pruned(at[w])
          /\ held' = [held EXCEPT ![w] = entries[key[w]]]
      <3>1. /\ Pruned(at[w]) \in [Keys -> Slots \cup {None}]
            /\ \A k \in Keys : Pruned(at[w])[k] # None => Pruned(at[w])[k] = entries[k]
        BY <1>a, PrunedType
      <3>2. /\ entries' = Pruned(at[w])
            /\ held' = [held EXCEPT ![w] = Pruned(at[w])[key[w]]]
        BY <1>2 DEF FindSlot
      <3>3. Pruned(at[w])[key[w]] = entries[key[w]] /\ entries[key[w]] \in Slots
        BY <2>0, <3>1
      <3> QED
        BY <2>0, <3>2, <3>3
    <2>2. TableOf[key[w].name] \in Tables
      BY <2>1 DEF Keys
    <2>3. \A k \in Keys : entries'[k] # None => entries'[k] = entries[k]
      BY <1>a, <2>1, PrunedType
    <2>4. \A v \in Workers : pc[v] = "loaded" /\ held[v] = entries[key[w]] =>
              key[v] = key[w] /\ floor[w] <= loaded[v].version
      BY <1>a, <1>c, <2>1, <2>2 DEF TypeOK, Shape, Holding, Owned
    <2>5. state[entries[key[w]]] = "ready" => floor[w] <= ready[entries[key[w]]].version
      BY <1>2, <1>a, <1>b, <2>1, <2>2 DEF FindSlot, TypeOK, Shape
    <2>6. \A v \in Workers : held'[v] # None /\ state[held'[v]] = "ready" =>
              floor[v] <= ready[held'[v]].version
      BY <1>a, <2>1, <2>5 DEF TypeOK
    <2>7. \A v, u \in Workers : pc'[v] = "loaded" /\ held'[v] = held'[u] =>
              floor[u] <= loaded[v].version
      BY <1>2, <1>a, <2>1, <2>4 DEF FindSlot, TypeOK
    <2>8. \A v \in Workers : pc'[v] = "loaded" /\ entries'[key[v]] = held'[v] =>
              published[TableOf[key[v].name]] <= loaded[v].version
      BY <1>2, <1>a, <2>1, <2>3, KeyType DEF FindSlot, TypeOK, Shape, Holding
    <2>9. \A k \in Keys : entries'[k] # None /\ state[entries'[k]] = "ready" =>
              published[TableOf[k.name]] <= ready[entries'[k]].version
      BY <1>a, <2>3
    <2> QED
      BY <1>2, <1>a, <2>6, <2>7, <2>8, <2>9 DEF FindSlot
  <1>3. ASSUME NEW w \in Workers, InsertSlot(w) PROVE Fresh'
    <2>1. NewSlot \in Slots /\ Free(NewSlot) /\ key[w] \in Keys
      BY <1>3, <1>a, NewSlotFree, KeyType DEF InsertSlot, Shape
    <2>2. /\ Pruned(at[w]) \in [Keys -> Slots \cup {None}]
          /\ \A k \in Keys : Pruned(at[w])[k] # None => Pruned(at[w])[k] = entries[k]
      BY <1>a, PrunedType
    <2>3. \A k \in Keys : entries'[k] # None => (k = key[w] /\ entries'[k] = NewSlot)
                                                 \/ (entries'[k] = entries[k] /\ entries[k] # NewSlot)
      BY <1>3, <2>1, <2>2 DEF InsertSlot, Free
    <2>4. \A v \in Workers : held[v] # NewSlot
      BY <2>1 DEF Free
    <2>5. \A v \in Workers : pc'[v] = "loaded" => v # w /\ pc[v] = "loaded" /\ held'[v] = held[v]
                                                   /\ held[v] # None /\ key[v] \in Keys
      BY <1>3, <1>a, KeyType DEF InsertSlot, TypeOK, Shape, Holding
    <2>6. \A v \in Workers : pc'[v] = "loaded" /\ entries'[key[v]] = held'[v] =>
              published[TableOf[key[v].name]] <= loaded[v].version
      BY <1>a, <2>3, <2>4, <2>5
    <2>7. \A v, u \in Workers : pc'[v] = "loaded" /\ held'[v] = held'[u] =>
              floor[u] <= loaded[v].version
      BY <1>3, <1>a, <2>1, <2>4, <2>5 DEF InsertSlot, TypeOK
    <2>8. \A v \in Workers : held'[v] # None /\ state'[held'[v]] = "ready" =>
              floor[v] <= ready'[held'[v]].version
      BY <1>3, <1>a, <2>1, <2>4 DEF InsertSlot, TypeOK
    <2>9. \A k \in Keys : entries'[k] # None /\ state'[entries'[k]] = "ready" =>
              published[TableOf[k.name]] <= ready'[entries'[k]].version
      BY <1>3, <1>a, <2>1, <2>3 DEF InsertSlot, TypeOK
    <2> QED
      BY <1>3, <1>a, <2>6, <2>7, <2>8, <2>9 DEF InsertSlot
  <1>4. ASSUME NEW w \in Workers, CacheFull(w) PROVE Fresh'
    <2>1. \A k \in Keys : entries'[k] # None => entries'[k] = entries[k]
      BY <1>4, <1>a, PrunedType DEF CacheFull
    <2> QED
      BY <1>4, <1>a, <2>1, KeyType DEF CacheFull, TypeOK, Shape, Holding
  <1>5. ASSUME NEW w \in Workers, Arm(w) \/ WaitForLoad(w) \/ Park(w) PROVE Fresh'
    BY <1>5, <1>a DEF Arm, WaitForLoad, Park, TypeOK, svars
  <1>6. ASSUME NEW w \in Workers, Hit(w) \/ Wake(w) \/ NotifyWaiters(w) \/ Return(w) \/ Abandon(w)
        PROVE  Fresh'
    <2>1. /\ UNCHANGED <<version, published, entries, state, ready>>
          /\ pc'[w] # "loaded" /\ held'[w] = None
      BY <1>6, <1>a DEF Hit, Wake, NotifyWaiters, Return, Abandon, Reset, TypeOK, svars
    <2>2. \A v \in Workers \ {w} : /\ pc'[v] = pc[v] /\ held'[v] = held[v] /\ key'[v] = key[v]
                                  /\ loaded'[v] = loaded[v] /\ floor'[v] = floor[v]
      BY <1>6, <1>a DEF Hit, Wake, NotifyWaiters, Return, Abandon, Reset, TypeOK
    <2>3. key'[w] = None \/ (key'[w] = key[w] /\ floor'[w] = floor[w])
      BY <1>6, <1>a DEF Hit, Wake, NotifyWaiters, Return, Abandon, Reset, TypeOK
    <2>4. \A v \in Workers \ {w} : pc'[v] = "loaded" => held'[v] # None
      BY <1>a, <2>2 DEF Shape, Holding
    <2> QED
      BY <1>a, <2>1, <2>2, <2>3, <2>4
  <1>7. ASSUME NEW w \in Workers, Claim(w) PROVE Fresh'
    BY <1>7, <1>a DEF Claim, TypeOK, Shape, Holding
  <1>8. ASSUME NEW w \in Workers, OpenTable(w) PROVE Fresh'
    <2>1. key[w] \in Keys /\ TableOf[key[w].name] \in Tables
      BY <1>8, <1>a, KeyType DEF OpenTable, Shape
    <2>2. loaded'[w].version = version[TableOf[key[w].name]]
      BY <1>8, <1>a DEF OpenTable, Opened, TypeOK
    <2>3. \A v \in Workers : v # w => loaded'[v] = loaded[v] /\ pc'[v] = pc[v]
      BY <1>8, <1>a DEF OpenTable, TypeOK
    <2>4. \A u \in Workers : held[w] = held[u] =>
              key[u] = key[w] /\ floor[u] <= published[TableOf[key[w].name]]
      BY <1>8, <1>a DEF OpenTable, Shape, Holding, Owned
    <2>5. \A v, u \in Workers : pc'[v] = "loaded" /\ held[v] = held[u] =>
              floor[u] <= loaded'[v].version
      BY <1>a, <2>1, <2>2, <2>3, <2>4 DEF TypeOK
    <2> QED
      BY <1>8, <1>a, <2>1, <2>2, <2>3, <2>5 DEF OpenTable, svars
  <1>9. ASSUME NEW w \in Workers, LoadDirect(w) PROVE Fresh'
    BY <1>9, <1>a DEF LoadDirect, TypeOK, svars
  <1>10. ASSUME NEW w \in Workers, Publish(w) PROVE Fresh'
    <2>1. /\ loaded[w] \in CachedTables /\ held[w] \in Slots /\ clock \in 0..MaxInstant
          /\ owner[held[w]] = key[w] /\ key[w] \in Keys
      BY <1>10, <1>a, KeyType DEF Publish, TypeOK, Shape, Holding, Owned
    <2>2. CapExpiresAt(loaded[w], clock).version = loaded[w].version
      BY <2>1, CapType
    <2>3. \A k \in Keys : entries[k] = held[w] => k = key[w]
      BY <1>a, <2>1 DEF Owned
    <2>4. \A k \in Keys : entries[k] # None /\ state'[entries[k]] = "ready" =>
              published[TableOf[k.name]] <= ready'[entries[k]].version
      BY <1>10, <1>a, <2>1, <2>2, <2>3 DEF Publish, TypeOK
    <2>5. \A v \in Workers : held[v] # None /\ state'[held[v]] = "ready" =>
              floor[v] <= ready'[held[v]].version
      BY <1>10, <1>a, <2>1, <2>2 DEF Publish, TypeOK
    <2> QED
      BY <1>10, <1>a, <2>4, <2>5 DEF Publish, TypeOK
  <1>11. ASSUME NEW w \in Workers, FailLoad(w) PROVE Fresh'
    BY <1>11, <1>a DEF FailLoad, TypeOK, Shape, Holding
  <1>12. ASSUME NEW w \in Workers, RemoveSlot(w) PROVE Fresh'
    BY <1>12, <1>a, KeyType DEF RemoveSlot, TypeOK, Shape, Holding
  <1>13. ASSUME NEW t \in Tables, Commit(t) PROVE Fresh'
    BY <1>13, <1>a DEF Commit, TypeOK, svars, wvars
  <1>14. ASSUME NEW t \in Tables, Invalidate(t) PROVE Fresh'
    <2>1. \A k \in Keys : entries'[k] # None =>
              entries'[k] = entries[k] /\ TableOf[k.name] # t
      BY <1>14 DEF Invalidate
    <2>2. \A u \in Tables : published[u] <= published'[u] /\ published'[u] <= version[u]
                           /\ (u # t => published'[u] = published[u])
      BY <1>14, <1>a DEF Invalidate, TypeOK
    <2>3. \A w \in Workers : key[w] # None => key[w] \in Keys /\ TableOf[key[w].name] \in Tables
      BY <1>a, KeyType
    <2>4. \A k \in Keys : TableOf[k.name] \in Tables
      BY DEF Keys
    <2>5. \A w \in Workers : key[w] # None => floor[w] <= published'[TableOf[key[w].name]]
      BY <1>14, <1>a, <2>2, <2>3 DEF Invalidate, TypeOK
    <2>6. \A w \in Workers : pc[w] = "loaded" /\ entries'[key[w]] = held[w] =>
              published'[TableOf[key[w].name]] <= loaded[w].version
      BY <1>a, <2>1, <2>2, <2>3 DEF Shape, Holding
    <2>7. \A k \in Keys : entries'[k] # None /\ state[entries'[k]] = "ready" =>
              published'[TableOf[k.name]] <= ready[entries'[k]].version
      BY <1>a, <2>1, <2>2, <2>4
    <2> QED
      BY <1>14, <1>a, <2>2, <2>5, <2>6, <2>7 DEF Invalidate, wvars
  <1>15. CASE Tick \/ UNCHANGED vars
    BY <1>15, <1>a DEF Tick, vars, svars, wvars
  <1> QED
    BY <1>1, <1>2, <1>3, <1>4, <1>5, <1>6, <1>7, <1>8, <1>9, <1>10, <1>11, <1>12, <1>13,
       <1>14, <1>15
    DEF Next, Step

\* expires_at never exceeds what the credentials or the TTL allow, unless it has
\* already passed.
LEMMA TimedStep == ASSUME IInv, [Next]_vars PROVE Timed'
  <1> USE CacheAssumption DEF Timed
  <1>a. TypeOK /\ Shape /\ Timed BY DEF IInv
  <1>1. ASSUME NEW w \in Workers, NEW p \in Principals, NEW n \in Names, Begin(w, p, n)
        PROVE  Timed'
    BY <1>1, <1>a DEF Begin, TypeOK, svars
  <1>2. ASSUME NEW w \in Workers, FindSlot(w) \/ CacheFull(w) PROVE Timed'
    BY <1>2, <1>a DEF FindSlot, CacheFull, TypeOK
  <1>3. ASSUME NEW w \in Workers, InsertSlot(w) PROVE Timed'
    BY <1>3, <1>a, NewSlotFree DEF InsertSlot, TypeOK
  <1>4. ASSUME NEW w \in Workers, Arm(w) \/ WaitForLoad(w) \/ Park(w) PROVE Timed'
    BY <1>4, <1>a DEF Arm, WaitForLoad, Park, TypeOK, svars
  <1>5. ASSUME NEW w \in Workers, Hit(w) \/ Wake(w) \/ NotifyWaiters(w) PROVE Timed'
    BY <1>5, <1>a DEF Hit, Wake, NotifyWaiters, TypeOK, svars
  <1>6. ASSUME NEW w \in Workers, Claim(w) PROVE Timed'
    BY <1>6, <1>a DEF Claim, TypeOK
  <1>7. ASSUME NEW w \in Workers, OpenTable(w) PROVE Timed'
    <2>1. PICK life \in Lifetimes : loaded' = [loaded EXCEPT ![w] = Opened(w, life)]
      BY <1>7 DEF OpenTable
    <2>2. /\ loaded'[w].expires = ExpiresAt(clock, clock + life)
          /\ loaded'[w].credExp = clock + life
      BY <1>a, <2>1 DEF Opened, TypeOK
    <2>3. \/ ExpiresAt(clock, clock + life) + Skew <= clock + life
          \/ ExpiresAt(clock, clock + life) <= clock
      <3>1. clock \in 0..MaxInstant /\ life \in Int
        BY <1>a DEF TypeOK
      <3> QED
        BY <3>1 DEF ExpiresAt, CheckedDeadline, SaturatingSub
    <2> QED
      BY <1>7, <1>a, <2>1, <2>2, <2>3 DEF OpenTable, TypeOK, svars
  <1>8. ASSUME NEW w \in Workers, LoadDirect(w) PROVE Timed'
    BY <1>8, <1>a DEF LoadDirect, TypeOK, svars
  <1>9. ASSUME NEW w \in Workers, Publish(w) PROVE Timed'
    <2> DEFINE c == CapExpiresAt(loaded[w], clock)
    <2>1. loaded[w] \in CachedTables /\ held[w] \in Slots /\ clock \in 0..MaxInstant
      BY <1>9, <1>a DEF Publish, TypeOK, Shape, Holding
    <2>2. /\ c.expires \in Int /\ c.credExp = loaded[w].credExp /\ c.since = clock
          /\ c.expires <= loaded[w].expires /\ c.expires <= clock + Ttl
          /\ loaded[w].expires \in Int /\ loaded[w].credExp \in Int
      BY <2>1, CapType DEF CachedTables
    <2>3. ~IsExpired(c, clock) => c.expires + Skew <= c.credExp /\ c.expires <= c.since + Ttl
      <3> HIDE DEF c
      <3> QED
        BY <1>9, <1>a, <2>1, <2>2 DEF IsExpired, Publish
    <2>4. /\ state' = [state EXCEPT ![held[w]] = IF IsExpired(c, clock) THEN "empty" ELSE "ready"]
          /\ ready' = [ready EXCEPT ![held[w]] = IF IsExpired(c, clock) THEN None ELSE c]
      BY <1>9 DEF Publish
    <2> HIDE DEF c
    <2>5. \A s \in Slots : state'[s] = "ready" => /\ ready'[s].expires + Skew <= ready'[s].credExp
                                                  /\ ready'[s].expires <= ready'[s].since + Ttl
      BY <1>a, <2>1, <2>3, <2>4 DEF TypeOK
    <2>6. \A v \in Workers : pc'[v] = "loaded" => pc[v] = "loaded" /\ loaded'[v] = loaded[v]
      BY <1>9, <1>a DEF Publish, TypeOK
    <2> QED
      BY <1>9, <1>a, <2>5, <2>6 DEF Publish
  <1>10. ASSUME NEW w \in Workers, FailLoad(w) \/ RemoveSlot(w) PROVE Timed'
    BY <1>10, <1>a DEF FailLoad, RemoveSlot, TypeOK
  <1>11. ASSUME NEW w \in Workers, Return(w) \/ Abandon(w) PROVE Timed'
    BY <1>11, <1>a DEF Return, Abandon, Reset, TypeOK, svars
  <1>12. ASSUME NEW t \in Tables, Commit(t) \/ Invalidate(t) PROVE Timed'
    BY <1>12, <1>a DEF Commit, Invalidate, TypeOK, svars, wvars
  <1>13. CASE Tick
    <2>1. \A w \in Workers : pc[w] = "loaded" => loaded[w].expires \in Int
      BY <1>a DEF TypeOK, Shape, CachedTables
    <2>2. clock \in 0..MaxInstant /\ clock' = clock + 1
      BY <1>13, <1>a DEF Tick, TypeOK
    <2> QED
      BY <1>13, <1>a, <2>1, <2>2 DEF Tick, svars, wvars
  <1>14. CASE UNCHANGED vars
    BY <1>14, <1>a DEF vars, svars, wvars
  <1> QED
    BY <1>1, <1>2, <1>3, <1>4, <1>5, <1>6, <1>7, <1>8, <1>9, <1>10, <1>11, <1>12, <1>13, <1>14
    DEF Next, Step

\* IInv is an invariant.
THEOREM InductiveInvariant == Spec => []IInv
  <1>1. IInv /\ [Next]_vars => IInv'
    <2> SUFFICES ASSUME IInv, [Next]_vars PROVE IInv'
      OBVIOUS
    <2> QED
      BY TypeStep, ShapeStep, OwnedStep, SingleFlightStep, ProvenanceStep, FreshStep, TimedStep
      DEF IInv
  <1> QED
    BY InitInv, <1>1, PTL DEF Spec

-----------------------------------------------------------------------------
(* The results *)

\* Every variable of the cache keeps its type.
THEOREM TypeCorrect == Spec => []TypeOK
  <1>1. IInv => TypeOK
    BY DEF IInv
  <1> QED
    BY InductiveInvariant, <1>1, PTL

\* A slot never has two loaders, however lookups, prunings, failures and drops
\* interleave.
THEOREM LoadsAreSingleFlight == Spec => []SingleFlight
  <1>1. IInv => SingleFlight
    BY DEF IInv
  <1> QED
    BY InductiveInvariant, <1>1, PTL

\* A cache hit is always served inside the credentials' lifetime less the skew
\* and inside the TTL.
THEOREM HitsAreLive == Spec => HitIsLive
  <1> DEFINE Live1 == \A w \in Workers :
                pc[w] = "check" /\ pc'[w] = "done" =>
                    /\ clock + Skew < answer'[w].credExp
                    /\ clock < answer'[w].since + Ttl
  <1>1. IInv /\ [Next]_vars => [Live1]_vars
    <2> SUFFICES ASSUME IInv, Next, NEW w \in Workers, pc[w] = "check", pc'[w] = "done"
                 PROVE  /\ clock + Skew < answer'[w].credExp
                        /\ clock < answer'[w].since + Ttl
      OBVIOUS
    <2>a. TypeOK /\ Shape /\ Timed
      BY DEF IInv
    <2>1. Hit(w)
      <3>1. ASSUME NEW v \in Workers, Step(v), v # w PROVE pc'[w] = pc[w]
        BY <3>1, <2>a DEF Step, FindSlot, InsertSlot, CacheFull, Arm, Hit, WaitForLoad, Park, Claim, Wake,
           OpenTable, LoadDirect, Publish, FailLoad, RemoveSlot, NotifyWaiters, Return, Reset, TypeOK
      <3>2. ASSUME Step(w) PROVE Hit(w)
        BY <3>2, <2>a DEF Step, FindSlot, InsertSlot, CacheFull, Arm, WaitForLoad, Park, Claim, Wake,
           OpenTable, LoadDirect, Publish, FailLoad, RemoveSlot, NotifyWaiters, Return, TypeOK
      <3>3. ASSUME NEW v \in Workers, NEW p \in Principals, NEW n \in Names, Begin(v, p, n)
            PROVE  pc'[w] = pc[w]
        BY <3>3, <2>a DEF Begin, TypeOK
      <3>4. ASSUME NEW v \in Workers, Abandon(v) PROVE pc'[w] # "done"
        BY <3>4, <2>a DEF Abandon, Reset, TypeOK
      <3>5. ASSUME NEW t \in Written, Commit(t) \/ Invalidate(t) PROVE pc' = pc
        BY <3>5 DEF Commit, Invalidate, wvars
      <3>6. ASSUME Tick PROVE pc' = pc
        BY <3>6 DEF Tick, wvars
      <3> QED
        BY <3>1, <3>2, <3>3, <3>4, <3>5, <3>6 DEF Next
    <2>2. held[w] \in Slots /\ ready[held[w]] \in CachedTables /\ answer'[w] = ready[held[w]]
      BY <2>a, <2>1 DEF Hit, TypeOK, Shape, Holding
    <2> QED
      BY <2>a, <2>1, <2>2, CacheAssumption DEF Hit, IsExpired, Timed, TypeOK, CachedTables
  <1> QED
    BY InductiveInvariant, <1>1, PTL DEF Spec, HitIsLive

\* Pruning leaves the slots that are being loaded alone.
LEMMA LoadingIsKept ==
    ASSUME NEW now, NEW k \in Keys, entries[k] # None, state[entries[k]] = "loading"
    PROVE  Pruned(now)[k] = entries[k]
  BY DEF Pruned, Prunable

\* Lookups detach a slot that is being loaded only to clean up after a failed
\* load of that very slot; whatever else detaches it is an invalidation.
THEOREM LoadingSlotsStay == Spec => LoadingSlotStays
  <1> DEFINE Stays == \A k \in Keys :
                /\ entries[k] # None
                /\ state[entries[k]] = "loading"
                /\ entries'[k] # entries[k]
                => \/ Invalidate(TableOf[k.name])
                   \/ \E w \in Workers : pc[w] = "remove" /\ held[w] = entries[k]
  <1>1. IInv /\ [Next]_vars => [Stays]_vars
    <2> SUFFICES ASSUME IInv, Next, NEW k \in Keys, entries[k] # None,
                        state[entries[k]] = "loading", entries'[k] # entries[k]
                 PROVE  \/ Invalidate(TableOf[k.name])
                        \/ \E w \in Workers : pc[w] = "remove" /\ held[w] = entries[k]
      OBVIOUS
    <2>a. TypeOK /\ Shape
      BY DEF IInv
    <2>1. ASSUME NEW w \in Workers, FindSlot(w) \/ CacheFull(w) PROVE FALSE
      BY <2>1, LoadingIsKept DEF FindSlot, CacheFull
    <2>2. ASSUME NEW w \in Workers, InsertSlot(w) PROVE FALSE
      <3>1. k # key[w]
        BY <2>2, LoadingIsKept DEF InsertSlot
      <3>2. Pruned(at[w]) \in [Keys -> Slots \cup {None}]
        BY <2>a, PrunedType
      <3> QED
        BY <2>2, <3>1, <3>2, LoadingIsKept DEF InsertSlot
    <2>3. ASSUME NEW w \in Workers, RemoveSlot(w)
          PROVE  pc[w] = "remove" /\ held[w] = entries[k]
      BY <2>3, <2>a DEF RemoveSlot, TypeOK
    <2>4. ASSUME NEW t \in Written, Invalidate(t) PROVE Invalidate(TableOf[k.name])
      BY <2>4 DEF Invalidate
    <2>5. ASSUME NEW w \in Workers, Step(w) PROVE FindSlot(w) \/ InsertSlot(w) \/ CacheFull(w) \/ RemoveSlot(w)
      BY <2>5
      DEF Step, Arm, Hit, WaitForLoad, Park, Claim, Wake, OpenTable, LoadDirect, Publish,
          FailLoad, NotifyWaiters, Return, svars
    <2> QED
      BY <2>1, <2>2, <2>3, <2>4, <2>5 DEF Next, Begin, Abandon, Commit, Tick, svars
  <1> QED
    BY InductiveInvariant, <1>1, PTL DEF Spec, LoadingSlotStays

\* A map with no key the other lacks is no larger.
LEMMA SmallerMap ==
    ASSUME NEW f, NEW g, Live(g) \subseteq Live(f), Cardinality(Live(f)) <= MaxEntries
    PROVE  Cardinality(Live(g)) <= MaxEntries
  <1>1. IsFiniteSet(Live(f)) /\ IsFiniteSet(Live(g))
    BY CacheAssumption, FS_Subset DEF Live
  <1>2. Cardinality(Live(g)) <= Cardinality(Live(f)) /\ Cardinality(Live(g)) \in Nat
        /\ Cardinality(Live(f)) \in Nat
    BY <1>1, FS_Subset, FS_CardinalityType
  <1> QED
    BY <1>2, CacheAssumption

\* The cache never holds more than MaxEntries slots.
THEOREM CapacityIsBounded == Spec => []CapacityBound
  <1>1. Init => CapacityBound
    <2> SUFFICES ASSUME Init PROVE CapacityBound
      OBVIOUS
    <2>1. Live(entries) = {}
      BY DEF Init, Live
    <2> QED
      BY <2>1, FS_EmptySet, CacheAssumption DEF CapacityBound
  <1>2. IInv /\ CapacityBound /\ [Next]_vars => CapacityBound'
    <2> SUFFICES ASSUME IInv, CapacityBound, [Next]_vars PROVE CapacityBound'
      OBVIOUS
    <2>a. TypeOK /\ Shape
      BY DEF IInv
    <2>b. ASSUME Live(entries') \subseteq Live(entries) PROVE CapacityBound'
      BY <2>b, SmallerMap DEF CapacityBound
    <2>1. ASSUME NEW w \in Workers, InsertSlot(w) PROVE CapacityBound'
      <3> DEFINE map == Pruned(at[w])
      <3>1. key[w] \in Keys /\ NewSlot \in Slots /\ map \in [Keys -> Slots \cup {None}]
        BY <2>1, <2>a, KeyType, NewSlotFree, PrunedType DEF InsertSlot, Shape
      <3>2. entries' = [map EXCEPT ![key[w]] = NewSlot] /\ Cardinality(Live(map)) < MaxEntries
            /\ map[key[w]] = None
        BY <2>1 DEF InsertSlot
      <3> HIDE DEF map
      <3>3. Live(entries') = Live(map) \cup {key[w]} /\ key[w] \notin Live(map)
        BY <3>1, <3>2, CacheAssumption DEF Live
      <3>4. IsFiniteSet(Live(map))
        BY CacheAssumption, FS_Subset DEF Live
      <3>5. Cardinality(Live(entries')) = Cardinality(Live(map)) + 1
            /\ Cardinality(Live(map)) \in Nat
        BY <3>3, <3>4, FS_AddElement, FS_CardinalityType
      <3> QED
        BY <3>2, <3>5, CacheAssumption DEF CapacityBound
    <2>2. ASSUME NEW w \in Workers, FindSlot(w) \/ CacheFull(w) PROVE CapacityBound'
      <3>1. \A k \in Keys : entries'[k] # None => entries'[k] = entries[k]
        BY <2>2, <2>a, PrunedType DEF FindSlot, CacheFull
      <3> QED
        BY <3>1, <2>b DEF Live
    <2>3. ASSUME NEW w \in Workers, RemoveSlot(w) PROVE CapacityBound'
      BY <2>3, <2>a, <2>b DEF RemoveSlot, TypeOK, Live
    <2>4. ASSUME NEW t \in Tables, Invalidate(t) PROVE CapacityBound'
      BY <2>4, <2>b DEF Invalidate, Live
    <2>5. ASSUME UNCHANGED entries PROVE CapacityBound'
      BY <2>5, <2>b
    <2>6. ASSUME NEW w \in Workers, Step(w) PROVE CapacityBound'
      BY <2>1, <2>2, <2>3, <2>5, <2>6
      DEF Step, Arm, Hit, WaitForLoad, Park, Claim, Wake, OpenTable, LoadDirect, Publish, FailLoad,
          NotifyWaiters, Return, svars
    <2> QED
      BY <2>4, <2>5, <2>6, CacheAssumption
      DEF Next, Begin, Abandon, Commit, Tick, vars, svars
  <1> QED
    BY InductiveInvariant, <1>1, <1>2, PTL DEF Spec

-----------------------------------------------------------------------------
(* No lost wakeup, as long as no load is dropped *)

\* A slot marked as loading has its loader.
LoadingHasLoader ==
    \A s \in Slots :
        state[s] = "loading" => \E v \in Workers : held[v] = s /\ Loading(v)

\* Without abandonment, a loader leaves only after it has notified.
LEMMA LoaderStep ==
    ASSUME IInv, LoadingHasLoader, WaiterHasLoader, ~Abandonment, [Next]_vars
    PROVE  LoadingHasLoader' /\ WaiterHasLoader'
  <1> USE CacheAssumption DEF LoadingHasLoader, WaiterHasLoader, Loading
  <1>a. TypeOK /\ Shape /\ SingleFlight
    BY DEF IInv
  <1>1. ASSUME NEW w \in Workers, NEW p \in Principals, NEW n \in Names, Begin(w, p, n)
        PROVE  LoadingHasLoader' /\ WaiterHasLoader'
    BY <1>1, <1>a DEF Begin, TypeOK, Shape, svars
  <1>2. ASSUME NEW w \in Workers, FindSlot(w) PROVE LoadingHasLoader' /\ WaiterHasLoader'
    BY <1>2, <1>a DEF FindSlot, TypeOK, Shape, Holding
  <1>3. ASSUME NEW w \in Workers, InsertSlot(w) PROVE LoadingHasLoader' /\ WaiterHasLoader'
    <2>1. NewSlot \in Slots /\ \A v \in Workers : held[v] # NewSlot
      BY <1>3, NewSlotFree DEF InsertSlot, Free
    <2> QED
      BY <1>3, <1>a, <2>1 DEF InsertSlot, TypeOK, Shape, Holding
  <1>4. ASSUME NEW w \in Workers, CacheFull(w) \/ Arm(w) PROVE LoadingHasLoader' /\ WaiterHasLoader'
    BY <1>4, <1>a DEF CacheFull, Arm, TypeOK, svars
  <1>5. ASSUME NEW w \in Workers, Hit(w) \/ Wake(w) PROVE LoadingHasLoader' /\ WaiterHasLoader'
    BY <1>5, <1>a DEF Hit, Wake, TypeOK, svars
  <1>6. ASSUME NEW w \in Workers, WaitForLoad(w) \/ Park(w) PROVE LoadingHasLoader' /\ WaiterHasLoader'
    BY <1>6, <1>a DEF WaitForLoad, Park, TypeOK, Shape, Holding, svars
  <1>7. ASSUME NEW w \in Workers, Claim(w) PROVE LoadingHasLoader' /\ WaiterHasLoader'
    BY <1>7, <1>a DEF Claim, TypeOK, Shape, Holding
  <1>8. ASSUME NEW w \in Workers, OpenTable(w) \/ LoadDirect(w)
        PROVE  LoadingHasLoader' /\ WaiterHasLoader'
    BY <1>8, <1>a DEF OpenTable, LoadDirect, TypeOK, svars
  <1>9. ASSUME NEW w \in Workers, Publish(w) \/ FailLoad(w)
        PROVE  LoadingHasLoader' /\ WaiterHasLoader'
    <2>1. /\ held' = held /\ woken' = woken /\ held[w] \in Slots
          /\ pc'[w] \in {"remove", "notify"} /\ state'[held[w]] # "loading"
          /\ \A v \in Workers \ {w} : pc'[v] = pc[v]
          /\ \A s \in Slots \ {held[w]} : state'[s] = state[s]
          /\ Loading(w)
      BY <1>9, <1>a DEF Publish, FailLoad, TypeOK, Shape, Holding
    <2>2. \A s \in Slots : state'[s] = "loading" =>
              \E v \in Workers \ {w} : held'[v] = s /\ pc'[v] \in {"load", "loaded"}
      BY <2>1
    <2>3. \A u \in Workers : pc'[u] \in {"park", "waiting"} /\ ~woken'[u] =>
              \E v \in Workers : held'[v] = held'[u]
                                /\ pc'[v] \in {"load", "loaded", "remove", "notify"}
      BY <2>1
    <2> QED
      BY <2>2, <2>3
  <1>10. ASSUME NEW w \in Workers, RemoveSlot(w) PROVE LoadingHasLoader' /\ WaiterHasLoader'
    BY <1>10, <1>a DEF RemoveSlot, TypeOK
  <1>11. ASSUME NEW w \in Workers, NotifyWaiters(w) PROVE LoadingHasLoader' /\ WaiterHasLoader'
    BY <1>11, <1>a DEF NotifyWaiters, TypeOK, Shape, Holding, svars
  <1>12. ASSUME NEW w \in Workers, Return(w) PROVE LoadingHasLoader' /\ WaiterHasLoader'
    BY <1>12, <1>a DEF Return, Reset, TypeOK, Shape, Holding, svars
  <1>13. ASSUME NEW t \in Tables, Commit(t) \/ Invalidate(t)
         PROVE  LoadingHasLoader' /\ WaiterHasLoader'
    BY <1>13 DEF Commit, Invalidate, svars, wvars
  <1>14. CASE Tick \/ UNCHANGED vars
    BY <1>14 DEF Tick, vars, svars, wvars
  <1> QED
    BY <1>1, <1>2, <1>3, <1>4, <1>5, <1>6, <1>7, <1>8, <1>9, <1>10, <1>11, <1>12, <1>13, <1>14
    DEF Next, Step, Abandon

\* While no lookup is dropped, every parked lookup has a loader that will
\* notify it: no wakeup is lost between the check and the wait.
THEOREM NoWaiterIsStranded == ~Abandonment /\ Spec => []WaiterHasLoader
  <1> SUFFICES ASSUME ~Abandonment PROVE Spec => []WaiterHasLoader
    OBVIOUS
  <1>1. Init => LoadingHasLoader /\ WaiterHasLoader
    BY DEF Init, LoadingHasLoader, WaiterHasLoader
  <1>2. IInv /\ LoadingHasLoader /\ WaiterHasLoader /\ [Next]_vars
        => LoadingHasLoader' /\ WaiterHasLoader'
    BY LoaderStep
  <1> QED
    BY InductiveInvariant, <1>1, <1>2, PTL DEF Spec

-----------------------------------------------------------------------------
(* The cache implements SnapshotReads *)

\* The request a lookup's key stands for: the refinement mapping of want.
Want == [w \in Workers |->
            IF key[w] = None THEN None
            ELSE [table |-> TableOf[key[w].name], principal |-> key[w].principal]]

\* A request is never mistaken for the absence of one.
LEMMA WantSet ==
    ASSUME TypeOK, RequestAssumption
    PROVE  \A w \in Workers :
              /\ Want[w] = None <=> key[w] = None
              /\ key[w] # None => /\ Want[w] \in Reads!Requests
                                  /\ Want[w].table = TableOf[key[w].name]
                                  /\ Want[w].principal = key[w].principal
  BY KeyType, RequestAssumption DEF Want, Reads!Requests

\* Every step of the cache is a step of SnapshotReads or leaves it alone.
LEMMA RefinementStep ==
    ASSUME IInv, [Next]_vars
    PROVE  [Reads!SnapshotNext]_(Reads!svars)
  <1> USE CacheAssumption, RequestAssumption
  <1> USE DEF Reads!svars
  <1>a. TypeOK /\ Shape /\ Provenance /\ Fresh
    BY DEF IInv
  <1>b. \A w \in Workers :
              /\ Want[w] = None <=> key[w] = None
              /\ key[w] # None => /\ Want[w] \in Reads!Requests
                                  /\ Want[w].table = TableOf[key[w].name]
                                  /\ Want[w].principal = key[w].principal
    BY <1>a, WantSet
  <1>c. ASSUME UNCHANGED <<version, published, key, floor, answer>>
        PROVE  UNCHANGED Reads!svars
    BY <1>c
  \* An answer that is settled on.
  <1>d. ASSUME NEW w \in Workers, NEW c \in CachedTables,
               key[w] # None, answer[w] = None,
               answer' = [answer EXCEPT ![w] = c],
               From(c, key[w]), floor[w] <= c.version,
               UNCHANGED <<version, published, key, floor>>
        PROVE  Reads!SnapshotNext
    <2>1. Reads!SettleRead(w)
      <3>1. answer'[w] = c /\ \A o \in Workers \ {w} : answer'[o] = answer[o]
        BY <1>d, <1>a DEF TypeOK
      <3>2. c # None
        BY <1>d
      <3>3. Want' = Want
        BY <1>d DEF Want
      <3>4. Reads!Admissible(w, c)
        BY <1>d, <1>b DEF Reads!Admissible, From, Want
      <3> QED
        BY <1>d, <1>b, <3>1, <3>2, <3>3, <3>4 DEF Reads!SettleRead, Want
    <2> QED
      BY <2>1 DEF Reads!SnapshotNext
  <1>1. ASSUME NEW w \in Workers, NEW p \in Principals, NEW n \in Names, Begin(w, p, n)
        PROVE  Reads!SnapshotNext
    <2> DEFINE q == [table |-> TableOf[n], principal |-> p]
    <2>1. q \in Reads!Requests
      BY DEF Reads!Requests
    <2>2. key[w] = None /\ Want[w] = None
      BY <1>1, <1>a, <1>b DEF Begin, Shape
    <2>3. key'[w] # None /\ key'[w].name = n /\ key'[w].principal = p
      BY <1>1, <1>a DEF Begin, TypeOK, CacheKey, Keys
    <2>4. Want' = [Want EXCEPT ![w] = q]
      BY <1>1, <1>a, <2>2, <2>3 DEF Begin, TypeOK, Want, CacheKey
    <2>5. Reads!BeginRead(w, q)
      BY <1>1, <2>2, <2>4 DEF Begin, Reads!BeginRead, Want
    <2> QED
      BY <2>1, <2>5 DEF Reads!SnapshotNext
  <1>2. ASSUME NEW w \in Workers, Hit(w) PROVE Reads!SnapshotNext
    <2>1. /\ held[w] \in Slots /\ key[w] # None /\ answer[w] = None
          /\ state[held[w]] = "ready" /\ ready[held[w]] \in CachedTables
      BY <1>2, <1>a DEF Hit, TypeOK, Shape, Holding
    <2>2. owner[held[w]] = key[w]
      BY <2>1 DEF IInv, Owned
    <2>3. From(ready[held[w]], key[w]) /\ floor[w] <= ready[held[w]].version
      BY <2>1, <2>2, <1>a DEF Provenance, Fresh
    <2> QED
      BY <1>2, <1>d, <2>1, <2>3 DEF Hit
  <1>3. ASSUME NEW w \in Workers, LoadDirect(w) PROVE [Reads!SnapshotNext]_(Reads!svars)
    <2>1. key[w] # None /\ answer[w] = None
      BY <1>3, <1>a DEF LoadDirect, Shape
    <2>2. ASSUME NEW life \in Lifetimes, answer' = [answer EXCEPT ![w] = Opened(w, life)]
          PROVE  Reads!SnapshotNext
      <3>1. Opened(w, life) \in CachedTables
        BY <1>a, <2>1, OpenedType
      <3>2. From(Opened(w, life), key[w])
        BY <1>a, <2>1, KeyType DEF From, Opened, TypeOK
      <3>3. floor[w] <= Opened(w, life).version
        BY <1>a, <2>1, KeyType DEF Fresh, Opened, TypeOK
      <3> QED
        BY <1>3, <1>d, <2>1, <2>2, <3>1, <3>2, <3>3 DEF LoadDirect
    <2>3. CASE UNCHANGED answer
      BY <1>3, <1>c, <2>3 DEF LoadDirect
    <2> QED
      BY <1>3, <2>2, <2>3 DEF LoadDirect
  <1>4. ASSUME NEW w \in Workers, Publish(w) PROVE Reads!SnapshotNext
    <2> DEFINE c == CapExpiresAt(loaded[w], clock)
    <2>1. /\ key[w] # None /\ answer[w] = None /\ loaded[w] \in CachedTables
          /\ clock \in 0..MaxInstant
      BY <1>4, <1>a DEF Publish, TypeOK, Shape
    <2>2. /\ c \in CachedTables
          /\ c.table = loaded[w].table
          /\ c.principal = loaded[w].principal
          /\ c.version = loaded[w].version
      BY <2>1, CapType
    <2>3. From(loaded[w], key[w]) /\ floor[w] <= loaded[w].version
      BY <1>4, <1>a DEF Publish, Provenance, Fresh
    <2>4. From(c, key[w]) /\ floor[w] <= c.version
      BY <2>2, <2>3 DEF From
    <2> QED
      BY <1>4, <1>d, <2>1, <2>2, <2>4 DEF Publish
  <1>5. ASSUME NEW w \in Workers, Return(w) \/ Abandon(w) PROVE Reads!SnapshotNext
    <2>1. key[w] # None /\ Reset(w) /\ UNCHANGED <<version, published>>
      BY <1>5, <1>a DEF Return, Abandon, Shape
    <2>2. Want' = [Want EXCEPT ![w] = None]
      BY <2>1, <1>a DEF Reset, Want, TypeOK
    <2>3. Reads!EndRead(w)
      BY <2>1, <2>2, <1>b DEF Reset, Reads!EndRead, Want
    <2> QED
      BY <2>3 DEF Reads!SnapshotNext
  <1>6. ASSUME NEW t \in Tables, Commit(t) PROVE Reads!SnapshotNext
    BY <1>6 DEF Commit, Reads!SnapshotNext, Reads!CommitVersion, wvars
  <1>7. ASSUME NEW t \in Tables, Invalidate(t) PROVE Reads!SnapshotNext
    BY <1>7 DEF Invalidate, Reads!SnapshotNext, Reads!PublishVersion, wvars
  <1>8. ASSUME NEW w \in Workers, Step(w) PROVE [Reads!SnapshotNext]_(Reads!svars)
    BY <1>8, <1>2, <1>3, <1>4, <1>5, <1>c
    DEF Step, FindSlot, InsertSlot, CacheFull, Arm, WaitForLoad, Park, Claim, Wake, OpenTable,
        FailLoad, RemoveSlot, NotifyWaiters
  <1>9. CASE Tick \/ UNCHANGED vars
    BY <1>9, <1>c DEF Tick, vars, wvars
  <1> QED
    BY <1>1, <1>5, <1>6, <1>7, <1>8, <1>9 DEF Next

\* The cache implements SnapshotReads: whatever is cached, coalesced, expired,
\* invalidated or dropped, a lookup returns a snapshot of its own table and
\* principal that is no older than the last invalidation before it began.
THEOREM CacheRefinesSnapshotReads == Spec => ImplementsSnapshotReads
  <1>1. Init => Reads!SnapshotInit
    BY DEF Init, Reads!SnapshotInit
  <1>2. IInv /\ [Next]_vars => [Reads!SnapshotNext]_(Reads!svars)
    BY RefinementStep
  <1> QED
    BY InductiveInvariant, <1>1, <1>2, PTL
    DEF Spec, ImplementsSnapshotReads, Reads!SnapshotSpec
=============================================================================
