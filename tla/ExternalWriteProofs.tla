------------------------- MODULE ExternalWriteProofs -------------------------
(***************************************************************************)
(* Machine-checked proofs about ExternalWrite, for any number of writers,  *)
(* names, locations and schemas.                                           *)
(***************************************************************************)
EXTENDS ExternalWrite, TLAPS

\* A location has columns exactly when it has a Delta log, and a replaceable
\* registration tells them.
Consistent ==
    /\ \A l \in Locations : schema[l] = None <=> version[l] = 0
    /\ \A n \in Names :
         unity[n] # None /\ unity[n].replaceable =>
             /\ version[unity[n].location] > 0
             /\ schema[unity[n].location] = unity[n].columns

\* The statement's name is registered for what the statement writes.
Target(w) ==
    /\ unity[stmt[w].name] # None
    /\ ValidateExisting(unity[stmt[w].name], stmt[w])

\* The Delta log holds a table with the statement's columns.
HasData(w) ==
    /\ version[stmt[w].location] > 0
    /\ schema[stmt[w].location] = stmt[w].columns

\* What a writer's await implies.
Located(w) ==
    /\ pc[w] # "idle" => stmt[w] \in Statements
    /\ pc[w] \in {"credentials", "load", "write", "written", "lateWrite"} /\ existing[w]
         => Target(w)
    /\ pc[w] \in {"written", "register", "registered", "lateRegister"} => HasData(w)
    /\ pc[w] \in {"registered", "ok"} => Target(w)
    /\ pc[w] \in {"written", "register", "registered", "ok"} => committed[w] > 0

\* Which commits invalidations have covered.
Covered ==
    /\ \A n \in Names, l \in Locations : published[n][l] <= version[l]
    /\ \A w \in Writers :
         /\ pc[w] \in {"written", "register", "registered", "ok", "err", "lateRegister"}
              => committed[w] <= version[stmt[w].location]
         /\ pc[w] \notin {"written", "register", "registered", "ok", "err", "lateRegister"}
              => committed[w] = 0

IInv ==
    /\ TypeOK
    /\ Consistent
    /\ \A w \in Writers : Located(w)
    /\ Covered
    /\ EndedIsPublished

-----------------------------------------------------------------------------

\* The inductive invariant holds initially.
LEMMA InitInv == Init => IInv
  <1> SUFFICES ASSUME Init PROVE IInv
    OBVIOUS
  <1>1. TypeOK
    BY DEF Init, TypeOK, PCs
  <1>2. Consistent
    BY DEF Init, Consistent
  <1>3. \A w \in Writers : Located(w)
    BY DEF Init, Located
  <1>4. Covered
    BY <1>1 DEF Init, Covered, TypeOK
  <1>5. EndedIsPublished
    BY DEF Init, EndedIsPublished
  <1> QED
    BY <1>1, <1>2, <1>3, <1>4, <1>5 DEF IInv

\* Every action keeps the types.
LEMMA TypeStep == ASSUME IInv, [Next]_vars PROVE TypeOK'
  <1> USE WriteAssumption DEF TypeOK, Goto
  <1>a. TypeOK /\ \A w \in Writers : Located(w)
    BY DEF IInv
  <1>1. ASSUME NEW w \in Writers, NEW s \in Statements, Begin(w, s) PROVE TypeOK'
    BY <1>a, <1>1 DEF Begin, stores, PCs, Awaits
  <1>2. ASSUME NEW w \in Writers, ListTables(w) PROVE TypeOK'
    BY <1>a, <1>2 DEF ListTables, stores, PCs, Awaits
  <1>3. ASSUME NEW w \in Writers, TableDetails(w) \/ WriteCredentials(w) \/ LoadTable(w)
        PROVE  TypeOK'
    BY <1>a, <1>3 DEF TableDetails, WriteCredentials, LoadTable, stores, PCs, Awaits, Guarded
  <1>4. ASSUME NEW w \in Writers, Write(w) PROVE TypeOK'
    <2>1. stmt[w] \in Statements
      BY <1>a, <1>4 DEF Write, Located
    <2> QED
      BY <1>a, <1>4, <2>1 DEF Write, StoreCommit, Statements, PCs, Awaits, Guarded
  <1>5. ASSUME NEW w \in Writers, WriteReturns(w) \/ CreateReturns(w) \/ Fail(w) PROVE TypeOK'
    <2>1. published' \in [Names -> [Locations -> Nat]]
      BY <1>a, <1>5 DEF WriteReturns, CreateReturns, Fail, Leave
    <2>2. pc' \in [Writers -> PCs]
      BY <1>a, <1>5 DEF WriteReturns, CreateReturns, Fail, Leave, PCs, Awaits, Guarded
    <2> QED
      BY <1>a, <1>5, <2>1, <2>2 DEF WriteReturns, CreateReturns, Fail, stores
  <1>6. ASSUME NEW w \in Writers, CreateExternalTable(w) PROVE TypeOK'
    <2>1. stmt[w] \in Statements
      BY <1>a, <1>6 DEF CreateExternalTable, Located
    <2> QED
      BY <1>a, <1>6, <2>1
      DEF CreateExternalTable, StoreRegistration, Statements, Registrations, PCs, Awaits, Guarded
  <1>7. ASSUME NEW w \in Writers, LandWrite(w) PROVE TypeOK'
    <2>1. stmt[w] \in Statements
      BY <1>a, <1>7 DEF LandWrite, Located
    <2> QED
      BY <1>a, <1>7, <2>1 DEF LandWrite, StoreCommit, Finished, Statements, PCs
  <1>8. ASSUME NEW w \in Writers, LandRegistration(w) PROVE TypeOK'
    <2>1. stmt[w] \in Statements
      BY <1>a, <1>8 DEF LandRegistration, Located
    <2> QED
      BY <1>a, <1>8, <2>1
      DEF LandRegistration, StoreRegistration, Finished, Statements, Registrations, PCs
  <1>9. ASSUME NEW w \in Writers, Return(w) PROVE TypeOK'
    BY <1>a, <1>9 DEF Return, Finished, stores, PCs
  <1>10. ASSUME NEW n \in Names, NEW l \in Locations, Recover(n, l) PROVE TypeOK'
    <2>1. schema[l] \in Schemas
      BY <1>a, <1>10 DEF Recover, IInv, Consistent
    <2> QED
      BY <1>a, <1>10, <2>1 DEF Recover, Registrations, wvars
  <1>11. CASE UNCHANGED vars
    BY <1>a, <1>11 DEF vars, stores, wvars
  <1> QED
    BY <1>1, <1>2, <1>3, <1>4, <1>5, <1>6, <1>7, <1>8, <1>9, <1>10, <1>11 DEF Next, Step

-----------------------------------------------------------------------------
(* What a step does to the two stores *)

\* A commit lands where there is nothing, or on the statement's own target.
LEMMA CommitTarget ==
    ASSUME IInv, NEW w \in Writers, pc[w] \in {"write", "lateWrite"}, StoreCommit(w)
    PROVE  /\ stmt[w] \in Statements
           /\ \/ version[stmt[w].location] = 0
              \/ Target(w) /\ schema[stmt[w].location] = stmt[w].columns
  BY DEF IInv, Located, StoreCommit, SaveModeAllows, Target, ValidateExisting, Consistent,
         Statements, TypeOK

\* A registration tells the columns of the data it is for.
LEMMA RegistrationHasData ==
    ASSUME IInv, NEW w \in Writers, pc[w] \in {"register", "lateRegister"}
    PROVE  stmt[w] \in Statements /\ HasData(w)
  BY DEF IInv, Located

\* Every step is a step of ExternalTables, or leaves the stores alone.
LEMMA StoreStep ==
    ASSUME IInv, [Next]_vars
    PROVE  \/ UNCHANGED stores
           \/ \E l \in Locations, c \in Schemas : Tables!CreateData(l, c)
           \/ \E n \in Names, l \in Locations : Tables!RegisterData(n, l)
           \/ \E n \in Names : Tables!ReplaceData(n)
  <1> USE WriteAssumption
  <1>a. TypeOK
    BY DEF IInv
  <1>1. ASSUME NEW w \in Writers, pc[w] \in {"write", "lateWrite"}, StoreCommit(w)
        PROVE  \/ \E l \in Locations, c \in Schemas : Tables!CreateData(l, c)
               \/ \E n \in Names : Tables!ReplaceData(n)
    <2>1. stmt[w] \in Statements
      BY <1>1, CommitTarget
    <2>2. stmt[w].location \in Locations /\ stmt[w].columns \in Schemas /\ stmt[w].name \in Names
      BY <2>1 DEF Statements
    <2>3. CASE version[stmt[w].location] = 0
      <3>1. Tables!CreateData(stmt[w].location, stmt[w].columns)
        BY <1>1, <1>a, <2>2, <2>3 DEF StoreCommit, Tables!CreateData, TypeOK
      <3> QED
        BY <2>2, <3>1
    <2>4. CASE Target(w) /\ schema[stmt[w].location] = stmt[w].columns
      <3>1. schema' = schema
        BY <1>1, <1>a, <2>2, <2>4 DEF StoreCommit, TypeOK
      <3>2. Tables!ReplaceData(stmt[w].name)
        BY <1>1, <2>4, <3>1 DEF StoreCommit, Tables!ReplaceData, Target, ValidateExisting
      <3> QED
        BY <2>2, <3>2
    <2> QED
      BY <1>1, <2>3, <2>4, CommitTarget
  <1>2. ASSUME NEW w \in Writers, pc[w] \in {"register", "lateRegister"}, StoreRegistration(w)
        PROVE  \E n \in Names, l \in Locations : Tables!RegisterData(n, l)
    <2>1. stmt[w] \in Statements /\ HasData(w)
      BY <1>2, RegistrationHasData
    <2>2. stmt[w].location \in Locations /\ stmt[w].name \in Names
      BY <2>1 DEF Statements
    <2>3. Tables!RegisterData(stmt[w].name, stmt[w].location)
      BY <1>2, <2>1 DEF StoreRegistration, Tables!RegisterData, HasData
    <2> QED
      BY <2>2, <2>3
  <1>3. ASSUME NEW n \in Names, NEW l \in Locations, Recover(n, l)
        PROVE  Tables!RegisterData(n, l)
    BY <1>3 DEF Recover, Tables!RegisterData
  <1>4. CASE UNCHANGED vars
    BY <1>4 DEF vars
  <1>5. ASSUME NEW w \in Writers, NEW s \in Statements, Begin(w, s) PROVE UNCHANGED stores
    BY <1>5 DEF Begin
  <1>6. ASSUME NEW w \in Writers,
               \/ ListTables(w) \/ TableDetails(w) \/ WriteCredentials(w) \/ LoadTable(w)
               \/ WriteReturns(w) \/ CreateReturns(w) \/ Fail(w) \/ Return(w)
        PROVE  UNCHANGED stores
    BY <1>6 DEF ListTables, TableDetails, WriteCredentials, LoadTable, WriteReturns,
                CreateReturns, Fail, Return
  <1> QED
    BY <1>1, <1>2, <1>3, <1>4, <1>5, <1>6
    DEF Next, Step, Write, LandWrite, CreateExternalTable, LandRegistration

\* Registrations stay, logs grow, and existing data keeps its columns.
LEMMA StoresGrow ==
    ASSUME IInv, [Next]_vars
    PROVE  /\ Consistent'
           /\ \A n \in Names : unity[n] # None => unity'[n] = unity[n]
           /\ \A l \in Locations : version[l] <= version'[l]
           /\ \A l \in Locations : version[l] > 0 => schema'[l] = schema[l]
  <1> USE WriteAssumption
  <1>a. TypeOK /\ Consistent
    BY DEF IInv
  <1>1. CASE UNCHANGED stores
    BY <1>1, <1>a DEF stores, Consistent, TypeOK
  <1>2. ASSUME NEW l \in Locations, NEW c \in Schemas, Tables!CreateData(l, c)
        PROVE  /\ Consistent'
               /\ \A n \in Names : unity[n] # None => unity'[n] = unity[n]
               /\ \A k \in Locations : version[k] <= version'[k]
               /\ \A k \in Locations : version[k] > 0 => schema'[k] = schema[k]
    <2>1. /\ \A n \in Names : unity'[n] = unity[n]
          /\ \A k \in Locations : version[k] <= version'[k]
          /\ \A k \in Locations : version[k] > 0 => schema'[k] = schema[k]
          /\ \A k \in Locations : k # l => version'[k] = version[k] /\ schema'[k] = schema[k]
          /\ version'[l] = 1 /\ schema'[l] = c
      BY <1>2, <1>a DEF Tables!CreateData, TypeOK
    <2>2. \A n \in Names : unity[n] # None => unity[n].location \in Locations
      BY <1>a DEF TypeOK, Registrations
    <2>3. Consistent'
      BY <1>2, <1>a, <2>1, <2>2 DEF Consistent, Tables!CreateData, TypeOK
    <2> QED
      BY <2>1, <2>3
  <1>3. ASSUME NEW n \in Names, NEW l \in Locations, Tables!RegisterData(n, l)
        PROVE  /\ Consistent'
               /\ \A m \in Names : unity[m] # None => unity'[m] = unity[m]
               /\ \A k \in Locations : version[k] <= version'[k]
               /\ \A k \in Locations : version[k] > 0 => schema'[k] = schema[k]
    BY <1>3, <1>a DEF Tables!RegisterData, Consistent, TypeOK
  <1>4. ASSUME NEW n \in Names, Tables!ReplaceData(n)
        PROVE  /\ Consistent'
               /\ \A m \in Names : unity[m] # None => unity'[m] = unity[m]
               /\ \A k \in Locations : version[k] <= version'[k]
               /\ \A k \in Locations : version[k] > 0 => schema'[k] = schema[k]
    <2>1. unity[n].location \in Locations /\ version[unity[n].location] > 0
      BY <1>4, <1>a DEF Tables!ReplaceData, TypeOK, Registrations, Consistent
    <2>2. /\ \A k \in Locations : version[k] <= version'[k]
          /\ \A k \in Locations : version[k] > 0 <=> version'[k] > 0
          /\ \A k \in Locations : version[k] = 0 <=> version'[k] = 0
      BY <1>4, <1>a, <2>1 DEF Tables!ReplaceData, TypeOK
    <2>3. \A m \in Names : unity[m] # None => unity[m].location \in Locations
      BY <1>a DEF TypeOK, Registrations
    <2> QED
      BY <1>4, <1>a, <2>2, <2>3 DEF Tables!ReplaceData, Consistent
  <1> QED
    BY <1>1, <1>2, <1>3, <1>4, StoreStep

\* A target stays a target and data stays data, whatever step is taken.
LEMMA Persists ==
    ASSUME IInv, [Next]_vars, NEW w \in Writers, stmt[w] \in Statements, stmt'[w] = stmt[w]
    PROVE  /\ Target(w) => Target(w)'
           /\ HasData(w) => HasData(w)'
  <1>1. stmt[w].name \in Names /\ stmt[w].location \in Locations
    BY DEF Statements
  <1>2. version \in [Locations -> Nat] /\ version' \in [Locations -> Nat]
    BY TypeStep DEF IInv, TypeOK
  <1> QED
    BY <1>1, <1>2, StoresGrow DEF Target, HasData, ValidateExisting

-----------------------------------------------------------------------------
(* The statements *)

\* A statement's locals still say what its await implies.
LEMMA LocatedStep == ASSUME IInv, [Next]_vars, NEW u \in Writers PROVE Located(u)'
  <1> USE WriteAssumption DEF Goto
  <1>a. TypeOK /\ Located(u) /\ TypeOK'
    BY TypeStep DEF IInv
  <1>b. ASSUME pc'[u] = pc[u], stmt'[u] = stmt[u], existing'[u] = existing[u],
               committed'[u] = committed[u]
        PROVE  Located(u)'
    <2>1. CASE pc[u] = "idle"
      BY <1>b, <2>1 DEF Located
    <2>2. CASE pc[u] # "idle"
      <3>1. stmt[u] \in Statements
        BY <1>a, <2>2 DEF Located
      <3>2. (Target(u) => Target(u)') /\ (HasData(u) => HasData(u)')
        BY <1>b, <3>1, Persists
      <3> QED
        BY <1>a, <1>b, <3>1, <3>2 DEF Located
    <2> QED
      BY <2>1, <2>2
  <1>c. ASSUME pc[u] # "idle", stmt'[u] = stmt[u]
        PROVE  /\ stmt[u] \in Statements
               /\ Target(u) => Target(u)'
               /\ HasData(u) => HasData(u)'
    <2>1. stmt[u] \in Statements
      BY <1>a, <1>c DEF Located
    <2> QED
      BY <1>c, <2>1, Persists
  <1>1. ASSUME NEW w \in Writers, NEW s \in Statements, Begin(w, s) PROVE Located(u)'
    <2>1. CASE u = w
      BY <1>a, <1>1, <2>1 DEF Begin, Located, TypeOK
    <2>2. CASE u # w
      BY <1>a, <1>1, <1>b, <2>2 DEF Begin, TypeOK
    <2> QED
      BY <2>1, <2>2
  <1>2. ASSUME NEW w \in Writers, Step(w), u # w PROVE Located(u)'
    <2>1. /\ pc'[u] = pc[u] /\ stmt'[u] = stmt[u]
          /\ existing'[u] = existing[u] /\ committed'[u] = committed[u]
      BY <1>a, <1>2
      DEF Step, ListTables, TableDetails, WriteCredentials, LoadTable, Write, WriteReturns,
          CreateExternalTable, CreateReturns, Fail, LandWrite, LandRegistration, Return,
          Leave, Finished, TypeOK
    <2> QED
      BY <1>b, <2>1
  <1>3. ASSUME ListTables(u) PROVE Located(u)'
    BY <1>a, <1>c, <1>3 DEF ListTables, Located, TypeOK
  <1>4. ASSUME TableDetails(u) PROVE Located(u)'
    <2>1. pc'[u] = "credentials" => Target(u)
      BY <1>a, <1>4 DEF TableDetails, Target, TypeOK
    <2>2. stmt' = stmt /\ pc[u] = "details" /\ pc'[u] \in {"credentials", "err"}
      BY <1>a, <1>4 DEF TableDetails, TypeOK
    <2> QED
      BY <1>c, <2>1, <2>2 DEF Located
  <1>5. ASSUME WriteCredentials(u) \/ LoadTable(u) PROVE Located(u)'
    BY <1>a, <1>c, <1>5 DEF WriteCredentials, LoadTable, Located, TypeOK
  <1>6. ASSUME Write(u) PROVE Located(u)'
    <2>1. stmt[u] \in Statements /\ stmt[u].location \in Locations
      BY <1>a, <1>6 DEF Write, Located, Statements
    <2>2. HasData(u)' /\ committed'[u] > 0
      BY <1>a, <1>6, <2>1 DEF Write, StoreCommit, HasData, TypeOK
    <2> QED
      BY <1>a, <1>c, <1>6, <2>2 DEF Write, Located, TypeOK
  <1>7. ASSUME WriteReturns(u) \/ CreateReturns(u) PROVE Located(u)'
    BY <1>a, <1>c, <1>7 DEF WriteReturns, CreateReturns, Leave, Located, TypeOK
  <1>8. ASSUME CreateExternalTable(u) PROVE Located(u)'
    <2>1. stmt[u] \in Statements /\ stmt[u].name \in Names
      BY <1>a, <1>8 DEF CreateExternalTable, Located, Statements
    <2> DEFINE r == [location |-> stmt[u].location, columns |-> stmt[u].columns,
                     replaceable |-> TRUE]
    <2>2. Target(u)'
      <3>1. r \in Registrations
        BY <2>1 DEF Statements, Registrations
      <3>2. r # None
        BY <3>1
      <3>3. stmt' = stmt /\ unity'[stmt[u].name] = r
        BY <1>a, <1>8, <2>1 DEF CreateExternalTable, StoreRegistration, TypeOK
      <3> QED
        BY <3>2, <3>3 DEF Target, ValidateExisting
    <2> QED
      BY <1>a, <1>c, <1>8, <2>2 DEF CreateExternalTable, Located, TypeOK
  <1>9. ASSUME Fail(u) PROVE Located(u)'
    BY <1>a, <1>c, <1>9 DEF Fail, Leave, Awaits, Guarded, Located, TypeOK
  <1>10. ASSUME LandWrite(u) \/ LandRegistration(u) \/ Return(u) PROVE Located(u)'
    BY <1>a, <1>10 DEF LandWrite, LandRegistration, Return, Finished, Located, TypeOK
  <1>11. ASSUME NEW n \in Names, NEW l \in Locations, Recover(n, l) PROVE Located(u)'
    BY <1>11, <1>b DEF Recover, wvars
  <1>12. CASE UNCHANGED vars
    BY <1>12, <1>b DEF vars, wvars
  <1> QED
    BY <1>1, <1>2, <1>3, <1>4, <1>5, <1>6, <1>7, <1>8, <1>9, <1>10, <1>11, <1>12 DEF Next, Step

\* Invalidation never goes back, and comes before a statement has ended.
LEMMA PublishedStep == ASSUME IInv, [Next]_vars PROVE Covered' /\ EndedIsPublished'
  <1> USE WriteAssumption DEF Goto
  <1> DEFINE Ended == {"ok", "err", "lateWrite", "lateRegister"}
             Wrote == {"written", "register", "registered", "ok", "err", "lateRegister"}
  <1>a. TypeOK /\ Covered /\ EndedIsPublished /\ TypeOK'
    BY TypeStep DEF IInv
  <1>b. \A l \in Locations : version[l] <= version'[l]
    BY StoresGrow
  <1>c. /\ \A n \in Names, l \in Locations : published[n][l] <= published'[n][l]
        /\ \A n \in Names, l \in Locations : published'[n][l] <= version'[l]
    <2>1. published' = published \/ \E n \in Names : published' = [published EXCEPT ![n] = version]
      <3>1. ASSUME NEW w \in Writers, WriteReturns(w) \/ CreateReturns(w) \/ Fail(w)
            PROVE  published' = published
                   \/ \E n \in Names : published' = [published EXCEPT ![n] = version]
        <4>1. stmt[w] \in Statements
          BY <3>1 DEF IInv, Located, WriteReturns, CreateReturns, Fail, Awaits, Guarded
        <4>2. stmt[w].name \in Names
          BY <4>1 DEF Statements
        <4> QED
          BY <3>1, <4>2 DEF WriteReturns, CreateReturns, Fail, Leave
      <3> QED
        BY <3>1 DEF Next, Step, Begin, ListTables, TableDetails, WriteCredentials, LoadTable,
           Write, CreateExternalTable, LandWrite, LandRegistration, Return, Finished, Recover,
           vars, wvars
    <2>2. \A l \in Locations : version[l] \in Nat /\ version'[l] \in Nat
      BY <1>a DEF TypeOK
    <2>3. \A n \in Names, l \in Locations : published[n][l] \in Nat /\ published'[n][l] \in Nat
      BY <1>a DEF TypeOK
    <2>4. \A n \in Names, l \in Locations : published[n][l] <= version[l]
      BY <1>a DEF Covered
    <2>5. \A n \in Names, l \in Locations :
             published'[n][l] = published[n][l] \/ published'[n][l] = version[l]
      BY <1>a, <2>1 DEF TypeOK
    <2> QED
      BY <1>b, <2>2, <2>3, <2>4, <2>5
  <1>d. \A w \in Writers : pc[w] # "idle" =>
          stmt[w] \in Statements /\ stmt[w].name \in Names /\ stmt[w].location \in Locations
    BY DEF IInv, Located, Statements
  <1>e. ASSUME NEW u \in Writers, pc'[u] = pc[u], stmt'[u] = stmt[u], committed'[u] = committed[u]
        PROVE  /\ pc'[u] \in Wrote => committed'[u] <= version'[stmt'[u].location]
               /\ pc'[u] \notin Wrote => committed'[u] = 0
               /\ pc'[u] \in Ended => committed'[u] <= published'[stmt'[u].name][stmt'[u].location]
    <2>1. CASE pc[u] = "idle"
      BY <1>a, <1>e, <2>1 DEF Covered
    <2>2. CASE pc[u] # "idle"
      <3>1. committed[u] \in Nat /\ stmt[u].name \in Names /\ stmt[u].location \in Locations
        BY <1>a, <1>d, <2>2 DEF TypeOK
      <3>2. /\ version[stmt[u].location] \in Nat /\ version'[stmt[u].location] \in Nat
            /\ published[stmt[u].name][stmt[u].location] \in Nat
            /\ published'[stmt[u].name][stmt[u].location] \in Nat
        BY <1>a, <3>1 DEF TypeOK
      <3> QED
        BY <1>a, <1>b, <1>c, <1>e, <3>1, <3>2 DEF Covered, EndedIsPublished
    <2> QED
      BY <2>1, <2>2
  <1>f. ASSUME NEW u \in Writers
        PROVE  /\ pc'[u] \in Wrote => committed'[u] <= version'[stmt'[u].location]
               /\ pc'[u] \notin Wrote => committed'[u] = 0
               /\ pc'[u] \in Ended => committed'[u] <= published'[stmt'[u].name][stmt'[u].location]
    <2>1. ASSUME NEW w \in Writers, NEW s \in Statements, Begin(w, s), u # w
          PROVE  pc'[u] = pc[u] /\ stmt'[u] = stmt[u] /\ committed'[u] = committed[u]
      BY <1>a, <2>1 DEF Begin, TypeOK
    <2>2. ASSUME NEW w \in Writers, Step(w), u # w
          PROVE  pc'[u] = pc[u] /\ stmt'[u] = stmt[u] /\ committed'[u] = committed[u]
      BY <1>a, <2>2
      DEF Step, ListTables, TableDetails, WriteCredentials, LoadTable, Write, WriteReturns,
          CreateExternalTable, CreateReturns, Fail, LandWrite, LandRegistration, Return,
          Leave, Finished, TypeOK
    <2>3. ASSUME \/ UNCHANGED vars
                 \/ \E n \in Names, l \in Locations : Recover(n, l)
          PROVE  pc'[u] = pc[u] /\ stmt'[u] = stmt[u] /\ committed'[u] = committed[u]
      BY <2>3 DEF Recover, vars, wvars
    <2>4. ASSUME NEW s \in Statements, Begin(u, s)
          PROVE  pc'[u] = "list" /\ committed'[u] = 0
      BY <1>a, <2>4 DEF Begin, TypeOK, Covered
    <2>5. ASSUME \/ ListTables(u) \/ TableDetails(u) \/ WriteCredentials(u) \/ LoadTable(u)
          PROVE  /\ pc'[u] \notin Ended \ {"err"}
                 /\ committed'[u] = 0 /\ stmt'[u] = stmt[u] /\ pc[u] # "idle"
      BY <1>a, <2>5 DEF ListTables, TableDetails, WriteCredentials, LoadTable, Covered, TypeOK
    <2>6. ASSUME Write(u)
          PROVE  /\ pc'[u] = "written" /\ stmt'[u] = stmt[u]
                 /\ committed'[u] = version'[stmt[u].location]
      BY <1>a, <1>d, <2>6 DEF Write, StoreCommit, TypeOK
    <2>7. ASSUME CreateExternalTable(u)
          PROVE  /\ pc'[u] = "registered" /\ stmt'[u] = stmt[u]
                 /\ committed'[u] = committed[u] /\ version' = version
      BY <1>a, <2>7 DEF CreateExternalTable, StoreRegistration, TypeOK
    <2>8. ASSUME LandWrite(u) \/ LandRegistration(u) \/ Return(u)
          PROVE  pc'[u] = "idle" /\ committed'[u] = 0
      BY <1>a, <2>8 DEF LandWrite, LandRegistration, Return, Finished, TypeOK
    <2>9. ASSUME WriteReturns(u) \/ CreateReturns(u) \/ Fail(u)
          PROVE  /\ pc[u] \in Awaits /\ stmt'[u] = stmt[u]
                 /\ committed'[u] = committed[u] /\ version' = version
                 /\ pc[u] \notin Wrote => pc'[u] \in {"err", "lateWrite"}
                 /\ pc[u] \in Wrote => pc'[u] \in Wrote
                 /\ pc[u] \in Guarded /\ pc'[u] \in Ended
                      => published' = [published EXCEPT ![stmt[u].name] = version]
      BY <1>a, <2>9
      DEF WriteReturns, CreateReturns, Fail, Leave, Awaits, Guarded, TypeOK, stores
    <2>10. CASE WriteReturns(u) \/ CreateReturns(u) \/ Fail(u)
      <3>1. /\ stmt[u].name \in Names /\ stmt[u].location \in Locations
            /\ committed[u] \in Nat
        BY <1>a, <1>d, <2>9, <2>10 DEF TypeOK, Awaits, Guarded
      <3>2. /\ version[stmt[u].location] \in Nat
            /\ published'[stmt[u].name][stmt[u].location] \in Nat
        BY <1>a, <3>1 DEF TypeOK
      <3>3. CASE pc[u] \in Guarded /\ pc'[u] \in Ended
        <4>1. published'[stmt[u].name][stmt[u].location] = version[stmt[u].location]
          BY <1>a, <2>9, <2>10, <3>1, <3>3 DEF TypeOK
        <4> QED
          BY <1>a, <2>9, <2>10, <3>1, <3>2, <3>3, <4>1 DEF Covered
      <3>4. CASE ~(pc[u] \in Guarded /\ pc'[u] \in Ended)
        BY <1>a, <2>9, <2>10, <3>1, <3>2, <3>4 DEF Covered, Awaits, Guarded
      <3> QED
        BY <3>3, <3>4
    <2>11. CASE \/ ListTables(u) \/ TableDetails(u) \/ WriteCredentials(u) \/ LoadTable(u)
      <3>1. /\ version'[stmt'[u].location] \in Nat
            /\ published'[stmt'[u].name][stmt'[u].location] \in Nat
        BY <1>a, <1>d, <2>5, <2>11 DEF TypeOK
      <3> QED
        BY <2>5, <2>11, <3>1
    <2>12. CASE Write(u)
      <3>1. version'[stmt[u].location] \in Nat
        BY <1>a, <1>d, <2>12 DEF Write, TypeOK
      <3> QED
        BY <2>6, <2>12, <3>1
    <2>13. CASE CreateExternalTable(u)
      <3>1. pc[u] = "register"
        BY <2>13 DEF CreateExternalTable
      <3> QED
        BY <1>a, <2>7, <2>13, <3>1 DEF Covered
    <2> QED
      BY <1>e, <2>1, <2>2, <2>3, <2>4, <2>8, <2>10, <2>11, <2>12, <2>13 DEF Next, Step
  <1> QED
    BY <1>c, <1>f DEF Covered, EndedIsPublished

-----------------------------------------------------------------------------
(* Theorems *)

\* The inductive invariant of CTAS statements.
THEOREM InductiveInvariant == Spec => []IInv
  <1>1. IInv /\ [Next]_vars => IInv'
    <2> SUFFICES ASSUME IInv, [Next]_vars PROVE IInv'
      OBVIOUS
    <2>1. \A w \in Writers : Located(w)'
      BY LocatedStep
    <2> QED
      BY <2>1, TypeStep, StoresGrow, PublishedStep DEF IInv
  <1> QED
    BY InitInv, <1>1, PTL DEF Spec

\* Every CTAS statement, however it races, fails or lands late, does to external
\* tables and registrations only what ExternalTables allows.
THEOREM WritesRefineExternalTables == Spec => ImplementsExternalTables
  <1>1. Init => Tables!TablesInit
    BY DEF Init, Tables!TablesInit, Tables!Registrations, Registrations, Tables!Matched
  <1>2. IInv /\ [Next]_vars => [Tables!TablesNext]_(Tables!tvars)
    BY StoreStep DEF Tables!TablesNext, Tables!tvars, stores
  <1> QED
    BY InductiveInvariant, <1>1, <1>2, PTL DEF Spec, ImplementsExternalTables, Tables!TablesSpec

\* Success means committed and registered.
THEOREM SuccessesAreDurable == Spec => []SuccessIsDurable
  <1>1. IInv => SuccessIsDurable
    <2> SUFFICES ASSUME IInv, NEW w \in Writers, pc[w] = "ok"
                 PROVE  LET r == unity[stmt[w].name] IN
                        /\ committed[w] \in 1..version[stmt[w].location]
                        /\ r # None
                        /\ r.location = stmt[w].location
                        /\ r.columns = stmt[w].columns
      BY DEF SuccessIsDurable
    <2>1. stmt[w] \in Statements /\ Target(w) /\ committed[w] > 0
      BY DEF IInv, Located
    <2>2. committed[w] \in Nat /\ version[stmt[w].location] \in Nat
      BY <2>1 DEF IInv, TypeOK, Statements
    <2>3. committed[w] <= version[stmt[w].location]
      BY DEF IInv, Covered
    <2> QED
      BY <2>1, <2>2, <2>3 DEF Target, ValidateExisting
  <1> QED
    BY InductiveInvariant, <1>1, PTL

\* No statement ends with its commit hidden behind a cached snapshot.
THEOREM EndedArePublished == Spec => []EndedIsPublished
  <1>1. IInv => EndedIsPublished
    BY DEF IInv
  <1> QED
    BY InductiveInvariant, <1>1, PTL
=============================================================================
