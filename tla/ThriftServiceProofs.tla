------------------------ MODULE ThriftServiceProofs ------------------------
(***************************************************************************)
(* Machine-checked proofs about ThriftService, for any number of requests, *)
(* sessions and operations and any limits.                                 *)
(***************************************************************************)
EXTENDS ThriftService, FiniteSetTheorems, TLAPS

Ended == {"ok", "err", "panic", "cancelled"}

\* What a process knows about its own request, by program counter.
Located ==
    \A p \in Processes :
        /\ pc[p] # "idle" /\ kind[p] \in SessionKinds => target[p] \in Sessions
        /\ pc[p] # "idle" /\ kind[p] \in OperationKinds => target[p] \in issued
        /\ pc[p] = "insert" => kind[p] \in {"GetColumns", "ExecuteStatement"}
        /\ pc[p] = "reap" => kind[p] \in SessionKinds
        /\ pc[p] \in {"refreshOne", "joinOne", "touch"} => kind[p] = "Poll"
        /\ holds[p] # None <=> pc[p] \in {"join", "joinOne", "await", "unreturned"}
        /\ pc[p] \in {"join", "joinOne"} => task[holds[p]] \in Ended
        /\ pc[p] \in {"await", "unreturned"} => channel[holds[p]] # "none"

\* How an operation's stored state, task and channel go together.
Consistent ==
    /\ \A o \in Operations :
         /\ execution[o] = "unused" <=> task[o] = "none"
         /\ execution[o] = "unused" => o \notin issued
         /\ execution[o] \in {"refreshing", "finished", "failed"} => task[o] \in Ended
         /\ execution[o] = "canceled" => o \in issued
         /\ channel[o] \in {"ok", "failed"} => task[o] \in Ended
         /\ execution[o] = "unused" => channel[o] = "none"
         /\ task[o] \in {"aborting", "cancelled"} => execution[o] \notin Active
         /\ channel[o] # "none" /\ o \in issued => task[o] \in Ended

IInv == TypeOK /\ Located /\ Consistent /\ NoRunawayTask

-----------------------------------------------------------------------------
(* Operators *)

\* Recording leaves natural numbers behind: the maps are finite.
LEMMA GaugeType ==
    ASSUME gauges \in [sessions : Nat, operations : Nat, active : Nat],
           RecordOperationGauges
    PROVE  /\ gauges' \in [sessions : Nat, operations : Nat, active : Nat]
           /\ gauges'.sessions = gauges.sessions
           /\ gauges'.operations = Cardinality(Stored(execution'))
           /\ gauges'.active = Cardinality(Running(execution'))
  <1>1. IsFiniteSet(Stored(execution')) /\ IsFiniteSet(Running(execution'))
    BY ServiceAssumption, FS_Subset DEF Stored, Running
  <1>2. Cardinality(Stored(execution')) \in Nat /\ Cardinality(Running(execution')) \in Nat
    BY <1>1, FS_CardinalityType
  <1> QED
    BY <1>2 DEF RecordOperationGauges

\* The number of open sessions is a natural number.
LEMMA OpenType ==
    /\ IsFiniteSet(Open)
    /\ Cardinality(Open) \in Nat
    /\ \A s : Cardinality(Open \ {s}) \in Nat
  <1>1. IsFiniteSet(Open)
    BY ServiceAssumption, FS_Subset DEF Open
  <1>2. \A s : IsFiniteSet(Open \ {s})
    BY <1>1, FS_Subset
  <1> QED
    BY <1>1, <1>2, FS_CardinalityType

\* Removal changes only stored operations and running tasks.
LEMMA RemoveEffect ==
    ASSUME TypeOK, NEW gone, Remove(gone)
    PROVE  /\ execution' \in [Operations -> Executions]
           /\ task' \in [Operations -> {"none", "running", "aborting", "ok", "err",
                                        "panic", "cancelled"}]
           /\ gauges' \in [sessions : Nat, operations : Nat, active : Nat]
           /\ \A o \in Operations :
                \/ execution'[o] = execution[o]
                \/ execution'[o] = "removed" /\ execution[o] # "unused"
           /\ \A o \in Operations :
                \/ task'[o] = task[o]
                \/ task[o] = "running" /\ task'[o] = "aborting" /\ execution'[o] = "removed"
           /\ \A o \in Operations :
                task'[o] = "running" /\ execution[o] = "running" => execution'[o] = "running"
           /\ UNCHANGED <<session, idle, age, of, channel, issued>>
  <1>1. gauges' \in [sessions : Nat, operations : Nat, active : Nat]
    BY GaugeType DEF Remove, TypeOK
  <1> QED
    BY <1>1 DEF Remove, Aborted, Stored, TypeOK, Executions

\* The completed state a finished task leads to.
LEMMA JoinType == \A r \in Ended : FromJoinResult[r] \in Terminal
  BY DEF Ended, FromJoinResult, Terminal

LocalsType ==
    /\ pc \in [Processes -> PCs]
    /\ kind \in [Processes -> Kinds]
    /\ target \in [Processes -> Sessions \cup Operations \cup {None}]
    /\ valid \in [Processes -> BOOLEAN]
    /\ todo \in [Processes -> SUBSET Operations]
    /\ holds \in [Processes -> Operations \cup {None}]
    /\ stale \in [Processes -> SUBSET (Sessions \cup Operations)]

\* A finished request leaves no locals.
LEMMA DoneType ==
    ASSUME LocalsType, NEW p \in Processes, Done(p)
    PROVE  LocalsType'
  BY DEF LocalsType, Done, PCs, Kinds

\* A jump within the request.
LEMMA GotoType ==
    ASSUME LocalsType, NEW p \in Processes, NEW label \in PCs, Goto(p, label)
    PROVE  /\ pc' \in [Processes -> PCs]
           /\ kind' \in [Processes -> Kinds]
           /\ target' \in [Processes -> Sessions \cup Operations \cup {None}]
           /\ valid' \in [Processes -> BOOLEAN]
  BY DEF LocalsType, Goto

-----------------------------------------------------------------------------
(* The inductive invariant *)

\* It holds initially.
LEMMA InitInv == Init => IInv
  BY ServiceAssumption
  DEF Init, IInv, TypeOK, PCs, Kinds, SessionKinds, OperationKinds, Executions, Terminal,
      Active,
      Located, Consistent, NoRunawayTask

\* Every step keeps the variables in their types.
LEMMA TypeStep == ASSUME IInv, [Next]_vars PROVE TypeOK'
  <1> USE ServiceAssumption
  <1> USE DEF Processes, TypeOK, PCs, Kinds, SessionKinds, OperationKinds, Executions,
            Terminal, Active, Located
  <1>a. TypeOK /\ Located
    BY DEF IInv
  <1>b. LocalsType
    BY <1>a DEF TypeOK, LocalsType
  <1>1. ASSUME NEW p \in Processes, ListFinished(p) PROVE TypeOK'
    BY <1>1, <1>a DEF ListFinished, Goto, maps
  <1>2. ASSUME NEW p \in Processes, TakeTask(p) PROVE TypeOK'
    BY <1>2, <1>a DEF TakeTask, Goto, HasFinishedTask
  <1>3. ASSUME NEW p \in Processes, FinishRefresh(p) PROVE TypeOK'
    <2>1. holds[p] \in Operations /\ task[holds[p]] \in Ended
      BY <1>3, <1>a DEF FinishRefresh, Located, TypeOK
    <2>2. execution' \in [Operations -> Executions] /\ age' \in [Operations -> 0..CompletedTtl]
      BY <1>3, <1>a, <2>1, JoinType DEF FinishRefresh, StoreResult, TypeOK, Executions
    <2>3. gauges' \in [sessions : Nat, operations : Nat, active : Nat]
      BY <1>3, <1>a, GaugeType DEF FinishRefresh, TypeOK
    <2>4. LocalsType'
      BY <1>3, <1>b DEF FinishRefresh, LocalsType, Goto, PCs
    <2> QED
      BY <1>3, <1>a, <2>2, <2>3, <2>4 DEF FinishRefresh, TypeOK, LocalsType
  <1>4. ASSUME NEW p \in Processes, SweepSessions(p) PROVE TypeOK'
    <2>1. session' \in [Sessions -> {"unused", "open", "removed"}]
      BY <1>4, <1>a DEF SweepSessions, TypeOK
    <2> DEFINE out == {s \in Open : SessionExpired(s)} \cup {o \in Operations : OperationExpired(o)}
    <2>2. out \in SUBSET (Sessions \cup Operations)
      BY DEF Open
    <2>3. stale' = [stale EXCEPT ![p] = out]
      BY <1>4 DEF SweepSessions
    <2>4. stale' \in [Processes -> SUBSET (Sessions \cup Operations)]
      BY <1>b, <2>2, <2>3 DEF LocalsType
    <2>5. /\ pc' \in [Processes -> PCs]
          /\ UNCHANGED <<kind, target, valid, todo, holds>>
      BY <1>4, <1>b DEF SweepSessions, Goto, LocalsType, PCs
    <2> QED
      BY <1>4, <1>a, <2>1, <2>4, <2>5 DEF SweepSessions, TypeOK
  <1>5. ASSUME NEW p \in Processes, SweepOperations(p) PROVE TypeOK'
    <2>1. PICK gone : Remove(gone)
      BY <1>5 DEF SweepOperations
    <2>2. CASE kind[p] = "Sweep"
      <3>1. LocalsType'
        BY <1>5, <1>b, <2>2, DoneType DEF SweepOperations
      <3> QED
        BY <1>a, <2>1, <3>1, RemoveEffect DEF TypeOK, LocalsType
    <2>3. CASE kind[p] # "Sweep"
      <3>1. pc[p] # "idle" /\ (kind[p] = "Poll" => target[p] \in Operations)
        BY <1>5, <1>a DEF SweepOperations, Located, OperationKinds, TypeOK
      <3>2. LocalsType'
        BY <1>5, <1>b, <2>3, <3>1 DEF SweepOperations, LocalsType, Goto, PCs
      <3> QED
        BY <1>a, <2>1, <3>2, RemoveEffect DEF TypeOK, LocalsType
    <2> QED
      BY <2>2, <2>3
  <1>6. ASSUME NEW p \in Processes, OpenSession(p) PROVE TypeOK'
    BY <1>6, <1>a, OpenType DEF OpenSession, Done, maps
  <1>7. ASSUME NEW p \in Processes, SessionFound(p) PROVE TypeOK'
    <2>1. target[p] \in Sessions
      BY <1>7, <1>a DEF SessionFound, Located, SessionKinds
    <2>2. LocalsType'
      BY <1>7, <1>b, DoneType DEF SessionFound, LocalsType, Goto, PCs
    <2>3. idle' \in [Sessions -> 0..IdleTimeout]
      BY <1>7, <1>a, <2>1 DEF SessionFound, TypeOK
    <2> QED
      BY <1>7, <1>a, <2>2, <2>3 DEF SessionFound, TypeOK, LocalsType
  <1>8. ASSUME NEW p \in Processes, SessionLapsed(p) PROVE TypeOK'
    BY <1>8, <1>a DEF SessionLapsed, Goto
  <1>9. ASSUME NEW p \in Processes, SessionDenied(p) PROVE TypeOK'
    BY <1>9, <1>a DEF SessionDenied, Done, maps
  <1>10. ASSUME NEW p \in Processes, CloseSession(p) PROVE TypeOK'
    <2>1. target[p] \in Sessions
      BY <1>10, <1>a DEF CloseSession, Located, SessionKinds
    <2>2. LocalsType'
      BY <1>10, <1>b, DoneType DEF CloseSession, LocalsType, Goto, PCs
    <2>3. session' \in [Sessions -> {"unused", "open", "removed"}]
      BY <1>10, <1>a, <2>1 DEF CloseSession, TypeOK, maps
    <2>c. Cardinality(Open \ {target[p]}) \in Nat
      BY OpenType
    <2>4. gauges' \in [sessions : Nat, operations : Nat, active : Nat]
      BY <1>10, <1>a, <2>c DEF CloseSession, TypeOK, maps
    <2> QED
      BY <1>10, <1>a, <2>2, <2>3, <2>4 DEF CloseSession, TypeOK, LocalsType, maps
  <1>11. ASSUME NEW p \in Processes, ReapOperations(p) PROVE TypeOK'
    BY <1>11, <1>a, RemoveEffect DEF ReapOperations, Done
  <1>12. ASSUME NEW p \in Processes, InsertOperation(p) PROVE TypeOK'
    <2>1. target[p] \in Sessions
      BY <1>12, <1>a DEF InsertOperation, Located, SessionKinds
    <2>2. CASE Cardinality(Stored(execution)) >= MaxOperations
      <3>1. LocalsType' /\ UNCHANGED maps
        BY <1>12, <1>b, <2>2, DoneType DEF InsertOperation
      <3> QED
        BY <1>a, <3>1 DEF TypeOK, LocalsType, maps
    <2>3. CASE ~(Cardinality(Stored(execution)) >= MaxOperations)
      <3>1. PICK o \in Operations :
                 /\ execution' = [execution EXCEPT ![o] = "running"]
                 /\ task' = [task EXCEPT ![o] = "running"]
                 /\ of' = [of EXCEPT ![o] = target[p]]
                 /\ channel' = [channel EXCEPT ![o] =
                                   IF kind[p] = "GetColumns" THEN "open" ELSE "none"]
                 /\ issued' = IF kind[p] = "GetColumns" THEN issued ELSE issued \cup {o}
                 /\ RecordOperationGauges
                 /\ IF kind[p] = "GetColumns"
                    THEN /\ holds' = [holds EXCEPT ![p] = o]
                         /\ Goto(p, "await")
                         /\ UNCHANGED <<todo, stale>>
                    ELSE Done(p)
                 /\ UNCHANGED <<session, idle, age>>
        BY <1>12, <2>3 DEF InsertOperation
      <3>2. LocalsType'
        BY <1>b, <3>1, DoneType DEF LocalsType, Goto, PCs
      <3>3. gauges' \in [sessions : Nat, operations : Nat, active : Nat]
        BY <1>a, <3>1, GaugeType DEF TypeOK
      <3>4. /\ execution' \in [Operations -> Executions]
            /\ of' \in [Operations -> Sessions \cup {None}]
            /\ task' \in [Operations -> {"none", "running", "aborting", "ok", "err",
                                         "panic", "cancelled"}]
            /\ channel' \in [Operations -> {"none", "open", "ok", "failed"}]
            /\ issued' \subseteq Operations
        BY <1>a, <2>1, <3>1 DEF TypeOK, Executions, Active
      <3> QED
        BY <1>a, <3>1, <3>2, <3>3, <3>4 DEF TypeOK, LocalsType
    <2> QED
      BY <2>2, <2>3
  <1>13. ASSUME NEW p \in Processes, ColumnsReady(p) PROVE TypeOK'
    BY <1>13, <1>a DEF ColumnsReady, Done
  <1>14. ASSUME NEW p \in Processes, ColumnsFailed(p) PROVE TypeOK'
    BY <1>14, <1>a DEF ColumnsFailed, Goto, maps
  <1>15. ASSUME NEW p \in Processes, RemoveUnreturned(p) PROVE TypeOK'
    BY <1>15, <1>a, RemoveEffect DEF RemoveUnreturned, Done
  <1>16. ASSUME NEW p \in Processes, ReadOperation(p) PROVE TypeOK'
    <2>1. LocalsType' /\ UNCHANGED maps
      BY <1>16, <1>b, DoneType DEF ReadOperation, LocalsType, Goto, PCs
    <2> QED
      BY <1>a, <2>1 DEF TypeOK, LocalsType, maps
  <1>17. ASSUME NEW p \in Processes, TouchSession(p) PROVE TypeOK'
    BY <1>17, <1>a DEF TouchSession, Done, Open
  <1>18. ASSUME NEW p \in Processes, CloseOperation(p) PROVE TypeOK'
    BY <1>18, <1>a, RemoveEffect DEF CloseOperation, Done, maps
  <1>19. ASSUME NEW p \in Processes, CancelOperation(p) PROVE TypeOK'
    BY <1>19, <1>a, GaugeType DEF CancelOperation, Done, Aborted
  <1>20. ASSUME NEW o \in Operations, TaskEnds(o) PROVE TypeOK'
    BY <1>20, <1>a DEF TaskEnds, locals, Unfinished
  <1>21. ASSUME NEW o \in Operations, TaskAborts(o) PROVE TypeOK'
    BY <1>21, <1>a DEF TaskAborts, locals
  <1>22. ASSUME NEW o \in Operations, ColumnsComplete(o) PROVE TypeOK'
    BY <1>22, <1>a, GaugeType DEF ColumnsComplete, locals, Unfinished, FromJoinResult
  <1>23. ASSUME NEW p \in Requests, Arrive(p) PROVE TypeOK'
    <2>1. ASSUME NEW k \in Kinds, NEW t \in Sessions \cup Operations \cup {None},
                 NEW v \in BOOLEAN, Begin(p, k, t, v)
          PROVE  TypeOK'
      <3>1. LocalsType' /\ UNCHANGED maps
        BY <1>b, <2>1 DEF Begin, LocalsType, PCs
      <3> QED
        BY <1>a, <3>1 DEF TypeOK, LocalsType, maps
    <2>2. CASE Begin(p, "OpenSession", None, FALSE)
      BY <2>1, <2>2 DEF Kinds
    <2>3. ASSUME NEW k \in SessionKinds, NEW t \in Sessions, NEW v \in BOOLEAN, Begin(p, k, t, v)
          PROVE  TypeOK'
      BY <2>1, <2>3 DEF Kinds
    <2>4. ASSUME NEW k \in OperationKinds, NEW t \in issued, NEW v \in BOOLEAN, Begin(p, k, t, v)
          PROVE  TypeOK'
      <3>1. t \in Operations /\ k \in Kinds
        BY <2>4, <1>a
      <3> QED
        BY <2>1, <2>4, <3>1
    <2> QED
      BY <1>23, <2>2, <2>3, <2>4 DEF Arrive, SessionKinds
  <1>24. ASSUME NEW p \in Requests, Drop(p) PROVE TypeOK'
    BY <1>24, <1>a DEF Drop, Done, maps
  <1>25. CASE Sweep
    BY <1>25, <1>a DEF Sweep, Begin, maps
  <1>26. CASE Tick
    BY <1>26, <1>a DEF Tick, Older, locals, Open
  <1>27. CASE UNCHANGED vars
    BY <1>27, <1>a DEF vars, maps, locals
  <1> QED
    BY <1>1, <1>2, <1>3, <1>4, <1>5, <1>6, <1>7, <1>8, <1>9, <1>10, <1>11, <1>12, <1>13, <1>14,
       <1>15, <1>16, <1>17, <1>18, <1>19, <1>20, <1>21, <1>22, <1>23, <1>24, <1>25, <1>26,
                 <1>27
    DEF Next, Step, TaskStep, ExecuteStatement, GetColumns

\* Every step leaves each process where its request can be.
LEMMA LocatedStep == ASSUME IInv, [Next]_vars PROVE Located'
  <1> USE ServiceAssumption
  <1> USE DEF Processes, Located, TypeOK, SessionKinds, OperationKinds, Ended
  <1>a. TypeOK /\ Located /\ Consistent
    BY DEF IInv
  <1>1. ASSUME NEW p \in Processes, ListFinished(p) PROVE Located'
    BY <1>1, <1>a DEF ListFinished, Goto, maps
  <1>2. ASSUME NEW p \in Processes, TakeTask(p) PROVE Located'
    BY <1>2, <1>a DEF TakeTask, Goto, HasFinishedTask
  <1>3. ASSUME NEW p \in Processes, FinishRefresh(p) PROVE Located'
    BY <1>3, <1>a, GaugeType DEF FinishRefresh, Goto, StoreResult, FromJoinResult
  <1>4. ASSUME NEW p \in Processes, SweepSessions(p) PROVE Located'
    BY <1>4, <1>a DEF SweepSessions, Goto
  <1>5. ASSUME NEW p \in Processes, SweepOperations(p) PROVE Located'
    BY <1>5, <1>a, RemoveEffect DEF SweepOperations, Goto, Done
  <1>6. ASSUME NEW p \in Processes, OpenSession(p) PROVE Located'
    BY <1>6, <1>a, OpenType DEF OpenSession, Done, maps
  <1>7. ASSUME NEW p \in Processes, SessionFound(p) PROVE Located'
    BY <1>7, <1>a DEF SessionFound, Goto, Done
  <1>8. ASSUME NEW p \in Processes, SessionLapsed(p) PROVE Located'
    BY <1>8, <1>a DEF SessionLapsed, Goto
  <1>9. ASSUME NEW p \in Processes, SessionDenied(p) PROVE Located'
    BY <1>9, <1>a DEF SessionDenied, Done, maps
  <1>10. ASSUME NEW p \in Processes, CloseSession(p) PROVE Located'
    BY <1>10, <1>a, OpenType DEF CloseSession, Done, Goto, maps
  <1>11. ASSUME NEW p \in Processes, ReapOperations(p) PROVE Located'
    BY <1>11, <1>a, RemoveEffect DEF ReapOperations, Done
  <1>12. ASSUME NEW p \in Processes, InsertOperation(p) PROVE Located'
    <2>1. CASE UNCHANGED maps /\ Done(p)
      BY <2>1, <1>a DEF Done, maps, Located, TypeOK
    <2>2. ASSUME NEW o \in Operations,
                 execution[o] = "unused",
                 task' = [task EXCEPT ![o] = "running"],
                 kind[p] = "GetColumns",
                 channel' = [channel EXCEPT ![o] = "open"],
                 holds' = [holds EXCEPT ![p] = o],
                 Goto(p, "await"),
                 UNCHANGED issued
          PROVE  Located'
      <3>1. task[o] = "none" /\ pc[p] = "insert" /\ kind[p] \in SessionKinds
        BY <1>12, <1>a, <2>2 DEF InsertOperation, Consistent, SessionKinds
      <3> QED
        BY <2>2, <3>1, <1>a DEF Goto, Located, TypeOK, Ended, SessionKinds, OperationKinds
    <2>3. ASSUME NEW o \in Operations,
                 execution[o] = "unused",
                 task' = [task EXCEPT ![o] = "running"],
                 channel' = [channel EXCEPT ![o] = "none"],
                 issued' = issued \cup {o},
                 Done(p)
          PROVE  Located'
      <3>1. task[o] = "none" /\ channel[o] = "none"
        BY <1>a, <2>3 DEF Consistent
      <3> QED
        BY <2>3, <3>1, <1>a DEF Done, Located, TypeOK, Ended
    <2> QED
      BY <1>12, <2>1, <2>2, <2>3 DEF InsertOperation
  <1>13. ASSUME NEW p \in Processes, ColumnsReady(p) PROVE Located'
    BY <1>13, <1>a DEF ColumnsReady, Done
  <1>14. ASSUME NEW p \in Processes, ColumnsFailed(p) PROVE Located'
    BY <1>14, <1>a DEF ColumnsFailed, Goto, maps
  <1>15. ASSUME NEW p \in Processes, RemoveUnreturned(p) PROVE Located'
    BY <1>15, <1>a, RemoveEffect DEF RemoveUnreturned, Done
  <1>16. ASSUME NEW p \in Processes, ReadOperation(p) PROVE Located'
    BY <1>16, <1>a DEF ReadOperation, Goto, Done, maps
  <1>17. ASSUME NEW p \in Processes, TouchSession(p) PROVE Located'
    BY <1>17, <1>a DEF TouchSession, Done, Open
  <1>18. ASSUME NEW p \in Processes, CloseOperation(p) PROVE Located'
    BY <1>18, <1>a, RemoveEffect DEF CloseOperation, Done, maps
  <1>19. ASSUME NEW p \in Processes, CancelOperation(p) PROVE Located'
    BY <1>19, <1>a, GaugeType DEF CancelOperation, Done, Aborted
  <1>20. ASSUME NEW o \in Operations, TaskEnds(o) PROVE Located'
    BY <1>20, <1>a DEF TaskEnds, locals, Unfinished
  <1>21. ASSUME NEW o \in Operations, TaskAborts(o) PROVE Located'
    BY <1>21, <1>a DEF TaskAborts, locals
  <1>22. ASSUME NEW o \in Operations, ColumnsComplete(o) PROVE Located'
    BY <1>22, <1>a, GaugeType DEF ColumnsComplete, locals, Unfinished, FromJoinResult
  <1>23. ASSUME NEW p \in Requests, Arrive(p) PROVE Located'
    BY <1>23, <1>a DEF Arrive, Begin, maps
  <1>24. ASSUME NEW p \in Requests, Drop(p) PROVE Located'
    BY <1>24, <1>a DEF Drop, Done, maps
  <1>25. CASE Sweep
    BY <1>25, <1>a DEF Sweep, Begin, maps
  <1>26. CASE Tick
    BY <1>26, <1>a DEF Tick, Older, locals, Open
  <1>27. CASE UNCHANGED vars
    BY <1>27, <1>a DEF vars, maps, locals
  <1> QED
    BY <1>1, <1>2, <1>3, <1>4, <1>5, <1>6, <1>7, <1>8, <1>9, <1>10, <1>11, <1>12, <1>13, <1>14,
       <1>15, <1>16, <1>17, <1>18, <1>19, <1>20, <1>21, <1>22, <1>23, <1>24, <1>25, <1>26,
                 <1>27
    DEF Next, Step, TaskStep, ExecuteStatement, GetColumns

\* Every step keeps stored states, tasks and channels consistent.
LEMMA ConsistentStep == ASSUME IInv, [Next]_vars PROVE Consistent'
  <1> USE ServiceAssumption
  <1> USE DEF Processes, Consistent, TypeOK, Located, Ended, Terminal, Active
  <1>a. TypeOK /\ Located /\ Consistent /\ NoRunawayTask
    BY DEF IInv
  <1>1. ASSUME NEW p \in Processes, ListFinished(p) PROVE Consistent'
    BY <1>1, <1>a DEF ListFinished, Goto, maps
  <1>2. ASSUME NEW p \in Processes, TakeTask(p) PROVE Consistent'
    BY <1>2, <1>a DEF TakeTask, Goto, HasFinishedTask
  <1>3. ASSUME NEW p \in Processes, FinishRefresh(p) PROVE Consistent'
    <2>1. holds[p] \in Operations /\ task[holds[p]] \in Ended
      BY <1>3, <1>a DEF FinishRefresh, Located, TypeOK
    <2>2. FromJoinResult[task[holds[p]]] \in Terminal
      BY <2>1, JoinType
    <2>3. task[holds[p]] = "cancelled" => execution[holds[p]] # "refreshing"
      BY <1>3, <1>a, <2>1 DEF FinishRefresh, Consistent, Active
    <2>4. FromJoinResult[task[holds[p]]] = "canceled" => task[holds[p]] = "cancelled"
      BY <2>1 DEF FromJoinResult, Ended
    <2> QED
      BY <1>3, <1>a, <2>1, <2>2, <2>3, <2>4
      DEF FinishRefresh, StoreResult, Consistent, TypeOK, Terminal, Active, Ended
  <1>4. ASSUME NEW p \in Processes, SweepSessions(p) PROVE Consistent'
    BY <1>4, <1>a DEF SweepSessions, Goto
  <1>5. ASSUME NEW p \in Processes, SweepOperations(p) PROVE Consistent'
    BY <1>5, <1>a, RemoveEffect DEF SweepOperations, Goto, Done
  <1>6. ASSUME NEW p \in Processes, OpenSession(p) PROVE Consistent'
    BY <1>6, <1>a, OpenType DEF OpenSession, Done, maps
  <1>7. ASSUME NEW p \in Processes, SessionFound(p) PROVE Consistent'
    BY <1>7, <1>a DEF SessionFound, Goto, Done
  <1>8. ASSUME NEW p \in Processes, SessionLapsed(p) PROVE Consistent'
    BY <1>8, <1>a DEF SessionLapsed, Goto
  <1>9. ASSUME NEW p \in Processes, SessionDenied(p) PROVE Consistent'
    BY <1>9, <1>a DEF SessionDenied, Done, maps
  <1>10. ASSUME NEW p \in Processes, CloseSession(p) PROVE Consistent'
    BY <1>10, <1>a, OpenType DEF CloseSession, Done, Goto, maps
  <1>11. ASSUME NEW p \in Processes, ReapOperations(p) PROVE Consistent'
    BY <1>11, <1>a, RemoveEffect DEF ReapOperations, Done
  <1>12. ASSUME NEW p \in Processes, InsertOperation(p) PROVE Consistent'
    BY <1>12, <1>a, GaugeType DEF InsertOperation, Done, Goto, maps
  <1>13. ASSUME NEW p \in Processes, ColumnsReady(p) PROVE Consistent'
    BY <1>13, <1>a DEF ColumnsReady, Done
  <1>14. ASSUME NEW p \in Processes, ColumnsFailed(p) PROVE Consistent'
    BY <1>14, <1>a DEF ColumnsFailed, Goto, maps
  <1>15. ASSUME NEW p \in Processes, RemoveUnreturned(p) PROVE Consistent'
    BY <1>15, <1>a, RemoveEffect DEF RemoveUnreturned, Done
  <1>16. ASSUME NEW p \in Processes, ReadOperation(p) PROVE Consistent'
    BY <1>16, <1>a DEF ReadOperation, Goto, Done, maps
  <1>17. ASSUME NEW p \in Processes, TouchSession(p) PROVE Consistent'
    BY <1>17, <1>a DEF TouchSession, Done, Open
  <1>18. ASSUME NEW p \in Processes, CloseOperation(p) PROVE Consistent'
    BY <1>18, <1>a, RemoveEffect DEF CloseOperation, Done, maps
  <1>19. ASSUME NEW p \in Processes, CancelOperation(p) PROVE Consistent'
    <2>1. target[p] \in issued /\ target[p] \in Operations
      BY <1>19, <1>a DEF CancelOperation, Located, OperationKinds, TypeOK
    <2>2. task' \in [Operations -> {"none", "running", "aborting", "ok", "err", "panic", "cancelled"}]
      BY <1>19, <1>a DEF CancelOperation, Aborted, TypeOK
    <2>3. \A o \in Operations : \/ task'[o] = task[o]
                                \/ /\ task[o] = "running" /\ task'[o] = "aborting"
                                   /\ execution'[o] = "canceled"
      BY <1>19, <1>a DEF CancelOperation, Aborted, TypeOK
    <2>4. \A o \in Operations : \/ execution'[o] = execution[o]
                                \/ /\ o = target[p] /\ execution[o] = "running"
                                   /\ execution'[o] = "canceled"
      BY <1>19, <1>a DEF CancelOperation, TypeOK
    <2> QED
      BY <1>19, <1>a, <2>1, <2>2, <2>3, <2>4 DEF CancelOperation, Consistent, Ended, Active
  <1>20. ASSUME NEW o \in Operations, TaskEnds(o) PROVE Consistent'
    BY <1>20, <1>a DEF TaskEnds, locals, Unfinished
  <1>21. ASSUME NEW o \in Operations, TaskAborts(o) PROVE Consistent'
    BY <1>21, <1>a DEF TaskAborts, locals
  <1>22. ASSUME NEW o \in Operations, ColumnsComplete(o) PROVE Consistent'
    BY <1>22, <1>a, GaugeType DEF ColumnsComplete, locals, Unfinished, FromJoinResult
  <1>23. ASSUME NEW p \in Requests, Arrive(p) PROVE Consistent'
    BY <1>23, <1>a DEF Arrive, Begin, maps
  <1>24. ASSUME NEW p \in Requests, Drop(p) PROVE Consistent'
    BY <1>24, <1>a DEF Drop, Done, maps
  <1>25. CASE Sweep
    BY <1>25, <1>a DEF Sweep, Begin, maps
  <1>26. CASE Tick
    BY <1>26, <1>a DEF Tick, Older, locals, Open
  <1>27. CASE UNCHANGED vars
    BY <1>27, <1>a DEF vars, maps, locals
  <1> QED
    BY <1>1, <1>2, <1>3, <1>4, <1>5, <1>6, <1>7, <1>8, <1>9, <1>10, <1>11, <1>12, <1>13, <1>14,
       <1>15, <1>16, <1>17, <1>18, <1>19, <1>20, <1>21, <1>22, <1>23, <1>24, <1>25, <1>26,
                 <1>27
    DEF Next, Step, TaskStep, ExecuteStatement, GetColumns

\* Every step that takes an operation out of Running aborts its task.
LEMMA TaskStepInv == ASSUME IInv, [Next]_vars PROVE NoRunawayTask'
  <1> USE ServiceAssumption
  <1> USE DEF Processes, NoRunawayTask, TypeOK, Located, Consistent, Ended
  <1>a. TypeOK /\ Located /\ Consistent /\ NoRunawayTask
    BY DEF IInv
  <1>1. ASSUME NEW p \in Processes, ListFinished(p) PROVE NoRunawayTask'
    BY <1>1, <1>a DEF ListFinished, Goto, maps
  <1>2. ASSUME NEW p \in Processes, TakeTask(p) PROVE NoRunawayTask'
    BY <1>2, <1>a DEF TakeTask, Goto, HasFinishedTask
  <1>3. ASSUME NEW p \in Processes, FinishRefresh(p) PROVE NoRunawayTask'
    BY <1>3, <1>a, GaugeType DEF FinishRefresh, Goto, StoreResult, FromJoinResult
  <1>4. ASSUME NEW p \in Processes, SweepSessions(p) PROVE NoRunawayTask'
    BY <1>4, <1>a DEF SweepSessions, Goto
  <1>5. ASSUME NEW p \in Processes, SweepOperations(p) PROVE NoRunawayTask'
    BY <1>5, <1>a, RemoveEffect DEF SweepOperations, Goto, Done
  <1>6. ASSUME NEW p \in Processes, OpenSession(p) PROVE NoRunawayTask'
    BY <1>6, <1>a, OpenType DEF OpenSession, Done, maps
  <1>7. ASSUME NEW p \in Processes, SessionFound(p) PROVE NoRunawayTask'
    BY <1>7, <1>a DEF SessionFound, Goto, Done
  <1>8. ASSUME NEW p \in Processes, SessionLapsed(p) PROVE NoRunawayTask'
    BY <1>8, <1>a DEF SessionLapsed, Goto
  <1>9. ASSUME NEW p \in Processes, SessionDenied(p) PROVE NoRunawayTask'
    BY <1>9, <1>a DEF SessionDenied, Done, maps
  <1>10. ASSUME NEW p \in Processes, CloseSession(p) PROVE NoRunawayTask'
    BY <1>10, <1>a, OpenType DEF CloseSession, Done, Goto, maps
  <1>11. ASSUME NEW p \in Processes, ReapOperations(p) PROVE NoRunawayTask'
    BY <1>11, <1>a, RemoveEffect DEF ReapOperations, Done
  <1>12. ASSUME NEW p \in Processes, InsertOperation(p) PROVE NoRunawayTask'
    BY <1>12, <1>a, GaugeType DEF InsertOperation, Done, Goto, maps
  <1>13. ASSUME NEW p \in Processes, ColumnsReady(p) PROVE NoRunawayTask'
    BY <1>13, <1>a DEF ColumnsReady, Done
  <1>14. ASSUME NEW p \in Processes, ColumnsFailed(p) PROVE NoRunawayTask'
    BY <1>14, <1>a DEF ColumnsFailed, Goto, maps
  <1>15. ASSUME NEW p \in Processes, RemoveUnreturned(p) PROVE NoRunawayTask'
    BY <1>15, <1>a, RemoveEffect DEF RemoveUnreturned, Done
  <1>16. ASSUME NEW p \in Processes, ReadOperation(p) PROVE NoRunawayTask'
    BY <1>16, <1>a DEF ReadOperation, Goto, Done, maps
  <1>17. ASSUME NEW p \in Processes, TouchSession(p) PROVE NoRunawayTask'
    BY <1>17, <1>a DEF TouchSession, Done, Open
  <1>18. ASSUME NEW p \in Processes, CloseOperation(p) PROVE NoRunawayTask'
    BY <1>18, <1>a, RemoveEffect DEF CloseOperation, Done, maps
  <1>19. ASSUME NEW p \in Processes, CancelOperation(p) PROVE NoRunawayTask'
    BY <1>19, <1>a, GaugeType DEF CancelOperation, Done, Aborted
  <1>20. ASSUME NEW o \in Operations, TaskEnds(o) PROVE NoRunawayTask'
    BY <1>20, <1>a DEF TaskEnds, locals, Unfinished
  <1>21. ASSUME NEW o \in Operations, TaskAborts(o) PROVE NoRunawayTask'
    BY <1>21, <1>a DEF TaskAborts, locals
  <1>22. ASSUME NEW o \in Operations, ColumnsComplete(o) PROVE NoRunawayTask'
    BY <1>22, <1>a, GaugeType DEF ColumnsComplete, locals, Unfinished, FromJoinResult
  <1>23. ASSUME NEW p \in Requests, Arrive(p) PROVE NoRunawayTask'
    BY <1>23, <1>a DEF Arrive, Begin, maps
  <1>24. ASSUME NEW p \in Requests, Drop(p) PROVE NoRunawayTask'
    BY <1>24, <1>a DEF Drop, Done, maps
  <1>25. CASE Sweep
    BY <1>25, <1>a DEF Sweep, Begin, maps
  <1>26. CASE Tick
    BY <1>26, <1>a DEF Tick, Older, locals, Open
  <1>27. CASE UNCHANGED vars
    BY <1>27, <1>a DEF vars, maps, locals
  <1> QED
    BY <1>1, <1>2, <1>3, <1>4, <1>5, <1>6, <1>7, <1>8, <1>9, <1>10, <1>11, <1>12, <1>13, <1>14,
       <1>15, <1>16, <1>17, <1>18, <1>19, <1>20, <1>21, <1>22, <1>23, <1>24, <1>25, <1>26,
                 <1>27
    DEF Next, Step, TaskStep, ExecuteStatement, GetColumns

\* The invariant is inductive.
THEOREM InductiveInvariant == Spec => []IInv
  <1>1. IInv /\ [Next]_vars => IInv'
    BY TypeStep, LocatedStep, ConsistentStep, TaskStepInv DEF IInv
  <1> QED
    BY InitInv, <1>1, PTL DEF Spec

\* Every reachable state is well typed.
THEOREM TypeCorrect == Spec => []TypeOK
  <1>1. IInv => TypeOK
    BY DEF IInv
  <1> QED
    BY InductiveInvariant, <1>1, PTL

\* The task of an operation that is canceled, closed, expired or lost with its
\* session has been aborted or has ended by itself.
THEOREM NoTaskRunsAway == Spec => []NoRunawayTask
  <1>1. IInv => NoRunawayTask
    BY DEF IInv
  <1> QED
    BY InductiveInvariant, <1>1, PTL

-----------------------------------------------------------------------------
(* Outcomes *)

\* No step overwrites a terminal state: the late result of a refresh, of a
\* GetColumns task or of a cancellation finds it and leaves it.
LEMMA FinalStep ==
    ASSUME IInv, [Next]_vars, NEW o \in Operations
    PROVE  /\ execution[o] \in Terminal => execution'[o] \in {execution[o], "removed"}
           /\ execution[o] = "removed" => execution'[o] = "removed"
  <1> DEFINE Final == /\ execution[o] \in Terminal => execution'[o] \in {execution[o], "removed"}
                      /\ execution[o] = "removed" => execution'[o] = "removed"
  <1> USE ServiceAssumption DEF Processes
  <1>a. TypeOK /\ Located /\ Consistent
    BY DEF IInv
  <1>1. CASE UNCHANGED execution
    BY <1>1
  <1>2. ASSUME NEW p \in Processes, TakeTask(p) \/ FinishRefresh(p) PROVE Final
    BY <1>2, <1>a DEF TakeTask, FinishRefresh, StoreResult, HasFinishedTask, Terminal, TypeOK
  <1>3. ASSUME NEW p \in Processes,
            SweepOperations(p) \/ ReapOperations(p) \/ RemoveUnreturned(p)
        PROVE Final
    BY <1>3, <1>a, RemoveEffect DEF SweepOperations, ReapOperations, RemoveUnreturned
  <1>4. ASSUME NEW p \in Processes, CloseOperation(p) PROVE Final
    BY <1>4, <1>a, <1>1, RemoveEffect DEF CloseOperation, maps
  <1>5. ASSUME NEW p \in Processes, InsertOperation(p) PROVE Final
    BY <1>5, <1>a DEF InsertOperation, Terminal, TypeOK, maps
  <1>6. ASSUME NEW p \in Processes, CancelOperation(p) PROVE Final
    BY <1>6, <1>a DEF CancelOperation, Terminal, TypeOK
  <1>7. ASSUME NEW x \in Operations, ColumnsComplete(x) PROVE Final
    <2>1. execution[x] \notin Terminal
      BY <1>7, <1>a DEF ColumnsComplete, Unfinished, Consistent, Ended, Terminal
    <2> QED
      BY <1>7, <1>a, <2>1 DEF ColumnsComplete, TypeOK, Stored
  <1>8. ASSUME NEW p \in Processes, Step(p) PROVE Final
    BY <1>1, <1>2, <1>3, <1>4, <1>5, <1>6, <1>8
    DEF Step, ExecuteStatement, GetColumns, ListFinished, SweepSessions, OpenSession,
        SessionFound, SessionLapsed, SessionDenied,
        CloseSession, ColumnsReady, ColumnsFailed, ReadOperation, TouchSession, maps
  <1> QED
    BY <1>1, <1>7, <1>8
    DEF Next, Arrive, Begin, Drop, Sweep, Tick, TaskStep, TaskEnds, TaskAborts, vars, maps

\* An outcome that a client may have seen is never replaced by another one.
THEOREM OutcomesAreFinal == Spec => OutcomeIsFinal
  <1>1. IInv /\ [Next]_vars =>
          [\A o \in Operations :
              /\ execution[o] \in Terminal => execution'[o] \in {execution[o], "removed"}
              /\ execution[o] = "removed" => execution'[o] = "removed"]_vars
    BY FinalStep
  <1> QED
    BY InductiveInvariant, <1>1, PTL DEF Spec, OutcomeIsFinal

-----------------------------------------------------------------------------
(* Limits and gauges *)

\* The maps and the gauges that describe them.
Counted == CapacityBound /\ GaugesAgree

\* A map with fewer stored operations is no larger.
LEMMA FewerStored ==
    ASSUME CapacityBound, \A o \in Stored(execution') : o \in Stored(execution)
    PROVE  Cardinality(Stored(execution')) <= MaxOperations
  <1>1. IsFiniteSet(Stored(execution))
    BY ServiceAssumption, FS_Subset DEF Stored
  <1>2. Cardinality(Stored(execution')) <= Cardinality(Stored(execution))
    BY <1>1, FS_Subset
  <1>3. /\ Cardinality(Stored(execution)) \in Nat
        /\ Cardinality(Stored(execution')) \in Nat
    BY <1>1, FS_Subset, FS_CardinalityType
  <1> QED
    BY <1>2, <1>3, ServiceAssumption DEF CapacityBound

\* A map with fewer open sessions is no larger, and the gauge no smaller.
LEMMA FewerOpen ==
    ASSUME TypeOK, Counted, \A s \in Open' : s \in Open, gauges'.sessions = gauges.sessions
    PROVE  Cardinality(Open') <= MaxSessions /\ gauges'.sessions >= Cardinality(Open')
  <1>1. Cardinality(Open') <= Cardinality(Open) /\ IsFiniteSet(Open')
    BY OpenType, FS_Subset
  <1>2. Cardinality(Open') \in Nat
    BY <1>1, FS_CardinalityType
  <1>3. gauges.sessions \in Nat
    BY DEF TypeOK
  <1> QED
    BY <1>1, <1>2, <1>3, OpenType, ServiceAssumption DEF Counted, CapacityBound, GaugesAgree

\* Every step keeps to the limits and records what it changes.
LEMMA CountedStep == ASSUME IInv, Counted, [Next]_vars PROVE Counted'
  <1> USE ServiceAssumption DEF Processes
  <1>a. TypeOK /\ Located
    BY DEF IInv
  <1>b. /\ gauges \in [sessions : Nat, operations : Nat, active : Nat]
        /\ gauges.operations = Cardinality(Stored(execution))
        /\ gauges.active = Cardinality(Running(execution))
    BY <1>a DEF TypeOK, Counted, GaugesAgree
  \* Removing sessions and operations, with the operation gauges recorded.
  <1>c. ASSUME RecordOperationGauges, \A s \in Open' : s \in Open,
               \A o \in Stored(execution') : o \in Stored(execution)
        PROVE  Counted'
    <2>1. /\ gauges'.operations = Cardinality(Stored(execution'))
          /\ gauges'.active = Cardinality(Running(execution'))
          /\ gauges'.sessions = gauges.sessions
      BY <1>b, <1>c, GaugeType
    <2>2. Cardinality(Stored(execution')) <= MaxOperations
      BY <1>c, FewerStored DEF Counted
    <2>3. Cardinality(Open') <= MaxSessions /\ gauges'.sessions >= Cardinality(Open')
      BY <1>a, <1>c, <2>1, FewerOpen
    <2> QED
      BY <2>1, <2>2, <2>3 DEF Counted, CapacityBound, GaugesAgree
  \* Removing sessions only.
  <1>d. ASSUME UNCHANGED gauges, \A s \in Open' : s \in Open,
               Stored(execution') = Stored(execution), Running(execution') = Running(execution)
        PROVE  Counted'
    <2>1. Cardinality(Open') <= MaxSessions /\ gauges'.sessions >= Cardinality(Open')
      BY <1>a, <1>d, FewerOpen
    <2> QED
      BY <1>b, <1>d, <2>1 DEF Counted, CapacityBound, GaugesAgree
  <1>e. CASE UNCHANGED <<session, execution, gauges>>
    BY <1>e, <1>d DEF Open
  <1>1. ASSUME NEW p \in Processes, TakeTask(p) PROVE Counted'
    <2>1. Stored(execution') = Stored(execution) /\ Running(execution') = Running(execution)
      BY <1>1, <1>a DEF TakeTask, HasFinishedTask, Stored, Running, Active, TypeOK
    <2> QED
      BY <1>1, <1>d, <2>1 DEF TakeTask, Open
  <1>2. ASSUME NEW p \in Processes, FinishRefresh(p) PROVE Counted'
    <2>1. \A o \in Stored(execution') : o \in Stored(execution)
      BY <1>2, <1>a DEF FinishRefresh, StoreResult, Stored, TypeOK
    <2> QED
      BY <1>2, <1>c, <2>1 DEF FinishRefresh, Open
  <1>3. ASSUME NEW p \in Processes, SweepSessions(p) PROVE Counted'
    BY <1>3, <1>a, <1>d DEF SweepSessions, Open, TypeOK
  <1>4. ASSUME NEW gone, Remove(gone) PROVE Counted'
    <2>1. \A o \in Stored(execution') : o \in Stored(execution)
      BY <1>4 DEF Remove, Stored
    <2> QED
      BY <1>4, <1>c, <2>1 DEF Remove, Open
  <1>5. ASSUME NEW p \in Processes, OpenSession(p) PROVE Counted'
    <2>1. CASE UNCHANGED maps
      BY <2>1, <1>e DEF maps
    <2>2. ASSUME NEW s \in Sessions, session[s] = "unused", ~(Cardinality(Open) >= MaxSessions),
                 session' = [session EXCEPT ![s] = "open"],
                 gauges' = [gauges EXCEPT !.sessions = Cardinality(Open) + 1],
                 UNCHANGED execution
          PROVE  Counted'
      <3>1. Open' = Open \cup {s} /\ s \notin Open
        BY <2>2, <1>a DEF Open, TypeOK
      <3>2. Cardinality(Open') = Cardinality(Open) + 1
        BY <3>1, OpenType, FS_AddElement
      <3>3. /\ gauges'.sessions = Cardinality(Open')
            /\ gauges'.operations = gauges.operations
            /\ gauges'.active = gauges.active
        BY <2>2, <3>2, <1>b
      <3>4. Cardinality(Open') <= MaxSessions /\ Cardinality(Open') \in Nat
        BY <2>2, <3>2, OpenType
      <3> QED
        BY <2>2, <3>3, <3>4, <1>b DEF Counted, CapacityBound, GaugesAgree
    <2> QED
      BY <1>5, <2>1, <2>2 DEF OpenSession
  <1>6. ASSUME NEW p \in Processes, CloseSession(p) PROVE Counted'
    <2>1. CASE UNCHANGED maps
      BY <2>1, <1>e DEF maps
    <2>2. CASE /\ session' = [session EXCEPT ![target[p]] = "removed"]
               /\ gauges' = [gauges EXCEPT !.sessions = Cardinality(Open \ {target[p]})]
               /\ UNCHANGED execution
      <3>1. Open' = Open \ {target[p]}
        BY <2>2, <1>a DEF Open, TypeOK
      <3>2. Cardinality(Open') \in Nat /\ Cardinality(Open') <= Cardinality(Open)
        BY <3>1, OpenType, FS_Subset
      <3>3. /\ gauges'.sessions = Cardinality(Open')
            /\ gauges'.operations = gauges.operations
            /\ gauges'.active = gauges.active
        BY <2>2, <3>1, <1>b
      <3> QED
        BY <2>2, <3>2, <3>3, <1>b, OpenType DEF Counted, CapacityBound, GaugesAgree
    <2> QED
      BY <1>6, <2>1, <2>2 DEF CloseSession
  <1>7. ASSUME NEW p \in Processes, InsertOperation(p) PROVE Counted'
    <2>1. CASE UNCHANGED maps
      BY <2>1, <1>e DEF maps
    <2>2. ASSUME NEW o \in Operations, execution[o] = "unused",
                 ~(Cardinality(Stored(execution)) >= MaxOperations),
                 execution' = [execution EXCEPT ![o] = "running"],
                 RecordOperationGauges, UNCHANGED session
          PROVE  Counted'
      <3>1. Stored(execution') = Stored(execution) \cup {o} /\ o \notin Stored(execution)
        BY <2>2, <1>a DEF Stored, TypeOK
      <3>2. IsFiniteSet(Stored(execution))
        BY FS_Subset DEF Stored
      <3>3. Cardinality(Stored(execution')) = Cardinality(Stored(execution)) + 1
        BY <3>1, <3>2, FS_AddElement
      <3>4. Cardinality(Stored(execution')) <= MaxOperations
        BY <2>2, <3>2, <3>3, FS_CardinalityType
      <3>5. /\ gauges'.operations = Cardinality(Stored(execution'))
            /\ gauges'.active = Cardinality(Running(execution'))
            /\ gauges'.sessions = gauges.sessions
        BY <1>b, <2>2, GaugeType
      <3>6. Open' = Open
        BY <2>2 DEF Open
      <3> QED
        BY <3>4, <3>5, <3>6 DEF Counted, CapacityBound, GaugesAgree
    <2> QED
      BY <1>7, <2>1, <2>2 DEF InsertOperation
  <1>8. ASSUME NEW p \in Processes, CancelOperation(p) PROVE Counted'
    <2>1. \A o \in Stored(execution') : o \in Stored(execution)
      BY <1>8, <1>a DEF CancelOperation, Stored, TypeOK
    <2>2. CASE RecordOperationGauges
      BY <1>8, <1>c, <2>1, <2>2 DEF CancelOperation, Open
    <2>3. CASE ~(target[p] \in Stored(execution) /\ valid[p])
      <3>1. target[p] \in Operations
        BY <1>8, <1>a DEF CancelOperation, Located, OperationKinds, TypeOK
      <3>2. UNCHANGED <<session, execution, gauges>>
        BY <1>8, <2>3, <3>1 DEF CancelOperation, Stored
      <3> QED
        BY <3>2, <1>e
    <2> QED
      BY <1>8, <2>2, <2>3 DEF CancelOperation
  <1>9. ASSUME NEW x \in Operations, ColumnsComplete(x) PROVE Counted'
    <2>1. \A o \in Stored(execution') : o \in Stored(execution)
      BY <1>9, <1>a DEF ColumnsComplete, Stored, TypeOK
    <2> QED
      BY <1>9, <1>c, <2>1 DEF ColumnsComplete, Open
  <1>10. ASSUME NEW p \in Processes, SessionLapsed(p) PROVE Counted'
    BY <1>10, <1>a, <1>d DEF SessionLapsed, Open, TypeOK
  <1>11. ASSUME NEW p \in Processes, CloseOperation(p) PROVE Counted'
    BY <1>11, <1>4, <1>e DEF CloseOperation, maps
  <1>12. ASSUME NEW p \in Processes, Step(p) PROVE Counted'
    BY <1>e, <1>1, <1>2, <1>3, <1>4, <1>5, <1>6, <1>7, <1>8, <1>10, <1>11, <1>12
    DEF Step, ExecuteStatement, GetColumns, ListFinished, SweepOperations, ReapOperations,
        RemoveUnreturned, SessionFound,
        SessionDenied, ColumnsReady, ColumnsFailed, ReadOperation, TouchSession, maps
  <1> QED
    BY <1>e, <1>9, <1>12
    DEF Next, Arrive, Begin, Drop, Sweep, Tick, TaskStep, TaskEnds, TaskAborts, vars, maps

\* Nothing is open or stored at first.
LEMMA InitCounted == Init => Counted
  <1> SUFFICES ASSUME Init PROVE Counted
    OBVIOUS
  <1>1. Open = {} /\ Stored(execution) = {} /\ Running(execution) = {}
    BY DEF Init, Open, Stored, Running, Active
  <1>2. gauges.sessions = 0 /\ gauges.operations = 0 /\ gauges.active = 0
    BY DEF Init
  <1> QED
    BY <1>1, <1>2, FS_EmptySet, ServiceAssumption DEF Counted, CapacityBound, GaugesAgree

\* The sessions and operations maps keep to their configured limits.
THEOREM CapacityIsBounded == Spec => []CapacityBound
  <1>1. IInv /\ Counted /\ [Next]_vars => Counted'
    BY CountedStep
  <1>2. Counted => CapacityBound
    BY DEF Counted
  <1> QED
    BY InductiveInvariant, InitCounted, <1>1, <1>2, PTL DEF Spec

\* The operation gauges are exact after every lock region, and the session
\* gauge is an upper bound.
THEOREM GaugesAreRight == Spec => []GaugesAgree
  <1>1. IInv /\ Counted /\ [Next]_vars => Counted'
    BY CountedStep
  <1>2. Counted => GaugesAgree
    BY DEF Counted
  <1> QED
    BY InductiveInvariant, InitCounted, <1>1, <1>2, PTL DEF Spec

-----------------------------------------------------------------------------
(* Refreshes, as long as no request is dropped *)

\* Without drops, whoever took a finished task is still there to store its
\* result: no operation stays Refreshing for want of an owner.
THEOREM RefreshesAreHeld == ~Drops /\ Spec => []RefreshingIsHeld
  <1> SUFFICES ASSUME ~Drops PROVE Spec => []RefreshingIsHeld
    OBVIOUS
  <1>1. Init => RefreshingIsHeld
    BY DEF Init, RefreshingIsHeld
  <1>2. ASSUME IInv, RefreshingIsHeld, [Next]_vars PROVE RefreshingIsHeld'
    <2> USE ServiceAssumption DEF Processes, RefreshingIsHeld
    <2>a. TypeOK /\ Located
      BY <1>2 DEF IInv
    \* Steps of a process that holds no task, and that make nothing Refreshing.
    <2>b. ASSUME NEW p \in Processes, pc[p] \notin {"join", "joinOne"},
                 \A q \in Processes \ {p} : pc'[q] = pc[q] /\ holds'[q] = holds[q],
                 \A o \in Operations : execution'[o] = "refreshing" => execution[o] = "refreshing"
          PROVE  RefreshingIsHeld'
      BY <1>2, <2>b
    <2>c. ASSUME UNCHANGED <<pc, holds>>,
                 \A o \in Operations : execution'[o] = "refreshing" => execution[o] = "refreshing"
          PROVE  RefreshingIsHeld'
      BY <1>2, <2>c
    <2>1. ASSUME NEW p \in Processes, TakeTask(p) PROVE RefreshingIsHeld'
      BY <1>2, <2>1, <2>a DEF TakeTask, Goto, TypeOK
    <2>2. ASSUME NEW p \in Processes, FinishRefresh(p) PROVE RefreshingIsHeld'
      <3>1. holds[p] \in Operations /\ task[holds[p]] \in Ended
        BY <2>2, <2>a DEF FinishRefresh, Located, TypeOK
      <3>2. FromJoinResult[task[holds[p]]] # "refreshing"
        BY <3>1, JoinType DEF Terminal
      <3> QED
        BY <1>2, <2>2, <2>a, <3>1, <3>2 DEF FinishRefresh, StoreResult, Goto, TypeOK
    <2>3. ASSUME NEW p \in Processes, NEW gone, Remove(gone), pc[p] \notin {"join", "joinOne"},
                 \A q \in Processes \ {p} : pc'[q] = pc[q] /\ holds'[q] = holds[q]
          PROVE  RefreshingIsHeld'
      BY <2>3, <2>b DEF Remove
    <2>4. ASSUME NEW p \in Processes,
                 SweepOperations(p) \/ ReapOperations(p) \/ RemoveUnreturned(p)
          PROVE  RefreshingIsHeld'
      <3>1. /\ \E gone : Remove(gone)
            /\ pc[p] \notin {"join", "joinOne"}
            /\ \A q \in Processes \ {p} : pc'[q] = pc[q] /\ holds'[q] = holds[q]
        BY <2>4, <2>a DEF SweepOperations, ReapOperations, RemoveUnreturned, Goto, Done, TypeOK
      <3> QED
        BY <2>3, <3>1
    <2>5. ASSUME NEW p \in Processes, CloseOperation(p) \/ CancelOperation(p) \/ InsertOperation(p)
          PROVE  RefreshingIsHeld'
      <3>1. \A o \in Operations : execution'[o] = "refreshing" => execution[o] = "refreshing"
        BY <2>5, <2>a
        DEF CloseOperation, CancelOperation, InsertOperation, Remove, TypeOK, maps
      <3>2. /\ pc[p] \notin {"join", "joinOne"}
            /\ \A q \in Processes \ {p} : pc'[q] = pc[q] /\ holds'[q] = holds[q]
        BY <2>5, <2>a DEF CloseOperation, CancelOperation, InsertOperation, Goto, Done, TypeOK
      <3> QED
        BY <2>b, <3>1, <3>2
    <2>6. ASSUME NEW p \in Processes,
                 \/ ListFinished(p) \/ SweepSessions(p) \/ OpenSession(p) \/ SessionFound(p)
                 \/ SessionLapsed(p) \/ SessionDenied(p) \/ CloseSession(p) \/ ColumnsReady(p)
                 \/ ColumnsFailed(p) \/ ReadOperation(p) \/ TouchSession(p)
          PROVE  RefreshingIsHeld'
      <3>1. UNCHANGED execution /\ pc[p] \notin {"join", "joinOne"}
        BY <2>6
        DEF ListFinished, SweepSessions, OpenSession, SessionFound, SessionLapsed,
            SessionDenied,
            CloseSession, ColumnsReady, ColumnsFailed, ReadOperation, TouchSession, maps
      <3>2. \A q \in Processes \ {p} : pc'[q] = pc[q] /\ holds'[q] = holds[q]
        BY <2>6, <2>a
        DEF ListFinished, SweepSessions, OpenSession, SessionFound, SessionLapsed,
            SessionDenied,
            CloseSession, ColumnsReady, ColumnsFailed, ReadOperation, TouchSession, Goto, Done,
            TypeOK
      <3> QED
        BY <2>b, <3>1, <3>2
    <2>7. ASSUME NEW p \in Processes, NEW k, NEW t, NEW v, Begin(p, k, t, v)
          PROVE  RefreshingIsHeld'
      BY <2>7, <2>a, <2>b DEF Begin, TypeOK, maps
    <2>8. ASSUME NEW o \in Operations, TaskStep(o) PROVE RefreshingIsHeld'
      <3>1. \A x \in Operations : execution'[x] = "refreshing" => execution[x] = "refreshing"
        BY <2>8, <2>a
        DEF TaskStep, TaskEnds, TaskAborts, ColumnsComplete, FromJoinResult, TypeOK
      <3> QED
        BY <2>8, <3>1, <2>c DEF TaskStep, TaskEnds, TaskAborts, ColumnsComplete, locals
    <2>9. CASE Tick \/ UNCHANGED vars
      BY <2>9, <2>c DEF Tick, vars, maps, locals
    <2> QED
      BY <1>2, <2>1, <2>2, <2>4, <2>5, <2>6, <2>7, <2>8, <2>9
      DEF Next, Step, ExecuteStatement, GetColumns, Arrive, Drop,
         Sweep
  <1> QED
    BY InductiveInvariant, <1>1, <1>2, PTL DEF Spec

-----------------------------------------------------------------------------
(* Unreturned operations, as long as no request is dropped *)

Unreturning == {"await", "unreturned"}

\* Without drops, an operation whose handle no client has is in the hands of the
\* GetColumns request that made it, which will issue or remove it.
THEOREM UnreturnedAreHeld == ~Drops /\ Spec => []UnreturnedIsHeld
  <1> SUFFICES ASSUME ~Drops PROVE Spec => []UnreturnedIsHeld
    OBVIOUS
  <1>1. Init => UnreturnedIsHeld
    BY DEF Init, UnreturnedIsHeld, Stored
  <1>2. ASSUME IInv, UnreturnedIsHeld, [Next]_vars PROVE UnreturnedIsHeld'
    <2> USE ServiceAssumption DEF Processes
    <2>a. TypeOK /\ Located
      BY <1>2 DEF IInv
    \* Steps of a process that holds no unreturned operation, and that store none.
    <2>b. ASSUME NEW p \in Processes, pc[p] \notin Unreturning, issued \subseteq issued',
                 \A q \in Processes \ {p} : pc'[q] = pc[q] /\ holds'[q] = holds[q],
                 Stored(execution') \ issued' \subseteq Stored(execution)
          PROVE  UnreturnedIsHeld'
      BY <1>2, <2>b DEF UnreturnedIsHeld, Unreturning
    <2>c. ASSUME UNCHANGED <<pc, holds, issued>>, Stored(execution') \subseteq Stored(execution)
          PROVE  UnreturnedIsHeld'
      BY <1>2, <2>c DEF UnreturnedIsHeld
    <2>1. ASSUME NEW p \in Processes, TakeTask(p) PROVE UnreturnedIsHeld'
      <3>1. /\ pc[p] \notin Unreturning
            /\ \A q \in Processes \ {p} : pc'[q] = pc[q] /\ holds'[q] = holds[q]
        BY <2>1, <2>a DEF TakeTask, Goto, Unreturning, TypeOK
      <3>2. Stored(execution') \subseteq Stored(execution) /\ UNCHANGED issued
        BY <2>1, <2>a DEF TakeTask, HasFinishedTask, Stored, TypeOK
      <3> QED
        BY <2>b, <3>1, <3>2
    <2>2. ASSUME NEW p \in Processes, FinishRefresh(p) PROVE UnreturnedIsHeld'
      <3>1. /\ pc[p] \notin Unreturning
            /\ \A q \in Processes \ {p} : pc'[q] = pc[q] /\ holds'[q] = holds[q]
        BY <2>2, <2>a DEF FinishRefresh, Goto, Unreturning, TypeOK
      <3>2. Stored(execution') \subseteq Stored(execution) /\ UNCHANGED issued
        BY <2>2, <2>a DEF FinishRefresh, StoreResult, Stored, TypeOK
      <3> QED
        BY <2>b, <3>1, <3>2
    <2>3. ASSUME NEW p \in Processes,
                 SweepOperations(p) \/ ReapOperations(p) \/ CloseOperation(p) \/ CancelOperation(p)
          PROVE  UnreturnedIsHeld'
      <3>1. /\ pc[p] \notin Unreturning
            /\ \A q \in Processes \ {p} : pc'[q] = pc[q] /\ holds'[q] = holds[q]
        BY <2>3, <2>a
        DEF SweepOperations, ReapOperations, CloseOperation, CancelOperation, Goto, Done,
            Unreturning, TypeOK
      <3>2. Stored(execution') \subseteq Stored(execution) /\ UNCHANGED issued
        BY <2>3, <2>a
        DEF SweepOperations, ReapOperations, CloseOperation, CancelOperation, Remove, Stored,
            TypeOK, maps
      <3> QED
        BY <2>b, <3>1, <3>2
    <2>4. ASSUME NEW p \in Processes, RemoveUnreturned(p) PROVE UnreturnedIsHeld'
      <3>1. \A q \in Processes \ {p} : pc'[q] = pc[q] /\ holds'[q] = holds[q]
        BY <2>4, <2>a DEF RemoveUnreturned, Done, TypeOK
      <3>2. /\ Stored(execution') \subseteq Stored(execution) \ {holds[p]}
            /\ UNCHANGED issued
        BY <2>4 DEF RemoveUnreturned, Remove, Stored
      <3> QED
        BY <1>2, <3>1, <3>2 DEF UnreturnedIsHeld
    <2>5. ASSUME NEW p \in Processes, ColumnsReady(p) PROVE UnreturnedIsHeld'
      <3>1. \A q \in Processes \ {p} : pc'[q] = pc[q] /\ holds'[q] = holds[q]
        BY <2>5, <2>a DEF ColumnsReady, Done, TypeOK
      <3> QED
        BY <1>2, <2>5, <3>1 DEF ColumnsReady, UnreturnedIsHeld, Stored
    <2>6. ASSUME NEW p \in Processes, ColumnsFailed(p) PROVE UnreturnedIsHeld'
      BY <1>2, <2>6, <2>a DEF ColumnsFailed, Goto, UnreturnedIsHeld, TypeOK, maps
    <2>7. ASSUME NEW p \in Processes, InsertOperation(p) PROVE UnreturnedIsHeld'
      <3>1. /\ pc[p] \notin Unreturning
            /\ \A q \in Processes \ {p} : pc'[q] = pc[q] /\ holds'[q] = holds[q]
        BY <2>7, <2>a DEF InsertOperation, Goto, Done, Unreturning, TypeOK
      <3>2. CASE UNCHANGED maps
        BY <2>b, <3>1, <3>2 DEF maps
      <3>3. ASSUME NEW o \in Operations, execution' = [execution EXCEPT ![o] = "running"],
                   issued' = issued \cup {o}
            PROVE  UnreturnedIsHeld'
        <4>1. Stored(execution') \ issued' \subseteq Stored(execution)
          BY <3>3, <2>a DEF Stored, TypeOK
        <4> QED
          BY <2>b, <3>1, <3>3, <4>1
      <3>4. ASSUME NEW o \in Operations, execution' = [execution EXCEPT ![o] = "running"],
                   UNCHANGED issued, holds' = [holds EXCEPT ![p] = o], Goto(p, "await")
            PROVE  UnreturnedIsHeld'
        <4>1. Stored(execution') \subseteq Stored(execution) \cup {o}
          BY <3>4, <2>a DEF Stored, TypeOK
        <4>2. pc'[p] = "await" /\ holds'[p] = o
          BY <3>4, <2>a DEF Goto, TypeOK
        <4> QED
          BY <1>2, <3>1, <3>4, <4>1, <4>2 DEF UnreturnedIsHeld, Unreturning
      <3> QED
        BY <2>7, <3>2, <3>3, <3>4 DEF InsertOperation
    <2>8. ASSUME NEW p \in Processes,
                 \/ ListFinished(p) \/ SweepSessions(p) \/ OpenSession(p) \/ SessionFound(p)
                 \/ SessionLapsed(p) \/ SessionDenied(p) \/ CloseSession(p)
                 \/ ReadOperation(p) \/ TouchSession(p)
          PROVE  UnreturnedIsHeld'
      <3>1. UNCHANGED <<execution, issued>> /\ pc[p] \notin Unreturning
        BY <2>8
        DEF ListFinished, SweepSessions, OpenSession, SessionFound, SessionLapsed,
            SessionDenied, CloseSession, ReadOperation, TouchSession, maps, Unreturning
      <3>2. \A q \in Processes \ {p} : pc'[q] = pc[q] /\ holds'[q] = holds[q]
        BY <2>8, <2>a
        DEF ListFinished, SweepSessions, OpenSession, SessionFound, SessionLapsed,
            SessionDenied, CloseSession, ReadOperation, TouchSession, Goto, Done, TypeOK
      <3> QED
        BY <2>b, <3>1, <3>2
    <2>9. ASSUME NEW p \in Processes, NEW k, NEW t, NEW v, Begin(p, k, t, v)
          PROVE  UnreturnedIsHeld'
      <3>1. /\ pc[p] \notin Unreturning /\ UNCHANGED <<execution, issued>>
            /\ \A q \in Processes \ {p} : pc'[q] = pc[q] /\ holds'[q] = holds[q]
        BY <2>9, <2>a DEF Begin, TypeOK, maps, Unreturning
      <3> QED
        BY <2>b, <3>1
    <2>10. ASSUME NEW o \in Operations, TaskStep(o) PROVE UnreturnedIsHeld'
      <3>1. Stored(execution') \subseteq Stored(execution)
        BY <2>10, <2>a DEF TaskStep, TaskEnds, TaskAborts, ColumnsComplete, Stored, TypeOK
      <3> QED
        BY <2>10, <3>1, <2>c DEF TaskStep, TaskEnds, TaskAborts, ColumnsComplete, locals
    <2>11. CASE Tick \/ UNCHANGED vars
      BY <2>11, <2>c DEF Tick, vars, maps, locals
    <2> QED
      BY <1>2, <2>1, <2>2, <2>3, <2>4, <2>5, <2>6, <2>7, <2>8, <2>9, <2>10, <2>11
      DEF Next, Step, ExecuteStatement, GetColumns, Arrive, Drop, Sweep
  <1> QED
    BY InductiveInvariant, <1>1, <1>2, PTL DEF Spec

-----------------------------------------------------------------------------
(* Who may take a session or a result away *)

\* What a process that is about to remove something has found out, and what is
\* still so: an expired operation stays expired until it is removed, a removed
\* session is not opened again, and a request that awaits its task has not
\* issued its operation, which no other request awaits.
Entitled ==
    /\ kind[Sweeper] \in {"Sweep", "none"}
    /\ \A p \in Processes :
         /\ pc[p] = "reap" => session[target[p]] = "removed"
         /\ \A s \in Sessions : s \in stale[p] => session[s] = "removed"
         /\ \A o \in Operations :
              o \in stale[p] => execution[o] = "removed" \/ OperationExpired(o)
         /\ pc[p] \in Unreturning => holds[p] \notin issued
    /\ \A p, q \in Processes :
         p # q /\ pc[p] \in Unreturning /\ pc[q] \in Unreturning => holds[p] # holds[q]

\* What lies in the maps: sessions are not opened twice, and what has expired
\* stays so.
MapsKeep ==
    /\ \A s \in Sessions : session[s] = "removed" => session'[s] = "removed"
    /\ \A o \in Operations :
         execution[o] = "removed" \/ OperationExpired(o) =>
             execution'[o] = "removed" \/ OperationExpired(o)'

\* No step takes back what Entitled relies on.
LEMMA MapsKeepStep == ASSUME IInv, [Next]_vars PROVE MapsKeep
  <1> USE ServiceAssumption DEF Processes
  <1>a. TypeOK /\ Located /\ Consistent
    BY DEF IInv
  <1>1. ASSUME NEW s \in Sessions, session[s] = "removed" PROVE session'[s] = "removed"
    <2>1. ASSUME NEW p \in Processes, Step(p) PROVE session'[s] = "removed"
      BY <1>1, <2>1, <1>a
      DEF Step, ExecuteStatement, GetColumns, ListFinished, TakeTask, FinishRefresh,
          SweepSessions, SweepOperations, Remove, OpenSession, SessionFound, SessionLapsed,
          SessionDenied, CloseSession, ReapOperations, InsertOperation, ColumnsReady,
          ColumnsFailed, RemoveUnreturned, ReadOperation, TouchSession, CloseOperation,
          CancelOperation, TypeOK, maps
    <2> QED
      BY <1>1, <2>1
      DEF Next, Arrive, Begin, Drop, Sweep, Tick, TaskStep, TaskEnds, TaskAborts,
          ColumnsComplete, vars, maps
  <1>2. ASSUME NEW o \in Operations, OperationExpired(o)
        PROVE  execution'[o] = "removed" \/ OperationExpired(o)'
    <2>1. execution[o] \in Terminal /\ age[o] >= CompletedTtl
      BY <1>2 DEF OperationExpired
    <2>2. execution'[o] \in {execution[o], "removed"}
      BY <2>1, FinalStep
    <2>3. SUFFICES ASSUME execution'[o] = execution[o] PROVE age'[o] >= CompletedTtl
      BY <2>1, <2>2 DEF OperationExpired
    <2>4. CASE UNCHANGED age
      BY <2>1, <2>4
    <2>5. ASSUME NEW p \in Processes, FinishRefresh(p) PROVE age'[o] = age[o]
      BY <2>1, <2>3, <2>5, <1>a DEF FinishRefresh, StoreResult, Terminal, TypeOK
    <2>6. ASSUME NEW p \in Processes, CancelOperation(p) PROVE age'[o] = age[o]
      BY <2>1, <2>3, <2>6, <1>a DEF CancelOperation, Terminal, TypeOK
    <2>7. ASSUME NEW x \in Operations, ColumnsComplete(x) PROVE age'[o] = age[o]
      <3>1. execution[x] \notin Terminal
        BY <2>7, <1>a DEF ColumnsComplete, Unfinished, Consistent, Ended, Terminal
      <3> QED
        BY <2>1, <2>7, <3>1, <1>a DEF ColumnsComplete, TypeOK
    <2>8. CASE Tick
      BY <2>1, <2>8, <1>a DEF Tick, Older, TypeOK
    <2>9. ASSUME NEW p \in Processes, Step(p) PROVE age'[o] = age[o]
      BY <2>5, <2>6, <2>9
      DEF Step, ExecuteStatement, GetColumns, ListFinished, TakeTask,
          SweepSessions, SweepOperations, Remove, OpenSession, SessionFound, SessionLapsed,
          SessionDenied, CloseSession, ReapOperations, InsertOperation, ColumnsReady,
          ColumnsFailed, RemoveUnreturned, ReadOperation, TouchSession, CloseOperation, maps
    <2> QED
      BY <2>1, <2>4, <2>7, <2>8, <2>9
      DEF Next, Arrive, Begin, Drop, Sweep, TaskStep, TaskEnds, TaskAborts, vars, maps
  <1>3. ASSUME NEW o \in Operations, execution[o] = "removed" PROVE execution'[o] = "removed"
    BY <1>3, FinalStep
  <1> QED
    BY <1>1, <1>2, <1>3 DEF MapsKeep

\* Every step leaves the processes entitled to what they are about to remove.
LEMMA EntitledStep == ASSUME IInv, Entitled, [Next]_vars PROVE Entitled'
  <1> USE ServiceAssumption DEF Processes, Unreturning
  <1>a. TypeOK /\ Located /\ Consistent
    BY DEF IInv
  <1>m. MapsKeep
    BY MapsKeepStep
  \* Another process keeps its locals, and the maps what they say about it.
  <1>b. ASSUME NEW p \in Processes,
               kind'[Sweeper] \in {"Sweep", "none"},
               \A q \in Processes \ {p} :
                 /\ pc'[q] = pc[q] /\ target'[q] = target[q]
                 /\ holds'[q] = holds[q] /\ stale'[q] = stale[q],
               UNCHANGED issued,
               pc'[p] = "reap" => target'[p] \in Sessions /\ session'[target'[p]] = "removed",
               \A s \in Sessions : s \in stale'[p] => session'[s] = "removed",
               \A o \in Operations :
                 o \in stale'[p] => execution'[o] = "removed" \/ OperationExpired(o)',
               pc'[p] \in Unreturning => pc[p] \in Unreturning /\ holds'[p] = holds[p]
        PROVE  Entitled'
    <2>1. \A q \in Processes : pc[q] = "reap" => target[q] \in Sessions
      BY <1>a DEF Located
    <2> QED
      BY <1>b, <1>m, <2>1 DEF Entitled, MapsKeep
  <1>1. ASSUME NEW p \in Processes, NEW label \in PCs \ {"reap", "await", "unreturned"},
               Goto(p, label),
               UNCHANGED <<issued, stale>>,
               \A q \in Processes \ {p} : holds'[q] = holds[q]
        PROVE  Entitled'
    <2>1. /\ kind'[Sweeper] \in {"Sweep", "none"} /\ pc'[p] = label
          /\ \A q \in Processes \ {p} : pc'[q] = pc[q] /\ target'[q] = target[q]
      BY <1>1, <1>a DEF Entitled, Goto, TypeOK
    <2>2. /\ \A s \in Sessions : s \in stale'[p] => session'[s] = "removed"
          /\ \A o \in Operations :
                o \in stale'[p] => execution'[o] = "removed" \/ OperationExpired(o)'
      BY <1>1, <1>m DEF Entitled, MapsKeep
    <2> QED
      BY <1>1, <1>b, <2>1, <2>2
  <1>2. ASSUME NEW p \in Processes, Done(p), UNCHANGED issued PROVE Entitled'
    <2>1. /\ kind'[Sweeper] \in {"Sweep", "none"} /\ pc'[p] = "idle" /\ stale'[p] = {}
          /\ \A q \in Processes \ {p} :
                /\ pc'[q] = pc[q] /\ target'[q] = target[q]
                /\ holds'[q] = holds[q] /\ stale'[q] = stale[q]
      BY <1>2, <1>a DEF Entitled, Done, TypeOK
    <2> QED
      BY <1>2, <1>b, <2>1
  <1>3. ASSUME NEW p \in Processes, ListFinished(p) \/ FinishRefresh(p) PROVE Entitled'
    BY <1>3, <1>1, <1>a DEF ListFinished, FinishRefresh, PCs, TypeOK, maps
  <1>4. ASSUME NEW p \in Processes, TakeTask(p) PROVE Entitled'
    <2>1. CASE Goto(p, "join") \/ Goto(p, "joinOne")
      BY <1>4, <1>1, <1>a, <2>1 DEF TakeTask, PCs, TypeOK
    <2>2. CASE UNCHANGED <<pc, kind, target, holds, issued, stale>>
      BY <2>2, <1>m, <1>a DEF Entitled, MapsKeep, Located
    <2> QED
      BY <1>4, <2>1, <2>2 DEF TakeTask
  <1>5. ASSUME NEW p \in Processes, SweepSessions(p) PROVE Entitled'
    <2>1. /\ kind'[Sweeper] \in {"Sweep", "none"} /\ pc'[p] = "operations" /\ UNCHANGED issued
          /\ \A q \in Processes \ {p} :
                /\ pc'[q] = pc[q] /\ target'[q] = target[q]
                /\ holds'[q] = holds[q] /\ stale'[q] = stale[q]
      BY <1>5, <1>a DEF SweepSessions, Entitled, Goto, TypeOK
    <2>2. stale'[p] = {s \in Open : SessionExpired(s)} \cup {o \in Operations : OperationExpired(o)}
      BY <1>5, <1>a DEF SweepSessions, TypeOK
    <2>3. \A s \in Sessions : s \in stale'[p] => session'[s] = "removed"
      BY <1>5, <1>a, <2>2 DEF SweepSessions, TypeOK, Open
    <2>4. \A o \in Operations : o \in stale'[p] => OperationExpired(o)'
      BY <1>5, <2>2 DEF SweepSessions, OperationExpired, Open
    <2> QED
      BY <1>b, <2>1, <2>3, <2>4
  <1>6. ASSUME NEW p \in Processes, SweepOperations(p) PROVE Entitled'
    <2>0. UNCHANGED issued
      BY <1>6 DEF SweepOperations, Remove
    <2>1. CASE Done(p)
      BY <1>2, <2>0, <2>1
    <2>2. CASE /\ stale' = [stale EXCEPT ![p] = {}]
               /\ Goto(p, IF kind[p] = "Poll" THEN "refreshOne" ELSE "body")
               /\ UNCHANGED holds
      <3>1. /\ kind'[Sweeper] \in {"Sweep", "none"} /\ pc'[p] \in {"refreshOne", "body"}
            /\ stale'[p] = {}
            /\ \A q \in Processes \ {p} :
                  /\ pc'[q] = pc[q] /\ target'[q] = target[q]
                  /\ holds'[q] = holds[q] /\ stale'[q] = stale[q]
        BY <2>2, <1>a DEF Entitled, Goto, TypeOK
      <3> QED
        BY <1>b, <2>0, <3>1
    <2> QED
      BY <1>6, <2>1, <2>2 DEF SweepOperations
  <1>7. ASSUME NEW p \in Processes,
               \/ OpenSession(p) \/ SessionDenied(p) \/ ReapOperations(p) \/ RemoveUnreturned(p)
               \/ TouchSession(p) \/ CloseOperation(p) \/ CancelOperation(p)
        PROVE  Entitled'
    BY <1>7, <1>2
    DEF OpenSession, SessionDenied, ReapOperations, RemoveUnreturned, TouchSession,
        CloseOperation, CancelOperation, Remove, maps
  <1>8. ASSUME NEW p \in Processes, SessionFound(p) \/ ReadOperation(p) PROVE Entitled'
    BY <1>8, <1>1, <1>2 DEF SessionFound, ReadOperation, PCs, maps
  <1>9. ASSUME NEW p \in Processes, SessionLapsed(p) \/ CloseSession(p) PROVE Entitled'
    <2>1. CASE Done(p) /\ UNCHANGED maps
      BY <1>2, <2>1 DEF maps
    <2>2. CASE /\ session' = [session EXCEPT ![target[p]] = "removed"] /\ Goto(p, "reap")
               /\ UNCHANGED <<issued, holds, stale>>
      <3>1. target[p] \in Sessions
        BY <1>9, <1>a DEF SessionLapsed, CloseSession, Located, SessionKinds
      <3>2. /\ kind'[Sweeper] \in {"Sweep", "none"}
            /\ \A q \in Processes \ {p} :
                  /\ pc'[q] = pc[q] /\ target'[q] = target[q]
                  /\ holds'[q] = holds[q] /\ stale'[q] = stale[q]
            /\ target'[p] = target[p] /\ pc'[p] = "reap" /\ session'[target[p]] = "removed"
        BY <2>2, <3>1, <1>a DEF Entitled, Goto, TypeOK
      <3>3. /\ \A s \in Sessions : s \in stale'[p] => session'[s] = "removed"
            /\ \A o \in Operations :
                  o \in stale'[p] => execution'[o] = "removed" \/ OperationExpired(o)'
        BY <2>2, <1>m DEF Entitled, MapsKeep
      <3> QED
        BY <1>b, <2>2, <3>1, <3>2, <3>3
    <2> QED
      BY <1>9, <2>1, <2>2 DEF SessionLapsed, CloseSession
  <1>10. ASSUME NEW p \in Processes, InsertOperation(p) PROVE Entitled'
    <2>1. CASE Done(p) /\ UNCHANGED maps
      BY <1>2, <2>1 DEF maps
    <2>a. \A q \in Processes : pc[q] \in Unreturning =>
            holds[q] \in Operations /\ execution[holds[q]] # "unused"
      BY <1>a DEF Located, Consistent, TypeOK
    <2>2. ASSUME NEW o \in Operations, execution[o] = "unused", issued' = issued \cup {o}, Done(p)
          PROVE  Entitled'
      BY <2>2, <2>a, <1>m, <1>a DEF Done, Entitled, MapsKeep, Located, TypeOK
    <2>3. ASSUME NEW o \in Operations, execution[o] = "unused", UNCHANGED <<issued, stale>>,
                 holds' = [holds EXCEPT ![p] = o], Goto(p, "await")
          PROVE  Entitled'
      <3>1. o \notin issued
        BY <2>3, <1>a DEF Consistent
      <3> QED
        BY <2>3, <3>1, <2>a, <1>m, <1>a DEF Goto, Entitled, MapsKeep, Located, TypeOK
    <2> QED
      BY <1>10, <2>1, <2>2, <2>3 DEF InsertOperation
  <1>11. ASSUME NEW p \in Processes, ColumnsReady(p) PROVE Entitled'
    BY <1>11, <1>m, <1>a DEF ColumnsReady, Done, Entitled, MapsKeep, Located, TypeOK
  <1>12. ASSUME NEW p \in Processes, ColumnsFailed(p) PROVE Entitled'
    BY <1>12, <1>m, <1>a DEF ColumnsFailed, Goto, Entitled, MapsKeep, Located, TypeOK, maps
  <1>13. ASSUME NEW p \in Processes, NEW k, NEW t, NEW v, Begin(p, k, t, v),
                p = Sweeper => k = "Sweep"
         PROVE  Entitled'
    BY <1>13, <1>m, <1>a DEF Begin, Entitled, MapsKeep, Located, TypeOK, maps
  <1>14. ASSUME UNCHANGED <<issued, locals>> PROVE Entitled'
    BY <1>14, <1>m, <1>a DEF Entitled, MapsKeep, Located, locals
  <1>15. ASSUME NEW p \in Processes, Step(p) PROVE Entitled'
    BY <1>3, <1>4, <1>5, <1>6, <1>7, <1>8, <1>9, <1>10, <1>11, <1>12, <1>15
    DEF Step, ExecuteStatement, GetColumns
  <1>16. ASSUME NEW p \in Requests, Arrive(p) \/ Drop(p) PROVE Entitled'
    BY <1>2, <1>13, <1>16 DEF Arrive, Drop, maps
  <1> QED
    BY <1>13, <1>14, <1>15, <1>16
    DEF Next, Sweep, Tick, TaskStep, TaskEnds, TaskAborts, ColumnsComplete, vars, maps

\* A session is closed only when it has expired or by a request of its owner.
LEMMA SessionTaken ==
    ASSUME IInv, Entitled, Next, NEW s \in Sessions, session[s] = "open", session'[s] # "open"
    PROVE  \/ SessionExpired(s)
           \/ \E p \in Requests : kind[p] = "CloseSession" /\ target[p] = s /\ valid[p]
  <1> USE ServiceAssumption DEF Processes
  <1>a. TypeOK
    BY DEF IInv
  <1>1. ASSUME NEW p \in Processes, SweepSessions(p) \/ SessionLapsed(p) PROVE SessionExpired(s)
    BY <1>1, <1>a DEF SweepSessions, SessionLapsed, TypeOK
  <1>2. ASSUME NEW p \in Processes, CloseSession(p)
        PROVE  p \in Requests /\ kind[p] = "CloseSession" /\ target[p] = s /\ valid[p]
    BY <1>2, <1>a DEF CloseSession, Entitled, TypeOK, maps
  <1>3. ASSUME NEW p \in Processes, OpenSession(p) PROVE FALSE
    BY <1>3, <1>a DEF OpenSession, TypeOK, maps
  <1>4. ASSUME NEW p \in Processes, Step(p)
        PROVE  SweepSessions(p) \/ SessionLapsed(p) \/ CloseSession(p)
    BY <1>3, <1>4
    DEF Step, ExecuteStatement, GetColumns, ListFinished, TakeTask, FinishRefresh,
        SweepOperations, Remove, SessionFound, SessionDenied, ReapOperations, InsertOperation,
        ColumnsReady, ColumnsFailed, RemoveUnreturned, ReadOperation, TouchSession,
        CloseOperation, CancelOperation, maps
  <1> QED
    BY <1>1, <1>2, <1>4
    DEF Next, Arrive, Begin, Drop, Sweep, Tick, TaskStep, TaskEnds, TaskAborts,
        ColumnsComplete, maps

\* A finished result whose handle a client has goes only when it has outlived its
\* TTL, with its session, or by a request of its owner.
LEMMA ResultTaken ==
    ASSUME IInv, Entitled, Next, NEW o \in issued,
           execution[o] = "finished", execution'[o] # "finished"
    PROVE  \/ OperationExpired(o)
           \/ session[of[o]] # "open"
           \/ \E p \in Requests : kind[p] = "CloseOperation" /\ target[p] = o /\ valid[p]
  <1> USE ServiceAssumption DEF Processes
  <1>a. TypeOK /\ Located /\ Consistent /\ o \in Operations
    BY DEF IInv, TypeOK
  <1>1. ASSUME NEW gone, Remove(gone) PROVE o \in gone
    BY <1>1, <1>a DEF Remove
  <1>2. ASSUME NEW p \in Processes, SweepOperations(p)
        PROVE  OperationExpired(o) \/ session[of[o]] # "open"
    <2>1. o \in stale[p] \/ of[o] \in stale[p]
      BY <1>1, <1>2 DEF SweepOperations
    <2>2. of[o] \in stale[p] => of[o] \in Sessions
      BY <1>a DEF TypeOK
    <2> QED
      BY <2>1, <2>2, <1>a DEF Entitled
  <1>3. ASSUME NEW p \in Processes, ReapOperations(p) PROVE session[of[o]] # "open"
    BY <1>1, <1>3 DEF ReapOperations, Entitled
  <1>4. ASSUME NEW p \in Processes, RemoveUnreturned(p) PROVE FALSE
    BY <1>1, <1>4 DEF RemoveUnreturned, Entitled, Unreturning
  <1>5. ASSUME NEW p \in Processes, CloseOperation(p)
        PROVE  p \in Requests /\ kind[p] = "CloseOperation" /\ target[p] = o /\ valid[p]
    BY <1>1, <1>5 DEF CloseOperation, Entitled, maps
  <1>6. ASSUME NEW p \in Processes,
               \/ TakeTask(p) \/ FinishRefresh(p) \/ InsertOperation(p) \/ CancelOperation(p)
        PROVE  FALSE
    BY <1>6, <1>a
    DEF TakeTask, HasFinishedTask, FinishRefresh, StoreResult, InsertOperation,
        CancelOperation, TypeOK, maps
  <1>7. ASSUME NEW x \in Operations, ColumnsComplete(x) PROVE FALSE
    <2>1. execution[x] # "finished"
      BY <1>7, <1>a DEF ColumnsComplete, Unfinished, Consistent, Ended
    <2> QED
      BY <1>7, <1>a, <2>1 DEF ColumnsComplete, TypeOK
  <1>8. ASSUME NEW p \in Processes, Step(p)
        PROVE  SweepOperations(p) \/ ReapOperations(p) \/ CloseOperation(p)
    BY <1>4, <1>6, <1>8
    DEF Step, ExecuteStatement, GetColumns, ListFinished, SweepSessions, OpenSession,
        SessionFound, SessionLapsed, SessionDenied, CloseSession, ColumnsReady, ColumnsFailed,
        ReadOperation, TouchSession, maps
  <1> QED
    BY <1>2, <1>3, <1>5, <1>7, <1>8
    DEF Next, Arrive, Begin, Drop, Sweep, Tick, TaskStep, TaskEnds, TaskAborts, maps

\* However requests, sweeps and drops interleave, nobody but its owner or a time
\* limit takes a session or a finished result away.
THEOREM RemovalsAreEntitled == Spec => OnlyOwnerOrTimeLimit
  <1> DEFINE Taken ==
        /\ \A s \in Sessions :
             session[s] = "open" /\ session'[s] # "open" =>
                 \/ SessionExpired(s)
                 \/ \E p \in Requests : kind[p] = "CloseSession" /\ target[p] = s /\ valid[p]
        /\ \A o \in issued :
             execution[o] = "finished" /\ execution'[o] # "finished" =>
                 \/ OperationExpired(o)
                 \/ session[of[o]] # "open"
                 \/ \E p \in Requests : kind[p] = "CloseOperation" /\ target[p] = o /\ valid[p]
  <1>1. Init => Entitled
    BY ServiceAssumption DEF Init, Entitled, Unreturning, Processes
  <1>2. IInv /\ Entitled /\ [Next]_vars => Entitled'
    BY EntitledStep
  <1>3. IInv /\ Entitled /\ [Next]_vars => [Taken]_vars
    BY SessionTaken, ResultTaken
  <1> QED
    BY InductiveInvariant, <1>1, <1>2, <1>3, PTL DEF Spec, OnlyOwnerOrTimeLimit
=============================================================================
