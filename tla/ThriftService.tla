--------------------------- MODULE ThriftService ---------------------------
(***************************************************************************)
(* The Thrift service of src/thrift.rs and src/thrift/state.rs: sessions,  *)
(* operations, the tasks that run them, and the requests and background    *)
(* sweeper that share them through two RwLocks.                            *)
(*                                                                         *)
(* A step is one lock region.  Between two of them a request waits for a   *)
(* lock, for a task or for a completion message; there any other step may  *)
(* come first, and there the server drops the request when its client goes *)
(* away (Drop).  Most requests first run cleanup_expired:                  *)
(*                                                                         *)
(*   list -> refresh (<-> join) -> operations -> body ...                  *)
(*                                                                         *)
(* Time is kept as ages that stop growing at the limit they are compared   *)
(* with.  Instant::now() and the sessions lock taken next are one step:    *)
(* that lock is only held for map operations.  A request says whether its  *)
(* handle's secret and bearer token match (valid); identifiers are UUIDs   *)
(* and are never used twice.                                               *)
(***************************************************************************)
EXTENDS Integers, FiniteSets

CONSTANTS
    Requests,       \* concurrent Thrift and query-history requests
    Sweeper,        \* the background cleanup task
    Sessions,       \* session identifiers
    Operations,     \* operation identifiers
    None,           \* no session, no operation
    MaxSessions,    \* HARBORSQL_MAX_SESSIONS
    MaxOperations,  \* HARBORSQL_MAX_OPERATIONS
    IdleTimeout,    \* HARBORSQL_IDLE_SESSION_TIMEOUT_SECONDS
    CompletedTtl,   \* HARBORSQL_COMPLETED_OPERATION_TTL_SECONDS
    Drops           \* whether clients go away while their request runs

ASSUME ServiceAssumption ==
    /\ Sweeper \notin Requests
    /\ None \notin Sessions \cup Operations /\ Sessions \cap Operations = {}
    /\ IsFiniteSet(Sessions) /\ IsFiniteSet(Operations)
    /\ MaxSessions \in Nat \ {0} /\ MaxOperations \in Nat \ {0}
    /\ IdleTimeout \in Nat \ {0} /\ CompletedTtl \in Nat \ {0}
    /\ Drops \in BOOLEAN

Processes == Requests \cup {Sweeper}

VARIABLES
    session,    \* session[s]: whether s is in the sessions map
    idle,       \* idle[s]: the time since s's last_access
    execution,  \* execution[o]: the OperationExecution of o in the operations map
    age,        \* age[o]: the time since o's completed_at
    of,         \* of[o]: the session_id of o
    task,       \* task[o]: the spawned task that runs o
    channel,    \* channel[o]: the oneshot of a GetColumns operation
    issued,     \* the operations whose handle a client has been sent
    gauges,     \* the exported session and operation gauges
    pc,         \* pc[p]: the lock region process p comes to next
    kind,       \* kind[p]: the request p serves
    target,     \* target[p]: the session or operation its handle names
    valid,      \* valid[p]: the handle's secret and the bearer token match
    todo,       \* todo[p]: the operations p has still to refresh
    holds,      \* holds[p]: the operation whose task or completion p awaits
    stale       \* stale[p]: the sessions p's sweep has removed, and the
                \* operations that had outlived their TTL by then

maps == <<session, idle, execution, age, of, task, channel, issued, gauges>>
locals == <<pc, kind, target, valid, todo, holds, stale>>
vars == <<maps, locals>>

SessionKinds == {"GetInfo", "CloseSession", "GetColumns", "ExecuteStatement"}
OperationKinds == {"Poll", "CloseOperation", "CancelOperation"}
Kinds == SessionKinds \cup OperationKinds \cup {"OpenSession", "Sweep", "none"}

Terminal == {"finished", "failed", "canceled"}
Active == {"running", "refreshing"}
Executions == Terminal \cup Active \cup {"unused", "removed"}

PCs == {"idle", "list", "refresh", "join", "operations", "body",
        "insert", "await", "unreturned", "reap", "refreshOne", "joinOne",
        "touch"}

TypeOK ==
    /\ session \in [Sessions -> {"unused", "open", "removed"}]
    /\ idle \in [Sessions -> 0..IdleTimeout]
    /\ execution \in [Operations -> Executions]
    /\ age \in [Operations -> 0..CompletedTtl]
    /\ of \in [Operations -> Sessions \cup {None}]
    /\ task \in [Operations -> {"none", "running", "aborting", "ok", "err",
                                "panic", "cancelled"}]
    /\ channel \in [Operations -> {"none", "open", "ok", "failed"}]
    /\ issued \subseteq Operations
    /\ gauges \in [sessions : Nat, operations : Nat, active : Nat]
    /\ pc \in [Processes -> PCs]
    /\ kind \in [Processes -> Kinds]
    /\ target \in [Processes -> Sessions \cup Operations \cup {None}]
    /\ valid \in [Processes -> BOOLEAN]
    /\ todo \in [Processes -> SUBSET Operations]
    /\ holds \in [Processes -> Operations \cup {None}]
    /\ stale \in [Processes -> SUBSET (Sessions \cup Operations)]

Init ==
    /\ session = [s \in Sessions |-> "unused"]
    /\ idle = [s \in Sessions |-> 0]
    /\ execution = [o \in Operations |-> "unused"]
    /\ age = [o \in Operations |-> 0]
    /\ of = [o \in Operations |-> None]
    /\ task = [o \in Operations |-> "none"]
    /\ channel = [o \in Operations |-> "none"]
    /\ issued = {}
    /\ gauges = [sessions |-> 0, operations |-> 0, active |-> 0]
    /\ pc = [p \in Processes |-> "idle"]
    /\ kind = [p \in Processes |-> "none"]
    /\ target = [p \in Processes |-> None]
    /\ valid = [p \in Processes |-> FALSE]
    /\ todo = [p \in Processes |-> {}]
    /\ holds = [p \in Processes |-> None]
    /\ stale = [p \in Processes |-> {}]

-----------------------------------------------------------------------------
(* The two maps *)

Open == {s \in Sessions : session[s] = "open"}
Stored(x) == {o \in Operations : x[o] \notin {"unused", "removed"}}
Running(x) == {o \in Operations : x[o] \in Active}

\* Faulty variant of RecordOperationGauges: the operation at hand is left out.
RecordOtherOperations ==
    gauges' = [gauges EXCEPT !.operations = Cardinality(Stored(execution')) - 1,
                             !.active = Cardinality(Running(execution')) - 1]

\* record_operation_gauges, over the map as the lock region leaves it.
RecordOperationGauges ==
    gauges' = [gauges EXCEPT !.operations = Cardinality(Stored(execution')),
                             !.active = Cardinality(Running(execution'))]

\* has_finished_task: JoinHandle::is_finished of a Running operation.
HasFinishedTask(o) ==
    execution[o] = "running" /\ task[o] \in {"ok", "err", "panic", "cancelled"}

\* SessionState::is_expired and OperationState::is_expired.
SessionExpired(s) == idle[s] >= IdleTimeout

\* Faulty variant of OperationExpired: failed and canceled ones never expire.
FinishedExpired(o) == execution[o] = "finished" /\ age[o] >= CompletedTtl

OperationExpired(o) == execution[o] \in Terminal /\ age[o] >= CompletedTtl

\* from_join_result and from_completion.
FromJoinResult ==
    [ok |-> "finished", err |-> "failed", panic |-> "failed", cancelled |-> "canceled"]

\* OperationState::abort: JoinHandle::abort, if the operation is Running.
Aborted(gone) ==
    [o \in Operations |->
        IF o \in gone /\ execution[o] = "running" /\ task[o] = "running"
        THEN "aborting" ELSE task[o]]

\* The operations gone leave the map, their tasks aborted.
Remove(gone) ==
    /\ execution' = [o \in Operations |->
                        IF o \in gone /\ o \in Stored(execution)
                        THEN "removed" ELSE execution[o]]
    /\ task' = Aborted(gone)
    /\ RecordOperationGauges
    /\ UNCHANGED <<session, idle, age, of, channel, issued>>

Goto(p, label) ==
    /\ pc' = [pc EXCEPT ![p] = label]
    /\ UNCHANGED <<kind, target, valid>>

\* The request is over: answered, or its future dropped.
Done(p) ==
    /\ pc' = [pc EXCEPT ![p] = "idle"]
    /\ kind' = [kind EXCEPT ![p] = "none"]
    /\ target' = [target EXCEPT ![p] = None]
    /\ valid' = [valid EXCEPT ![p] = FALSE]
    /\ todo' = [todo EXCEPT ![p] = {}]
    /\ holds' = [holds EXCEPT ![p] = None]
    /\ stale' = [stale EXCEPT ![p] = {}]

-----------------------------------------------------------------------------
(* Requests arrive *)

\* Only a CloseSession and a GetInfo do without cleanup_expired.
Begin(p, k, t, v) ==
    /\ pc[p] = "idle"
    /\ pc' = [pc EXCEPT ![p] = IF k \in {"CloseSession", "GetInfo"} THEN "body" ELSE "list"]
    /\ kind' = [kind EXCEPT ![p] = k]
    /\ target' = [target EXCEPT ![p] = t]
    /\ valid' = [valid EXCEPT ![p] = v]
    /\ UNCHANGED <<maps, todo, holds, stale>>

\* Handles name what the service has handed out, removed since or not.  The
\* bound: nobody asks for more while no identifier is left to be given.
Arrive(p) ==
    \/ Begin(p, "OpenSession", None, FALSE) /\ \E s \in Sessions : session[s] = "unused"
    \/ \E k \in {"GetInfo", "CloseSession"}, s \in Sessions, v \in BOOLEAN :
         session[s] # "unused" /\ Begin(p, k, s, v)
    \/ \E k \in {"GetColumns", "ExecuteStatement"}, s \in Sessions, v \in BOOLEAN :
         /\ session[s] # "unused" /\ Begin(p, k, s, v)
         /\ \E o \in Operations : execution[o] = "unused"
    \/ \E k \in OperationKinds, o \in issued, v \in BOOLEAN : Begin(p, k, o, v)

\* interval.tick(): the sweeper starts over.
Sweep == Begin(Sweeper, "Sweep", None, FALSE)

-----------------------------------------------------------------------------
(* cleanup_expired *)

\* refresh_finished_operations collects the operations to refresh.
ListFinished(p) ==
    /\ pc[p] = "list"
    /\ todo' = [todo EXCEPT ![p] = {o \in Operations : HasFinishedTask(o)}]
    /\ Goto(p, "refresh")
    /\ UNCHANGED <<maps, holds, stale>>

\* refresh_operation, first lock: take_finished_task.
TakeTask(p) ==
    /\ pc[p] \in {"refresh", "refreshOne"}
    /\ \E o \in todo[p] :
         /\ todo' = [todo EXCEPT ![p] = @ \ {o}]
         /\ IF HasFinishedTask(o)
            THEN /\ execution' = [execution EXCEPT ![o] = "refreshing"]
                 /\ holds' = [holds EXCEPT ![p] = o]
                 /\ Goto(p, IF pc[p] = "refresh" THEN "join" ELSE "joinOne")
            ELSE UNCHANGED <<execution, holds, pc, kind, target, valid>>
    /\ UNCHANGED <<session, idle, age, of, task, channel, issued, gauges, stale>>

\* Faulty variant of StoreResult: a task that panicked has no result to store.
StoreResultIfAny(o) ==
    IF execution[o] = "refreshing" /\ task[o] # "panic"
    THEN /\ execution' = [execution EXCEPT ![o] = FromJoinResult[task[o]]]
         /\ age' = [age EXCEPT ![o] = 0]
    ELSE UNCHANGED <<execution, age>>

\* finish_refresh: o may have been removed in the meantime.
StoreResult(o) ==
    IF execution[o] = "refreshing"
    THEN /\ execution' = [execution EXCEPT ![o] = FromJoinResult[task[o]]]
         /\ age' = [age EXCEPT ![o] = 0]
    ELSE UNCHANGED <<execution, age>>

\* Faulty variant of FinishRefresh: the gauges keep their values.
FinishRefreshUnrecorded(p) ==
    /\ pc[p] \in {"join", "joinOne"}
    /\ StoreResult(holds[p])
    /\ holds' = [holds EXCEPT ![p] = None]
    /\ Goto(p, IF pc[p] = "join" THEN "refresh" ELSE "refreshOne")
    /\ UNCHANGED <<session, idle, of, task, channel, issued, gauges, todo, stale>>

\* refresh_operation, after task.await: second lock.
FinishRefresh(p) ==
    /\ pc[p] \in {"join", "joinOne"}
    /\ StoreResult(holds[p])
    /\ RecordOperationGauges
    /\ holds' = [holds EXCEPT ![p] = None]
    /\ Goto(p, IF pc[p] = "join" THEN "refresh" ELSE "refreshOne")
    /\ UNCHANGED <<session, idle, of, task, channel, issued, todo, stale>>

\* Nothing left to refresh: expired sessions go, and with the clock value read
\* here it is settled which operations go next.  The session gauge stays.
SweepSessions(p) ==
    LET expired == {s \in Open : SessionExpired(s)} IN
    /\ pc[p] = "refresh"
    /\ todo[p] = {}
    /\ session' = [s \in Sessions |-> IF s \in expired THEN "removed" ELSE session[s]]
    /\ stale' = [stale EXCEPT ![p] = expired \cup {o \in Operations : OperationExpired(o)}]
    /\ Goto(p, "operations")
    /\ UNCHANGED <<idle, execution, age, of, task, channel, issued, gauges, todo, holds>>

\* The second half of cleanup_expired, and on to what the request is for.
SweepOperations(p) ==
    /\ pc[p] = "operations"
    /\ Remove({o \in Operations : o \in stale[p] \/ of[o] \in stale[p]})
    /\ IF kind[p] = "Sweep" THEN Done(p)
       ELSE /\ stale' = [stale EXCEPT ![p] = {}]
            /\ todo' = [todo EXCEPT ![p] = IF kind[p] = "Poll" THEN {target[p]} ELSE {}]
            /\ Goto(p, IF kind[p] = "Poll" THEN "refreshOne" ELSE "body")
            /\ UNCHANGED holds

-----------------------------------------------------------------------------
(* Sessions *)

\* Faulty variant of OpenSession: the capacity test is off by one.
OpenSessionOffByOne(p) ==
    /\ pc[p] = "body" /\ kind[p] = "OpenSession"
    /\ IF Cardinality(Open) > MaxSessions
       THEN UNCHANGED maps
       ELSE \E s \in Sessions :
              /\ session[s] = "unused"
              /\ session' = [session EXCEPT ![s] = "open"]
              /\ gauges' = [gauges EXCEPT !.sessions = Cardinality(Open) + 1]
              /\ UNCHANGED <<idle, execution, age, of, task, channel, issued>>
    /\ Done(p)

\* The new session is inserted unless the map is full.
OpenSession(p) ==
    /\ pc[p] = "body" /\ kind[p] = "OpenSession"
    /\ IF Cardinality(Open) >= MaxSessions
       THEN UNCHANGED maps
       ELSE \E s \in Sessions :
              /\ session[s] = "unused"
              /\ session' = [session EXCEPT ![s] = "open"]
              /\ gauges' = [gauges EXCEPT !.sessions = Cardinality(Open) + 1]
              /\ UNCHANGED <<idle, execution, age, of, task, channel, issued>>
    /\ Done(p)

\* session_for finds a live session: it is touched and the handler goes on.
\* GetInfo has its answer.
SessionFound(p) ==
    LET s == target[p] IN
    /\ pc[p] = "body" /\ kind[p] \in {"GetInfo", "GetColumns", "ExecuteStatement"}
    /\ session[s] = "open" /\ ~SessionExpired(s) /\ valid[p]
    /\ idle' = [idle EXCEPT ![s] = 0]
    /\ IF kind[p] = "GetInfo" THEN Done(p)
       ELSE Goto(p, "insert") /\ UNCHANGED <<todo, holds, stale>>
    /\ UNCHANGED <<session, execution, age, of, task, channel, issued, gauges>>

\* session_for finds an expired session and removes it, whoever is asking.
SessionLapsed(p) ==
    LET s == target[p] IN
    /\ pc[p] = "body" /\ kind[p] \in {"GetInfo", "GetColumns", "ExecuteStatement"}
    /\ session[s] = "open" /\ SessionExpired(s)
    /\ session' = [session EXCEPT ![s] = "removed"]
    /\ Goto(p, "reap")
    /\ UNCHANGED <<idle, execution, age, of, task, channel, issued, gauges,
                   todo, holds, stale>>

\* session_for finds no session, or one of another client.
SessionDenied(p) ==
    LET s == target[p] IN
    /\ pc[p] = "body" /\ kind[p] \in {"GetInfo", "GetColumns", "ExecuteStatement"}
    /\ session[s] # "open" \/ (~SessionExpired(s) /\ ~valid[p])
    /\ Done(p)
    /\ UNCHANGED maps

\* remove_session, first lock.  An expired session is closed like any other.
CloseSession(p) ==
    LET s == target[p] IN
    /\ pc[p] = "body" /\ kind[p] = "CloseSession"
    /\ IF session[s] = "open" /\ valid[p]
       THEN /\ session' = [session EXCEPT ![s] = "removed"]
            /\ gauges' = [gauges EXCEPT !.sessions = Cardinality(Open \ {s})]
            /\ Goto(p, "reap")
            /\ UNCHANGED <<idle, execution, age, of, task, channel, issued,
                           todo, holds, stale>>
       ELSE Done(p) /\ UNCHANGED maps

\* Faulty variant of ReapOperations: the tasks are left running.
ReapWithoutAbort(p) ==
    /\ pc[p] = "reap"
    /\ execution' = [o \in Operations |->
                        IF of[o] = target[p] /\ o \in Stored(execution)
                        THEN "removed" ELSE execution[o]]
    /\ RecordOperationGauges
    /\ Done(p)
    /\ UNCHANGED <<session, idle, age, of, task, channel, issued>>

\* remove_operations_for_session.
ReapOperations(p) ==
    /\ pc[p] = "reap"
    /\ Remove({o \in Operations : of[o] = target[p]})
    /\ Done(p)

-----------------------------------------------------------------------------
(* Operations *)

\* ExecuteStatement and GetColumns spawn the task and insert the operation in
\* one lock region, unless the map is full.  An ExecuteStatement has its
\* handle; a GetColumns waits for its task first.
InsertOperation(p) ==
    LET columns == kind[p] = "GetColumns" IN
    /\ pc[p] = "insert"
    /\ IF Cardinality(Stored(execution)) >= MaxOperations
       THEN Done(p) /\ UNCHANGED maps
       ELSE \E o \in Operations :
              /\ execution[o] = "unused"
              /\ execution' = [execution EXCEPT ![o] = "running"]
              /\ task' = [task EXCEPT ![o] = "running"]
              /\ of' = [of EXCEPT ![o] = target[p]]
              /\ channel' = [channel EXCEPT ![o] = IF columns THEN "open" ELSE "none"]
              /\ issued' = IF columns THEN issued ELSE issued \cup {o}
              /\ RecordOperationGauges
              /\ IF columns
                 THEN /\ holds' = [holds EXCEPT ![p] = o]
                      /\ Goto(p, "await")
                      /\ UNCHANGED <<todo, stale>>
                 ELSE Done(p)
              /\ UNCHANGED <<session, idle, age>>

ExecuteStatement(p) == kind[p] = "ExecuteStatement" /\ InsertOperation(p)
GetColumns(p) == kind[p] = "GetColumns" /\ InsertOperation(p)

\* await_operation_completion: the columns are there and the handle is sent.
ColumnsReady(p) ==
    /\ pc[p] = "await"
    /\ channel[holds[p]] = "ok"
    /\ issued' = issued \cup {holds[p]}
    /\ Done(p)
    /\ UNCHANGED <<session, idle, execution, age, of, task, channel, gauges>>

\* Faulty variant of ColumnsFailed: the error is answered at once.
ColumnsFailedAtOnce(p) ==
    /\ pc[p] = "await"
    /\ channel[holds[p]] = "failed"
    /\ Done(p)
    /\ UNCHANGED maps

ColumnsFailed(p) ==
    /\ pc[p] = "await"
    /\ channel[holds[p]] = "failed"
    /\ Goto(p, "unreturned")
    /\ UNCHANGED <<maps, todo, holds, stale>>

\* remove_unreturned_operation, before the error is answered.
RemoveUnreturned(p) ==
    /\ pc[p] = "unreturned"
    /\ Remove({holds[p]})
    /\ Done(p)

\* with_operation and query_history: the operation is refreshed and looked at.
ReadOperation(p) ==
    /\ pc[p] = "refreshOne"
    /\ todo[p] = {}
    /\ IF target[p] \in Stored(execution) /\ valid[p]
       THEN Goto(p, "touch") /\ UNCHANGED <<todo, holds, stale>>
       ELSE Done(p)
    /\ UNCHANGED maps

\* touch_session, if the session is still there.
TouchSession(p) ==
    LET s == of[target[p]] IN
    /\ pc[p] = "touch"
    /\ idle' = IF s \in Open THEN [idle EXCEPT ![s] = 0] ELSE idle
    /\ Done(p)
    /\ UNCHANGED <<session, execution, age, of, task, channel, issued, gauges>>

\* Faulty variant of CloseOperation: the secret and the token are not compared.
CloseAnyOperation(p) ==
    /\ pc[p] = "body" /\ kind[p] = "CloseOperation"
    /\ Remove({target[p]})
    /\ Done(p)

\* remove_operation.
CloseOperation(p) ==
    /\ pc[p] = "body" /\ kind[p] = "CloseOperation"
    /\ IF valid[p] THEN Remove({target[p]}) ELSE UNCHANGED maps
    /\ Done(p)

\* Faulty variant of CancelOperation: whatever is still stored is canceled.
CancelAnyOperation(p) ==
    LET o == target[p] IN
    /\ pc[p] = "body" /\ kind[p] = "CancelOperation"
    /\ IF o \in Stored(execution) /\ valid[p]
       THEN /\ execution' = [execution EXCEPT ![o] = "canceled"]
            /\ age' = [age EXCEPT ![o] = 0]
            /\ task' = Aborted({o})
            /\ RecordOperationGauges
       ELSE UNCHANGED <<execution, age, task, gauges>>
    /\ Done(p)
    /\ UNCHANGED <<session, idle, of, channel, issued>>

\* cancel_operation: only a Running operation is canceled.
CancelOperation(p) ==
    LET o == target[p] IN
    /\ pc[p] = "body" /\ kind[p] = "CancelOperation"
    /\ IF execution[o] = "running" /\ valid[p]
       THEN /\ execution' = [execution EXCEPT ![o] = "canceled"]
            /\ age' = [age EXCEPT ![o] = 0]
            /\ task' = Aborted({o})
       ELSE UNCHANGED <<execution, age, task>>
    /\ IF o \in Stored(execution) /\ valid[p] THEN RecordOperationGauges ELSE UNCHANGED gauges
    /\ Done(p)
    /\ UNCHANGED <<session, idle, of, channel, issued>>

-----------------------------------------------------------------------------
(* Tasks *)

Unfinished(o) == task[o] \in {"running", "aborting"}

\* An ExecuteStatement task ends; a panic ends a GetColumns task as well, and
\* drops the sender of its channel.
TaskEnds(o) ==
    /\ Unfinished(o)
    /\ \E r \in IF channel[o] = "none" THEN {"ok", "err", "panic"} ELSE {"panic"} :
         task' = [task EXCEPT ![o] = r]
    /\ channel' = [channel EXCEPT ![o] = IF @ = "none" THEN @ ELSE "failed"]
    /\ UNCHANGED <<session, idle, execution, age, of, issued, gauges, locals>>

\* The abort takes effect at the task's next await.
TaskAborts(o) ==
    /\ task[o] = "aborting"
    /\ task' = [task EXCEPT ![o] = "cancelled"]
    /\ channel' = [channel EXCEPT ![o] = IF @ = "none" THEN @ ELSE "failed"]
    /\ UNCHANGED <<session, idle, execution, age, of, issued, gauges, locals>>

\* A GetColumns task completes: it stores its own result, reports it, and takes
\* the operation back if nobody is waiting for the handle any more.
ColumnsComplete(o) ==
    LET present == o \in Stored(execution)
        delivered == \E p \in Processes : pc[p] = "await" /\ holds[p] = o
    IN
    /\ Unfinished(o)
    /\ channel[o] # "none"
    /\ \E r \in {"ok", "err"} :
         /\ task' = [task EXCEPT ![o] = r]
         /\ execution' = [execution EXCEPT ![o] =
                             IF ~present THEN @
                             ELSE IF delivered THEN FromJoinResult[r] ELSE "removed"]
         /\ channel' = [channel EXCEPT ![o] = IF r = "ok" THEN "ok" ELSE "failed"]
    /\ age' = [age EXCEPT ![o] = 0]
    /\ RecordOperationGauges
    /\ UNCHANGED <<session, idle, of, issued, locals>>

-----------------------------------------------------------------------------

\* The client of a request goes away and the server drops the handler.
Drop(p) ==
    /\ Drops
    /\ pc[p] # "idle"
    /\ Done(p)
    /\ UNCHANGED maps

Older(n, limit) == IF n < limit THEN n + 1 ELSE n

Tick ==
    /\ idle' = [s \in Sessions |->
                    IF s \in Open THEN Older(idle[s], IdleTimeout) ELSE idle[s]]
    /\ age' = [o \in Operations |->
                   IF execution[o] \in Terminal THEN Older(age[o], CompletedTtl) ELSE age[o]]
    /\ UNCHANGED <<session, execution, of, task, channel, issued, gauges, locals>>

Step(p) ==
    \/ ListFinished(p) \/ TakeTask(p) \/ FinishRefresh(p)
    \/ SweepSessions(p) \/ SweepOperations(p)
    \/ OpenSession(p) \/ SessionFound(p) \/ SessionLapsed(p) \/ SessionDenied(p)
    \/ CloseSession(p) \/ ReapOperations(p)
    \/ ExecuteStatement(p) \/ GetColumns(p)
    \/ ColumnsReady(p) \/ ColumnsFailed(p) \/ RemoveUnreturned(p)
    \/ ReadOperation(p) \/ TouchSession(p) \/ CloseOperation(p) \/ CancelOperation(p)

TaskStep(o) == TaskEnds(o) \/ TaskAborts(o) \/ ColumnsComplete(o)

Next ==
    \/ \E p \in Processes : Step(p)
    \/ \E p \in Requests : Arrive(p) \/ Drop(p)
    \/ \E o \in Operations : TaskStep(o)
    \/ Sweep
    \/ Tick

Spec == Init /\ [][Next]_vars

\* Locks are fair and never held across an await, queries and Unity requests
\* time out, time passes and the sweeper's interval fires.
FairSpec ==
    /\ Spec
    /\ \A p \in Processes : WF_vars(Step(p))
    /\ \A o \in Operations : WF_vars(TaskStep(o))
    /\ WF_vars(Sweep)
    /\ WF_vars(Tick)

-----------------------------------------------------------------------------
(* Properties *)

\* Neither map outgrows its limit, although requests race to insert.
CapacityBound ==
    /\ Cardinality(Open) <= MaxSessions
    /\ Cardinality(Stored(execution)) <= MaxOperations

\* The operation gauges always agree with the map, whichever of the many lock
\* regions changed it; the session gauge never reports too few sessions.
GaugesAgree ==
    /\ gauges.operations = Cardinality(Stored(execution))
    /\ gauges.active = Cardinality(Running(execution))
    /\ gauges.sessions >= Cardinality(Open)

\* No query runs on for an operation that was canceled or removed: its task has
\* been told to abort.
NoRunawayTask == \A o \in Operations : task[o] = "running" => execution[o] = "running"

\* A Refreshing operation has a request that holds its task and will store the
\* result: otherwise it is neither completed nor ever again refreshed.
RefreshingIsHeld ==
    \A o \in Operations :
        execution[o] = "refreshing" =>
            \E p \in Processes : pc[p] \in {"join", "joinOne"} /\ holds[p] = o

\* An operation whose handle no client has is waited for by its GetColumns
\* request, or about to be removed by it.
UnreturnedIsHeld ==
    \A o \in Stored(execution) \ issued :
        \E p \in Processes : pc[p] \in {"await", "unreturned"} /\ holds[p] = o

\* What a client has seen of an operation's outcome stays: a terminal state is
\* only ever left by removal, and removal is for good.
OutcomeIsFinal ==
    [][\A o \in Operations :
          /\ execution[o] \in Terminal => execution'[o] \in {execution[o], "removed"}
          /\ execution[o] = "removed" => execution'[o] = "removed"]_vars

\* Sessions and stored results are only taken away by those entitled to: the
\* owner's own close requests, or the time limits.
OnlyOwnerOrTimeLimit ==
    [][/\ \A s \in Sessions :
             session[s] = "open" /\ session'[s] # "open" =>
                 \/ SessionExpired(s)
                 \/ \E p \in Requests :
                      kind[p] = "CloseSession" /\ target[p] = s /\ valid[p]
       /\ \A o \in issued :
             execution[o] = "finished" /\ execution'[o] # "finished" =>
                 \/ OperationExpired(o)
                 \/ session[of[o]] # "open"
                 \/ \E p \in Requests :
                      kind[p] = "CloseOperation" /\ target[p] = o /\ valid[p]]_vars

\* An operation whose task is over is eventually taken out of the map.
CompletedOperationsLeave ==
    \A o \in Operations :
        o \in Stored(execution) /\ ~Unfinished(o) ~> o \notin Stored(execution)
=============================================================================
