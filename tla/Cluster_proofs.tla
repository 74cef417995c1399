--------------------------- MODULE Cluster_proofs ---------------------------
(***************************************************************************)
(* Proofs about the whole system for every number of requests, workers,    *)
(* slots and tasks, with faults and races.  What is proved of the server   *)
(* for arbitrary clients is taken over: the plugin and the workers are     *)
(* clients of it.                                                          *)
(***************************************************************************)
EXTENDS Cluster, TLAPS

Server_ == INSTANCE ProxyServer_proofs WITH ClientStates <- {"Init"}

-----------------------------------------------------------------------------
(* ProxyServer_proofs and Cluster speak of one server. *)

LEMMA ServerFits ==
  /\ Server_!BackendAssumption /\ Server_!ClientStatesAssumption
  /\ Server_!NoTaskAssumption /\ Server_!WorkerAssumption
  /\ Server_!StampAssumption /\ Server_!TaskIdAssumption
BY ServerAssumption
   DEF Server_!BackendAssumption, Server_!ClientStatesAssumption,
       Server_!NoTaskAssumption, Server_!WorkerAssumption,
       Server_!StampAssumption, Server_!TaskIdAssumption, Server_!TaskState,
       Server_!AllTaskIds, Server_!gen_task_id

LEMMA SameTypeOK == Server_!TypeOK <=> Server!TypeOK
BY DEF Server_!TypeOK, Server!TypeOK, Server_!CallsTyped, Server!CallsTyped,
       Server_!Table, Server!Table, Server_!Call, Server!Call,
       Server_!Row, Server!Row, Server_!TaskState, Server!TaskState,
       Server_!Pc, Server!Pc

LEMMA SameInit == Server_!Init = Server!Init
BY DEF Server_!Init, Server!Init, Server_!EmptyTable, Server!EmptyTable,
       Server_!NoRow, Server!NoRow, Server_!NoCall, Server!NoCall

LEMMA SameHandle == ASSUME NEW c PROVE Server_!Handle(c) = Server!Handle(c)
<1>1. Server_!HasResource(c) = Server!HasResource(c)
  BY DEF Server_!HasResource, Server!HasResource, Server_!Goto, Server!Goto,
         Server_!CallResource, Server!CallResource, Server_!ResourceOf,
         Server!ResourceOf
<1>2. Server_!StoreResourceDb(c) = Server!StoreResourceDb(c)
  BY DEF Server_!StoreResourceDb, Server!StoreResourceDb, Server_!Goto,
         Server!Goto, Server_!Reply, Server!Reply, Server_!CallResource,
         Server!CallResource, Server_!ResourceOf, Server!ResourceOf
<1>3. Server_!CreateFile(c) = Server!CreateFile(c)
  BY DEF Server_!CreateFile, Server!CreateFile, Server_!Stale, Server!Stale,
         Server_!CallResource, Server!CallResource, Server_!ResourceOf,
         Server!ResourceOf
<1>4. Server_!FinishFile(c) = Server!FinishFile(c)
  BY DEF Server_!FinishFile, Server!FinishFile, Server_!Goto, Server!Goto,
         Server_!CallResource, Server!CallResource, Server_!ResourceOf,
         Server!ResourceOf
<1>5. Server_!HasTask(c) = Server!HasTask(c)
  BY DEF Server_!HasTask, Server!HasTask, Server_!Goto, Server!Goto,
         Server_!Reply, Server!Reply, Server_!has_task, Server!has_task
<1>6. Server_!InsertTask(c) = Server!InsertTask(c)
  BY DEF Server_!InsertTask, Server!InsertTask, Server_!Reply, Server!Reply,
         Server_!has_task, Server!has_task, Server_!add_task,
         Server!add_task, Server_!NoRow, Server!NoRow
<1>7. Server_!SelectTodo(c) = Server!SelectTodo(c)
  BY DEF Server_!SelectTodo, Server!SelectTodo, Server_!Reply, Server!Reply,
         Server_!OldestTodo, Server!OldestTodo
<1>8. Server_!ClaimTodo(c) = Server!ClaimTodo(c)
  BY DEF Server_!ClaimTodo, Server!ClaimTodo, Server_!Reply, Server!Reply,
         Server_!claim_task, Server!claim_task
<1>9. Server_!FetchTask(c) = Server!FetchTask(c)
  BY DEF Server_!FetchTask, Server!FetchTask, Server_!Goto, Server!Goto,
         Server_!Reply, Server!Reply, Server_!has_task, Server!has_task
<1>10. Server_!StoreProof(c) = Server!StoreProof(c)
  BY DEF Server_!StoreProof, Server!StoreProof, Server_!Goto, Server!Goto,
         Server_!record_proof, Server!record_proof, Server_!has_task,
         Server!has_task
<1>11. Server_!DeleteResource(c) = Server!DeleteResource(c)
  BY DEF Server_!DeleteResource, Server!DeleteResource, Server_!Stale,
         Server!Stale, Server_!CallResource, Server!CallResource,
         Server_!ResourceOf, Server!ResourceOf
<1> QED
  BY <1>1, <1>2, <1>3, <1>4, <1>5, <1>6, <1>7, <1>8, <1>9, <1>10, <1>11
     DEF Server_!Handle, Server!Handle

LEMMA SameStatements ==
  /\ \A tbl, t : Server_!has_task(tbl, t) = Server!has_task(tbl, t)
  /\ \A t : Server_!ResourceOf(t) = Server!ResourceOf(t)
  /\ Server_!NoCall = Server!NoCall
  /\ Server_!vars = server
BY DEF Server_!has_task, Server!has_task, Server_!ResourceOf,
       Server!ResourceOf, Server_!NoCall, Server!NoCall, Server_!vars, server

LEMMA SameRequests ==
  /\ \A c, t : Server_!AddTask(c, t) = Server!AddTask(c, t)
  /\ \A c, w : Server_!FetchTodo(c, w) = Server!FetchTodo(c, w)
  /\ \A c, w, t : Server_!RecordProof(c, w, t) = Server!RecordProof(c, w, t)
  /\ \A w, t : Server_!RecordError(w, t) = Server!RecordError(w, t)
  /\ \A tids, s : Server_!UpdateStatusById(tids, s) =
                     Server!UpdateStatusById(tids, s)
<1>1. \A c, op, pc, t, w : Server_!Start(c, op, pc, t, w) =
                              Server!Start(c, op, pc, t, w)
  BY DEF Server_!Start, Server!Start
<1>2. /\ \A c, t : Server_!AddTask(c, t) = Server!AddTask(c, t)
      /\ \A c, w : Server_!FetchTodo(c, w) = Server!FetchTodo(c, w)
      /\ \A c, w, t : Server_!RecordProof(c, w, t) =
                         Server!RecordProof(c, w, t)
  BY <1>1 DEF Server_!AddTask, Server!AddTask, Server_!FetchTodo,
       Server!FetchTodo, Server_!RecordProof, Server!RecordProof
<1>3. \A w, t : Server_!RecordError(w, t) = Server!RecordError(w, t)
  BY DEF Server_!RecordError, Server!RecordError, Server_!record_error,
         Server!record_error, Server_!has_task, Server!has_task
<1>4. \A tids, s : Server_!UpdateStatusById(tids, s) =
                      Server!UpdateStatusById(tids, s)
  BY DEF Server_!UpdateStatusById, Server!UpdateStatusById,
         Server_!update_status_by_id, Server!update_status_by_id,
         Server_!has_task, Server!has_task
<1> QED
  BY <1>2, <1>3, <1>4

LEMMA SameEnds ==
  /\ \A c : Server_!Close(c) = Server!Close(c)
  /\ \A c : Server_!Abort(c) = Server!Abort(c)
  /\ Server_!Crash = Server!Crash
BY DEF Server_!Close, Server!Close, Server_!Abort, Server!Abort,
       Server_!Crash, Server!Crash, Server_!NoCall, Server!NoCall,
       Server_!Reply, Server!Reply, Server_!Working, Server!Working

-----------------------------------------------------------------------------
(* The plugin and the workers are clients of the server. *)

\* A slot has a task while it is at work.
SlotsTyped ==
  \A w \in Workers, s \in Slots :
    work[w][s].stage = "none" <=> work[w][s].task = NoTask

\* A request that awaits Proof.SubmitC2Task awaits that of its own task.
AwaitsOwn(p) ==
  plugin[p].pc = "adding" =>
    \/ Unanswered(pluginConn(p))
    \/ /\ call[pluginConn(p)].op = "add_task"
       /\ call[pluginConn(p)].task = plugin[p].task

\* A handler of add_task_inner runs no statement of fetch_one_todo.
SubmissionsSubmit ==
  \A c \in Conns : call[c].op = "add_task" => call[c].pc # "select_todo"

LEMMA ConnsOfAll ==
  /\ \A p \in Requests : pluginConn(p) \in Conns
  /\ \A w \in Workers : fetchConn(w) \in Conns /\ execConn(w) \in Conns
  /\ \A p, q \in Requests : pluginConn(p) = pluginConn(q) => p = q
  /\ \A p \in Requests, w \in Workers :
       pluginConn(p) # fetchConn(w) /\ pluginConn(p) # execConn(w)
BY ConnsAssumption DEF pluginConn, fetchConn, execConn

\* A step of request p, and one of slot s of worker w.
RequestStep(p) ==
  \/ \E t \in TaskIds : Ask(p, t)
  \/ Plugin(p) \/ CallFails(p) \/ ResetLost(p)

SlotAction(w, s) == Process(w, s) \/ RecordLost(w, s) \/ RecordErrorLost(w, s)

\* An error is recorded for t, in time or late.
ErrorStep(t) ==
  /\ Failed(t)
  /\ \E w \in Workers : Server!RecordError(w, t)
  /\ \/ \E w \in Workers, s \in Slots : RecordError(w, s) /\ work[w][s].task = t
     \/ \E l \in late : CarryOutLate(l)

LEMMA RecordErrorSteps ==
  ASSUME TypeOK, SlotsTyped, NEW w \in Workers, NEW s \in Slots,
         RecordError(w, s)
  PROVE  work[w][s].task \in TaskIds /\ ErrorStep(work[w][s].task)
<1>1. work[w][s].task \in TaskIds
  BY DEF RecordError, TypeOK, SlotsTyped
<1>2. Failed(work[w][s].task) /\ Server!RecordError(w, work[w][s].task)
  BY Zenon DEF RecordError
<1> QED
  BY <1>1, <1>2 DEF ErrorStep

\* A late call resets a task, or records an error.
LEMMA LateSteps ==
  ASSUME TypeOK, NEW l \in late, CarryOutLate(l)
  PROVE  /\ l.task \in TaskIds
         /\ UNCHANGED <<worker, faulty>> /\ faulty
         /\ late' \subseteq late
         /\ \/ Server!UpdateStatusById({l.task}, "Init") /\ UNCHANGED plugin
            \/ ErrorStep(l.task)
<1>1. \/ \E t \in TaskIds : l = LateReset(t)
      \/ \E w \in Workers, t \in TaskIds : l = LateError(w, t)
  BY DEF TypeOK, LateCalls
<1>2. l.task \in TaskIds /\ (l.op = "record_error" => l.worker \in Workers)
  BY <1>1 DEF LateReset, LateError
<1>3. UNCHANGED <<worker, faulty>> /\ faulty /\ late' \subseteq late
  BY DEF CarryOutLate
<1>4. \/ Server!UpdateStatusById({l.task}, "Init") /\ UNCHANGED plugin
      \/ /\ l.op = "record_error"
         /\ Server!RecordError(l.worker, l.task) /\ Failed(l.task)
  BY Zenon DEF CarryOutLate
<1> QED
  BY <1>2, <1>3, <1>4 DEF ErrorStep

LEMMA NextServer ==
  ASSUME TypeOK, SlotsTyped, [Next]_vars
  PROVE  [Server_!Next]_(Server_!vars)
<1> DEFINE Goal == [Server_!Next]_(Server_!vars)
<1> SUFFICES Goal
  OBVIOUS
<1> HIDE DEF Goal
<1>1. CASE UNCHANGED server
  BY <1>1 DEF Goal, server, Server_!vars
<1>2. ASSUME NEW c \in Conns,
             Server!Handle(c) \/ Server!Abort(c) \/ Server!Close(c)
      PROVE  Goal
  BY <1>2, SameHandle, SameEnds DEF Goal, Server_!Next
<1>3. CASE Server!Crash
  BY <1>3, SameEnds DEF Goal, Server_!Next
<1>4. ASSUME NEW c \in Conns, NEW t \in TaskIds, NEW w \in Workers \cup {NoWorker},
             \/ Server!AddTask(c, t)
             \/ w \in Workers /\ Server!FetchTodo(c, w)
             \/ w \in Workers /\ Server!RecordProof(c, w, t)
             \/ w \in Workers /\ Server!RecordError(w, t)
             \/ Server!UpdateStatusById({t}, "Init")
      PROVE  Goal
  BY <1>4, SameRequests DEF Goal, Server_!Next, Server_!Request
<1>5. ASSUME NEW p \in Requests, plugin[p].pc # "idle"
      PROVE  plugin[p].task \in TaskIds
  BY <1>5 DEF TypeOK
<1>6. ASSUME NEW w \in Workers, NEW s \in Slots, work[w][s].stage # "none"
      PROVE  work[w][s].task \in TaskIds
  BY <1>6 DEF TypeOK, SlotsTyped
<1>7. ASSUME NEW p \in Requests,
             RequestStep(p)
      PROVE  Goal
  <2>1. CASE AddTask(p)
    BY <2>1, <1>4, <1>5, ConnsOfAll DEF AddTask
  <2>2. CASE TaskAdded(p)
    BY <2>2, <1>2, ConnsOfAll DEF TaskAdded
  <2>3. CASE ResetTask(p)
    BY <2>3, <1>4, <1>5, ConnsOfAll DEF ResetTask
  <2>4. CASE \/ \E t \in TaskIds : Ask(p, t)
             \/ GetTask(p) \/ Poll(p) \/ Respond(p) \/ CallFails(p)
             \/ ResetLost(p)
    BY <2>4, <1>1, Zenon DEF Ask, GetTask, Poll, Respond, CallFails, ResetLost
  <2> QED
    BY <1>7, <2>1, <2>2, <2>3, <2>4 DEF RequestStep, Plugin
<1>8. ASSUME NEW w \in Workers,
             \/ Fetch(w) \/ Fetched(w) \/ Resume(w) \/ FetchLost(w)
             \/ WorkerRestarts(w)
      PROVE  Goal
  <2>1. CASE Fetch(w)
    <3>1. Server!FetchTodo(fetchConn(w), w)
      BY <2>1 DEF Fetch
    <3> QED
      BY <3>1, SameRequests, ConnsOfAll DEF Goal, Server_!Next, Server_!Request
  <2>2. CASE Fetched(w)
    BY <2>2, <1>2, ConnsOfAll DEF Fetched
  <2>3. CASE Resume(w) \/ FetchLost(w) \/ WorkerRestarts(w)
    BY <2>3, <1>1 DEF Resume, FetchLost, WorkerRestarts, Restart
  <2> QED
    BY <1>8, <2>1, <2>2, <2>3
<1>9. ASSUME NEW w \in Workers, NEW s \in Slots,
             SlotAction(w, s)
      PROVE  Goal
  <2>1. CASE RecordProof(w, s)
    BY <2>1, <1>4, <1>6, ConnsOfAll DEF RecordProof
  <2>2. CASE ProofRecorded(w, s)
    BY <2>2, <1>2, ConnsOfAll DEF ProofRecorded
  <2>3. CASE RecordError(w, s)
    BY <2>3, <1>4, <1>6, ConnsOfAll DEF RecordError
  <2>4. CASE ReadResource(w, s) \/ GiveUp(w, s) \/ RecordLost(w, s)
               \/ RecordErrorLost(w, s)
    BY <2>4, <1>1 DEF ReadResource, GiveUp, RecordLost, RecordErrorLost
  <2> QED
    BY <1>9, <2>1, <2>2, <2>3, <2>4 DEF SlotAction, Process
<1>10. ASSUME NEW c \in Conns, Handle(c) \/ Drop(c) PROVE Goal
  BY <1>10, <1>2 DEF Handle, Drop
<1>11. CASE HandlerFails
  BY <1>11, <1>2, <1>3 DEF HandlerFails
<1>12. CASE PluginExits \/ Calm \/ UNCHANGED vars
  BY <1>12, <1>1 DEF PluginExits, Calm, Restart, vars, server
<1>13. ASSUME NEW l \in late, CarryOutLate(l) PROVE Goal
  <2>1. CASE Server!UpdateStatusById({l.task}, "Init")
    BY <2>1, <1>4, <1>13, LateSteps, ConnsOfAll, SameRequests
       DEF Goal, Server_!Next, Server_!Request
  <2>2. CASE ErrorStep(l.task)
    BY <2>2, <1>13, LateSteps, SameRequests
       DEF ErrorStep, Goal, Server_!Next, Server_!Request
  <2> QED
    BY <2>1, <2>2, <1>13, LateSteps
<1> QED
  BY <1>7, <1>8, <1>9, <1>10, <1>11, <1>12, <1>13
     DEF Next, RequestStep, SlotAction

-----------------------------------------------------------------------------
(* The steps, by what they change. *)

LEMMA PluginWrites ==
  ASSUME TypeOK, SlotsTyped, [Next]_vars
  PROVE  \/ UNCHANGED plugin
         \/ \E p \in Requests : /\ RequestStep(p)
                               /\ \E r : plugin' = [plugin EXCEPT ![p] = r]
         \/ \E t \in TaskIds : ErrorStep(t)
         \/ PluginExits
<1>1. ASSUME NEW p \in Requests, RequestStep(p)
      PROVE  UNCHANGED plugin \/ \E r : plugin' = [plugin EXCEPT ![p] = r]
  BY <1>1, Zenon
     DEF RequestStep, Plugin, Ask, GetTask, ResetTask, AddTask, TaskAdded,
         Poll, Respond, CallFails, ResetLost, Goto, Answer
<1>2. ASSUME NEW w \in Workers,
             \/ Fetch(w) \/ Fetched(w) \/ Resume(w) \/ FetchLost(w)
             \/ WorkerRestarts(w)
      PROVE  UNCHANGED plugin
  BY <1>2, Zenon DEF Fetch, Fetched, Resume, FetchLost, WorkerRestarts, Restart
<1>3. ASSUME NEW w \in Workers, NEW s \in Slots,
             SlotAction(w, s)
      PROVE  UNCHANGED plugin \/ RecordError(w, s)
  BY <1>3, Zenon
     DEF SlotAction, Process, RecordLost, RecordErrorLost, ReadResource, GiveUp,
         RecordProof, ProofRecorded
<1>4. ASSUME NEW c \in Conns, Handle(c) \/ Drop(c) PROVE UNCHANGED plugin
  BY <1>4 DEF Handle, Drop
<1>5. CASE HandlerFails \/ Calm \/ UNCHANGED vars
  BY <1>5, Zenon DEF HandlerFails, Calm, Restart, vars
<1>6. ASSUME NEW w \in Workers, NEW s \in Slots, RecordError(w, s)
      PROVE  \E t \in TaskIds : ErrorStep(t)
  BY <1>6, RecordErrorSteps
<1>7. ASSUME NEW l \in late, CarryOutLate(l)
      PROVE  UNCHANGED plugin \/ \E t \in TaskIds : ErrorStep(t)
  BY <1>7, LateSteps
<1> QED
  BY <1>1, <1>2, <1>3, <1>4, <1>5, <1>6, <1>7 DEF Next, RequestStep, SlotAction

LEMMA PluginSteps ==
  ASSUME TypeOK, SlotsTyped, [Next]_vars, NEW p \in Requests
  PROVE  \/ plugin'[p] = plugin[p]
         \/ RequestStep(p)
         \/ \E t \in TaskIds : ErrorStep(t)
         \/ PluginExits
<1>1. ASSUME NEW q \in Requests, q # p, NEW r,
             plugin' = [plugin EXCEPT ![q] = r]
      PROVE  plugin'[p] = plugin[p]
  BY <1>1 DEF TypeOK
<1> QED
  BY <1>1, PluginWrites

LEMMA WorkSteps ==
  ASSUME [Next]_vars
  PROVE  \/ UNCHANGED work
         \/ \E w \in Workers : Fetched(w) \/ Resume(w)
         \/ \E w \in Workers, s \in Slots : SlotAction(w, s)
         \/ \E ws \in SUBSET Workers : Restart(ws)
<1> DEFINE Goal == \/ UNCHANGED work
                   \/ \E w \in Workers : Fetched(w) \/ Resume(w)
                   \/ \E w \in Workers, s \in Slots :
                        SlotAction(w, s)
                   \/ \E ws \in SUBSET Workers : Restart(ws)
<1> SUFFICES Goal
  OBVIOUS
<1>1. ASSUME NEW p \in Requests, RequestStep(p) PROVE UNCHANGED work
  BY <1>1, Zenon
     DEF RequestStep, Plugin, Ask, GetTask, ResetTask, AddTask, TaskAdded,
         Poll, Respond, CallFails, ResetLost, worker
<1>2. ASSUME NEW w \in Workers, Fetch(w) \/ FetchLost(w)
      PROVE  UNCHANGED work
  BY <1>2 DEF Fetch, FetchLost
<1>3. ASSUME NEW c \in Conns, Handle(c) \/ Drop(c) PROVE UNCHANGED work
  BY <1>3 DEF Handle, Drop, worker
<1>4. CASE HandlerFails \/ PluginExits \/ UNCHANGED vars
  BY <1>4, Zenon DEF HandlerFails, PluginExits, vars, worker
<1>5. ASSUME NEW w \in Workers, WorkerRestarts(w)
      PROVE  \E ws \in SUBSET Workers : Restart(ws)
  BY <1>5, {w} \in SUBSET Workers DEF WorkerRestarts
<1>6. CASE Calm
  BY <1>6, Workers \in SUBSET Workers DEF Calm
<1>7. ASSUME NEW l \in late, CarryOutLate(l) PROVE UNCHANGED worker
  BY <1>7 DEF CarryOutLate
<1> QED
  BY <1>1, <1>2, <1>3, <1>4, <1>5, <1>6, <1>7
     DEF Next, RequestStep, SlotAction, worker

LEMMA QueueSteps ==
  ASSUME [Next]_vars
  PROVE  \/ UNCHANGED <<pending, fetching>>
         \/ \E w \in Workers :
              Fetch(w) \/ Fetched(w) \/ Resume(w) \/ FetchLost(w)
         \/ \E ws \in SUBSET Workers : Restart(ws)
<1>1. ASSUME NEW p \in Requests, RequestStep(p)
      PROVE  UNCHANGED <<pending, fetching>>
  BY <1>1, Zenon
     DEF RequestStep, Plugin, Ask, GetTask, ResetTask, AddTask, TaskAdded,
         Poll, Respond, CallFails, ResetLost, worker
<1>2. ASSUME NEW w \in Workers, NEW s \in Slots,
             SlotAction(w, s)
      PROVE  UNCHANGED <<pending, fetching>>
  BY <1>2, Zenon
     DEF SlotAction, Process, RecordLost, RecordErrorLost, ReadResource, GiveUp,
         RecordProof, ProofRecorded, RecordError
<1>3. ASSUME NEW c \in Conns, Handle(c) \/ Drop(c)
      PROVE  UNCHANGED <<pending, fetching>>
  BY <1>3 DEF Handle, Drop, worker
<1>4. CASE HandlerFails \/ PluginExits \/ UNCHANGED vars
  BY <1>4, Zenon DEF HandlerFails, PluginExits, vars, worker
<1>5. ASSUME NEW w \in Workers, WorkerRestarts(w)
      PROVE  \E ws \in SUBSET Workers : Restart(ws)
  BY <1>5, {w} \in SUBSET Workers DEF WorkerRestarts
<1>6. CASE Calm
  BY <1>6, Workers \in SUBSET Workers DEF Calm
<1>7. ASSUME NEW l \in late, CarryOutLate(l) PROVE UNCHANGED worker
  BY <1>7 DEF CarryOutLate
<1> QED
  BY <1>1, <1>2, <1>3, <1>4, <1>5, <1>6, <1>7
     DEF Next, RequestStep, SlotAction, worker

\* A connection keeps its handler, loses it, or is given one.
LEMMA CallSteps ==
  ASSUME TypeOK, [Next]_vars, NEW c \in Conns
  PROVE  \/ Server_!HandlerGoesOn(c)
         \/ call'[c] = Server!NoCall
         \/ \E p \in Requests : c = pluginConn(p) /\ AddTask(p)
         \/ \E w \in Workers : c = fetchConn(w) /\ Fetch(w)
         \/ \E w \in Workers, s \in Slots : c = execConn(w) /\ RecordProof(w, s)
<1> DEFINE Goal ==
             \/ Server_!HandlerGoesOn(c)
             \/ call'[c] = Server!NoCall
             \/ \E p \in Requests : c = pluginConn(p) /\ AddTask(p)
             \/ \E w \in Workers : c = fetchConn(w) /\ Fetch(w)
             \/ \E w \in Workers, s \in Slots :
                  c = execConn(w) /\ RecordProof(w, s)
<1> SUFFICES Goal
  OBVIOUS
<1>t. call \in [Conns -> Server!Call] /\ Server_!TypeOK
  BY SameTypeOK DEF TypeOK, Server!TypeOK, Server!CallsTyped
<1>1. ASSUME call'[c] = call[c] PROVE Goal
  BY <1>1 DEF Server_!HandlerGoesOn
<1>2. ASSUME NEW d \in Conns, Server!Handle(d) \/ Server!Abort(d) PROVE Goal
  BY <1>2, <1>t, SameHandle, SameEnds, ServerFits, Server_!HandlersGoOn
<1>3. ASSUME NEW d \in Conns, Server!Close(d) PROVE Goal
  BY <1>3, <1>1, <1>t DEF Server!Close
<1>4. CASE Server!Crash
  BY <1>4 DEF Server!Crash
<1>5. ASSUME NEW d \in Conns, d # c, NEW op, NEW pc, NEW t, NEW w,
             Server!Start(d, op, pc, t, w)
      PROVE  Goal
  BY <1>5, <1>1, <1>t DEF Server!Start
<1>6. ASSUME UNCHANGED call PROVE Goal
  BY <1>6, <1>1
<1>7. ASSUME NEW p \in Requests, RequestStep(p) PROVE Goal
  <2>1. CASE AddTask(p) /\ c # pluginConn(p)
    BY <2>1, <1>5, ConnsOfAll DEF AddTask, Server!AddTask
  <2>2. CASE TaskAdded(p)
    BY <2>2, <1>3, ConnsOfAll DEF TaskAdded
  <2>3. CASE ResetTask(p)
    BY <2>3, <1>6, Zenon DEF ResetTask, Server!UpdateStatusById
  <2>4. CASE \/ \E t \in TaskIds : Ask(p, t)
             \/ GetTask(p) \/ Poll(p) \/ Respond(p) \/ CallFails(p)
             \/ ResetLost(p)
    BY <2>4, <1>6, Zenon
       DEF Ask, GetTask, Poll, Respond, CallFails, ResetLost, server
  <2> QED
    BY <1>7, <2>1, <2>2, <2>3, <2>4 DEF RequestStep, Plugin
<1>8. ASSUME NEW w \in Workers,
             \/ Fetch(w) \/ Fetched(w) \/ Resume(w) \/ FetchLost(w)
             \/ WorkerRestarts(w)
      PROVE  Goal
  <2>1. CASE Fetch(w) /\ c # fetchConn(w)
    BY <2>1, <1>5, ConnsOfAll DEF Fetch, Server!FetchTodo
  <2>2. CASE Fetched(w)
    BY <2>2, <1>3, ConnsOfAll DEF Fetched
  <2>3. CASE Resume(w) \/ FetchLost(w) \/ WorkerRestarts(w)
    BY <2>3, <1>6, Zenon DEF Resume, FetchLost, WorkerRestarts, Restart, server
  <2> QED
    BY <1>8, <2>1, <2>2, <2>3
<1>9. ASSUME NEW w \in Workers, NEW s \in Slots,
             SlotAction(w, s)
      PROVE  Goal
  <2>1. CASE RecordProof(w, s) /\ c # execConn(w)
    BY <2>1, <1>5, ConnsOfAll DEF RecordProof, Server!RecordProof
  <2>2. CASE ProofRecorded(w, s)
    BY <2>2, <1>3, ConnsOfAll DEF ProofRecorded
  <2>3. CASE RecordError(w, s)
    BY <2>3, <1>6, Zenon DEF RecordError, Server!RecordError
  <2>4. CASE ReadResource(w, s) \/ GiveUp(w, s) \/ RecordLost(w, s)
               \/ RecordErrorLost(w, s)
    BY <2>4, <1>6, Zenon
       DEF ReadResource, GiveUp, RecordLost, RecordErrorLost, server
  <2> QED
    BY <1>9, <2>1, <2>2, <2>3, <2>4 DEF SlotAction, Process
<1>10. ASSUME NEW d \in Conns, Handle(d) \/ Drop(d) PROVE Goal
  BY <1>10, <1>2, <1>3 DEF Handle, Drop
<1>11. CASE HandlerFails
  BY <1>11, <1>2, <1>4 DEF HandlerFails
<1>12. CASE PluginExits \/ Calm \/ UNCHANGED vars
  BY <1>12, <1>6, Zenon DEF PluginExits, Calm, Restart, vars, server
<1>13. ASSUME NEW l \in late, CarryOutLate(l) PROVE Goal
  <2>1. UNCHANGED call
    BY <1>13, Zenon
       DEF CarryOutLate, Server!UpdateStatusById, Server!RecordError
  <2> QED
    BY <2>1, <1>6
<1> QED
  BY <1>7, <1>8, <1>9, <1>10, <1>11, <1>12, <1>13
     DEF Next, RequestStep, SlotAction

-----------------------------------------------------------------------------
(* Type correctness *)

Stages == {"none", "taken", "compute", "garbage", "record"}

WorkTyped ==
  /\ work \in [Workers -> [Slots -> [task : TaskIds \cup {NoTask},
                                   stage : Stages]]]
  /\ SlotsTyped

LEMMA SetTyped ==
  ASSUME WorkTyped, NEW w \in Workers, NEW s \in Slots, NEW t \in TaskIds,
         NEW stage \in Stages \ {"none"}, Set(w, s, t, stage)
  PROVE  WorkTyped'
BY ServerAssumption DEF WorkTyped, SlotsTyped, Set, Stages

LEMMA FreeTyped ==
  ASSUME WorkTyped, NEW w \in Workers, NEW s \in Slots, Free(w, s)
  PROVE  WorkTyped'
BY DEF WorkTyped, SlotsTyped, Free, NoJob, Stages

LEMMA NextWorkTyped ==
  ASSUME TypeOK, WorkTyped, [Next]_vars
  PROVE  WorkTyped'
<1>1. CASE UNCHANGED work
  BY <1>1 DEF WorkTyped, SlotsTyped
<1>2. ASSUME NEW w \in Workers, Fetched(w) PROVE WorkTyped'
  <2>1. CASE call[fetchConn(w)].answer = "ok"
    <3>1. call[fetchConn(w)].task \in TaskIds
      BY <2>1, ConnsOfAll DEF TypeOK, Server!TypeOK, Server!CallsTyped
    <3>2. PICK s \in Slots : Set(w, s, call[fetchConn(w)].task, "taken")
      BY <1>2, <2>1 DEF Fetched
    <3> QED
      BY <3>1, <3>2, SetTyped DEF Stages
  <2>2. CASE call[fetchConn(w)].answer # "ok"
    BY <1>2, <2>2 DEF Fetched, WorkTyped, SlotsTyped
  <2> QED
    BY <2>1, <2>2
<1>3. ASSUME NEW w \in Workers, Resume(w) PROVE WorkTyped'
  <2>1. PICK t \in pending[w], s \in Slots : Set(w, s, t, "taken")
    BY <1>3 DEF Resume
  <2>2. t \in TaskIds
    BY DEF TypeOK
  <2> QED
    BY <2>1, <2>2, SetTyped DEF Stages
<1>4. ASSUME NEW w \in Workers, NEW s \in Slots,
             SlotAction(w, s)
      PROVE  WorkTyped'
  <2>1. CASE ReadResource(w, s) \/ RecordProof(w, s)
    <3>1. work[w][s].task \in TaskIds
      BY <2>1 DEF ReadResource, RecordProof, WorkTyped, SlotsTyped
    <3>2. PICK stage \in Stages \ {"none"} : Stage(w, s, stage)
      BY <2>1 DEF ReadResource, RecordProof, Stages
    <3> QED
      BY <3>1, <3>2, SetTyped DEF Stage
  <2>2. CASE GiveUp(w, s) \/ ProofRecorded(w, s) \/ RecordError(w, s)
               \/ RecordLost(w, s) \/ RecordErrorLost(w, s)
    <3>1. Free(w, s)
      BY <2>2, Zenon
         DEF GiveUp, ProofRecorded, RecordError, RecordLost, RecordErrorLost
    <3> QED
      BY <3>1, FreeTyped
  <2> QED
    BY <1>4, <2>1, <2>2 DEF SlotAction, Process
<1>5. ASSUME NEW ws \in SUBSET Workers, Restart(ws) PROVE WorkTyped'
  BY <1>5 DEF Restart, NoJob, WorkTyped, SlotsTyped, Stages
<1> QED
  BY <1>1, <1>2, <1>3, <1>4, <1>5, WorkSteps

LEMMA NextQueuesTyped ==
  ASSUME TypeOK, [Next]_vars
  PROVE  /\ pending' \in [Workers -> SUBSET TaskIds]
         /\ fetching' \in [Workers -> BOOLEAN]
<1> DEFINE Goal == /\ pending' \in [Workers -> SUBSET TaskIds]
                   /\ fetching' \in [Workers -> BOOLEAN]
<1> SUFFICES Goal
  OBVIOUS
<1>t. /\ pending \in [Workers -> SUBSET TaskIds]
      /\ fetching \in [Workers -> BOOLEAN]
  BY DEF TypeOK
<1>1. CASE UNCHANGED <<pending, fetching>>
  BY <1>1, <1>t
<1>2. ASSUME NEW w \in Workers, Fetch(w) \/ Fetched(w) \/ FetchLost(w)
      PROVE  Goal
  <2>1. /\ UNCHANGED pending
        /\ \E b \in BOOLEAN : fetching' = [fetching EXCEPT ![w] = b]
    BY <1>2, Zenon DEF Fetch, Fetched, FetchLost
  <2> QED
    BY <2>1, <1>t
<1>3. ASSUME NEW w \in Workers, Resume(w) PROVE Goal
  <2>1. PICK t \in pending[w] :
               pending' = [pending EXCEPT ![w] = @ \ {t}]
    BY <1>3 DEF Resume
  <2>2. pending[w] \ {t} \in SUBSET TaskIds
    BY <1>t
  <2> QED
    BY <1>3, <2>1, <2>2, <1>t DEF Resume
<1>4. ASSUME NEW ws \in SUBSET Workers, Restart(ws) PROVE Goal
  <2>1. \A w \in Workers :
          Server!fetch_uncompleted(tasks, w) \in SUBSET TaskIds
    BY DEF Server!fetch_uncompleted
  <2>2. pending' \in [Workers -> SUBSET TaskIds]
    BY <1>4, <2>1, <1>t DEF Restart
  <2>3. fetching' \in [Workers -> BOOLEAN]
    BY <1>4, <1>t DEF Restart
  <2> QED
    BY <2>2, <2>3
<1> QED
  BY <1>1, <1>2, <1>3, <1>4, QueueSteps

\* A process has a request's record.
RequestRecord ==
  [pc : Pc, task : TaskIds \cup {NoTask}, failed : BOOLEAN,
   answer : {"none", "proof", "task_error", "call_error"}]

\* The part of TypeOK about one request.
RequestTyped(p) ==
  /\ plugin[p].task = NoTask <=> plugin[p].pc = "idle"
  /\ plugin[p].answer # "none" <=> plugin[p].pc = "answered"
  /\ plugin[p].pc \in {"reset", "trace"} =>
       Server!has_task(tasks, plugin[p].task)

\* The submissions in flight are those of the requests.
SubmitInv == SubmissionsSubmit /\ \A p \in Requests : AwaitsOwn(p)

LEMMA GotoMoves ==
  ASSUME TypeOK, NEW p \in Requests, NEW pc \in Pc, Goto(p, pc)
  PROVE  plugin'[p] = [plugin[p] EXCEPT !.pc = pc]
BY DEF TypeOK, Goto

LEMMA AnswerMoves ==
  ASSUME TypeOK, NEW p \in Requests,
         NEW a \in {"proof", "task_error", "call_error"}, Answer(p, a)
  PROVE  plugin'[p] = [plugin[p] EXCEPT !.pc = "answered", !.answer = a]
BY DEF TypeOK, Answer

LEMMA AskMoves ==
  ASSUME TypeOK, NEW p \in Requests, NEW t \in TaskIds, Ask(p, t)
  PROVE  plugin'[p] = [pc |-> "get_task", task |-> t, failed |-> FALSE,
                       answer |-> "none"]
BY DEF TypeOK, Ask, Idle

LEMMA FailMoves ==
  ASSUME TypeOK, NEW t, ErrorStep(t)
  PROVE  /\ plugin' = [p \in Requests |-> plugin'[p]]
         /\ \A p \in Requests :
              \/ plugin[p].task = t
                 /\ plugin'[p] = [plugin[p] EXCEPT !.failed = TRUE]
              \/ plugin[p].task # t /\ plugin'[p] = plugin[p]
<1>1. plugin' = [p \in Requests |->
                   IF plugin[p].task = t
                   THEN [plugin[p] EXCEPT !.failed = TRUE] ELSE plugin[p]]
  BY DEF ErrorStep, Failed
<1> QED
  BY <1>1 DEF TypeOK

LEMMA NextSubmissions ==
  ASSUME TypeOK, SlotsTyped, SubmitInv, [Next]_vars
  PROVE  SubmitInv'
<1>t. call \in [Conns -> Server!Call]
  BY DEF TypeOK, Server!TypeOK, Server!CallsTyped
<1>1. ASSUME NEW c \in Conns
      PROVE  (call[c].op = "add_task" => call[c].pc # "select_todo")'
  <2>1. CASE Server_!HandlerGoesOn(c)
    BY <2>1 DEF Server_!HandlerGoesOn, SubmitInv, SubmissionsSubmit
  <2>2. CASE call'[c] = Server!NoCall
    BY <2>2 DEF Server!NoCall
  <2>3. ASSUME NEW p \in Requests, c = pluginConn(p), AddTask(p)
        PROVE  call'[c].pc = "has_resource"
    BY <2>3, <1>t DEF AddTask, Server!AddTask, Server!Start
  <2>4. ASSUME NEW w \in Workers, c = fetchConn(w), Fetch(w)
        PROVE  call'[c].op = "fetch_todo"
    BY <2>4, <1>t DEF Fetch, Server!FetchTodo, Server!Start
  <2>5. ASSUME NEW w \in Workers, NEW s \in Slots, c = execConn(w),
               RecordProof(w, s)
        PROVE  call'[c].op = "record_proof"
    BY <2>5, <1>t DEF RecordProof, Server!RecordProof, Server!Start
  <2> QED
    BY <2>1, <2>2, <2>3, <2>4, <2>5, CallSteps
<1>2. ASSUME NEW p \in Requests, plugin'[p].pc = "adding"
      PROVE  \/ AddTask(p)
             \/ plugin[p].pc = "adding" /\ plugin'[p].task = plugin[p].task
  <2>1. CASE RequestStep(p)
    <3>1. ASSUME NEW pc \in Pc, Goto(p, pc) PROVE plugin'[p].pc = pc
      <4>1. plugin'[p] = [plugin[p] EXCEPT !.pc = pc]
        BY <3>1, GotoMoves
      <4> QED
        BY <4>1 DEF TypeOK
    <3>2. ASSUME NEW a \in {"proof", "task_error", "call_error"}, Answer(p, a)
          PROVE  plugin'[p].pc = "answered"
      BY <3>2, AnswerMoves DEF TypeOK
    <3>3. ASSUME NEW t \in TaskIds, Ask(p, t) PROVE plugin'[p].pc = "get_task"
      <4>1. plugin'[p] = [pc |-> "get_task", task |-> t, failed |-> FALSE,
                          answer |-> "none"]
        BY <3>3, AskMoves
      <4> QED
        BY <4>1
    <3>4. Respond(p) => plugin'[p].pc = "idle"
      BY DEF Respond, Idle, TypeOK
    <3> QED
      BY <1>2, <2>1, <3>1, <3>2, <3>3, <3>4
         DEF RequestStep, Plugin, GetTask, ResetTask, TaskAdded, Poll,
             CallFails, ResetLost, Pc
  <2>2. ASSUME NEW t \in TaskIds, ErrorStep(t)
        PROVE  /\ plugin'[p].pc = plugin[p].pc
               /\ plugin'[p].task = plugin[p].task
    <3>1. \/ plugin'[p] = [plugin[p] EXCEPT !.failed = TRUE]
          \/ plugin'[p] = plugin[p]
      BY <2>2, FailMoves
    <3>2. plugin[p] \in RequestRecord
      BY DEF TypeOK, RequestRecord
    <3> QED
      BY <3>1, <3>2 DEF RequestRecord
  <2>3. CASE PluginExits
    BY <1>2, <2>3 DEF PluginExits, Idle
  <2> QED
    BY <1>2, <2>1, <2>2, <2>3, PluginSteps
<1>3. ASSUME NEW p \in Requests PROVE AwaitsOwn(p)'
  <2> DEFINE c == pluginConn(p)
  <2> SUFFICES ASSUME plugin'[p].pc = "adding"
               PROVE  \/ call'[c] = Server!NoCall
                      \/ /\ call'[c].op = "add_task"
                         /\ call'[c].task = plugin'[p].task
    BY DEF AwaitsOwn, Unanswered
  <2>c. c \in Conns
    BY ConnsOfAll
  <2>1. CASE AddTask(p)
    <3>1. plugin'[p].task = plugin[p].task
      BY <2>1, GotoMoves DEF AddTask, TypeOK, Pc
    <3>2. call'[c].op = "add_task" /\ call'[c].task = plugin[p].task
      BY <2>1, <2>c, <1>t DEF AddTask, Server!AddTask, Server!Start
    <3> QED
      BY <3>1, <3>2
  <2>2. CASE ~AddTask(p)
    <3>1. plugin[p].pc = "adding" /\ plugin'[p].task = plugin[p].task
      BY <1>2, <2>2
    <3>2. \/ call[c] = Server!NoCall
          \/ call[c].op = "add_task" /\ call[c].task = plugin[p].task
      BY <3>1 DEF SubmitInv, AwaitsOwn, Unanswered
    <3>3. CASE Server_!HandlerGoesOn(c)
      <4>1. CASE call[c] = Server!NoCall
        BY <3>3, <4>1 DEF Server_!HandlerGoesOn, Server!NoCall
      <4>2. CASE call[c].op = "add_task" /\ call[c].task = plugin[p].task
        BY <3>1, <3>3, <4>2, <2>c
           DEF Server_!HandlerGoesOn, SubmitInv, SubmissionsSubmit
      <4> QED
        BY <3>2, <4>1, <4>2
    <3>4. ASSUME NEW q \in Requests, c = pluginConn(q) PROVE ~AddTask(q)
      BY <3>4, <2>2, ConnsOfAll
    <3>5. \A w \in Workers : c # fetchConn(w) /\ c # execConn(w)
      BY ConnsOfAll
    <3> HIDE DEF c
    <3> QED
      BY <3>3, <3>4, <3>5, <2>c, CallSteps
  <2> QED
    BY <2>1, <2>2
<1> QED
  BY <1>1, <1>3 DEF SubmitInv, SubmissionsSubmit

\* No step of the cluster deletes a row or a proof.
RowsStay ==
  \A t \in TaskIds :
    /\ Server!has_task(tasks, t) => Server!has_task(tasks', t)
    /\ tasks[t].proof => tasks'[t].proof

\* The server's own invariants, for these clients.
LEMMA NextServerInv ==
  ASSUME TypeOK, SlotsTyped, Server_!KnowInv, [Next]_vars
  PROVE  Server!TypeOK' /\ Server_!KnowInv' /\ RowsStay
<1>1. Server_!TypeOK /\ [Server_!Next]_(Server_!vars)
  BY NextServer, SameTypeOK DEF TypeOK
<1>2. Server_!TypeOK' /\ Server_!KnowInv'
  BY <1>1, ServerFits, Server_!NextTyped, Server_!NextKnows
<1>3. Server_!RowsKept
  BY <1>1, ServerFits, Server_!NextKeepsRows DEF Server_!KnowInv
<1>4. RowsStay
  BY <1>3, SameStatements DEF Server_!RowsKept, RowsStay
<1>5. Server!TypeOK'
  BY <1>2, SameTypeOK, PTL
<1> QED
  BY <1>2, <1>4, <1>5

LEMMA GotoTyped ==
  ASSUME TypeOK, NEW p \in Requests, NEW pc \in Pc, Goto(p, pc),
         plugin[p].pc \notin {"idle", "answered"}, pc \notin {"idle", "answered"},
         pc \in {"reset", "trace"} => Server!has_task(tasks', plugin[p].task)
  PROVE  plugin'[p] \in RequestRecord /\ RequestTyped(p)'
<1>1. plugin'[p] = [plugin[p] EXCEPT !.pc = pc]
  BY GotoMoves
<1>2. /\ plugin'[p].pc = pc /\ plugin'[p].task = plugin[p].task
      /\ plugin'[p].answer = plugin[p].answer
      /\ plugin'[p] \in RequestRecord
  BY <1>1 DEF TypeOK, RequestRecord
<1> QED
  BY <1>2 DEF TypeOK, RequestTyped, Server!has_task

LEMMA AnswerTyped ==
  ASSUME TypeOK, NEW p \in Requests,
         NEW a \in {"proof", "task_error", "call_error"}, Answer(p, a),
         plugin[p].pc # "idle"
  PROVE  plugin'[p] \in RequestRecord /\ RequestTyped(p)'
<1>1. plugin'[p] = [plugin[p] EXCEPT !.pc = "answered", !.answer = a]
  BY AnswerMoves
<1>2. /\ plugin'[p].pc = "answered" /\ plugin'[p].task = plugin[p].task
      /\ plugin'[p].answer = a
      /\ plugin'[p] \in RequestRecord
  BY <1>1 DEF TypeOK, RequestRecord, Pc
<1> QED
  BY <1>2 DEF TypeOK, RequestTyped

LEMMA NextRequestTyped ==
  ASSUME TypeOK, SlotsTyped, Server_!KnowInv, SubmitInv, RowsStay, [Next]_vars,
         NEW p \in Requests
  PROVE  plugin'[p] \in RequestRecord /\ RequestTyped(p)'
<1> DEFINE Goal == plugin'[p] \in RequestRecord /\ RequestTyped(p)'
           t == plugin[p].task
<1> SUFFICES Goal
  OBVIOUS
<1>t. /\ plugin[p] \in RequestRecord
      /\ plugin[p].pc # "idle" => t \in TaskIds
      /\ RequestTyped(p)
  BY DEF TypeOK, RequestRecord, RequestTyped
<1>r. t \in TaskIds /\ Server!has_task(tasks, t) => Server!has_task(tasks', t)
  BY DEF RowsStay
<1>1. CASE plugin'[p] = plugin[p]
  <2>1. plugin[p].pc \in {"reset", "trace"} => Server!has_task(tasks', t)
    BY <1>t, <1>r DEF RequestTyped
  <2> QED
    BY <1>1, <1>t, <2>1 DEF RequestTyped
<1>2. ASSUME NEW u \in TaskIds, Ask(p, u) PROVE Goal
  <2>1. plugin'[p] = [pc |-> "get_task", task |-> u, failed |-> FALSE,
                      answer |-> "none"]
    BY <1>2, AskMoves
  <2> QED
    BY <2>1, ServerAssumption DEF RequestRecord, RequestTyped, Pc
<1>3. CASE GetTask(p)
  <2>1. /\ plugin[p].pc = "get_task" /\ UNCHANGED tasks
        /\ Goto(p, IF ~Server!has_task(tasks, t) THEN "add_task"
                   ELSE IF tasks[t].state = "Error" THEN "reset" ELSE "trace")
    BY <1>3 DEF GetTask, server
  <2>2. CASE ~Server!has_task(tasks, t)
    BY <2>1, <2>2, GotoTyped DEF Pc
  <2>3. CASE Server!has_task(tasks, t)
    <3>1. PICK pc \in {"reset", "trace"} : Goto(p, pc)
      BY <2>1, <2>3
    <3> QED
      BY <2>1, <2>3, <3>1, <1>t, <1>r, GotoTyped DEF Pc
  <2> QED
    BY <2>2, <2>3
<1>4. CASE ResetTask(p)
  <2>1. plugin[p].pc = "reset" /\ Goto(p, "trace")
    BY <1>4 DEF ResetTask
  <2>2. Server!has_task(tasks', t)
    BY <2>1, <1>t, <1>r DEF RequestTyped
  <2> QED
    BY <2>1, <2>2, GotoTyped DEF Pc
<1>5. CASE AddTask(p)
  BY <1>5, GotoTyped DEF AddTask, Pc
<1>6. CASE TaskAdded(p)
  <2> DEFINE c == pluginConn(p)
  <2>1. plugin[p].pc = "adding" /\ call[c].pc = "done"
    BY <1>6 DEF TaskAdded, Server!Close
  <2>2. CASE call[c].answer = "ok"
    <3>1. Goto(p, "trace")
      BY <1>6, <2>2 DEF TaskAdded
    <3>2. call[c].task = t
      BY <2>1 DEF SubmitInv, AwaitsOwn, Unanswered, Server!NoCall
    <3>3. Server!has_task(tasks, call[c].task)
      BY <2>2, ConnsOfAll, SameStatements
         DEF Server_!KnowInv, Server_!HandlerKnows
    <3>4. Server!has_task(tasks', t)
      BY <2>1, <3>2, <3>3, <1>t, <1>r
    <3> QED
      BY <2>1, <3>1, <3>4, GotoTyped DEF Pc
  <2>3. CASE call[c].answer # "ok"
    BY <1>6, <2>1, <2>3, AnswerTyped DEF TaskAdded
  <2> QED
    BY <2>2, <2>3
<1>7. CASE Poll(p) \/ CallFails(p) \/ ResetLost(p)
  <2>1. /\ plugin[p].pc # "idle"
        /\ \E a \in {"proof", "task_error", "call_error"} : Answer(p, a)
    BY <1>7 DEF Poll, CallFails, ResetLost
  <2> QED
    BY <2>1, AnswerTyped
<1>8. CASE Respond(p) \/ PluginExits
  <2>1. plugin'[p] = Idle
    BY <1>8 DEF Respond, PluginExits, TypeOK
  <2> QED
    BY <2>1 DEF Idle, RequestRecord, RequestTyped, Pc
<1>9. ASSUME NEW u \in TaskIds, ErrorStep(u) PROVE Goal
  <2>1. CASE plugin'[p] = plugin[p]
    BY <2>1, <1>1
  <2>2. CASE plugin'[p] = [plugin[p] EXCEPT !.failed = TRUE]
    <3>1. /\ plugin'[p].pc = plugin[p].pc /\ plugin'[p].task = t
          /\ plugin'[p].answer = plugin[p].answer
          /\ plugin'[p] \in RequestRecord
      BY <2>2, <1>t DEF RequestRecord
    <3>2. plugin[p].pc \in {"reset", "trace"} => Server!has_task(tasks', t)
      BY <1>t, <1>r DEF RequestTyped
    <3> QED
      BY <3>1, <3>2, <1>t DEF RequestTyped
  <2> QED
    BY <1>9, <2>1, <2>2, FailMoves
<1> QED
  BY <1>1, <1>2, <1>3, <1>4, <1>5, <1>6, <1>7, <1>8, <1>9, PluginSteps
     DEF RequestStep, Plugin

LEMMA NextPluginTyped ==
  ASSUME TypeOK, SlotsTyped, Server_!KnowInv, SubmitInv, RowsStay, [Next]_vars
  PROVE  /\ plugin' \in [Requests -> RequestRecord]
         /\ \A p \in Requests : RequestTyped(p)'
<1>1. \A p \in Requests : plugin'[p] \in RequestRecord /\ RequestTyped(p)'
  BY NextRequestTyped
<1>2. plugin' = [p \in Requests |-> plugin'[p]]
  <2>1. CASE UNCHANGED plugin
    BY <2>1 DEF TypeOK
  <2>2. ASSUME NEW p \in Requests, NEW r, plugin' = [plugin EXCEPT ![p] = r]
        PROVE  plugin' = [q \in Requests |-> plugin'[q]]
    BY <2>2 DEF TypeOK
  <2>3. ASSUME NEW t \in TaskIds, ErrorStep(t)
        PROVE  plugin' = [p \in Requests |-> plugin'[p]]
    BY <2>3, FailMoves
  <2>4. CASE PluginExits
    BY <2>4 DEF PluginExits
  <2> QED
    BY <2>1, <2>2, <2>3, <2>4, PluginWrites
<1> QED
  BY <1>1, <1>2

LEMMA NextFaulty ==
  ASSUME TypeOK, [Next]_vars
  PROVE  faulty' \in BOOLEAN /\ (faulty' => faulty)
<1>1. ASSUME NEW p \in Requests, RequestStep(p) PROVE UNCHANGED faulty
  BY <1>1, Zenon
     DEF RequestStep, Plugin, Ask, GetTask, ResetTask, AddTask, TaskAdded,
         Poll, Respond, CallFails, ResetLost
<1>2. ASSUME NEW w \in Workers,
             \/ Fetch(w) \/ Fetched(w) \/ Resume(w) \/ FetchLost(w)
             \/ WorkerRestarts(w)
      PROVE  UNCHANGED faulty
  BY <1>2, Zenon DEF Fetch, Fetched, Resume, FetchLost, WorkerRestarts
<1>3. ASSUME NEW w \in Workers, NEW s \in Slots,
             SlotAction(w, s)
      PROVE  UNCHANGED faulty
  BY <1>3, Zenon
     DEF SlotAction, Process, RecordLost, RecordErrorLost, ReadResource, GiveUp,
         RecordProof, ProofRecorded, RecordError
<1>4. ASSUME NEW c \in Conns, Handle(c) \/ Drop(c) PROVE UNCHANGED faulty
  BY <1>4 DEF Handle, Drop
<1>5. ASSUME PluginExits \/ HandlerFails \/ UNCHANGED vars
      PROVE  UNCHANGED faulty
  BY <1>5, Zenon DEF PluginExits, HandlerFails, vars
<1>6. CASE Calm
  BY <1>6 DEF Calm
<1>7. faulty \in BOOLEAN
  BY DEF TypeOK
<1>8. ASSUME NEW l \in late, CarryOutLate(l) PROVE UNCHANGED faulty
  BY <1>8 DEF CarryOutLate
<1> QED
  BY <1>1, <1>2, <1>3, <1>4, <1>5, <1>6, <1>7, <1>8
     DEF Next, RequestStep, SlotAction

LEMMA NextLateTyped ==
  ASSUME TypeOK, SlotsTyped, [Next]_vars
  PROVE  late' \subseteq LateCalls /\ (late' # {} => faulty')
<1> DEFINE Goal == late' \subseteq LateCalls /\ (late' # {} => faulty')
<1> SUFFICES Goal
  OBVIOUS
<1>t. late \subseteq LateCalls /\ (late # {} => faulty)
  BY DEF TypeOK
<1> HIDE DEF Goal
<1>1. ASSUME UNCHANGED <<faulty, late>> PROVE Goal
  BY <1>1, <1>t DEF Goal
<1>2. ASSUME NEW p \in Requests, RequestStep(p) PROVE Goal
  <2>1. CASE ResetLost(p)
    <3>1. plugin[p].task \in TaskIds
      BY <2>1 DEF ResetLost, TypeOK
    <3>2. LateReset(plugin[p].task) \in LateCalls
      BY <3>1 DEF LateCalls
    <3> QED
      BY <2>1, <3>2, <1>t DEF ResetLost, Goal
  <2>2. CASE ~ResetLost(p)
    BY <1>1, <1>2, <2>2, Zenon
       DEF RequestStep, Plugin, Ask, GetTask, ResetTask, AddTask, TaskAdded,
           Poll, Respond, CallFails
  <2> QED
    BY <2>1, <2>2
<1>3. ASSUME NEW w \in Workers,
             \/ Fetch(w) \/ Fetched(w) \/ Resume(w) \/ FetchLost(w)
             \/ WorkerRestarts(w)
      PROVE  Goal
  BY <1>1, <1>3, Zenon DEF Fetch, Fetched, Resume, FetchLost, WorkerRestarts
<1>4. ASSUME NEW w \in Workers, NEW s \in Slots, SlotAction(w, s) PROVE Goal
  <2>1. CASE RecordErrorLost(w, s)
    <3>1. work[w][s].task \in TaskIds
      BY <2>1 DEF RecordErrorLost, TypeOK, SlotsTyped
    <3>2. LateError(w, work[w][s].task) \in LateCalls
      BY <3>1 DEF LateCalls
    <3> QED
      BY <2>1, <3>2, <1>t DEF RecordErrorLost, Goal
  <2>2. CASE ~RecordErrorLost(w, s)
    BY <1>1, <1>4, <2>2, Zenon
       DEF SlotAction, Process, RecordLost, ReadResource, GiveUp, RecordProof,
           ProofRecorded, RecordError
  <2> QED
    BY <2>1, <2>2
<1>5. ASSUME NEW c \in Conns, Handle(c) \/ Drop(c) PROVE Goal
  BY <1>1, <1>5 DEF Handle, Drop
<1>6. CASE PluginExits \/ HandlerFails \/ UNCHANGED vars
  BY <1>1, <1>6, Zenon DEF PluginExits, HandlerFails, vars
<1>7. CASE Calm
  BY <1>7 DEF Calm, Goal
<1>8. ASSUME NEW l \in late, CarryOutLate(l) PROVE Goal
  BY <1>8, <1>t, LateSteps DEF Goal
<1> QED
  BY <1>2, <1>3, <1>4, <1>5, <1>6, <1>7, <1>8 DEF Next, RequestStep, SlotAction

\* Inductive.  What a handler knows of its row (KnowInv) and whose submission
\* it is (SubmitInv) are needed for the row that a traced task has.
ClusterInv == TypeOK /\ SlotsTyped /\ Server_!KnowInv /\ SubmitInv

LEMMA InitClusterInv == Init => ClusterInv
<1> SUFFICES ASSUME Init PROVE ClusterInv
  OBVIOUS
<1>1. Server_!Init
  BY SameInit DEF Init
<1>2. Server_!TypeOK /\ Server_!KnowInv
  BY <1>1, ServerFits, Server_!InitTyped, Server_!InitKnows
<1>3. Server!TypeOK
  BY <1>2, SameTypeOK
<1>4. SlotsTyped
  BY DEF Init, SlotsTyped, NoJob
<1>5. SubmitInv
  BY DEF Init, Server!Init, Server!NoCall, SubmitInv, SubmissionsSubmit,
         AwaitsOwn, Idle
<1>6. plugin \in [Requests -> RequestRecord]
  BY DEF Init, Idle, RequestRecord, Pc
<1>7. \A p \in Requests : RequestTyped(p)
  BY DEF Init, Idle, RequestTyped
<1>8. /\ work \in [Workers -> [Slots -> [task : TaskIds \cup {NoTask},
                                      stage : Stages]]]
      /\ pending \in [Workers -> SUBSET TaskIds]
      /\ fetching \in [Workers -> BOOLEAN]
      /\ faulty \in BOOLEAN /\ (faulty => Faults) /\ late = {}
  BY SwitchAssumption DEF Init, NoJob, Stages
<1> QED
  BY <1>2, <1>3, <1>4, <1>5, <1>6, <1>7, <1>8
     DEF ClusterInv, TypeOK, RequestRecord, RequestTyped, Stages

LEMMA NextClusterInv == ClusterInv /\ [Next]_vars => ClusterInv' /\ RowsStay
<1> SUFFICES ASSUME ClusterInv, [Next]_vars PROVE ClusterInv' /\ RowsStay
  OBVIOUS
<1> USE DEF ClusterInv
<1>1. Server!TypeOK' /\ Server_!KnowInv' /\ RowsStay
  BY NextServerInv
<1>2. SubmitInv'
  BY NextSubmissions
<1>3. WorkTyped'
  <2>1. WorkTyped
    BY DEF TypeOK, WorkTyped, Stages
  <2> QED
    BY <2>1, NextWorkTyped
<1>4. /\ pending' \in [Workers -> SUBSET TaskIds]
      /\ fetching' \in [Workers -> BOOLEAN]
  BY NextQueuesTyped
<1>5. /\ plugin' \in [Requests -> RequestRecord]
      /\ \A p \in Requests : RequestTyped(p)'
  BY <1>1, NextPluginTyped
<1>6. faulty' \in BOOLEAN /\ (faulty' => Faults)
  BY NextFaulty DEF TypeOK
<1>7. late' \subseteq LateCalls /\ (late' # {} => faulty')
  BY NextLateTyped
<1>8. TypeOK'
  BY <1>1, <1>3, <1>4, <1>5, <1>6, <1>7
     DEF TypeOK, RequestRecord, RequestTyped, WorkTyped, Stages
<1> QED
  BY <1>1, <1>2, <1>3, <1>8 DEF WorkTyped

LEMMA ClusterInvHolds == Spec => []ClusterInv
BY InitClusterInv, NextClusterInv, PTL DEF Spec

(***************************************************************************)
(* The whole system is well typed: in every interleaving of requests,      *)
(* handlers, workers and faults a request has an answer exactly when it is *)
(* over, and process_request traces and resets only tasks that have a row. *)
(***************************************************************************)
THEOREM ClusterTyped == Spec => []TypeOK
BY ClusterInvHolds, PTL DEF ClusterInv

-----------------------------------------------------------------------------
(* Who writes the row of a task. *)

TaskStep(t) ==
  \/ tasks'[t] = tasks[t]
  \/ \E c \in Conns : Handle(c) /\ Server_!HandlerWrites(c, t)
  \/ /\ ErrorStep(t)
     /\ tasks'[t].state = "Error" /\ tasks'[t].proof = tasks[t].proof
  \/ /\ \/ \E p \in Requests : ResetTask(p) /\ plugin[p].task = t
        \/ \E l \in late : CarryOutLate(l) /\ UNCHANGED plugin
     /\ tasks'[t].state = "Init" /\ tasks'[t].proof = tasks[t].proof

LEMMA TaskSteps ==
  ASSUME TypeOK, SlotsTyped, [Next]_vars, NEW t \in TaskIds
  PROVE  TaskStep(t)
<1> SUFFICES ASSUME tasks'[t] # tasks[t] PROVE TaskStep(t)
  BY DEF TaskStep
<1>t. Server_!TypeOK
  BY SameTypeOK DEF TypeOK
<1>r. ASSUME NEW u, Server!UpdateStatusById({u}, "Init")
      PROVE  /\ t = u /\ tasks'[t].state = "Init"
             /\ tasks'[t].proof = tasks[t].proof
  <2>1. Server_!UpdateStatusById({u}, "Init")
    BY <1>r, SameRequests, Zenon
  <2>2. \/ tasks'[t] = tasks[t]
        \/ /\ t \in {u} /\ tasks'[t].state = "Init"
           /\ tasks'[t].proof = tasks[t].proof
    BY <2>1, <1>t, ServerFits, Server_!StatusWrites
  <2> QED
    BY <2>2
<1>e. ASSUME NEW u \in TaskIds, ErrorStep(u) PROVE TaskStep(t)
  <2>1. PICK w \in Workers : Server!RecordError(w, u)
    BY <1>e DEF ErrorStep
  <2>2. Server_!RecordError(w, u)
    BY <2>1, SameRequests, Zenon
  <2>3. \/ tasks'[t] = tasks[t]
        \/ /\ t = u /\ tasks'[t].state = "Error"
           /\ tasks'[t].proof = tasks[t].proof
    BY <2>2, <1>t, ServerFits, Server_!ErrorWrites
  <2> QED
    BY <1>e, <2>3 DEF TaskStep
<1>1. ASSUME NEW p \in Requests, RequestStep(p) PROVE TaskStep(t)
  <2>1. ResetTask(p)
    BY <1>1, Zenon
       DEF RequestStep, Plugin, Ask, GetTask, AddTask, TaskAdded, Poll,
           Respond, CallFails, ResetLost, server, Server!AddTask,
           Server!Start, Server!Close
  <2>2. Server!UpdateStatusById({plugin[p].task}, "Init")
    BY <2>1 DEF ResetTask
  <2> QED
    BY <2>1, <2>2, <1>r DEF TaskStep
<1>2. ASSUME NEW w \in Workers,
             \/ Fetch(w) \/ Fetched(w) \/ Resume(w) \/ FetchLost(w)
             \/ WorkerRestarts(w)
      PROVE  UNCHANGED tasks
  BY <1>2, Zenon
     DEF Fetch, Fetched, Resume, FetchLost, WorkerRestarts, Restart, server,
         Server!FetchTodo, Server!Start, Server!Close
<1>3. ASSUME NEW w \in Workers, NEW s \in Slots,
             SlotAction(w, s)
      PROVE  TaskStep(t)
  <2>1. RecordError(w, s)
    BY <1>3, Zenon
       DEF SlotAction, Process, ReadResource, GiveUp, RecordProof,
           ProofRecorded, RecordLost, RecordErrorLost, server,
           Server!RecordProof, Server!Start, Server!Close
  <2> QED
    BY <2>1, <1>e, RecordErrorSteps
<1>4. ASSUME NEW c \in Conns, Handle(c) PROVE TaskStep(t)
  <2>1. Server_!HandlerWrites(c, t)
    BY <1>4, <1>t, SameHandle, ServerFits, Server_!HandlersWrite DEF Handle
  <2> QED
    BY <1>4, <2>1 DEF TaskStep
<1>5. ASSUME NEW c \in Conns, Drop(c) PROVE UNCHANGED tasks
  BY <1>5 DEF Drop, Server!Close
<1>6. ASSUME PluginExits \/ HandlerFails \/ Calm \/ UNCHANGED vars
      PROVE  UNCHANGED tasks
  BY <1>6, Zenon
     DEF PluginExits, HandlerFails, Calm, Restart, vars, server, Server!Abort,
         Server!Crash
<1>7. ASSUME NEW l \in late, CarryOutLate(l) PROVE TaskStep(t)
  <2>1. CASE Server!UpdateStatusById({l.task}, "Init") /\ UNCHANGED plugin
    BY <2>1, <1>7, <1>r DEF TaskStep
  <2>2. CASE ErrorStep(l.task)
    BY <2>2, <1>7, <1>e, LateSteps
  <2> QED
    BY <2>1, <2>2, <1>7, LateSteps
<1> QED
  BY <1>1, <1>2, <1>3, <1>4, <1>5, <1>6, <1>7 DEF Next, RequestStep, SlotAction

-----------------------------------------------------------------------------
(* An answer "proof" has a proof, an answer "task_error" a fresh error. *)

\* Inductive, with ClusterInv: a row is Completed only with its proof.
ProofInv ==
  /\ \A t \in TaskIds : tasks[t].state = "Completed" => tasks[t].proof
  /\ ProofIsStored

\* A step of request p in the record of p.
LEMMA RequestMoves ==
  ASSUME ClusterInv, NEW p \in Requests, RequestStep(p)
  PROVE  \/ \E t \in TaskIds :
              /\ Ask(p, t)
              /\ plugin'[p] = [pc |-> "get_task", task |-> t, failed |-> FALSE,
                               answer |-> "none"]
         \/ \E pc \in {"reset", "add_task", "adding", "trace"} :
              /\ GetTask(p) \/ ResetTask(p) \/ AddTask(p) \/ TaskAdded(p)
              /\ plugin[p].pc \in {"get_task", "reset", "add_task", "adding"}
              /\ plugin'[p] = [plugin[p] EXCEPT !.pc = pc]
         \/ \E a \in {"proof", "task_error", "call_error"} :
              /\ plugin[p].pc \in {"get_task", "reset", "add_task", "adding",
                                   "trace"}
              /\ a # "call_error" => Poll(p)
              /\ plugin'[p] = [plugin[p] EXCEPT !.pc = "answered", !.answer = a]
         \/ Respond(p) /\ plugin'[p] = Idle
<1> USE DEF ClusterInv
<1>1. ASSUME NEW t \in TaskIds, Ask(p, t)
      PROVE  plugin'[p] = [pc |-> "get_task", task |-> t, failed |-> FALSE,
                           answer |-> "none"]
  BY <1>1, AskMoves
<1>2. CASE \/ GetTask(p) \/ ResetTask(p) \/ AddTask(p)
           \/ TaskAdded(p) /\ call[pluginConn(p)].answer = "ok"
  <2>1. PICK pc \in {"reset", "add_task", "adding", "trace"} : Goto(p, pc)
    BY <1>2 DEF GetTask, ResetTask, AddTask, TaskAdded
  <2>2. plugin[p].pc \in {"get_task", "reset", "add_task", "adding"}
    BY <1>2 DEF GetTask, ResetTask, AddTask, TaskAdded
  <2>3. plugin'[p] = [plugin[p] EXCEPT !.pc = pc]
    BY <2>1, GotoMoves DEF Pc
  <2> QED
    BY <1>2, <2>2, <2>3
<1>3. CASE \/ TaskAdded(p) /\ call[pluginConn(p)].answer # "ok"
           \/ Poll(p) \/ CallFails(p) \/ ResetLost(p)
  <2>1. PICK a \in {"proof", "task_error", "call_error"} :
               Answer(p, a) /\ (a # "call_error" => Poll(p))
    BY <1>3 DEF TaskAdded, Poll, CallFails, ResetLost
  <2>2. plugin[p].pc \in {"get_task", "reset", "add_task", "adding", "trace"}
    BY <1>3 DEF TaskAdded, Poll, CallFails, ResetLost
  <2>3. plugin'[p] = [plugin[p] EXCEPT !.pc = "answered", !.answer = a]
    BY <2>1, AnswerMoves
  <2> QED
    BY <2>1, <2>2, <2>3
<1>4. Respond(p) => plugin'[p] = Idle
  BY DEF Respond, TypeOK
<1> QED
  BY <1>1, <1>2, <1>3, <1>4 DEF RequestStep, Plugin

LEMMA InitProof == Init => ProofInv
BY DEF Init, Server!Init, Server!EmptyTable, Server!NoRow, Idle, ProofInv,
       ProofIsStored

LEMMA NextProof == ClusterInv /\ ProofInv /\ [Next]_vars => ProofInv'
<1> SUFFICES ASSUME ClusterInv, ProofInv, [Next]_vars PROVE ProofInv'
  OBVIOUS
<1> USE DEF ClusterInv, ProofInv
<1>r. RowsStay
  BY NextClusterInv
<1>1. ASSUME NEW t \in TaskIds, tasks'[t].state = "Completed"
      PROVE  tasks'[t].proof
  <2>1. CASE tasks'[t] = tasks[t]
    BY <1>1, <2>1
  <2>2. ASSUME NEW c \in Conns, Server_!HandlerWrites(c, t)
        PROVE  tasks'[t].proof
    BY <1>1, <2>2 DEF Server_!HandlerWrites
  <2> QED
    BY <1>1, <2>1, <2>2, TaskSteps DEF TaskStep
<1>2. ASSUME NEW p \in Requests, plugin'[p].answer = "proof"
      PROVE  tasks'[plugin'[p].task].proof
  <2> DEFINE t == plugin[p].task
  <2>t. /\ plugin[p] \in RequestRecord
        /\ plugin[p].pc # "idle" => t \in TaskIds
        /\ plugin[p].answer # "none" => plugin[p].pc = "answered"
    BY DEF TypeOK, RequestRecord
  <2>1. ASSUME plugin[p].answer = "proof", plugin'[p].task = t
        PROVE  tasks'[plugin'[p].task].proof
    <3>1. t \in TaskIds /\ tasks[t].proof
      BY <2>1, <2>t DEF ProofIsStored
    <3> QED
      BY <3>1, <2>1, <1>r DEF RowsStay
  <2>2. CASE RequestStep(p)
    <3>1. ASSUME NEW pc \in {"reset", "add_task", "adding", "trace"},
                 plugin[p].pc \in {"get_task", "reset", "add_task", "adding"},
                 plugin'[p] = [plugin[p] EXCEPT !.pc = pc]
          PROVE  FALSE
      <4>1. plugin'[p].answer = plugin[p].answer
        BY <3>1, <2>t DEF RequestRecord
      <4> QED
        BY <4>1, <3>1, <1>2, <2>t
    <3>2. ASSUME NEW a \in {"proof", "task_error", "call_error"},
                 a # "call_error" => Poll(p),
                 plugin[p].pc \in {"get_task", "reset", "add_task", "adding",
                                  "trace"},
                 plugin'[p] = [plugin[p] EXCEPT !.pc = "answered", !.answer = a]
          PROVE  tasks'[plugin'[p].task].proof
      <4>1. plugin'[p].answer = a /\ plugin'[p].task = t /\ t \in TaskIds
        BY <3>2, <2>t DEF RequestRecord
      <4>2. /\ UNCHANGED tasks
            /\ \/ tasks[t].state = "Error" /\ Answer(p, "task_error")
               \/ tasks[t].state = "Completed" /\ Answer(p, "proof")
        BY <4>1, <3>2, <1>2 DEF Poll, server
      <4>3. CASE tasks[t].state = "Completed"
        BY <4>1, <4>2, <4>3
      <4>4. CASE Answer(p, "task_error")
        <5>1. plugin'[p] = [plugin[p] EXCEPT !.pc = "answered",
                                             !.answer = "task_error"]
          BY <4>4, AnswerMoves
        <5> QED
          BY <5>1, <2>t, <1>2 DEF RequestRecord
      <4> QED
        BY <4>2, <4>3, <4>4
    <3>3. ASSUME NEW u \in TaskIds,
                 plugin'[p] = [pc |-> "get_task", task |-> u, failed |-> FALSE,
                               answer |-> "none"]
          PROVE  FALSE
      BY <3>3, <1>2
    <3>4. plugin'[p] # Idle
      BY <1>2 DEF Idle
    <3> QED
      BY <2>2, <3>1, <3>2, <3>3, <3>4, RequestMoves
  <2>3. ASSUME NEW u \in TaskIds, ErrorStep(u)
        PROVE  /\ plugin'[p].answer = plugin[p].answer
               /\ plugin'[p].task = t
    <3>1. \/ plugin'[p] = [plugin[p] EXCEPT !.failed = TRUE]
          \/ plugin'[p] = plugin[p]
      BY <2>3, FailMoves
    <3> QED
      BY <3>1, <2>t DEF RequestRecord
  <2>4. CASE PluginExits
    BY <1>2, <2>4 DEF PluginExits, Idle
  <2>5. CASE plugin'[p] = plugin[p]
    BY <1>2, <2>1, <2>5
  <2> QED
    BY <1>2, <2>1, <2>2, <2>3, <2>4, <2>5, PluginSteps
<1> QED
  BY <1>1, <1>2 DEF ProofIsStored

(***************************************************************************)
(* The output trace_task_result writes is a proof: whatever is lost, reset *)
(* or computed twice, the proof of a request answered with one is in the   *)
(* database.                                                               *)
(***************************************************************************)
THEOREM AnswersHaveProofs == Spec => []ProofIsStored
BY ClusterInvHolds, InitProof, NextProof, PTL DEF Spec, ProofInv

\* Inductive, with ClusterInv: once process_request is past its first call,
\* an error in the row of its task is one of this request.
Fresh(p) ==
  /\ plugin[p].pc = "idle" => ~plugin[p].failed
  /\ plugin[p].answer = "task_error" => plugin[p].failed
  /\ plugin[p].pc \in {"add_task", "adding", "trace"} =>
       (tasks[plugin[p].task].state = "Error" => plugin[p].failed)

FreshInv == \A p \in Requests : Fresh(p)

LEMMA InitFresh == Init => FreshInv
BY DEF Init, Idle, FreshInv, Fresh

\* Only a recorded error puts a row in state Error.
LEMMA ErrorsAreRecorded ==
  ASSUME ClusterInv, [Next]_vars, NEW t \in TaskIds,
         tasks[t].state # "Error", tasks'[t].state = "Error"
  PROVE  ErrorStep(t)
<1>1. \A c \in Conns : Server_!HandlerWrites(c, t) => tasks'[t].state # "Error"
  BY DEF Server_!HandlerWrites
<1> QED
  BY <1>1, TaskSteps DEF TaskStep, ClusterInv

\* A step of process_request leaves no new error, and a reset leaves none.
LEMMA RequestsMakeNoErrors ==
  ASSUME ClusterInv, NEW p \in Requests, NEW t \in TaskIds,
         tasks'[t].state = "Error"
  PROVE  /\ GetTask(p) \/ AddTask(p) \/ TaskAdded(p) => tasks[t].state = "Error"
         /\ ResetTask(p) => plugin[p].task # t
<1>1. GetTask(p) \/ AddTask(p) \/ TaskAdded(p) => UNCHANGED tasks
  BY Zenon DEF GetTask, AddTask, TaskAdded, server, Server!AddTask,
               Server!Start, Server!Close
<1>2. ASSUME ResetTask(p), plugin[p].task = t PROVE FALSE
  <2>1. tasks' = Server!update_status_by_id(tasks, {t}, "Init")
    BY <1>2 DEF ResetTask, Server!UpdateStatusById
  <2>2. tasks[t] \in Server!Row
    BY DEF ClusterInv, TypeOK, Server!TypeOK, Server!Table
  <2>3. CASE Server!has_task(tasks, t)
    BY <2>1, <2>2, <2>3 DEF Server!update_status_by_id, Server!Row
  <2>4. CASE ~Server!has_task(tasks, t)
    BY <2>1, <2>4 DEF Server!update_status_by_id, Server!has_task
  <2> QED
    BY <2>3, <2>4
<1> QED
  BY <1>1, <1>2

LEMMA NextFresh == ClusterInv /\ FreshInv /\ [Next]_vars => FreshInv'
<1> SUFFICES ASSUME ClusterInv, FreshInv, [Next]_vars, NEW p \in Requests
             PROVE  Fresh(p)'
  BY DEF FreshInv
<1> DEFINE t == plugin[p].task
<1>t. /\ plugin[p] \in RequestRecord
      /\ plugin[p].pc # "idle" => t \in TaskIds
      /\ plugin[p].answer # "none" <=> plugin[p].pc = "answered"
      /\ Fresh(p)
  BY DEF ClusterInv, TypeOK, RequestRecord, FreshInv
<1>e. ASSUME t \in TaskIds, tasks[t].state # "Error", tasks'[t].state = "Error"
      PROVE  plugin'[p].failed
  <2>1. ErrorStep(t)
    BY <1>e, ErrorsAreRecorded
  <2>2. plugin'[p] = [plugin[p] EXCEPT !.failed = TRUE]
    BY <2>1, FailMoves DEF ClusterInv
  <2> QED
    BY <2>2, <1>t DEF RequestRecord
<1>1. CASE plugin'[p] = plugin[p]
  <2>1. ASSUME plugin[p].pc \in {"add_task", "adding", "trace"},
               tasks'[t].state = "Error"
        PROVE  plugin[p].failed
    BY <2>1, <1>1, <1>e, <1>t DEF Fresh
  <2> QED
    BY <2>1, <1>1, <1>t DEF Fresh
<1>2. CASE RequestStep(p)
  <2>1. ASSUME NEW u \in TaskIds,
               plugin'[p] = [pc |-> "get_task", task |-> u, failed |-> FALSE,
                             answer |-> "none"]
        PROVE  Fresh(p)'
    BY <2>1 DEF Fresh
  <2>2. ASSUME NEW pc \in {"reset", "add_task", "adding", "trace"},
               GetTask(p) \/ ResetTask(p) \/ AddTask(p) \/ TaskAdded(p),
               plugin[p].pc \in {"get_task", "reset", "add_task", "adding"},
               plugin'[p] = [plugin[p] EXCEPT !.pc = pc]
        PROVE  Fresh(p)'
    <3>1. /\ plugin'[p].pc = pc /\ plugin'[p].task = t /\ t \in TaskIds
          /\ plugin'[p].failed = plugin[p].failed
          /\ plugin'[p].answer = plugin[p].answer
      BY <2>2, <1>t DEF RequestRecord
    <3>2. ASSUME pc \in {"add_task", "adding", "trace"}, tasks'[t].state = "Error"
          PROVE  plugin[p].failed
      <4>1. tasks[t].state = "Error"
        BY <2>2, <3>1, <3>2, RequestsMakeNoErrors, <1>e
      <4>2. CASE GetTask(p)
        <5>1. Goto(p, IF ~Server!has_task(tasks, t) THEN "add_task" ELSE "reset")
          BY <4>1, <4>2 DEF GetTask
        <5>2. Server!has_task(tasks, t)
          BY <4>1 DEF Server!has_task
        <5>3. plugin'[p] = [plugin[p] EXCEPT !.pc = "reset"]
          BY <5>1, <5>2, GotoMoves DEF Pc, ClusterInv
        <5>4. plugin'[p].pc = "reset"
          BY <5>3, <1>t DEF RequestRecord
        <5> QED
          BY <5>4, <3>1, <3>2
      <4>3. CASE ResetTask(p)
        BY <4>3, <3>1, <3>2, RequestsMakeNoErrors
      <4>4. CASE AddTask(p) \/ TaskAdded(p)
        <5>1. plugin[p].pc \in {"add_task", "adding"}
          BY <4>4 DEF AddTask, TaskAdded
        <5> QED
          BY <4>1, <5>1, <1>t DEF Fresh
      <4> QED
        BY <2>2, <4>2, <4>3, <4>4
    <3> QED
      BY <3>1, <3>2, <2>2, <1>t DEF Fresh
  <2>3. ASSUME NEW a \in {"proof", "task_error", "call_error"},
               a # "call_error" => Poll(p),
               plugin[p].pc \in {"get_task", "reset", "add_task", "adding",
                                "trace"},
               plugin'[p] = [plugin[p] EXCEPT !.pc = "answered", !.answer = a]
        PROVE  Fresh(p)'
    <3>1. /\ plugin'[p].pc = "answered" /\ plugin'[p].answer = a
          /\ plugin'[p].failed = plugin[p].failed
      BY <2>3, <1>t DEF RequestRecord
    <3>2. ASSUME a = "task_error" PROVE plugin[p].failed
      <4>1. plugin[p].pc = "trace"
        BY <2>3, <3>2 DEF Poll
      <4>2. CASE tasks[t].state = "Error"
        BY <4>1, <4>2, <1>t DEF Fresh
      <4>3. CASE Answer(p, "proof")
        <5>1. plugin'[p] = [plugin[p] EXCEPT !.pc = "answered",
                                             !.answer = "proof"]
          BY <4>3, AnswerMoves DEF ClusterInv
        <5>2. plugin'[p].answer = "proof"
          BY <5>1, <1>t DEF RequestRecord
        <5> QED
          BY <5>2, <3>1, <3>2
      <4> QED
        BY <4>2, <4>3, <2>3, <3>2 DEF Poll
    <3> QED
      BY <3>1, <3>2 DEF Fresh
  <2>4. CASE plugin'[p] = Idle
    BY <2>4 DEF Fresh, Idle
  <2> QED
    BY <1>2, <2>1, <2>2, <2>3, <2>4, RequestMoves
<1>3. ASSUME NEW u \in TaskIds, ErrorStep(u)
      PROVE  Fresh(p)'
  <2>1. CASE plugin'[p] = [plugin[p] EXCEPT !.failed = TRUE] /\ t \in TaskIds
    <3>1. /\ plugin'[p].pc = plugin[p].pc /\ plugin'[p].failed
          /\ plugin[p].pc # "idle"
      BY <2>1, <1>t, ServerAssumption DEF RequestRecord, ClusterInv, TypeOK
    <3> QED
      BY <3>1 DEF Fresh
  <2> QED
    BY <1>1, <1>3, <2>1, FailMoves DEF ClusterInv
<1>4. CASE PluginExits
  BY <1>4 DEF PluginExits, Idle, Fresh
<1> QED
  BY <1>1, <1>2, <1>3, <1>4, PluginSteps DEF ClusterInv

(***************************************************************************)
(* A retry is one: process_request resets a task in state Error before it  *)
(* traces it, so that a request is answered only with an error that was    *)
(* recorded while it was open.                                             *)
(***************************************************************************)
THEOREM ErrorsAreFresh == Spec => []ErrorIsFresh
<1>1. FreshInv => ErrorIsFresh
  BY DEF FreshInv, Fresh, ErrorIsFresh
<1> QED
  BY <1>1, ClusterInvHolds, InitFresh, NextFresh, PTL DEF Spec

-----------------------------------------------------------------------------
(* The cluster implements ProofService. *)

LEMMA InitService == Init => Service!Init
BY DEF Init, Server!Init, Server!EmptyTable, Server!NoRow, Idle, request,
       proved, Service!Init, Service!Closed

\* What is shown of a request.
RequestView ==
  [status : {"closed", "open", "proof", "task_error", "call_error"},
   task : TaskIds \cup {NoTask}, failed : BOOLEAN]

LEMMA RequestShown ==
  ASSUME NEW p \in Requests, plugin[p] \in RequestRecord, RequestTyped(p)
  PROVE  /\ request[p] \in RequestView
         /\ request[p].task = plugin[p].task
         /\ request[p].failed = plugin[p].failed
         /\ plugin[p].pc = "idle" => request[p].status = "closed"
         /\ plugin[p].pc = "answered" => request[p].status = plugin[p].answer
         /\ plugin[p].pc \notin {"idle", "answered"} => request[p].status = "open"
<1> DEFINE st == CASE plugin[p].pc = "idle" -> "closed"
                   [] plugin[p].pc = "answered" -> plugin[p].answer
                   [] OTHER -> "open"
<1>1. request[p] = [status |-> st, task |-> plugin[p].task,
                    failed |-> plugin[p].failed]
  BY DEF request
<1>2. /\ plugin[p].pc = "idle" => st = "closed"
      /\ plugin[p].pc = "answered" => st = plugin[p].answer
      /\ plugin[p].pc \notin {"idle", "answered"} => st = "open"
  OBVIOUS
<1>3. st \in {"closed", "open", "proof", "task_error", "call_error"}
  BY <1>2 DEF RequestRecord, RequestTyped
<1> HIDE DEF st
<1> QED
  BY <1>1, <1>2, <1>3 DEF RequestRecord, RequestView

LEMMA RequestShownNext ==
  ASSUME NEW p \in Requests, plugin'[p] \in RequestRecord, RequestTyped(p)'
  PROVE  /\ request'[p] \in RequestView
         /\ request'[p].task = plugin'[p].task
         /\ request'[p].failed = plugin'[p].failed
         /\ plugin'[p].pc = "idle" => request'[p].status = "closed"
         /\ plugin'[p].pc = "answered" => request'[p].status = plugin'[p].answer
         /\ plugin'[p].pc \notin {"idle", "answered"} =>
              request'[p].status = "open"
<1> DEFINE st == CASE plugin'[p].pc = "idle" -> "closed"
                   [] plugin'[p].pc = "answered" -> plugin'[p].answer
                   [] OTHER -> "open"
<1>1. request'[p] = [status |-> st, task |-> plugin'[p].task,
                     failed |-> plugin'[p].failed]
  BY DEF request
<1>2. /\ plugin'[p].pc = "idle" => st = "closed"
      /\ plugin'[p].pc = "answered" => st = plugin'[p].answer
      /\ plugin'[p].pc \notin {"idle", "answered"} => st = "open"
  OBVIOUS
<1>3. st \in {"closed", "open", "proof", "task_error", "call_error"}
  BY <1>2 DEF RequestRecord, RequestTyped
<1> HIDE DEF st
<1> QED
  BY <1>1, <1>2, <1>3 DEF RequestRecord, RequestView

\* Both, of all requests.
LEMMA ShownBefore ==
  ASSUME ClusterInv, NEW p \in Requests
  PROVE  plugin[p] \in RequestRecord /\ RequestTyped(p)
BY DEF ClusterInv, TypeOK, RequestRecord, RequestTyped

LEMMA ShownAfter ==
  ASSUME ClusterInv, [Next]_vars, NEW p \in Requests
  PROVE  plugin'[p] \in RequestRecord /\ RequestTyped(p)'
BY NextClusterInv DEF ClusterInv, TypeOK, RequestRecord, RequestTyped

\* What is not written is shown as before.
LEMMA RequestShownSame ==
  ASSUME NEW p \in Requests, plugin'[p] = plugin[p]
  PROVE  request'[p] = request[p]
BY DEF request

LEMMA RequestShownFcn ==
  /\ request = [p \in Requests |-> request[p]]
  /\ request' = [p \in Requests |-> request'[p]]
BY DEF request

\* The tasks proved change only when a handler stores a proof.
LEMMA HandlersProve ==
  ASSUME ClusterInv, [Next]_vars, NEW c \in Conns, Handle(c)
  PROVE  \/ UNCHANGED proved
         \/ \E t \in TaskIds : proved' = proved \cup {t}
<1>1. \A t \in TaskIds : Server_!HandlerWrites(c, t)
  BY SameTypeOK, SameHandle, ServerFits, Server_!HandlersWrite
     DEF ClusterInv, TypeOK, Handle
<1>2. \A t \in TaskIds : tasks[t].proof => tasks'[t].proof
  BY NextClusterInv DEF RowsStay
<1>3. \A t \in TaskIds :
        call[c].task # t => (tasks'[t].proof <=> tasks[t].proof)
  BY <1>1 DEF Server_!HandlerWrites
<1>4. CASE /\ call[c].task \in TaskIds
           /\ tasks'[call[c].task].proof
  <2>1. proved' = proved \cup {call[c].task}
    BY <1>2, <1>3, <1>4 DEF proved
  <2> QED
    BY <2>1, <1>4
<1>5. CASE \/ call[c].task \notin TaskIds
           \/ ~tasks'[call[c].task].proof
  BY <1>2, <1>3, <1>5 DEF proved
<1> QED
  BY <1>4, <1>5

LEMMA OthersProveNot ==
  ASSUME ClusterInv, [Next]_vars, \A c \in Conns : ~Handle(c)
  PROVE  UNCHANGED proved
<1>1. ASSUME NEW t \in TaskIds PROVE tasks'[t].proof <=> tasks[t].proof
  BY TaskSteps DEF TaskStep, ClusterInv
<1> QED
  BY <1>1 DEF proved

\* A step of process_request shows as asking, as an answer, as closing, or
\* not at all.
LEMMA RequestImplements ==
  ASSUME ClusterInv, ProofInv, FreshInv, [Next]_vars, NEW p \in Requests,
         RequestStep(p), \A q \in Requests \ {p} : plugin'[q] = plugin[q],
         UNCHANGED proved
  PROVE  [Service!Next]_(Service!vars)
<1> DEFINE Goal == [Service!Next]_(Service!vars)
<1> SUFFICES Goal
  OBVIOUS
<1>t. plugin[p] \in RequestRecord /\ RequestTyped(p) /\ Fresh(p)
  BY ShownBefore DEF FreshInv
<1>k. plugin[p].pc # "idle" => plugin[p].task \in TaskIds
  BY DEF ClusterInv, TypeOK
<1>n. plugin'[p] \in RequestRecord /\ RequestTyped(p)'
  BY ShownAfter
<1>i. ProofIsStored' /\ FreshInv'
  BY NextProof, NextFresh DEF ProofInv
<1>o. request' = [request EXCEPT ![p] = request'[p]]
  <2>1. \A q \in Requests \ {p} : request'[q] = request[q]
    BY RequestShownSame
  <2> QED
    BY <2>1, RequestShownFcn
<1>s. /\ request[p] \in RequestView
      /\ request[p].task = plugin[p].task
      /\ request[p].failed = plugin[p].failed
      /\ plugin[p].pc = "idle" => request[p].status = "closed"
      /\ plugin[p].pc = "answered" => request[p].status = plugin[p].answer
      /\ plugin[p].pc \notin {"idle", "answered"} => request[p].status = "open"
  BY <1>t, RequestShown
<1>u. /\ request'[p] \in RequestView
      /\ request'[p].task = plugin'[p].task
      /\ request'[p].failed = plugin'[p].failed
      /\ plugin'[p].pc = "idle" => request'[p].status = "closed"
      /\ plugin'[p].pc = "answered" => request'[p].status = plugin'[p].answer
      /\ plugin'[p].pc \notin {"idle", "answered"} =>
           request'[p].status = "open"
  BY <1>n, RequestShownNext
<1>1. ASSUME NEW t \in TaskIds, Ask(p, t),
             plugin'[p] = [pc |-> "get_task", task |-> t, failed |-> FALSE,
                           answer |-> "none"]
      PROVE  Goal
  <2>1. plugin[p].pc = "idle"
    BY <1>1 DEF Ask
  <2>2. request[p] = Service!Closed
    BY <2>1, <1>t, <1>s DEF RequestTyped, Fresh, RequestView, Service!Closed
  <2>3. /\ request'[p].status = "open" /\ request'[p].task = t
        /\ request'[p].failed = FALSE
    BY <1>1, <1>u
  <2>4. Service!Closed \in RequestView /\ Service!Closed.failed = FALSE
    BY DEF Service!Closed, RequestView
  <2>5. request'[p] = [Service!Closed EXCEPT !.status = "open", !.task = t]
    <3> DEFINE asked == [Service!Closed EXCEPT !.status = "open", !.task = t]
    <3>1. /\ asked \in RequestView
          /\ asked.status = "open" /\ asked.task = t /\ asked.failed = FALSE
      BY <2>4 DEF RequestView
    <3> HIDE DEF asked
    <3>2. request'[p] = asked
      BY <3>1, <2>3, <1>u DEF RequestView
    <3> QED
      BY <3>2 DEF asked
  <2>6. Service!Ask(p, t)
    BY <2>2, <2>5, <1>o DEF Service!Ask
  <2> QED
    BY <2>6 DEF Service!Next
<1>2. ASSUME NEW pc \in {"reset", "add_task", "adding", "trace"},
             plugin[p].pc \in {"get_task", "reset", "add_task", "adding"},
             plugin'[p] = [plugin[p] EXCEPT !.pc = pc]
      PROVE  Goal
  <2>1. /\ plugin'[p].pc = pc /\ plugin'[p].task = plugin[p].task
        /\ plugin'[p].failed = plugin[p].failed
    BY <1>2, <1>t DEF RequestRecord
  <2>2. /\ request'[p].status = request[p].status
        /\ request'[p].task = request[p].task
        /\ request'[p].failed = request[p].failed
    BY <2>1, <1>2, <1>s, <1>u
  <2>3. request'[p] = request[p]
    BY <2>2, <1>s, <1>u DEF RequestView
  <2>4. UNCHANGED request
    BY <2>3, <1>o, RequestShownFcn
  <2> QED
    BY <2>4 DEF Service!vars
<1>3. ASSUME NEW a \in {"proof", "task_error", "call_error"},
             plugin[p].pc \in {"get_task", "reset", "add_task", "adding",
                              "trace"},
             plugin'[p] = [plugin[p] EXCEPT !.pc = "answered", !.answer = a]
      PROVE  Goal
  <2>1. /\ plugin'[p].pc = "answered" /\ plugin'[p].answer = a
        /\ plugin'[p].task = plugin[p].task
        /\ plugin'[p].failed = plugin[p].failed
    BY <1>3, <1>t DEF RequestRecord
  <2>2. /\ request[p].status = "open" /\ request'[p].status = a
        /\ request'[p].task = request[p].task
        /\ request'[p].failed = request[p].failed
    BY <2>1, <1>3, <1>s, <1>u
  <2>3. request'[p] = [request[p] EXCEPT !.status = a]
    BY <2>2, <1>s, <1>u DEF RequestView
  <2>4. a = "proof" => request[p].task \in proved
    <3>1. a = "proof" => tasks'[plugin[p].task].proof
      BY <2>1, <1>i DEF ProofIsStored
    <3>2. a = "proof" => plugin[p].task \in proved'
      BY <3>1, <1>3, <1>k DEF proved
    <3> QED
      BY <3>2, <1>s
  <2>5. a = "task_error" => request[p].failed
    BY <2>1, <1>i, <1>s DEF FreshInv, Fresh
  <2>6. Service!Answer(p, a)
    BY <2>2, <2>3, <2>4, <2>5, <1>o DEF Service!Answer
  <2> QED
    BY <2>6 DEF Service!Next
<1>4. CASE Respond(p) /\ plugin'[p] = Idle
  <2>1. plugin[p].pc = "answered" /\ plugin[p].answer # "none"
    BY <1>4, <1>t DEF Respond, RequestTyped
  <2>2. request[p].status \in {"proof", "task_error", "call_error"}
    BY <2>1, <1>t, <1>s DEF RequestRecord
  <2>3. /\ request'[p].status = "closed" /\ request'[p].task = NoTask
        /\ request'[p].failed = FALSE
    BY <1>4, <1>u DEF Idle
  <2>4. request'[p] = Service!Closed
    BY <2>3, <1>u DEF Service!Closed, RequestView
  <2>5. Service!Close(p)
    BY <2>2, <2>4, <1>o DEF Service!Close
  <2> QED
    BY <2>5 DEF Service!Next
<1> QED
  BY <1>1, <1>2, <1>3, <1>4, RequestMoves

\* A recorded error shows as a failure of the task.
LEMMA ErrorImplements ==
  ASSUME ClusterInv, [Next]_vars, NEW t \in TaskIds, ErrorStep(t),
         UNCHANGED proved
  PROVE  Service!Fail(t)
<1>1. \A p \in Requests :
        \/ plugin[p].task = t /\ plugin'[p] = [plugin[p] EXCEPT !.failed = TRUE]
        \/ plugin[p].task # t /\ plugin'[p] = plugin[p]
  BY FailMoves DEF ClusterInv
<1>2. ASSUME NEW p \in Requests
      PROVE  request'[p] = IF request[p].task = t
                           THEN [request[p] EXCEPT !.failed = TRUE]
                           ELSE request[p]
  <2>t. plugin[p] \in RequestRecord /\ RequestTyped(p)
    BY ShownBefore
  <2>n. plugin'[p] \in RequestRecord /\ RequestTyped(p)'
    BY ShownAfter
  <2>s. /\ request[p] \in RequestView
        /\ request[p].task = plugin[p].task
        /\ plugin[p].pc = "idle" => request[p].status = "closed"
        /\ plugin[p].pc = "answered" => request[p].status = plugin[p].answer
        /\ plugin[p].pc \notin {"idle", "answered"} => request[p].status = "open"
    BY <2>t, RequestShown
  <2>u. /\ request'[p] \in RequestView
        /\ request'[p].task = plugin'[p].task
        /\ request'[p].failed = plugin'[p].failed
        /\ plugin'[p].pc = "idle" => request'[p].status = "closed"
        /\ plugin'[p].pc = "answered" => request'[p].status = plugin'[p].answer
        /\ plugin'[p].pc \notin {"idle", "answered"} =>
             request'[p].status = "open"
    BY <2>n, RequestShownNext
  <2>1. CASE plugin[p].task # t /\ plugin'[p] = plugin[p]
    <3>1. request'[p] = request[p] /\ request[p].task # t
      BY <2>1, <2>s, RequestShownSame
    <3> QED
      BY <3>1
  <2>2. CASE /\ plugin[p].task = t
             /\ plugin'[p] = [plugin[p] EXCEPT !.failed = TRUE]
    <3>1. /\ plugin'[p].pc = plugin[p].pc
          /\ plugin'[p].task = plugin[p].task
          /\ plugin'[p].answer = plugin[p].answer /\ plugin'[p].failed = TRUE
      BY <2>2, <2>t DEF RequestRecord
    <3>2. /\ request'[p].status = request[p].status
          /\ request'[p].task = request[p].task
          /\ request'[p].failed = TRUE
      BY <3>1, <2>s, <2>u
    <3>3. request'[p] = [request[p] EXCEPT !.failed = TRUE]
      BY <3>2, <2>s, <2>u DEF RequestView
    <3>4. request[p].task = t
      BY <2>2, <2>s
    <3> QED
      BY <3>3, <3>4
  <2> QED
    BY <1>1, <2>1, <2>2
<1> QED
  BY <1>2, RequestShownFcn DEF Service!Fail

\* Each step is one of ProofService, or leaves its state as it is.
LEMMA NextService ==
  ClusterInv /\ ProofInv /\ FreshInv /\ [Next]_vars =>
    [Service!Next]_(Service!vars)
<1> DEFINE Goal == [Service!Next]_(Service!vars)
<1> SUFFICES ASSUME ClusterInv, ProofInv, FreshInv, [Next]_vars PROVE Goal
  OBVIOUS
<1>1. ASSUME UNCHANGED plugin PROVE UNCHANGED request
  BY <1>1, RequestShownSame, RequestShownFcn
<1>2. ASSUME NEW c \in Conns, Handle(c) PROVE Goal
  <2>1. UNCHANGED request
    BY <1>1, <1>2 DEF Handle
  <2>2. CASE UNCHANGED proved
    BY <2>1, <2>2 DEF Service!vars
  <2>3. ASSUME NEW t \in TaskIds, proved' = proved \cup {t} PROVE Goal
    BY <2>1, <2>3 DEF Service!Next, Service!Prove
  <2> QED
    BY <1>2, <2>2, <2>3, HandlersProve
<1>3. CASE \A c \in Conns : ~Handle(c)
  <2>1. UNCHANGED proved
    BY <1>3, OthersProveNot
  <2>2. CASE UNCHANGED plugin
    BY <2>1, <2>2, <1>1 DEF Service!vars
  <2>3. ASSUME NEW p \in Requests, RequestStep(p), NEW r,
               plugin' = [plugin EXCEPT ![p] = r]
        PROVE  Goal
    <3>1. \A q \in Requests \ {p} : plugin'[q] = plugin[q]
      BY <2>3 DEF ClusterInv, TypeOK
    <3> QED
      BY <2>1, <2>3, <3>1, RequestImplements
  <2>4. ASSUME NEW t \in TaskIds, ErrorStep(t) PROVE Goal
    <3>1. Service!Fail(t)
      BY <2>1, <2>4, ErrorImplements
    <3> QED
      BY <3>1 DEF Service!Next
  <2>5. CASE PluginExits
    <3>1. ASSUME NEW p \in Requests PROVE request'[p] = Service!Closed
      <4>1. plugin'[p] = Idle
        BY <2>5 DEF PluginExits
      <4>2. request'[p] \in RequestView
        BY ShownAfter, RequestShownNext
      <4>3. /\ request'[p].status = "closed" /\ request'[p].task = NoTask
            /\ request'[p].failed = FALSE
        BY <4>1, ShownAfter, RequestShownNext DEF Idle
      <4> QED
        BY <4>2, <4>3 DEF RequestView, Service!Closed
    <3>2. Service!Forget
      BY <3>1, <2>1, RequestShownFcn DEF Service!Forget
    <3> QED
      BY <3>2 DEF Service!Next
  <2> QED
    BY <2>2, <2>3, <2>4, <2>5, PluginWrites DEF ClusterInv
<1> QED
  BY <1>2, <1>3

(***************************************************************************)
(* The plugin, the server and the workers implement ProofService: through  *)
(* lost calls, crashes, restarts and races a request is answered at most   *)
(* once, with a stored proof, a fresh error of the computation or the      *)
(* error of a call, and no proof is ever lost.                             *)
(***************************************************************************)
THEOREM ClusterImplementsService == Spec => ImplementsService
<1>1. Spec => [][Service!Next]_(Service!vars)
  BY ClusterInvHolds, InitProof, NextProof, InitFresh, NextFresh, NextService,
     PTL DEF Spec
<1>2. Spec => Service!Init
  BY InitService DEF Spec
<1> QED
  BY <1>1, <1>2, PTL DEF ImplementsService, Service!Spec

=============================================================================
