------------------------- MODULE ProxyServer_proofs -------------------------
(***************************************************************************)
(* Proofs about the server for every number of miners, resources, tasks,   *)
(* workers and connections, and for both resource backends.                *)
(***************************************************************************)
EXTENDS ProxyServer, TLAPS

-----------------------------------------------------------------------------
(* What the statements of DbOps return. *)

\* Every statement maps a table to a table.
LEMMA StatementsTyped ==
  ASSUME NEW tbl \in Table, NEW t \in TaskIds,
         NEW w \in Workers \cup {NoWorker}
  PROVE  /\ \A now \in Stamps : add_task(tbl, t, now) \in Table
         /\ claim_task(tbl, t, w) \in Table
         /\ record_error(tbl, t, w) \in Table
         /\ record_proof(tbl, t, w) \in Table
<1>1. \A now \in Stamps : add_task(tbl, t, now) \in Table
  BY WorkerAssumption DEF Table, Row, TaskState, NoRow, add_task
<1>2. claim_task(tbl, t, w) \in Table
  BY DEF Table, Row, TaskState, claim_task
<1>3. record_error(tbl, t, w) \in Table
  BY DEF Table, Row, TaskState, record_error
<1>4. record_proof(tbl, t, w) \in Table
  BY DEF Table, Row, TaskState, record_proof
<1> QED
  BY <1>1, <1>2, <1>3, <1>4

LEMMA UpdateTyped ==
  ASSUME NEW tbl \in Table, NEW tids \in SUBSET TaskIds,
         NEW s \in ClientStates
  PROVE  update_status_by_id(tbl, tids, s) \in Table
BY ClientStatesAssumption DEF Table, Row, TaskState, update_status_by_id

-----------------------------------------------------------------------------
(* How a handler's record moves. *)

LEMMA GotoTyped ==
  ASSUME CallsTyped, NEW c \in Conns, NEW pc \in Pc, Goto(c, pc),
         call[c].task \in TaskIds, Working(c)
  PROVE  CallsTyped'
<1>1. [call[c] EXCEPT !.pc = pc] \in Call
  BY DEF CallsTyped, Call
<1>2. call' = [call EXCEPT ![c] = [call[c] EXCEPT !.pc = pc]]
  BY DEF Goto
<1>3. /\ [call[c] EXCEPT !.pc = pc].task \in TaskIds
      /\ [call[c] EXCEPT !.pc = pc].answer = "none"
  BY DEF CallsTyped, Call, Working
<1> QED
  BY <1>1, <1>2, <1>3 DEF CallsTyped

LEMMA ReplyTyped ==
  ASSUME CallsTyped, NEW c \in Conns, NEW a \in {"ok", "error"}, Reply(c, a),
         a = "ok" => call[c].task \in TaskIds
  PROVE  CallsTyped'
<1> DEFINE r == [call[c] EXCEPT !.pc = "done", !.answer = a]
<1>1. r \in Call /\ r.pc = "done" /\ r.answer = a /\ r.task = call[c].task
  BY DEF CallsTyped, Call, Pc
<1>2. call' = [call EXCEPT ![c] = r]
  BY DEF Reply
<1> QED
  BY <1>1, <1>2 DEF CallsTyped

LEMMA StartTyped ==
  ASSUME CallsTyped, NEW c \in Conns, NEW pc \in Pc,
         NEW op \in {"add_task", "fetch_todo", "record_proof"},
         NEW t \in TaskIds \cup {NoTask}, NEW w \in Workers \cup {NoWorker},
         Start(c, op, pc, t, w), pc # "select_todo" => t \in TaskIds
  PROVE  CallsTyped'
<1> DEFINE r == [op |-> op, pc |-> pc, task |-> t, worker |-> w, answer |-> "none"]
<1>1. r \in Call /\ r.pc = pc /\ r.task = t /\ r.answer = "none"
  BY DEF Call
<1>2. call' = [call EXCEPT ![c] = r]
  BY DEF Start
<1> QED
  BY <1>1, <1>2 DEF CallsTyped

\* Taking a file from under its writers moves each of them to write_stale.
LEMMA StaleTyped ==
  ASSUME CallsTyped, NEW c \in Conns, NEW r \in Resources
  PROVE  /\ Stale(r, c) \in [Conns -> Call]
         /\ Stale(r, c)[c] = call[c]
         /\ \A d \in Conns :
              \/ Stale(r, c)[d] = call[d]
              \/ /\ d # c
                 /\ call[d].pc = "write_file"
                 /\ CallResource(d) = r
                 /\ Stale(r, c)[d] = [call[d] EXCEPT !.pc = "write_stale"]
<1>1. \A d \in Conns : [call[d] EXCEPT !.pc = "write_stale"] \in Call
  BY DEF CallsTyped, Call, Pc
<1> QED
  BY <1>1 DEF Stale, CallsTyped

LEMMA ResourceTyped == ASSUME NEW t \in TaskIds PROVE ResourceOf(t) \in Resources
BY TaskIdAssumption DEF AllTaskIds, gen_task_id, ResourceOf

\* The records CreateFile and DeleteResource leave, connection by connection.
LEMMA CreateFileMoves ==
  ASSUME TypeOK, NEW c \in Conns, CreateFile(c)
  PROVE  /\ call' \in [Conns -> Call]
         /\ call'[c] = [call[c] EXCEPT !.pc = "write_file"]
         /\ \A d \in Conns \ {c} :
              \/ call'[d] = call[d]
              \/ /\ call[d].pc = "write_file"
                 /\ call'[d] = [call[d] EXCEPT !.pc = "write_stale"]
<1> DEFINE r == CallResource(c)
<1>1. r \in Resources
  BY ResourceTyped DEF TypeOK, CallsTyped, CreateFile, CallResource
<1>2. [call[c] EXCEPT !.pc = "write_file"] \in Call
  BY DEF TypeOK, CallsTyped, Call, Pc
<1>3. call' = [Stale(r, c) EXCEPT ![c] = [Stale(r, c)[c] EXCEPT !.pc = "write_file"]]
  BY DEF CreateFile
<1> HIDE DEF r
<1>4. /\ Stale(r, c) \in [Conns -> Call]
      /\ Stale(r, c)[c] = call[c]
      /\ \A d \in Conns :
           \/ Stale(r, c)[d] = call[d]
           \/ /\ d # c
              /\ call[d].pc = "write_file"
              /\ CallResource(d) = r
              /\ Stale(r, c)[d] = [call[d] EXCEPT !.pc = "write_stale"]
  BY <1>1, StaleTyped DEF TypeOK
<1> QED
  BY <1>2, <1>3, <1>4

LEMMA DeleteResourceMoves ==
  ASSUME TypeOK, NEW c \in Conns, DeleteResource(c)
  PROVE  /\ call' \in [Conns -> Call]
         /\ \E a \in {"ok", "error"} :
              call'[c] = [call[c] EXCEPT !.pc = "done", !.answer = a]
         /\ \A d \in Conns \ {c} :
              \/ call'[d] = call[d]
              \/ /\ call[d].pc = "write_file"
                 /\ CallResource(d) = CallResource(c)
                 /\ call'[d] = [call[d] EXCEPT !.pc = "write_stale"]
<1> DEFINE r == CallResource(c)
           a == IF Backend = "db" \/ res[r] # "absent" THEN "ok" ELSE "error"
<1>1. r \in Resources
  BY ResourceTyped DEF TypeOK, CallsTyped, DeleteResource, CallResource
<1>2. [call[c] EXCEPT !.pc = "done", !.answer = a] \in Call
  BY DEF TypeOK, CallsTyped, Call, Pc
<1>3. call' = [Stale(r, c) EXCEPT ![c] =
                 [Stale(r, c)[c] EXCEPT !.pc = "done",
                                        !.answer = a]]
  BY DEF DeleteResource
<1>4. a \in {"ok", "error"}
  OBVIOUS
<1>5. r = CallResource(c)
  OBVIOUS
<1> HIDE DEF r, a
<1>6. /\ Stale(r, c) \in [Conns -> Call]
      /\ Stale(r, c)[c] = call[c]
      /\ \A d \in Conns :
           \/ Stale(r, c)[d] = call[d]
           \/ /\ d # c
              /\ call[d].pc = "write_file"
              /\ CallResource(d) = r
              /\ Stale(r, c)[d] = [call[d] EXCEPT !.pc = "write_stale"]
  BY <1>1, StaleTyped DEF TypeOK
<1> QED
  BY <1>2, <1>3, <1>4, <1>5, <1>6

-----------------------------------------------------------------------------
(* Type correctness *)

LEMMA InitTyped == Init => TypeOK
BY StampAssumption, NoTaskAssumption
   DEF Init, TypeOK, CallsTyped, EmptyTable, NoRow, NoCall, Table, Row, Call,
       Pc, TaskState

LEMMA NextTyped == TypeOK /\ [Next]_vars => TypeOK'
<1> SUFFICES ASSUME TypeOK, [Next]_vars PROVE TypeOK'
  OBVIOUS
<1> USE DEF TypeOK
<1>1. ASSUME NEW c \in Conns, NEW t \in TaskIds, AddTask(c, t)
      PROVE  TypeOK'
  BY <1>1, StartTyped DEF AddTask, Start, Pc
<1>2. ASSUME NEW c \in Conns, NEW w \in Workers, FetchTodo(c, w)
      PROVE  TypeOK'
  BY <1>2, StartTyped DEF FetchTodo, Start, Pc
<1>3. ASSUME NEW c \in Conns, NEW w \in Workers, NEW t \in TaskIds,
             RecordProof(c, w, t)
      PROVE  TypeOK'
  BY <1>3, StartTyped DEF RecordProof, Start, Pc
<1>4. ASSUME NEW w \in Workers, NEW t \in TaskIds, RecordError(w, t)
      PROVE  TypeOK'
  BY <1>4, StatementsTyped DEF RecordError, CallsTyped
<1>5. ASSUME NEW tids \in SUBSET TaskIds, NEW s \in ClientStates,
             UpdateStatusById(tids, s)
      PROVE  TypeOK'
  BY <1>5, UpdateTyped DEF UpdateStatusById, CallsTyped
<1>6. ASSUME NEW c \in Conns, HasResource(c) PROVE TypeOK'
  BY <1>6, GotoTyped DEF Working, HasResource, CallsTyped, Pc
<1>7. ASSUME NEW c \in Conns, StoreResourceDb(c) PROVE TypeOK'
  <2>1. CallsTyped'
    BY <1>7, GotoTyped, ReplyTyped DEF Working, StoreResourceDb, CallsTyped, Pc
  <2> QED
    BY <1>7, <2>1 DEF StoreResourceDb
<1>8. ASSUME NEW c \in Conns, CreateFile(c) PROVE TypeOK'
  <2>1. CallsTyped'
    <3>1. /\ call' \in [Conns -> Call]
          /\ call'[c] = [call[c] EXCEPT !.pc = "write_file"]
          /\ \A d \in Conns \ {c} :
               \/ call'[d] = call[d]
               \/ /\ call[d].pc = "write_file"
                  /\ call'[d] = [call[d] EXCEPT !.pc = "write_stale"]
      BY <1>8, CreateFileMoves
    <3>2. call[c].pc = "store_resource"
      BY <1>8 DEF CreateFile
    <3> QED
      BY <3>1, <3>2 DEF CallsTyped, Call
  <2> QED
    BY <1>8, <2>1 DEF CreateFile
<1>9. ASSUME NEW c \in Conns, FinishFile(c) PROVE TypeOK'
  <2>1. CallsTyped'
    BY <1>9, GotoTyped DEF Working, FinishFile, CallsTyped, Pc
  <2> QED
    BY <1>9, <2>1 DEF FinishFile
<1>10. ASSUME NEW c \in Conns, HasTask(c) PROVE TypeOK'
  BY <1>10, GotoTyped, ReplyTyped DEF Working, HasTask, CallsTyped, Pc
<1>11. ASSUME NEW c \in Conns, InsertTask(c) PROVE TypeOK'
  <2>1. call[c].task \in TaskIds
    BY <1>11 DEF InsertTask, CallsTyped
  <2>2. tasks' \in Table
    BY <1>11, <2>1, StatementsTyped DEF InsertTask
  <2>3. CallsTyped'
    BY <1>11, <2>1, ReplyTyped DEF InsertTask
  <2> QED
    BY <1>11, <2>2, <2>3 DEF InsertTask
<1>12. ASSUME NEW c \in Conns, SelectTodo(c) PROVE TypeOK'
  <2>1. ASSUME NEW t \in OldestTodo(tasks),
               call' = [call EXCEPT ![c] = [call[c] EXCEPT
                                              !.pc = "claim_todo", !.task = t]]
        PROVE  CallsTyped'
    <3>1. t \in TaskIds
      BY DEF OldestTodo
    <3>2. [call[c] EXCEPT !.pc = "claim_todo", !.task = t] \in Call
      BY <3>1 DEF CallsTyped, Call, Pc
    <3>3. call[c].answer = "none"
      BY <1>12 DEF SelectTodo, CallsTyped, Call
    <3> DEFINE r == [call[c] EXCEPT !.pc = "claim_todo", !.task = t]
    <3>4. r \in Call /\ r.pc = "claim_todo" /\ r.task = t /\ r.answer = "none"
      BY <3>1, <3>2, <3>3 DEF CallsTyped, Call
    <3>5. call' = [call EXCEPT ![c] = r]
      BY <2>1
    <3> HIDE DEF r
    <3> QED
      BY <3>1, <3>4, <3>5 DEF CallsTyped
  <2>2. CallsTyped'
    BY <1>12, <2>1, ReplyTyped DEF SelectTodo
  <2> QED
    BY <1>12, <2>2 DEF SelectTodo
<1>13. ASSUME NEW c \in Conns, ClaimTodo(c) PROVE TypeOK'
  <2>1. call[c].task \in TaskIds /\ call[c].worker \in Workers \cup {NoWorker}
    BY <1>13 DEF ClaimTodo, CallsTyped, Call
  <2>5. \/ /\ tasks' = claim_task(tasks, call[c].task, call[c].worker)
           /\ handed' = [handed EXCEPT ![call[c].task] = @ + 1]
        \/ tasks' = tasks /\ handed' = handed
    BY <1>13 DEF ClaimTodo
  <2>2. tasks' \in Table
    BY <2>1, <2>5, StatementsTyped
  <2>3. handed' \in [TaskIds -> Nat]
    BY <2>1, <2>5
  <2>4. CallsTyped'
    BY <1>13, <2>1, ReplyTyped DEF ClaimTodo
  <2> QED
    BY <1>13, <2>2, <2>3, <2>4 DEF ClaimTodo
<1>14. ASSUME NEW c \in Conns, FetchTask(c) PROVE TypeOK'
  BY <1>14, GotoTyped, ReplyTyped DEF Working, FetchTask, CallsTyped, Pc
<1>15. ASSUME NEW c \in Conns, StoreProof(c) PROVE TypeOK'
  <2>1. call[c].task \in TaskIds /\ call[c].worker \in Workers \cup {NoWorker}
    BY <1>15 DEF StoreProof, CallsTyped, Call
  <2>2. tasks' \in Table
    BY <1>15, <2>1, StatementsTyped DEF StoreProof
  <2> QED
    BY <1>15, <2>1, <2>2, GotoTyped DEF Working, StoreProof, Pc
<1>16. ASSUME NEW c \in Conns, DeleteResource(c) PROVE TypeOK'
  <2>1. /\ call' \in [Conns -> Call]
        /\ call'[c].pc = "done"
        /\ call'[c].task = call[c].task
        /\ \A d \in Conns \ {c} :
             \/ call'[d] = call[d]
             \/ /\ call[d].pc = "write_file"
                /\ call'[d] = [call[d] EXCEPT !.pc = "write_stale"]
    <3>1. PICK a \in {"ok", "error"} :
             call'[c] = [call[c] EXCEPT !.pc = "done", !.answer = a]
      BY <1>16, DeleteResourceMoves
    <3>2. call'[c].pc = "done" /\ call'[c].task = call[c].task
      BY <3>1 DEF CallsTyped, Call
    <3> QED
      BY <1>16, <3>2, DeleteResourceMoves
  <2>2. CallsTyped'
    <3>1. call[c].pc = "delete_resource"
      BY <1>16 DEF DeleteResource
    <3> QED
      BY <2>1, <3>1 DEF CallsTyped, Call
  <2> QED
    BY <1>16, <2>2 DEF DeleteResource
<1>17. ASSUME NEW c \in Conns, Abort(c) PROVE TypeOK'
  BY <1>17, ReplyTyped DEF Abort
<1>18. ASSUME NEW c \in Conns, Close(c) PROVE TypeOK'
  BY <1>18 DEF Close, CallsTyped, NoCall, Call, Pc
<1>19. CASE Crash
  BY <1>19 DEF Crash, CallsTyped, NoCall, Call, Pc
<1>20. CASE UNCHANGED vars
  BY <1>20 DEF vars, CallsTyped
<1> QED
  BY <1>1, <1>2, <1>3, <1>4, <1>5, <1>6, <1>7, <1>8, <1>9, <1>10, <1>11,
     <1>12, <1>13, <1>14, <1>15, <1>16, <1>17, <1>18, <1>19, <1>20
     DEF Next, Request, Handle

(***************************************************************************)
(* The server keeps its tables and its handlers well typed: in particular  *)
(* every handler that touches a row or a resource has a task.              *)
(***************************************************************************)
THEOREM TypeCorrect == Spec => []TypeOK
BY InitTyped, NextTyped, PTL DEF Spec

-----------------------------------------------------------------------------
(* A task is handed out once each time it enters the queue. *)

\* Inductive: a queued task has not been handed out since it was queued.
HandInv ==
  \A t \in TaskIds :
    /\ handed[t] <= 1
    /\ tasks[t].state \in {"None", "Init"} => handed[t] = 0

\* The steps that write the tasks table.
LEMMA TableStep ==
  ASSUME [Next]_vars
  PROVE  \/ UNCHANGED <<tasks, handed>>
         \/ \E c \in Conns : InsertTask(c) \/ ClaimTodo(c) \/ StoreProof(c)
         \/ \E w \in Workers, t \in TaskIds : RecordError(w, t)
         \/ \E tids \in SUBSET TaskIds, s \in ClientStates :
              UpdateStatusById(tids, s)
BY DEF Next, Request, Handle, vars, AddTask, FetchTodo, RecordProof, Start,
       HasResource, StoreResourceDb, CreateFile, FinishFile, HasTask,
       SelectTodo, FetchTask, DeleteResource, Abort, Close, Crash

LEMMA NextHanded == TypeOK /\ HandInv /\ [Next]_vars => HandInv'
<1> SUFFICES ASSUME TypeOK, HandInv, [Next]_vars PROVE HandInv'
  OBVIOUS
<1> USE DEF TypeOK, Table, Row, HandInv
<1>1. CASE UNCHANGED <<tasks, handed>>
  BY <1>1
<1>2. ASSUME NEW c \in Conns, InsertTask(c) PROVE HandInv'
  <2>1. call[c].task \in TaskIds
    BY <1>2 DEF InsertTask, CallsTyped
  <2>2. handed' = handed /\ \/ tasks' = tasks
                             \/ \E now \in Stamps :
                                  /\ ~has_task(tasks, call[c].task)
                                  /\ tasks' = add_task(tasks, call[c].task, now)
    BY <1>2 DEF InsertTask
  <2> QED
    BY <2>1, <2>2 DEF add_task, NoRow, has_task
<1>3. ASSUME NEW c \in Conns, ClaimTodo(c) PROVE HandInv'
  <2>1. call[c].task \in TaskIds
    BY <1>3 DEF ClaimTodo, CallsTyped
  <2>2. \/ tasks' = tasks /\ handed' = handed
        \/ /\ tasks[call[c].task].state = "Init"
           /\ tasks' = claim_task(tasks, call[c].task, call[c].worker)
           /\ handed' = [handed EXCEPT ![call[c].task] = @ + 1]
    BY <1>3 DEF ClaimTodo
  <2>3. CASE tasks' = tasks /\ handed' = handed
    BY <2>3
  <2>4. CASE /\ tasks[call[c].task].state = "Init"
             /\ tasks' = claim_task(tasks, call[c].task, call[c].worker)
             /\ handed' = [handed EXCEPT ![call[c].task] = @ + 1]
    <3> DEFINE u == call[c].task
    <3>1. handed[u] = 0 /\ handed'[u] = 1 /\ tasks'[u].state = "Running"
      BY <2>1, <2>4 DEF claim_task
    <3>2. \A t \in TaskIds \ {u} : tasks'[t] = tasks[t] /\ handed'[t] = handed[t]
      BY <2>1, <2>4 DEF claim_task
    <3> QED
      BY <3>1, <3>2
  <2> QED
    BY <2>2, <2>3, <2>4
<1>4. ASSUME NEW c \in Conns, StoreProof(c) PROVE HandInv'
  <2>1. call[c].task \in TaskIds
    BY <1>4 DEF StoreProof, CallsTyped
  <2> QED
    BY <1>4, <2>1 DEF StoreProof, record_proof, has_task
<1>5. ASSUME NEW w \in Workers, NEW t \in TaskIds, RecordError(w, t)
      PROVE  HandInv'
  BY <1>5 DEF RecordError, record_error, has_task
<1>6. ASSUME NEW tids \in SUBSET TaskIds, NEW s \in ClientStates,
             UpdateStatusById(tids, s)
      PROVE  HandInv'
  BY <1>6, ClientStatesAssumption
     DEF UpdateStatusById, update_status_by_id, has_task, TaskState
<1> QED
  BY <1>1, <1>2, <1>3, <1>4, <1>5, <1>6, TableStep

(***************************************************************************)
(* Of any number of concurrent Proof.FetchTodo calls, one at most is given *)
(* a task, until an UPDATE puts it back into the queue.                    *)
(***************************************************************************)
THEOREM EachTaskHandedOutOnce == Spec => []HandedOutOnce
<1>1. Init => HandInv
  BY DEF Init, HandInv
<1>2. HandInv => HandedOutOnce
  BY DEF HandInv, HandedOutOnce
<1> QED
  BY <1>1, <1>2, TypeCorrect, NextHanded, PTL DEF Spec

-----------------------------------------------------------------------------
(* What was acknowledged is stored. *)

ProofHasRow == \A t \in TaskIds : tasks[t].proof => has_task(tasks, t)

\* Inductive, of one handler: what it knows of its row at each statement.
HandlerKnows(c) ==
  /\ call[c].op = "record_proof" =>
       call[c].pc \in {"fetch_task", "store_proof", "delete_resource", "done"}
  /\ call[c].pc = "store_proof" => has_task(tasks, call[c].task)
  /\ call[c].pc = "delete_resource" => tasks[call[c].task].proof
  /\ call[c].answer = "ok" =>
       /\ has_task(tasks, call[c].task)
       /\ call[c].op = "record_proof" => tasks[call[c].task].proof

KnowInv == ProofHasRow /\ \A c \in Conns : HandlerKnows(c)

\* No statement deletes a row or a proof.
RowsKept ==
  \A t \in TaskIds :
    /\ has_task(tasks, t) => has_task(tasks', t)
    /\ tasks[t].proof => tasks'[t].proof

LEMMA NextKeepsRows ==
  ASSUME TypeOK, ProofHasRow, [Next]_vars
  PROVE  RowsKept /\ ProofHasRow'
<1> USE DEF TypeOK, Table, Row, ProofHasRow, RowsKept, has_task
<1>1. CASE UNCHANGED <<tasks, handed>>
  BY <1>1
<1>2. ASSUME NEW c \in Conns, InsertTask(c) PROVE RowsKept /\ ProofHasRow'
  <2>1. call[c].task \in TaskIds
    BY <1>2 DEF InsertTask, CallsTyped
  <2>2. \/ tasks' = tasks
        \/ \E now \in Stamps :
             /\ ~has_task(tasks, call[c].task)
             /\ tasks' = add_task(tasks, call[c].task, now)
    BY <1>2 DEF InsertTask
  <2> QED
    BY <2>1, <2>2 DEF add_task, NoRow
<1>3. ASSUME NEW c \in Conns, ClaimTodo(c) PROVE RowsKept /\ ProofHasRow'
  <2>1. call[c].task \in TaskIds
    BY <1>3 DEF ClaimTodo, CallsTyped
  <2>2. \/ tasks' = tasks
        \/ tasks' = claim_task(tasks, call[c].task, call[c].worker)
    BY <1>3 DEF ClaimTodo
  <2>3. CASE tasks' = claim_task(tasks, call[c].task, call[c].worker)
    <3>1. \A t \in TaskIds :
            /\ tasks'[t].proof = tasks[t].proof
            /\ tasks'[t].state \in {tasks[t].state, "Running"}
      BY <2>1, <2>3 DEF claim_task
    <3> QED
      BY <3>1
  <2> QED
    BY <2>2, <2>3
<1>4. ASSUME NEW c \in Conns, StoreProof(c) PROVE RowsKept /\ ProofHasRow'
  <2>1. call[c].task \in TaskIds
    BY <1>4 DEF StoreProof, CallsTyped
  <2> QED
    BY <1>4, <2>1 DEF StoreProof, record_proof
<1>5. ASSUME NEW w \in Workers, NEW t \in TaskIds, RecordError(w, t)
      PROVE  RowsKept /\ ProofHasRow'
  BY <1>5 DEF RecordError, record_error
<1>6. ASSUME NEW tids \in SUBSET TaskIds, NEW s \in ClientStates,
             UpdateStatusById(tids, s)
      PROVE  RowsKept /\ ProofHasRow'
  BY <1>6, ClientStatesAssumption
     DEF UpdateStatusById, update_status_by_id, TaskState
<1> QED
  BY <1>1, <1>2, <1>3, <1>4, <1>5, <1>6, TableStep

\* A handler that does not move, or whose file was taken, knows what it knew.
LEMMA KnowsStill ==
  ASSUME TypeOK, RowsKept, NEW d \in Conns, HandlerKnows(d),
         \/ call'[d] = call[d]
         \/ /\ call[d].pc = "write_file"
            /\ call'[d] = [call[d] EXCEPT !.pc = "write_stale"]
  PROVE  HandlerKnows(d)'
<1>1. CASE call'[d] = call[d]
  BY <1>1 DEF HandlerKnows, RowsKept, TypeOK, CallsTyped, has_task
<1>2. CASE /\ call[d].pc = "write_file"
           /\ call'[d] = [call[d] EXCEPT !.pc = "write_stale"]
  BY <1>2 DEF HandlerKnows, TypeOK, CallsTyped, Call
<1> QED
  BY <1>1, <1>2

LEMMA NextKnows == TypeOK /\ KnowInv /\ [Next]_vars => KnowInv'
<1> SUFFICES ASSUME TypeOK, KnowInv, [Next]_vars PROVE KnowInv'
  OBVIOUS
<1>k. RowsKept /\ ProofHasRow'
  BY NextKeepsRows DEF KnowInv
<1>t. /\ call \in [Conns -> Call]
      /\ \A c \in Conns :
           /\ \/ call[c].pc \notin {"idle", "done", "select_todo"}
              \/ call[c].answer = "ok"
              => call[c].task \in TaskIds
           /\ call[c].answer # "none" => call[c].pc = "done"
  BY DEF TypeOK, CallsTyped
<1>h. ASSUME NEW d \in Conns,
             \/ call'[d] = call[d]
             \/ /\ call[d].pc = "write_file"
                /\ call'[d] = [call[d] EXCEPT !.pc = "write_stale"]
      PROVE  HandlerKnows(d)'
  BY <1>h, <1>k, KnowsStill DEF KnowInv
\* It is enough to look at the handler that moves.
<1>m. ASSUME NEW c \in Conns, NEW r, call' = [call EXCEPT ![c] = r],
             HandlerKnows(c)'
      PROVE  KnowInv'
  <2>1. \A d \in Conns \ {c} : call'[d] = call[d]
    BY <1>m, <1>t
  <2> QED
    BY <1>m, <1>h, <1>k, <2>1 DEF KnowInv
<1>u. CASE UNCHANGED call
  BY <1>u, <1>h, <1>k DEF KnowInv
<1> USE DEF Call, Pc
<1>1. ASSUME NEW c \in Conns, NEW op, NEW pc, NEW t, NEW w,
             op = "record_proof" => pc = "fetch_task",
             pc \notin {"store_proof", "delete_resource"},
             Start(c, op, pc, t, w)
      PROVE  KnowInv'
  <2> DEFINE r == [op |-> op, pc |-> pc, task |-> t, worker |-> w,
                   answer |-> "none"]
  <2>1. call' = [call EXCEPT ![c] = r]
    BY <1>1 DEF Start
  <2>2. HandlerKnows(c)'
    BY <1>1, <1>t, <2>1 DEF HandlerKnows
  <2> QED
    BY <1>m, <2>1, <2>2
<1>2. ASSUME NEW c \in Conns, NEW pc, Goto(c, pc), Working(c),
             call[c].op # "record_proof",
             pc \notin {"store_proof", "delete_resource"}
      PROVE  KnowInv'
  <2> DEFINE r == [call[c] EXCEPT !.pc = pc]
  <2>1. call' = [call EXCEPT ![c] = r]
    BY <1>2 DEF Goto
  <2>2. call'[c].op = call[c].op /\ call'[c].pc = pc /\ call'[c].answer = "none"
    BY <1>2, <1>t, <2>1 DEF Working
  <2>3. HandlerKnows(c)'
    BY <1>2, <2>2 DEF HandlerKnows
  <2> QED
    BY <1>m, <2>1, <2>3
<1>3. ASSUME NEW c \in Conns, NEW a \in {"ok", "error"}, Reply(c, a),
             a = "ok" => has_task(tasks', call[c].task)
                         /\ call[c].op # "record_proof"
      PROVE  KnowInv'
  <2> DEFINE r == [call[c] EXCEPT !.pc = "done", !.answer = a]
  <2>1. call' = [call EXCEPT ![c] = r]
    BY <1>3 DEF Reply
  <2>2. /\ call'[c].op = call[c].op /\ call'[c].pc = "done"
        /\ call'[c].answer = a /\ call'[c].task = call[c].task
    BY <1>3, <1>t, <2>1
  <2>3. HandlerKnows(c)'
    BY <1>3, <2>2 DEF HandlerKnows
  <2> QED
    BY <1>m, <2>1, <2>3
<1>4. ASSUME NEW c \in Conns, NEW t \in TaskIds, AddTask(c, t)
      PROVE  KnowInv'
  BY <1>4, <1>1 DEF AddTask
<1>5. ASSUME NEW c \in Conns, NEW w \in Workers, FetchTodo(c, w)
      PROVE  KnowInv'
  BY <1>5, <1>1 DEF FetchTodo
<1>6. ASSUME NEW c \in Conns, NEW w \in Workers, NEW t \in TaskIds,
             RecordProof(c, w, t)
      PROVE  KnowInv'
  BY <1>6, <1>1 DEF RecordProof
\* The handlers below are add_task and fetch_todo: their pc says so.
<1>o. ASSUME NEW c \in Conns,
             call[c].pc \in {"has_resource", "store_resource", "write_file",
               "write_stale", "has_task", "insert_task", "select_todo",
               "claim_todo"}
      PROVE  call[c].op # "record_proof" /\ Working(c)
  BY <1>o DEF KnowInv, HandlerKnows, Working
<1>7. ASSUME NEW c \in Conns, HasResource(c) PROVE KnowInv'
  BY <1>7, <1>o, <1>2 DEF HasResource
<1>8. ASSUME NEW c \in Conns, StoreResourceDb(c) PROVE KnowInv'
  BY <1>8, <1>o, <1>2, <1>3 DEF StoreResourceDb
<1>9. ASSUME NEW c \in Conns, CreateFile(c) PROVE KnowInv'
  <2>1. call[c].pc = "store_resource"
    BY <1>9 DEF CreateFile
  <2>2. /\ call'[c] = [call[c] EXCEPT !.pc = "write_file"]
        /\ \A d \in Conns \ {c} :
             \/ call'[d] = call[d]
             \/ /\ call[d].pc = "write_file"
                /\ call'[d] = [call[d] EXCEPT !.pc = "write_stale"]
    BY <1>9, CreateFileMoves
  <2>3. HandlerKnows(c)'
    BY <1>t, <1>o, <2>1, <2>2 DEF HandlerKnows
  <2> QED
    BY <1>h, <1>k, <2>2, <2>3 DEF KnowInv
<1>10. ASSUME NEW c \in Conns, FinishFile(c) PROVE KnowInv'
  BY <1>10, <1>o, <1>2 DEF FinishFile
<1>11. ASSUME NEW c \in Conns, HasTask(c) PROVE KnowInv'
  BY <1>11, <1>o, <1>2, <1>3 DEF HasTask
<1>12. ASSUME NEW c \in Conns, InsertTask(c) PROVE KnowInv'
  <2>1. call[c].task \in TaskIds
    BY <1>t, <1>12 DEF InsertTask
  <2>2. CASE /\ Reply(c, "ok")
             /\ \E now \in Stamps : tasks' = add_task(tasks, call[c].task, now)
    <3>1. has_task(tasks', call[c].task)
      BY <2>1, <2>2 DEF add_task, NoRow, has_task, TypeOK, Table
    <3>2. call[c].op # "record_proof"
      BY <1>12, <1>o DEF InsertTask
    <3> QED
      BY <2>2, <3>1, <3>2, <1>3
  <2>3. CASE Reply(c, "error")
    BY <2>3, <1>3
  <2> QED
    BY <1>12, <2>2, <2>3 DEF InsertTask
<1>13. ASSUME NEW c \in Conns, SelectTodo(c) PROVE KnowInv'
  <2>1. call[c].pc = "select_todo" /\ call[c].answer = "none"
    BY <1>t, <1>13 DEF SelectTodo
  <2>2. CASE \E t \in OldestTodo(tasks) :
               call' = [call EXCEPT ![c] = [call[c] EXCEPT
                                              !.pc = "claim_todo", !.task = t]]
    <3>1. PICK t \in OldestTodo(tasks) :
               call' = [call EXCEPT ![c] = [call[c] EXCEPT
                                              !.pc = "claim_todo", !.task = t]]
      BY <2>2
    <3>2. /\ call'[c].op = call[c].op /\ call'[c].pc = "claim_todo"
          /\ call'[c].answer = "none"
      BY <3>1, <2>1, <1>t
    <3>3. HandlerKnows(c)'
      BY <3>2, <2>1, <1>o DEF HandlerKnows
    <3> QED
      BY <3>1, <3>3, <1>m
  <2>3. CASE Reply(c, "error")
    BY <2>3, <1>3
  <2> QED
    BY <1>13, <2>2, <2>3 DEF SelectTodo
<1>14. ASSUME NEW c \in Conns, ClaimTodo(c) PROVE KnowInv'
  <2>1. call[c].task \in TaskIds
    BY <1>t, <1>14 DEF ClaimTodo
  <2>2. CASE /\ Reply(c, "ok")
             /\ tasks' = claim_task(tasks, call[c].task, call[c].worker)
    <3>1. has_task(tasks', call[c].task)
      BY <2>1, <2>2 DEF claim_task, has_task, TypeOK, Table, Row
    <3>2. call[c].op # "record_proof"
      BY <1>14, <1>o DEF ClaimTodo
    <3> QED
      BY <2>2, <3>1, <3>2, <1>3
  <2>3. CASE Reply(c, "error")
    BY <2>3, <1>3
  <2> QED
    BY <1>14, <2>2, <2>3 DEF ClaimTodo
<1>15. ASSUME NEW c \in Conns, FetchTask(c) PROVE KnowInv'
  <2>1. CASE Goto(c, "store_proof") /\ has_task(tasks, call[c].task)
    <3>1. call[c].pc = "fetch_task" /\ UNCHANGED tasks
      BY <1>15 DEF FetchTask
    <3>2. call' = [call EXCEPT ![c] = [call[c] EXCEPT !.pc = "store_proof"]]
      BY <2>1 DEF Goto
    <3>3. /\ call'[c].pc = "store_proof" /\ call'[c].answer = "none"
          /\ call'[c].task = call[c].task
      BY <3>1, <3>2, <1>t
    <3>4. HandlerKnows(c)'
      BY <2>1, <3>1, <3>3 DEF HandlerKnows
    <3> QED
      BY <3>2, <3>4, <1>m
  <2>2. CASE Reply(c, "error")
    BY <2>2, <1>3
  <2> QED
    BY <1>15, <2>1, <2>2 DEF FetchTask
<1>16. ASSUME NEW c \in Conns, StoreProof(c) PROVE KnowInv'
  <2>1. call[c].pc = "store_proof"
    BY <1>16 DEF StoreProof
  <2>2. call' = [call EXCEPT ![c] = [call[c] EXCEPT !.pc = "delete_resource"]]
    BY <1>16 DEF StoreProof, Goto
  <2>3. /\ call'[c].pc = "delete_resource" /\ call'[c].answer = "none"
        /\ call'[c].task = call[c].task
    BY <2>1, <2>2, <1>t
  <2>4. tasks'[call[c].task].proof
    <3>1. call[c].task \in TaskIds /\ has_task(tasks, call[c].task)
      BY <2>1, <1>t DEF KnowInv, HandlerKnows
    <3> QED
      BY <1>16, <3>1 DEF StoreProof, record_proof, TypeOK, Table, Row
  <2>5. HandlerKnows(c)'
    BY <2>3, <2>4 DEF HandlerKnows
  <2> QED
    BY <2>2, <2>5, <1>m
<1>17. ASSUME NEW c \in Conns, DeleteResource(c) PROVE KnowInv'
  <2>1. call[c].pc = "delete_resource" /\ UNCHANGED tasks
    BY <1>17 DEF DeleteResource
  <2>2. PICK a \in {"ok", "error"} :
          call'[c] = [call[c] EXCEPT !.pc = "done", !.answer = a]
    BY <1>17, DeleteResourceMoves
  <2>3. call'[c].pc = "done" /\ call'[c].task = call[c].task
    BY <2>2, <1>t
  <2>4. /\ tasks'[call[c].task].proof /\ call[c].task \in TaskIds
    BY <2>1, <1>t DEF KnowInv, HandlerKnows
  <2>5. has_task(tasks', call[c].task)
    BY <2>4, <1>k DEF ProofHasRow
  <2>6. HandlerKnows(c)'
    BY <2>3, <2>4, <2>5 DEF HandlerKnows
  <2>7. \A d \in Conns \ {c} :
             \/ call'[d] = call[d]
             \/ /\ call[d].pc = "write_file"
                /\ call'[d] = [call[d] EXCEPT !.pc = "write_stale"]
    BY <1>17, DeleteResourceMoves
  <2> QED
    BY <1>h, <1>k, <2>6, <2>7 DEF KnowInv
<1>18. ASSUME NEW c \in Conns, Abort(c) PROVE KnowInv'
  BY <1>18, <1>3 DEF Abort
<1>19. ASSUME NEW c \in Conns, Close(c) PROVE KnowInv'
  <2>1. call' = [call EXCEPT ![c] = NoCall]
    BY <1>19 DEF Close
  <2>2. call'[c] = NoCall
    BY <2>1, <1>t
  <2>3. HandlerKnows(c)'
    BY <2>2 DEF HandlerKnows, NoCall
  <2> QED
    BY <1>m, <2>1, <2>3
<1>20. CASE Crash
  BY <1>20, <1>k DEF Crash, KnowInv, HandlerKnows, NoCall
<1>21. CASE \/ \E w \in Workers, t \in TaskIds : RecordError(w, t)
            \/ \E tids \in SUBSET TaskIds, s \in ClientStates :
                 UpdateStatusById(tids, s)
            \/ UNCHANGED vars
  BY <1>21, <1>u DEF RecordError, UpdateStatusById, vars
<1> QED
  BY <1>4, <1>5, <1>6, <1>7, <1>8, <1>9, <1>10, <1>11, <1>12, <1>13, <1>14,
     <1>15, <1>16, <1>17, <1>18, <1>19, <1>20, <1>21
     DEF Next, Request, Handle

LEMMA InitKnows == Init => KnowInv
BY DEF Init, KnowInv, ProofHasRow, HandlerKnows, EmptyTable, NoRow, NoCall

(***************************************************************************)
(* A submission that was answered with its task id has a row and a proof   *)
(* that was acknowledged is stored, whatever runs at the same time.        *)
(***************************************************************************)
THEOREM AcknowledgedStaysStored == Spec => []AcknowledgedIsStored
<1>1. KnowInv => AcknowledgedIsStored
  BY DEF KnowInv, HandlerKnows, AcknowledgedIsStored
<1> QED
  BY <1>1, InitKnows, TypeCorrect, NextKnows, PTL DEF Spec

-----------------------------------------------------------------------------
(* A task without a proof has a resource. *)

\* Inductive, of one handler: from storing the resource to inserting the row
\* the resource is there, or the proof already is.
HandlerStored(c) ==
  call[c].pc \in {"write_file", "write_stale", "has_task", "insert_task"} =>
    res[CallResource(c)] # "absent" \/ tasks[call[c].task].proof

\* Only a file can be half written.
ResInv ==
  /\ UnprovenTaskHasResource
  /\ \A c \in Conns : HandlerStored(c)
  /\ Backend = "db" => \A r \in Resources : res[r] # "partial"

\* What the inductive step needs of the resources: none goes away but those
\* of proven tasks.
ResourcesKept ==
  \A t \in TaskIds : res[ResourceOf(t)] # "absent" /\ ~tasks[t].proof =>
                        res'[ResourceOf(t)] # "absent"

LEMMA NextKeepsResources ==
  ASSUME UnsharedResources, TypeOK, KnowInv, [Next]_vars
  PROVE  ResourcesKept
<1> USE DEF ResourcesKept, TypeOK
<1>1. CASE UNCHANGED res
  BY <1>1
<1>2. ASSUME NEW c \in Conns, NEW v \in {"partial", "full"},
             res' = [res EXCEPT ![CallResource(c)] = v]
      PROVE  ResourcesKept
  BY <1>2
<1>3. ASSUME NEW c \in Conns, DeleteResource(c) PROVE ResourcesKept
  <2>1. /\ call[c].pc = "delete_resource"
        /\ res' = [res EXCEPT ![CallResource(c)] = "absent"]
    BY <1>3 DEF DeleteResource
  <2>2. call[c].task \in TaskIds /\ tasks[call[c].task].proof
    BY <2>1 DEF KnowInv, HandlerKnows, CallsTyped
  <2>3. \A t \in TaskIds : ResourceOf(t) = CallResource(c) => t = call[c].task
    BY <2>2 DEF UnsharedResources, CallResource
  <2> QED
    BY <2>1, <2>2, <2>3
<1> QED
  BY <1>1, <1>2, <1>3
     DEF Next, Request, Handle, vars, AddTask, FetchTodo, RecordProof, Start,
         HasResource, StoreResourceDb, CreateFile, FinishFile, HasTask,
         InsertTask, SelectTodo, ClaimTodo, FetchTask, StoreProof, Abort,
         Close, Crash, RecordError, UpdateStatusById

\* The handlers that enter the steps of HandlerStored have stored it.
LEMMA NextHandlersStored ==
  ASSUME TypeOK, ResInv, RowsKept, ResourcesKept, [Next]_vars
  PROVE  \A c \in Conns : HandlerStored(c)'
<1> SUFFICES ASSUME NEW d \in Conns,
                    call'[d].pc \in {"write_file", "write_stale", "has_task",
                                     "insert_task"}
             PROVE  \/ res'[ResourceOf(call'[d].task)] # "absent"
                    \/ tasks'[call'[d].task].proof
  BY DEF HandlerStored, CallResource
<1>t. /\ call \in [Conns -> Call]
      /\ \A c \in Conns :
           call[c].pc \notin {"idle", "done", "select_todo"} =>
             call[c].task \in TaskIds
  BY DEF TypeOK, CallsTyped
\* It had stored it before the step and works on the same task.
<1>1. ASSUME call[d].pc \in {"write_file", "write_stale", "has_task",
                             "insert_task"},
             call'[d].task = call[d].task
      PROVE  \/ res'[ResourceOf(call'[d].task)] # "absent"
             \/ tasks'[call'[d].task].proof
  <2>1. call[d].task \in TaskIds
    BY <1>1, <1>t
  <2>2. res[ResourceOf(call[d].task)] # "absent" \/ tasks[call[d].task].proof
    BY <1>1 DEF ResInv, HandlerStored, CallResource
  <2> QED
    BY <1>1, <2>1, <2>2 DEF RowsKept, ResourcesKept
<1>2. ASSUME call'[d] = call[d]
      PROVE  \/ res'[ResourceOf(call'[d].task)] # "absent"
             \/ tasks'[call'[d].task].proof
  BY <1>1, <1>2
<1>3. ASSUME NEW c \in Conns, NEW pc, Goto(c, pc),
             \/ pc \notin {"write_file", "write_stale", "has_task", "insert_task"}
             \/ call[c].pc \in {"write_file", "write_stale", "has_task",
                                "insert_task"}
             \/ /\ call[c].task \in TaskIds
                /\ res'[ResourceOf(call[c].task)] # "absent"
      PROVE  \/ res'[ResourceOf(call'[d].task)] # "absent"
             \/ tasks'[call'[d].task].proof
  <2>1. CASE d # c
    <3>1. call'[d] = call[d]
      BY <1>3, <1>t, <2>1 DEF Goto
    <3> QED
      BY <3>1, <1>2
  <2>2. CASE d = c
    <3>1. call'[d].pc = pc /\ call'[d].task = call[d].task
      BY <1>3, <1>t, <2>2 DEF Goto, Call
    <3> QED
      BY <1>1, <1>3, <2>2, <3>1
  <2> QED
    BY <2>1, <2>2
<1>4. ASSUME NEW c \in Conns, NEW r, call' = [call EXCEPT ![c] = r],
             r.pc \notin {"write_file", "write_stale", "has_task", "insert_task"}
      PROVE  \/ res'[ResourceOf(call'[d].task)] # "absent"
             \/ tasks'[call'[d].task].proof
  <2>1. d # c
    BY <1>4, <1>t
  <2>2. call'[d] = call[d]
    BY <1>4, <1>t, <2>1
  <2> QED
    BY <1>2, <2>2
<1>5. ASSUME NEW c \in Conns, NEW a, Reply(c, a)
      PROVE  \/ res'[ResourceOf(call'[d].task)] # "absent"
             \/ tasks'[call'[d].task].proof
  <2> DEFINE r == [call[c] EXCEPT !.pc = "done", !.answer = a]
  <2>1. call' = [call EXCEPT ![c] = r] /\ r.pc = "done"
    BY <1>5, <1>t DEF Reply, Call
  <2> HIDE DEF r
  <2> QED
    BY <1>4, <2>1
<1>6. ASSUME NEW c \in Conns, NEW op, NEW pc, NEW t, NEW w,
             pc \notin {"write_file", "write_stale", "has_task", "insert_task"},
             Start(c, op, pc, t, w)
      PROVE  \/ res'[ResourceOf(call'[d].task)] # "absent"
             \/ tasks'[call'[d].task].proof
  <2> DEFINE r == [op |-> op, pc |-> pc, task |-> t, worker |-> w,
                   answer |-> "none"]
  <2>1. call' = [call EXCEPT ![c] = r] /\ r.pc = pc
    BY <1>6 DEF Start
  <2> HIDE DEF r
  <2> QED
    BY <1>4, <1>6, <2>1
<1>7. ASSUME NEW c \in Conns, HasResource(c)
      PROVE  \/ res'[ResourceOf(call'[d].task)] # "absent"
             \/ tasks'[call'[d].task].proof
  BY <1>7, <1>3, <1>t DEF HasResource, CallResource
<1>8. ASSUME NEW c \in Conns, StoreResourceDb(c)
      PROVE  \/ res'[ResourceOf(call'[d].task)] # "absent"
             \/ tasks'[call'[d].task].proof
  <2>1. call[c].task \in TaskIds /\ CallResource(c) \in Resources
    BY <1>8, <1>t, ResourceTyped DEF StoreResourceDb, CallResource
  <2>2. CASE res' = [res EXCEPT ![CallResource(c)] = "full"] /\ Goto(c, "has_task")
    <3>1. res'[ResourceOf(call[c].task)] # "absent"
      BY <2>1, <2>2 DEF CallResource, TypeOK
    <3> QED
      BY <2>1, <2>2, <3>1, <1>3
  <2> QED
    BY <1>8, <2>2, <1>5 DEF StoreResourceDb
<1>9. ASSUME NEW c \in Conns, CreateFile(c)
      PROVE  \/ res'[ResourceOf(call'[d].task)] # "absent"
             \/ tasks'[call'[d].task].proof
  <2>1. /\ call[c].task \in TaskIds /\ CallResource(c) \in Resources
        /\ res' = [res EXCEPT ![CallResource(c)] = "partial"]
    BY <1>9, <1>t, ResourceTyped DEF CreateFile, CallResource
  <2>2. res'[ResourceOf(call[c].task)] # "absent"
    BY <2>1 DEF CallResource, TypeOK
  <2>3. CASE d = c
    <3>1. call'[c] = [call[c] EXCEPT !.pc = "write_file"]
      BY <1>9, CreateFileMoves
    <3>2. call'[d].task = call[c].task
      BY <2>3, <3>1, <1>t DEF Call
    <3> QED
      BY <2>2, <3>2
  <2>4. CASE d # c
    <3>1. \/ call'[d] = call[d]
          \/ /\ call[d].pc = "write_file"
             /\ call'[d] = [call[d] EXCEPT !.pc = "write_stale"]
      BY <2>4, <1>9, CreateFileMoves
    <3> QED
      BY <3>1, <1>1, <1>2, <1>t DEF Call
  <2> QED
    BY <2>3, <2>4
<1>10. ASSUME NEW c \in Conns, DeleteResource(c)
       PROVE  \/ res'[ResourceOf(call'[d].task)] # "absent"
              \/ tasks'[call'[d].task].proof
  <2>1. d # c
    <3>1. \E a \in {"ok", "error"} :
            call'[c] = [call[c] EXCEPT !.pc = "done", !.answer = a]
      BY <1>10, DeleteResourceMoves
    <3>2. call'[c].pc = "done"
      BY <3>1, <1>t DEF Call
    <3> QED
      BY <3>2
  <2>2. \/ call'[d] = call[d]
        \/ /\ call[d].pc = "write_file"
           /\ call'[d] = [call[d] EXCEPT !.pc = "write_stale"]
    BY <2>1, <1>10, DeleteResourceMoves
  <2> QED
    BY <2>2, <1>1, <1>2, <1>t DEF Call
<1>11. ASSUME NEW c \in Conns, SelectTodo(c)
       PROVE  \/ res'[ResourceOf(call'[d].task)] # "absent"
              \/ tasks'[call'[d].task].proof
  <2>1. ASSUME NEW t,
               call' = [call EXCEPT ![c] = [call[c] EXCEPT
                                              !.pc = "claim_todo", !.task = t]]
        PROVE  \/ res'[ResourceOf(call'[d].task)] # "absent"
               \/ tasks'[call'[d].task].proof
    <3> DEFINE r == [call[c] EXCEPT !.pc = "claim_todo", !.task = t]
    <3>1. call' = [call EXCEPT ![c] = r] /\ r.pc = "claim_todo"
      BY <2>1, <1>t DEF Call
    <3> HIDE DEF r
    <3> QED
      BY <1>4, <3>1
  <2> QED
    BY <1>11, <2>1, <1>5 DEF SelectTodo
<1>12. ASSUME NEW c \in Conns,
              FinishFile(c) \/ HasTask(c) \/ InsertTask(c) \/ ClaimTodo(c)
                \/ FetchTask(c) \/ StoreProof(c) \/ Abort(c)
       PROVE  \/ res'[ResourceOf(call'[d].task)] # "absent"
              \/ tasks'[call'[d].task].proof
  BY <1>12, <1>3, <1>5
     DEF FinishFile, HasTask, InsertTask, ClaimTodo, FetchTask, StoreProof,
         Abort
<1>13. ASSUME NEW c \in Conns, Close(c)
       PROVE  \/ res'[ResourceOf(call'[d].task)] # "absent"
              \/ tasks'[call'[d].task].proof
  BY <1>13, <1>4 DEF Close, NoCall
<1>14. ~Crash
  BY DEF Crash, NoCall
<1>15. CASE Request
  BY <1>15, <1>2, <1>6
     DEF Request, AddTask, FetchTodo, RecordProof, RecordError,
         UpdateStatusById
<1>16. CASE UNCHANGED vars
  BY <1>16, <1>2 DEF vars
<1> QED
  BY <1>7, <1>8, <1>9, <1>10, <1>11, <1>12, <1>13, <1>14, <1>15, <1>16
     DEF Next, Handle

LEMMA NextResources ==
  ASSUME UnsharedResources, TypeOK, KnowInv, ResInv, [Next]_vars
  PROVE  ResInv'
<1>1. RowsKept /\ ProofHasRow'
  BY NextKeepsRows DEF KnowInv
<1>2. ResourcesKept
  BY NextKeepsResources
<1>3. \A c \in Conns : HandlerStored(c)'
  BY <1>1, <1>2, NextHandlersStored
<1>4. ASSUME NEW t \in TaskIds, has_task(tasks', t), ~tasks'[t].proof
      PROVE  res'[ResourceOf(t)] # "absent"
  <2>1. ~tasks[t].proof
    BY <1>1, <1>4 DEF RowsKept
  <2>2. CASE has_task(tasks, t)
    BY <1>2, <2>1, <2>2 DEF ResInv, UnprovenTaskHasResource, ResourcesKept
  \* The row is new: its handler had seen to the resource.
  <2>3. CASE ~has_task(tasks, t)
    <3>1. PICK c \in Conns : InsertTask(c) /\ call[c].task = t
      <4>1. \E c \in Conns : InsertTask(c) \/ ClaimTodo(c) \/ StoreProof(c)
        <5>1. tasks'[t] # tasks[t]
          BY <1>4, <2>3 DEF has_task
        <5>2. ASSUME NEW w \in Workers, NEW u \in TaskIds, RecordError(w, u)
              PROVE  FALSE
          BY <1>4, <2>3, <5>2 DEF RecordError, record_error, has_task, TypeOK, Table
        <5>3. ASSUME NEW tids \in SUBSET TaskIds, NEW s \in ClientStates,
                     UpdateStatusById(tids, s)
              PROVE  FALSE
          BY <1>4, <2>3, <5>3
             DEF UpdateStatusById, update_status_by_id, has_task, TypeOK, Table
        <5> QED
          BY <5>1, <5>2, <5>3, TableStep
      <4>2. PICK c \in Conns : InsertTask(c) \/ ClaimTodo(c) \/ StoreProof(c)
        BY <4>1
      <4>3. call[c].task \in TaskIds
        BY <4>2 DEF InsertTask, ClaimTodo, StoreProof, TypeOK, CallsTyped
      <4>4. CASE InsertTask(c)
        <5>1. call[c].task = t
          <6>1. \/ tasks' = tasks
                \/ \E now \in Stamps : tasks' = add_task(tasks, call[c].task, now)
            BY <4>4 DEF InsertTask
          <6> QED
            BY <1>4, <2>3, <4>3, <6>1 DEF add_task, has_task, TypeOK, Table
        <5> QED
          BY <4>4, <5>1
      <4>5. CASE ClaimTodo(c)
        <5>1. \/ tasks' = tasks
              \/ /\ tasks[call[c].task].state = "Init"
                 /\ tasks' = claim_task(tasks, call[c].task, call[c].worker)
          BY <4>5 DEF ClaimTodo
        <5> QED
          BY <1>4, <2>3, <4>3, <5>1 DEF claim_task, has_task, TypeOK, Table
      <4>6. CASE StoreProof(c)
        BY <1>4, <2>3, <4>3, <4>6
           DEF StoreProof, record_proof, has_task, TypeOK, Table
      <4> QED
        BY <4>2, <4>4, <4>5, <4>6
    <3>2. res[ResourceOf(t)] # "absent"
      BY <2>1, <3>1 DEF InsertTask, ResInv, HandlerStored, CallResource
    <3> QED
      BY <1>2, <2>1, <3>2 DEF ResourcesKept
  <2> QED
    BY <2>2, <2>3
<1>5. ASSUME Backend = "db" PROVE \A r \in Resources : res'[r] # "partial"
  BY <1>5
     DEF ResInv, TypeOK, Next, Request, Handle, vars, AddTask, FetchTodo,
         RecordProof, Start, HasResource, StoreResourceDb, CreateFile,
         FinishFile, HasTask, InsertTask, SelectTodo, ClaimTodo, FetchTask,
         StoreProof, DeleteResource, Abort, Close, Crash, RecordError,
         UpdateStatusById
<1> QED
  BY <1>3, <1>4, <1>5 DEF ResInv, UnprovenTaskHasResource

LEMMA InitResources == Init => ResInv
BY DEF Init, ResInv, UnprovenTaskHasResource, HandlerStored, EmptyTable,
       NoRow, NoCall, has_task

(***************************************************************************)
(* When no two tasks have the same parameters, a task without a proof has  *)
(* a stored resource: neither concurrent submissions and recordings of the *)
(* same task, nor errors, aborted handlers, resets or crashes lose it.     *)
(***************************************************************************)
THEOREM UnprovenTasksHaveResources ==
  UnsharedResources => (Spec => []UnprovenTaskHasResource)
<1> SUFFICES ASSUME UnsharedResources
             PROVE  Spec => []UnprovenTaskHasResource
  OBVIOUS
<1>1. TypeOK /\ KnowInv /\ ResInv /\ [Next]_vars => ResInv'
  BY NextResources
<1>2. ResInv => UnprovenTaskHasResource
  BY DEF ResInv
<1> QED
  BY <1>1, <1>2, InitKnows, InitResources, TypeCorrect, NextKnows, PTL
     DEF Spec

(***************************************************************************)
(* With the database backend the resource is stored by one INSERT, so the  *)
(* parameters of a task without a proof are complete as well.              *)
(***************************************************************************)
THEOREM UnprovenTasksHaveParameters ==
  UnsharedResources /\ Backend = "db" => (Spec => []UnprovenTaskHasParameters)
<1> SUFFICES ASSUME UnsharedResources, Backend = "db"
             PROVE  Spec => []UnprovenTaskHasParameters
  OBVIOUS
<1>1. TypeOK /\ KnowInv /\ ResInv /\ [Next]_vars => ResInv'
  BY NextResources
<1>2. TypeOK /\ ResInv => UnprovenTaskHasParameters
  BY ResourceTyped
     DEF ResInv, UnprovenTaskHasResource, UnprovenTaskHasParameters, TypeOK
<1> QED
  BY <1>1, <1>2, InitKnows, InitResources, TypeCorrect, NextKnows, PTL
     DEF Spec

-----------------------------------------------------------------------------
(* What the clients of a handler may rely on while it runs. *)

\* Connection d keeps its handler: it does not end before it is done, does
\* not change what it was called for, and selects a task at most once.
HandlerGoesOn(d) ==
  /\ call'[d].op = call[d].op /\ call'[d].worker = call[d].worker
  /\ call[d].pc # "select_todo" => call'[d].task = call[d].task
  /\ call'[d].pc = "select_todo" => call[d].pc = "select_todo"
  /\ call'[d].pc = "idle" => call[d].pc = "idle"
  /\ call[d].pc \in {"idle", "done"} => call'[d] = call[d]

\* A step of Handle(c) or Abort(c) lets every connection go on.
LEMMA HandlersGoOn ==
  ASSUME TypeOK, NEW c \in Conns, Handle(c) \/ Abort(c)
  PROVE  \A d \in Conns : HandlerGoesOn(d)
<1> DEFINE Goal == \A d \in Conns : HandlerGoesOn(d)
<1> SUFFICES Goal
  OBVIOUS
<1>t. call \in [Conns -> Call]
  BY DEF TypeOK, CallsTyped
<1>w. Working(c)
  BY DEF Working, Handle, Abort, HasResource, StoreResourceDb, CreateFile,
         FinishFile, HasTask, InsertTask, SelectTodo, ClaimTodo, FetchTask,
         StoreProof, DeleteResource
<1>1. ASSUME NEW pc \in Pc \ {"idle", "select_todo"}, Goto(c, pc) PROVE Goal
  BY <1>1, <1>t, <1>w DEF Goto, Working, HandlerGoesOn, Call
<1>2. ASSUME NEW a \in {"ok", "error"}, Reply(c, a) PROVE Goal
  BY <1>2, <1>t, <1>w DEF Reply, Working, HandlerGoesOn, Call
<1>m. ASSUME NEW d \in Conns,
             \/ call'[d] = call[d]
             \/ /\ call[d].pc = "write_file"
                /\ call'[d] = [call[d] EXCEPT !.pc = "write_stale"]
      PROVE  HandlerGoesOn(d)
  <2>1. CASE call'[d] = call[d]
    BY <2>1 DEF HandlerGoesOn
  <2>2. CASE /\ call[d].pc = "write_file"
             /\ call'[d] = [call[d] EXCEPT !.pc = "write_stale"]
    BY <2>2, <1>t DEF HandlerGoesOn, Call
  <2> QED
    BY <1>m, <2>1, <2>2
<1>3. CASE CreateFile(c)
  <2>1. /\ call'[c] = [call[c] EXCEPT !.pc = "write_file"]
        /\ \A d \in Conns \ {c} :
             \/ call'[d] = call[d]
             \/ /\ call[d].pc = "write_file"
                /\ call'[d] = [call[d] EXCEPT !.pc = "write_stale"]
    BY <1>3, CreateFileMoves
  <2>2. HandlerGoesOn(c)
    BY <2>1, <1>t, <1>w DEF Working, HandlerGoesOn, Call
  <2>3. ASSUME NEW d \in Conns \ {c} PROVE HandlerGoesOn(d)
    BY <2>1, <1>m
  <2> QED
    BY <2>2, <2>3
<1>4. CASE DeleteResource(c)
  <2>1. PICK a \in {"ok", "error"} :
          call'[c] = [call[c] EXCEPT !.pc = "done", !.answer = a]
    BY <1>4, DeleteResourceMoves
  <2>2. \A d \in Conns \ {c} :
          \/ call'[d] = call[d]
          \/ /\ call[d].pc = "write_file"
             /\ call'[d] = [call[d] EXCEPT !.pc = "write_stale"]
    BY <1>4, DeleteResourceMoves
  <2>3. HandlerGoesOn(c)
    BY <2>1, <1>t, <1>w DEF Working, HandlerGoesOn, Call
  <2>4. ASSUME NEW d \in Conns \ {c} PROVE HandlerGoesOn(d)
    BY <2>2, <1>m
  <2> QED
    BY <2>3, <2>4
<1>5. CASE SelectTodo(c)
  <2>1. CASE OldestTodo(tasks) = {} /\ Reply(c, "error")
    BY <2>1, <1>2
  <2>2. ASSUME NEW t \in OldestTodo(tasks),
               call' = [call EXCEPT ![c] = [@ EXCEPT !.pc = "claim_todo",
                                                     !.task = t]]
        PROVE  Goal
    <3>1. call[c].pc = "select_todo"
      BY <1>5 DEF SelectTodo
    <3>2. call'[c] = [call[c] EXCEPT !.pc = "claim_todo", !.task = t]
      BY <2>2, <1>t
    <3>3. HandlerGoesOn(c)
      BY <3>1, <3>2, <1>t DEF HandlerGoesOn, Call
    <3>4. \A d \in Conns \ {c} : HandlerGoesOn(d)
      BY <2>2, <1>t DEF HandlerGoesOn
    <3> QED
      BY <3>3, <3>4
  <2> QED
    BY <2>1, <2>2, <1>5 DEF SelectTodo
<1>6. CASE \/ HasResource(c) \/ StoreResourceDb(c) \/ FinishFile(c)
           \/ HasTask(c) \/ InsertTask(c) \/ ClaimTodo(c) \/ FetchTask(c)
           \/ StoreProof(c) \/ Abort(c)
  <2>1. \/ \E pc \in Pc \ {"idle", "select_todo"} : Goto(c, pc)
        \/ \E a \in {"ok", "error"} : Reply(c, a)
    BY <1>6 DEF HasResource, StoreResourceDb, FinishFile, HasTask, InsertTask,
                ClaimTodo, FetchTask, StoreProof, Abort, Pc
  <2> QED
    BY <2>1, <1>1, <1>2
<1> QED
  BY <1>3, <1>4, <1>5, <1>6 DEF Handle

\* What a handler writes to the row of task t: only one that works on t does.
HandlerWrites(c, t) ==
  \/ tasks'[t] = tasks[t]
  \/ /\ call[c].task = t
     /\ \/ /\ InsertTask(c) /\ tasks[t].state = "None"
           /\ tasks'[t].state = "Init" /\ ~tasks'[t].proof
        \/ /\ ClaimTodo(c) /\ tasks[t].state = "Init"
           /\ tasks'[t].state = "Running" /\ tasks'[t].proof = tasks[t].proof
        \/ /\ StoreProof(c)
           /\ tasks'[t].state = "Completed" /\ tasks'[t].proof

LEMMA HandlersWrite ==
  ASSUME TypeOK, NEW c \in Conns, Handle(c), NEW t \in TaskIds
  PROVE  HandlerWrites(c, t)
<1>t. tasks \in Table /\ \A u \in TaskIds : tasks[u] \in Row
  BY DEF TypeOK, Table
<1>1. CASE UNCHANGED tasks
  BY <1>1 DEF HandlerWrites
<1>2. CASE InsertTask(c)
  <2> DEFINE u == call[c].task
  <2>1. u \in TaskIds
    BY <1>2 DEF InsertTask, TypeOK, CallsTyped
  <2>2. CASE UNCHANGED tasks
    BY <2>2 DEF HandlerWrites
  <2>3. ASSUME NEW now \in Stamps, ~has_task(tasks, u),
               tasks' = add_task(tasks, u, now)
        PROVE  HandlerWrites(c, t)
    <3>1. /\ tasks'[u].state = "Init" /\ ~tasks'[u].proof
          /\ \A v \in TaskIds \ {u} : tasks'[v] = tasks[v]
      BY <2>1, <2>3, <1>t DEF add_task, NoRow, Table
    <3>2. tasks[u].state = "None"
      BY <2>3 DEF has_task
    <3> QED
      BY <3>1, <3>2, <1>2 DEF HandlerWrites
  <2> QED
    BY <1>2, <2>2, <2>3 DEF InsertTask
<1>3. CASE ClaimTodo(c)
  <2> DEFINE u == call[c].task
  <2>1. u \in TaskIds
    BY <1>3 DEF ClaimTodo, TypeOK, CallsTyped
  <2>2. CASE UNCHANGED tasks
    BY <2>2 DEF HandlerWrites
  <2>3. CASE tasks[u].state = "Init" /\ tasks' = claim_task(tasks, u, call[c].worker)
    <3>1. /\ tasks'[u].state = "Running" /\ tasks'[u].proof = tasks[u].proof
          /\ \A v \in TaskIds \ {u} : tasks'[v] = tasks[v]
      BY <2>1, <2>3, <1>t DEF claim_task, Table, Row
    <3> QED
      BY <2>3, <3>1, <1>3 DEF HandlerWrites
  <2> QED
    BY <1>3, <2>2, <2>3 DEF ClaimTodo
<1>4. CASE StoreProof(c)
  <2> DEFINE u == call[c].task
  <2>1. u \in TaskIds /\ tasks' = record_proof(tasks, u, call[c].worker)
    BY <1>4 DEF StoreProof, TypeOK, CallsTyped
  <2>2. CASE has_task(tasks, u)
    <3>1. /\ tasks'[u].state = "Completed" /\ tasks'[u].proof
          /\ \A v \in TaskIds \ {u} : tasks'[v] = tasks[v]
      BY <2>1, <2>2, <1>t DEF record_proof, Table, Row
    <3> QED
      BY <3>1, <1>4 DEF HandlerWrites
  <2>3. CASE ~has_task(tasks, u)
    BY <2>1, <2>3 DEF record_proof, HandlerWrites
  <2> QED
    BY <2>2, <2>3
<1> QED
  BY <1>1, <1>2, <1>3, <1>4
     DEF Handle, HasResource, StoreResourceDb, CreateFile, FinishFile, HasTask,
         SelectTodo, FetchTask, DeleteResource

\* What a recorded error and a new status leave in the rows.
LEMMA ErrorWrites ==
  ASSUME TypeOK, NEW w, NEW u \in TaskIds, RecordError(w, u), NEW t \in TaskIds
  PROVE  \/ tasks'[t] = tasks[t]
         \/ /\ t = u /\ tasks'[t].state = "Error"
            /\ has_task(tasks, t) /\ tasks'[t].proof = tasks[t].proof
BY DEF RecordError, record_error, TypeOK, Table, Row

LEMMA StatusWrites ==
  ASSUME TypeOK, NEW tids, NEW st, UpdateStatusById(tids, st), NEW t \in TaskIds
  PROVE  \/ tasks'[t] = tasks[t]
         \/ /\ t \in tids /\ tasks'[t].state = st
            /\ has_task(tasks, t) /\ tasks'[t].proof = tasks[t].proof
BY DEF UpdateStatusById, update_status_by_id, TypeOK, Table, Row

\* The other connections: only a file in the middle of its writing is hit.
LEMMA HandlersApart ==
  ASSUME TypeOK, NEW c \in Conns, Handle(c), NEW d \in Conns, d # c
  PROVE  \/ call'[d] = call[d]
         \/ /\ call[d].pc = "write_file"
            /\ call'[d] = [call[d] EXCEPT !.pc = "write_stale"]
<1>t. call \in [Conns -> Call]
  BY DEF TypeOK, CallsTyped
<1>1. CASE CreateFile(c)
  BY <1>1, CreateFileMoves
<1>2. CASE DeleteResource(c)
  BY <1>2, DeleteResourceMoves
<1>3. CASE SelectTodo(c)
  BY <1>3, <1>t DEF SelectTodo, Goto, Reply
<1>4. CASE \/ HasResource(c) \/ StoreResourceDb(c) \/ FinishFile(c)
           \/ HasTask(c) \/ InsertTask(c) \/ ClaimTodo(c) \/ FetchTask(c)
           \/ StoreProof(c)
  <2>1. \/ \E pc \in Pc : Goto(c, pc)
        \/ \E a \in {"ok", "error"} : Reply(c, a)
    BY <1>4 DEF HasResource, StoreResourceDb, FinishFile, HasTask, InsertTask,
                ClaimTodo, FetchTask, StoreProof, Pc
  <2> QED
    BY <2>1, <1>t DEF Goto, Reply
<1> QED
  BY <1>1, <1>2, <1>3, <1>4 DEF Handle

\* A connection is idle or in the statements of what it was called for.
InItsStatements(c) ==
  /\ call[c].op = "none" => call[c].pc = "idle"
  /\ call[c].op = "add_task" =>
       call[c].pc \in {"has_resource", "store_resource", "write_file",
                      "write_stale", "has_task", "insert_task", "done"}
  /\ call[c].op = "fetch_todo" =>
       call[c].pc \in {"select_todo", "claim_todo", "done"}
  /\ call[c].op = "record_proof" =>
       call[c].pc \in {"fetch_task", "store_proof", "delete_resource", "done"}

\* The steps of a handler from its statement pc to the next one.
LEMMA HandlerMoves ==
  ASSUME TypeOK, NEW c \in Conns, Handle(c)
  PROVE  /\ call[c].pc = "has_resource" =>
              call'[c].pc \in {"has_task", "store_resource"}
         /\ call[c].pc = "store_resource" =>
              call'[c].pc \in {"has_task", "write_file", "done"}
         /\ call[c].pc \in {"write_file", "write_stale"} =>
              call'[c].pc = "has_task"
         /\ call[c].pc = "has_task" => call'[c].pc \in {"insert_task", "done"}
         /\ call[c].pc = "insert_task" => call'[c].pc = "done"
         /\ call[c].pc = "select_todo" =>
              call'[c].pc \in {"claim_todo", "done"}
         /\ call[c].pc = "claim_todo" => call'[c].pc = "done"
         /\ call[c].pc = "fetch_task" =>
              \/ call'[c].pc = "store_proof"
              \/ ~has_task(tasks, call[c].task) /\ call'[c].pc = "done"
         /\ call[c].pc = "store_proof" => call'[c].pc = "delete_resource"
         /\ call[c].pc = "delete_resource" => call'[c].pc = "done"
<1> DEFINE q == call[c].pc
<1>t. call \in [Conns -> Call] /\ call[c] \in Call
  BY DEF TypeOK, CallsTyped
<1>g. ASSUME NEW pc \in Pc, Goto(c, pc) PROVE call'[c].pc = pc
  <2>1. call'[c] = [call[c] EXCEPT !.pc = pc]
    BY <1>g, <1>t DEF Goto
  <2> QED
    BY <2>1, <1>t DEF Call
<1>r. ASSUME NEW a \in {"ok", "error"}, Reply(c, a) PROVE call'[c].pc = "done"
  <2>1. call'[c] = [call[c] EXCEPT !.pc = "done", !.answer = a]
    BY <1>r, <1>t DEF Reply
  <2> QED
    BY <2>1, <1>t DEF Call
<1>1. HasResource(c) => q = "has_resource"
                        /\ call'[c].pc \in {"has_task", "store_resource"}
  BY <1>g DEF HasResource, Pc
<1>2. StoreResourceDb(c) => q = "store_resource"
                            /\ call'[c].pc \in {"has_task", "done"}
  BY <1>g, <1>r DEF StoreResourceDb, Pc
<1>3. CreateFile(c) => q = "store_resource" /\ call'[c].pc = "write_file"
  <2>1. CreateFile(c) => call'[c] = [call[c] EXCEPT !.pc = "write_file"]
    BY CreateFileMoves
  <2> QED
    BY <2>1, <1>t DEF CreateFile, Call
<1>4. FinishFile(c) => q \in {"write_file", "write_stale"}
                       /\ call'[c].pc = "has_task"
  BY <1>g DEF FinishFile, Pc
<1>5. HasTask(c) => q = "has_task" /\ call'[c].pc \in {"insert_task", "done"}
  BY <1>g, <1>r DEF HasTask, Pc
<1>6. InsertTask(c) => q = "insert_task" /\ call'[c].pc = "done"
  BY <1>r DEF InsertTask
<1>7. ClaimTodo(c) => q = "claim_todo" /\ call'[c].pc = "done"
  BY <1>r DEF ClaimTodo
<1>8. FetchTask(c) =>
        /\ q = "fetch_task"
        /\ \/ call'[c].pc = "store_proof"
           \/ ~has_task(tasks, call[c].task) /\ call'[c].pc = "done"
  BY <1>g, <1>r DEF FetchTask, Pc
<1>9. StoreProof(c) => q = "store_proof" /\ call'[c].pc = "delete_resource"
  BY <1>g DEF StoreProof, Pc
<1>10. DeleteResource(c) => q = "delete_resource" /\ call'[c].pc = "done"
  <2>1. ASSUME DeleteResource(c) PROVE call'[c].pc = "done"
    <3>1. PICK a \in {"ok", "error"} :
            call'[c] = [call[c] EXCEPT !.pc = "done", !.answer = a]
      BY <2>1, DeleteResourceMoves
    <3> QED
      BY <3>1, <1>t DEF Call
  <2> QED
    BY <2>1 DEF DeleteResource
<1>11. SelectTodo(c) => q = "select_todo" /\ call'[c].pc \in {"claim_todo", "done"}
  <2>1. ASSUME NEW t \in OldestTodo(tasks),
               call' = [call EXCEPT ![c] = [@ EXCEPT !.pc = "claim_todo",
                                                     !.task = t]]
        PROVE  call'[c].pc = "claim_todo"
    <3>1. call'[c] = [call[c] EXCEPT !.pc = "claim_todo", !.task = t]
      BY <2>1, <1>t
    <3> QED
      BY <3>1, <1>t DEF Call
  <2> QED
    BY <2>1, <1>r DEF SelectTodo
<1> HIDE DEF q
<1>12. \/ HasResource(c) \/ StoreResourceDb(c) \/ CreateFile(c) \/ FinishFile(c)
       \/ HasTask(c) \/ InsertTask(c) \/ SelectTodo(c) \/ ClaimTodo(c)
       \/ FetchTask(c) \/ StoreProof(c) \/ DeleteResource(c)
  BY DEF Handle
<1>13. q = call[c].pc
  BY DEF q
<1> QED
  BY <1>1, <1>2, <1>3, <1>4, <1>5, <1>6, <1>7, <1>8, <1>9, <1>10, <1>11,
     <1>12, <1>13

\* The answer of a fetcher's call says whether it claimed the task.
LEMMA ClaimAnswers ==
  ASSUME TypeOK, NEW c \in Conns, ClaimTodo(c)
  PROVE  /\ call'[c].task = call[c].task /\ call[c].task \in TaskIds
         /\ call'[c].answer = "ok" => tasks[call[c].task].state = "Init"
         /\ call'[c].answer = "ok" => tasks'[call[c].task].state = "Running"
         /\ call'[c].answer # "ok" => UNCHANGED tasks
<1>t. /\ call \in [Conns -> Call] /\ call[c] \in Call
      /\ call[c].task \in TaskIds /\ tasks \in Table
  BY DEF TypeOK, CallsTyped, ClaimTodo
<1>r. ASSUME NEW a \in {"ok", "error"}, Reply(c, a)
      PROVE  call'[c].answer = a /\ call'[c].task = call[c].task
  <2>1. call'[c] = [call[c] EXCEPT !.pc = "done", !.answer = a]
    BY <1>r, <1>t DEF Reply
  <2> QED
    BY <2>1, <1>t DEF Call
<1>1. CASE /\ tasks[call[c].task].state = "Init"
           /\ tasks' = claim_task(tasks, call[c].task, call[c].worker)
           /\ Reply(c, "ok")
  <2>1. tasks'[call[c].task].state = "Running"
    BY <1>1, <1>t DEF claim_task, Table, Row
  <2> QED
    BY <2>1, <1>1, <1>r, <1>t
<1>2. CASE UNCHANGED tasks /\ Reply(c, "error")
  BY <1>2, <1>r, <1>t
<1> QED
  BY <1>1, <1>2 DEF ClaimTodo

LEMMA SelectAnswers ==
  ASSUME TypeOK, NEW c \in Conns, SelectTodo(c)
  PROVE  call'[c].answer # "ok"
<1>t. call \in [Conns -> Call] /\ call[c] \in Call /\ call[c].answer = "none"
  BY DEF TypeOK, CallsTyped, SelectTodo
<1>1. ASSUME NEW t \in OldestTodo(tasks),
             call' = [call EXCEPT ![c] = [@ EXCEPT !.pc = "claim_todo",
                                                   !.task = t]]
      PROVE  call'[c].answer = "none"
  <2>1. call'[c] = [call[c] EXCEPT !.pc = "claim_todo", !.task = t]
    BY <1>1, <1>t
  <2> QED
    BY <2>1, <1>t DEF Call
<1>2. ASSUME Reply(c, "error") PROVE call'[c].answer = "error"
  <2>1. call'[c] = [call[c] EXCEPT !.pc = "done", !.answer = "error"]
    BY <1>2, <1>t DEF Reply
  <2> QED
    BY <2>1, <1>t DEF Call
<1> QED
  BY <1>1, <1>2 DEF SelectTodo

\* Of a row that exists, the UPDATEs leave what they set.
LEMMA RowsWritten ==
  ASSUME TypeOK, NEW t \in TaskIds, has_task(tasks, t)
  PROVE  /\ \A c \in Conns :
              StoreProof(c) /\ call[c].task = t => tasks'[t].state = "Completed"
         /\ \A w \in Workers : RecordError(w, t) => tasks'[t].state = "Error"
<1>t. tasks \in Table /\ tasks[t] \in Row
  BY DEF TypeOK, Table
<1>1. ASSUME NEW c \in Conns, StoreProof(c), call[c].task = t
      PROVE  tasks'[t].state = "Completed"
  <2>1. tasks' = record_proof(tasks, t, call[c].worker)
    BY <1>1 DEF StoreProof
  <2> QED
    BY <2>1, <1>t DEF record_proof, Table, Row
<1>2. ASSUME NEW w \in Workers, RecordError(w, t)
      PROVE  tasks'[t].state = "Error"
  BY <1>2, <1>t DEF RecordError, record_error, Table, Row
<1> QED
  BY <1>1, <1>2

\* One handler moves at a time.
LEMMA OneHandler ==
  ASSUME TypeOK, NEW c \in Conns, NEW d \in Conns, Handle(c), Handle(d)
  PROVE  c = d
<1> SUFFICES ASSUME c # d PROVE FALSE
  OBVIOUS
<1>t. call \in [Conns -> Call] /\ call[d] \in Call
  BY DEF TypeOK, CallsTyped
<1>1. \/ call'[d] = call[d]
      \/ /\ call[d].pc = "write_file"
         /\ call'[d] = [call[d] EXCEPT !.pc = "write_stale"]
  BY HandlersApart
<1>2. \/ call'[d].pc = call[d].pc
      \/ call[d].pc = "write_file" /\ call'[d].pc = "write_stale"
  BY <1>1, <1>t DEF Call
<1>3. Working(d)
  BY DEF Working, Handle, HasResource, StoreResourceDb, CreateFile,
         FinishFile, HasTask, InsertTask, SelectTodo, ClaimTodo, FetchTask,
         StoreProof, DeleteResource
<1>4. call[d].pc \in {"has_resource", "store_resource", "write_file",
                     "write_stale", "has_task", "insert_task", "select_todo",
                     "claim_todo", "fetch_task", "store_proof",
                     "delete_resource"}
  BY <1>3, <1>t DEF Working, Call, Pc
<1> QED
  BY <1>2, <1>4, HandlerMoves

=============================================================================
