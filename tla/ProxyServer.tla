----------------------------- MODULE ProxyServer -----------------------------
(***************************************************************************)
(* The gpuproxy server: the RPC handlers of gpuproxy/src/proxy_rpc/rpc.rs  *)
(* over the task table (DbOps) and the resource store                      *)
(* (gpuproxy/src/resource/mod.rs), for ARBITRARY clients.                  *)
(*                                                                         *)
(* Handlers run concurrently on a multi-threaded runtime.  A handler that  *)
(* issues several statements takes one step per statement, so that every   *)
(* interleaving of every `await` is explored; a handler of one statement   *)
(* is one atomic step.  Any statement may fail, and a handler may be       *)
(* dropped between two of them when its client hangs up (Abort); the       *)
(* process may crash, which loses the handlers and keeps the database and  *)
(* the files (Crash).                                                      *)
(***************************************************************************)
EXTENDS DbOps

CONSTANTS
  Conns,          \* connections: how many handlers may run at a time
  NoTask,
  Backend,        \* "db" (DbResource) or "fs" (FileResource)
  ClientStates    \* the states clients pass to Proof.UpdateStatusById

ASSUME BackendAssumption == Backend \in {"db", "fs"}
ASSUME ClientStatesAssumption == ClientStates \subseteq TaskState
ASSUME NoTaskAssumption == NoTask \notin TaskIds

VARIABLES
  tasks,    \* the tasks table
  res,      \* resource id -> "absent", "partial" (file half written), "full"
  call,     \* connection -> the handler it runs
  handed    \* history: how often a task was handed out since it last
            \* entered the queue

vars == <<tasks, res, call, handed>>

Pc == {"idle", "done",
       "has_resource", "store_resource", "write_file", "write_stale",
       "has_task", "insert_task",
       "select_todo", "claim_todo",
       "fetch_task", "store_proof", "delete_resource"}

Call == [op : {"none", "add_task", "fetch_todo", "record_proof"}, pc : Pc,
         task : TaskIds \cup {NoTask}, worker : Workers \cup {NoWorker},
         answer : {"none", "ok", "error"}]

NoCall == [op |-> "none", pc |-> "idle", task |-> NoTask,
           worker |-> NoWorker, answer |-> "none"]

Init ==
  /\ tasks = EmptyTable
  /\ res = [r \in Resources |-> "absent"]
  /\ call = [c \in Conns |-> NoCall]
  /\ handed = [t \in TaskIds |-> 0]

-----------------------------------------------------------------------------
Start(c, op, pc, t, w) ==
  /\ call[c].pc = "idle"
  /\ call' = [call EXCEPT ![c] = [op |-> op, pc |-> pc, task |-> t,
                                  worker |-> w, answer |-> "none"]]
  /\ UNCHANGED <<tasks, res, handed>>

Goto(c, pc) == call' = [call EXCEPT ![c].pc = pc]

Reply(c, answer) ==
  call' = [call EXCEPT ![c] = [@ EXCEPT !.pc = "done", !.answer = answer]]

\* The resource of the task connection c works on.
CallResource(c) == ResourceOf(call[c].task)

-----------------------------------------------------------------------------
(* Proof.SubmitC2Task and Proof.AddTask: both end in add_task_inner. *)

AddTask(c, t) == Start(c, "add_task", "has_resource", t, NoWorker)

HasResource(c) ==
  /\ call[c].pc = "has_resource"
  /\ Goto(c, IF res[CallResource(c)] # "absent" THEN "has_task"
                                                ELSE "store_resource")
  /\ UNCHANGED <<tasks, res, handed>>

\* DbResource: one INSERT, which the primary key refuses when another
\* handler stored the same bytes first.
StoreResourceDb(c) ==
  /\ call[c].pc = "store_resource"
  /\ Backend = "db"
  /\ \/ /\ res[CallResource(c)] = "absent"
        /\ res' = [res EXCEPT ![CallResource(c)] = "full"]
        /\ Goto(c, "has_task")
     \/ /\ res[CallResource(c)] # "absent"
        /\ Reply(c, "error")
        /\ UNCHANGED res
  /\ UNCHANGED <<tasks, handed>>

\* The other handlers in the middle of writing file r: the file they write
\* into was truncated or unlinked under them.
Stale(r, c) ==
  [d \in Conns |-> IF /\ d # c
                      /\ call[d].pc = "write_file"
                      /\ CallResource(d) = r
                   THEN [call[d] EXCEPT !.pc = "write_stale"]
                   ELSE call[d]]

\* FileResource: fs::write truncates or creates the file, then writes it.
CreateFile(c) ==
  /\ call[c].pc = "store_resource"
  /\ Backend = "fs"
  /\ res' = [res EXCEPT ![CallResource(c)] = "partial"]
  /\ call' = [Stale(CallResource(c), c) EXCEPT ![c].pc = "write_file"]
  /\ UNCHANGED <<tasks, handed>>

FinishFile(c) ==
  /\ call[c].pc \in {"write_file", "write_stale"}
  /\ res' = IF call[c].pc = "write_file"
            THEN [res EXCEPT ![CallResource(c)] = "full"]
            ELSE res
  /\ Goto(c, "has_task")
  /\ UNCHANGED <<tasks, handed>>

HasTask(c) ==
  /\ call[c].pc = "has_task"
  /\ IF has_task(tasks, call[c].task) THEN Reply(c, "ok")
                                      ELSE Goto(c, "insert_task")
  /\ UNCHANGED <<tasks, res, handed>>

\* The INSERT fails on the primary key when the row appeared meanwhile.
InsertTask(c) ==
  /\ call[c].pc = "insert_task"
  /\ \/ /\ ~has_task(tasks, call[c].task)
        /\ \E now \in Stamps :
             tasks' = add_task(tasks, call[c].task, now)
        /\ Reply(c, "ok")
     \/ /\ has_task(tasks, call[c].task)
        /\ Reply(c, "error")
        /\ UNCHANGED tasks
  /\ UNCHANGED <<res, handed>>

-----------------------------------------------------------------------------
(* Proof.FetchTodo: one transaction of a SELECT and a guarded UPDATE. *)

FetchTodo(c, w) == Start(c, "fetch_todo", "select_todo", NoTask, w)

\* Mutant: the empty answer of the SELECT is not looked at.
SelectTodoUnchecked(c) ==
  /\ call[c].pc = "select_todo"
  /\ \/ \E t \in OldestTodo(tasks) :
          call' = [call EXCEPT ![c] = [@ EXCEPT !.pc = "claim_todo",
                                                !.task = t]]
     \/ OldestTodo(tasks) = {} /\ Goto(c, "claim_todo")
  /\ UNCHANGED <<tasks, res, handed>>

SelectTodo(c) ==
  /\ call[c].pc = "select_todo"
  /\ \/ \E t \in OldestTodo(tasks) :
          call' = [call EXCEPT ![c] = [@ EXCEPT !.pc = "claim_todo",
                                                !.task = t]]
     \/ OldestTodo(tasks) = {} /\ Reply(c, "error")
  /\ UNCHANGED <<tasks, res, handed>>

\* Mutant: the UPDATE without its filter on the state.
ClaimTodoUnfiltered(c) ==
  /\ call[c].pc = "claim_todo"
  /\ tasks' = claim_task(tasks, call[c].task, call[c].worker)
  /\ handed' = [handed EXCEPT ![call[c].task] = @ + 1]
  /\ Reply(c, "ok")
  /\ UNCHANGED res

\* The UPDATE is filtered on state = Init: rows_affected = 0 is an error.
\* The row stays locked until the commit, so reading it back is this step.
ClaimTodo(c) ==
  /\ call[c].pc = "claim_todo"
  /\ \/ /\ tasks[call[c].task].state = "Init"
        /\ tasks' = claim_task(tasks, call[c].task, call[c].worker)
        /\ handed' = [handed EXCEPT ![call[c].task] = @ + 1]
        /\ Reply(c, "ok")
     \/ /\ tasks[call[c].task].state # "Init"
        /\ Reply(c, "error")
        /\ UNCHANGED <<tasks, handed>>
  /\ UNCHANGED res

-----------------------------------------------------------------------------
(* Proof.RecordProof: fetch the row, store the proof, delete the resource. *)

\* Mutant: the row is not fetched first, and the UPDATE of a missing row is
\* no error.
RecordProofUnfetched(c, w, t) == Start(c, "record_proof", "store_proof", t, w)

RecordProof(c, w, t) == Start(c, "record_proof", "fetch_task", t, w)

\* Mutant: the resource is deleted before the proof is stored.
FetchTaskDeletesFirst(c) ==
  /\ call[c].pc = "fetch_task"
  /\ has_task(tasks, call[c].task)
  /\ res' = [res EXCEPT ![CallResource(c)] = "absent"]
  /\ Goto(c, "store_proof")
  /\ UNCHANGED <<tasks, handed>>

FetchTask(c) ==
  /\ call[c].pc = "fetch_task"
  /\ IF has_task(tasks, call[c].task) THEN Goto(c, "store_proof")
                                      ELSE Reply(c, "error")
  /\ UNCHANGED <<tasks, res, handed>>

StoreProof(c) ==
  /\ call[c].pc = "store_proof"
  /\ tasks' = record_proof(tasks, call[c].task, call[c].worker)
  /\ Goto(c, "delete_resource")
  /\ UNCHANGED <<res, handed>>

\* DELETE of a missing row is fine, unlinking a missing file is an error.
DeleteResource(c) ==
  /\ call[c].pc = "delete_resource"
  /\ res' = [res EXCEPT ![CallResource(c)] = "absent"]
  /\ call' = [Stale(CallResource(c), c) EXCEPT ![c] =
                [@ EXCEPT !.pc = "done",
                          !.answer = IF \/ Backend = "db"
                                        \/ res[CallResource(c)] # "absent"
                                     THEN "ok" ELSE "error"]]
  /\ UNCHANGED <<tasks, handed>>

-----------------------------------------------------------------------------
(* Handlers of one statement. *)

RecordError(w, t) ==
  /\ tasks' = record_error(tasks, t, w)
  /\ UNCHANGED <<res, call, handed>>

UpdateStatusById(tids, status) ==
  /\ tasks' = update_status_by_id(tasks, tids, status)
  /\ handed' = [t \in TaskIds |->
                  IF t \in tids /\ has_task(tasks, t) /\ status = "Init"
                  THEN 0 ELSE handed[t]]
  /\ UNCHANGED <<res, call>>

-----------------------------------------------------------------------------
Working(c) == call[c].pc \notin {"idle", "done"}

\* Mutant: the error of store_resource_info is dropped with its result.
AbortKeepsGoing(c) ==
  /\ Working(c)
  /\ IF call[c].pc = "store_resource" THEN Goto(c, "has_task")
                                      ELSE Reply(c, "error")
  /\ UNCHANGED <<tasks, res, handed>>

\* A statement or a file operation fails, or the client hung up and the
\* handler is dropped at an await.
Abort(c) ==
  /\ Working(c)
  /\ Reply(c, "error")
  /\ UNCHANGED <<tasks, res, handed>>

\* The reply is delivered, or lost with its connection.
Close(c) ==
  /\ call[c].pc = "done"
  /\ call' = [call EXCEPT ![c] = NoCall]
  /\ UNCHANGED <<tasks, res, handed>>

\* The server process dies and is started again on its database and files.
Crash ==
  /\ call # [c \in Conns |-> NoCall]
  /\ call' = [c \in Conns |-> NoCall]
  /\ UNCHANGED <<tasks, res, handed>>

\* The step the handler of connection c takes next.
Handle(c) ==
  \/ HasResource(c)
  \/ StoreResourceDb(c)
  \/ CreateFile(c)
  \/ FinishFile(c)
  \/ HasTask(c)
  \/ InsertTask(c)
  \/ SelectTodo(c)
  \/ ClaimTodo(c)
  \/ FetchTask(c)
  \/ StoreProof(c)
  \/ DeleteResource(c)

Request ==
  \/ \E c \in Conns, t \in TaskIds : AddTask(c, t)
  \/ \E c \in Conns, w \in Workers : FetchTodo(c, w)
  \/ \E c \in Conns, w \in Workers, t \in TaskIds : RecordProof(c, w, t)
  \/ \E w \in Workers, t \in TaskIds : RecordError(w, t)
  \/ \E tids \in SUBSET TaskIds, s \in ClientStates : UpdateStatusById(tids, s)

Next ==
  \/ Request
  \/ \E c \in Conns : Handle(c) \/ Abort(c) \/ Close(c)
  \/ Crash

Spec == Init /\ [][Next]_vars

-----------------------------------------------------------------------------
\* A handler that touches a row or a resource, or that succeeded, has a
\* task; only a handler that is done has an answer.
CallsTyped ==
  /\ call \in [Conns -> Call]
  /\ \A c \in Conns :
       /\ \/ call[c].pc \notin {"idle", "done", "select_todo"}
          \/ call[c].answer = "ok"
          => call[c].task \in TaskIds
       /\ call[c].answer # "none" => call[c].pc = "done"

\* The types of the tables and the handlers.
TypeOK ==
  /\ tasks \in Table
  /\ res \in [Resources -> {"absent", "partial", "full"}]
  /\ CallsTyped
  /\ handed \in [TaskIds -> Nat]

(***************************************************************************)
(* A task is given to one worker each time it enters the queue: of several *)
(* Proof.FetchTodo that selected the same row, the UPDATE filtered on      *)
(* state = Init (db_ops.rs fetch_one_todo) lets one through.               *)
(***************************************************************************)
HandedOutOnce == \A t \in TaskIds : handed[t] <= 1

(***************************************************************************)
(* Whatever add_task_inner and record_proof interleave with, a task whose  *)
(* proof is not stored still has a stored resource: the resource is stored *)
(* before the row and deleted after the proof.                             *)
(***************************************************************************)
UnprovenTaskHasResource ==
  \A t \in TaskIds :
    has_task(tasks, t) /\ ~tasks[t].proof => res[ResourceOf(t)] # "absent"

(***************************************************************************)
(* The same, of the whole parameters: the resource a worker will read for  *)
(* a task without a proof is there and complete, so that the task can be   *)
(* computed.                                                               *)
(***************************************************************************)
UnprovenTaskHasParameters ==
  \A t \in TaskIds :
    has_task(tasks, t) /\ ~tasks[t].proof => res[ResourceOf(t)] = "full"

(***************************************************************************)
(* What an answer promises: a submission that was acknowledged has a row,  *)
(* through whichever exit of add_task_inner it left, and a proof that was  *)
(* acknowledged by Proof.RecordProof is stored, through any later call.    *)
(***************************************************************************)
AcknowledgedIsStored ==
  \A c \in Conns :
    call[c].answer = "ok" =>
      /\ has_task(tasks, call[c].task)
      /\ call[c].op = "record_proof" => tasks[call[c].task].proof
=============================================================================
