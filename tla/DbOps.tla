-------------------------------- MODULE DbOps --------------------------------
(***************************************************************************)
(* The `tasks` table of the gpuproxy database and the SQL statements that  *)
(* gpuproxy/src/proxy_rpc/db_ops.rs issues on it, as pure operators from a *)
(* table to a table.  One operator is one statement: it is the unit of     *)
(* atomicity the database gives to the RPC handlers of ProxyServer.        *)
(*                                                                         *)
(* A table is a function from task ids to rows; a row that was never       *)
(* inserted has state "None" (rows are never deleted).  Of a row we keep   *)
(* the columns the program decides on: state, worker_id, whether `proof`   *)
(* and `error_msg` hold anything, and create_at, the sort key of the       *)
(* queue.                                                                  *)
(***************************************************************************)
EXTENDS Naturals

CONSTANTS
  Miners,      \* miner addresses
  Resources,   \* task parameters: the bytes and the uuid-v5 of the bytes
  TaskIds,     \* the tasks clients may submit, as pairs <<miner, resource>>
  Workers,     \* worker ids
  NoWorker,    \* the empty worker_id of a row nobody has claimed
  Stamps       \* the seconds a create_at may show

ASSUME WorkerAssumption == NoWorker \notin Workers
ASSUME StampAssumption == Stamps \subseteq Nat /\ 0 \in Stamps

(***************************************************************************)
(* utils::gen_task_id hashes the miner address, the task type (C2, the     *)
(* only one) and the resource id, and gen_resource_id hashes the bytes, so *)
(* a task id stands for the pair: two miners that submit the same bytes    *)
(* get two tasks with one resource.                                        *)
(***************************************************************************)
gen_task_id(miner, resource) == <<miner, resource>>

\* The tasks of all miners and parameters.
AllTaskIds == {gen_task_id(m, r) : m \in Miners, r \in Resources}

ASSUME TaskIdAssumption == TaskIds \subseteq AllTaskIds

\* The resource_id column of a row, fixed when the row is inserted.
ResourceOf(t) == t[2]

\* No two submitted tasks have the same parameters.
UnsharedResources ==
  \A s, t \in TaskIds : ResourceOf(s) = ResourceOf(t) => s = t

TaskState == {"Undefined", "Init", "Running", "Error", "Completed"}

Row == [state     : TaskState \cup {"None"},
        worker_id : Workers \cup {NoWorker},
        proof     : BOOLEAN,
        error_msg : BOOLEAN,
        create_at : Stamps]

Table == [TaskIds -> Row]

NoRow == [state |-> "None", worker_id |-> NoWorker, proof |-> FALSE,
          error_msg |-> FALSE, create_at |-> 0]

EmptyTable == [t \in TaskIds |-> NoRow]

-----------------------------------------------------------------------------
(* Queries *)

has_task(tbl, t) == tbl[t].state # "None"

\* The rows of fetch_one_todo's first query: state Init, smallest create_at.
\* Rows of the same second are returned in an unspecified order.
OldestTodo(tbl) ==
  {t \in TaskIds :
     /\ tbl[t].state = "Init"
     /\ \A s \in TaskIds : tbl[s].state = "Init" =>
                             tbl[t].create_at <= tbl[s].create_at}

\* The rows fetch_uncompleted returns to worker w.
fetch_uncompleted(tbl, w) ==
  {t \in TaskIds : tbl[t].state = "Running" /\ tbl[t].worker_id = w}

-----------------------------------------------------------------------------
(* Updates *)

\* The stamp `now` is the wall clock, read before the INSERT is sent: a row
\* that arrives later may carry an earlier or an equal create_at.
add_task(tbl, t, now) ==
  [tbl EXCEPT ![t] = [NoRow EXCEPT !.state = "Init", !.create_at = now]]

claim_task(tbl, t, w) ==
  [tbl EXCEPT ![t] = [@ EXCEPT !.state = "Running", !.worker_id = w]]

\* Mutant: an error empties the proof column, as a new row's.
record_error_clears_proof(tbl, t, w) ==
  IF has_task(tbl, t)
  THEN [tbl EXCEPT ![t] = [@ EXCEPT !.state = "Error", !.worker_id = w,
                                    !.proof = FALSE, !.error_msg = TRUE]]
  ELSE tbl

\* update_many touches only rows that exist.
record_error(tbl, t, w) ==
  IF has_task(tbl, t)
  THEN [tbl EXCEPT ![t] = [@ EXCEPT !.state = "Error", !.worker_id = w,
                                    !.error_msg = TRUE]]
  ELSE tbl

record_proof(tbl, t, w) ==
  IF has_task(tbl, t)
  THEN [tbl EXCEPT ![t] = [@ EXCEPT !.state = "Completed", !.worker_id = w,
                                    !.proof = TRUE, !.error_msg = FALSE]]
  ELSE tbl

update_status_by_id(tbl, tids, status) ==
  [t \in TaskIds |-> IF t \in tids /\ has_task(tbl, t)
                     THEN [tbl[t] EXCEPT !.state = status]
                     ELSE tbl[t]]

=============================================================================
