---------------------------- MODULE WorkersState ----------------------------
(***************************************************************************)
(* The registry of workers: the workers_states table, to which every       *)
(* worker process reports once a minute (worker.rs register, db_ops.rs     *)
(* report_worker_info), and from which the operator deletes rows and asks  *)
(* who has gone silent (gpuproxy/src/cli/worker_states.rs).                *)
(*                                                                         *)
(* A report is a SELECT and then an UPDATE or an INSERT, with no           *)
(* transaction, stamped between the two; the operator's delete is two      *)
(* calls of one statement each.  The seconds of the server's clock are     *)
(* numbers, and the clock does not go back.                                *)
(***************************************************************************)
EXTENDS Integers, FiniteSets

CONSTANTS
  Workers,   \* worker ids
  RowIds,    \* uuids for new rows
  Conns,     \* connections: how many reports may be in progress
  NoWorker, NoRow,
  MaxClock,  \* bounds the clock
  MaxReports \* reports of one worker id in progress at a time: 1, unless two
             \* processes have the id or a worker gave up on a late report

ASSUME ReportsAssumption == MaxReports \in Nat \ {0}
ASSUME ConnsAssumption == IsFiniteSet(Conns)
ASSUME ClockAssumption == MaxClock \in Nat
ASSUME NoneAssumption ==
  NoWorker \notin Workers \cup RowIds /\ NoRow \notin RowIds

VARIABLES
  rows,   \* row id -> its row, if it has one
  used,   \* the row ids generated so far: a uuid is not generated twice
  call,   \* connection -> the report it handles
  delete, \* the argument of `worker delete`, between its two calls
  clock,
  heard,  \* history: worker -> the stamp of its last report that was
          \* acknowledged, or of one that was stamped before and stored after
          \* it; -1 when it has had none since it was deleted
  gone    \* history: the rows that delete commands were to remove

vars == <<rows, used, call, delete, clock, heard, gone>>

Never == -1

NoRecord == [worker_id |-> NoWorker, update_at |-> 0]
Idle == [pc |-> "idle", worker |-> NoWorker, row |-> NoRow, at |-> 0]

RowsOf(w) == {id \in RowIds : rows[id].worker_id = w}
ReportsOf(w) == {c \in Conns : call[c].worker = w}

Init ==
  /\ rows = [id \in RowIds |-> NoRecord]
  /\ used = {}
  /\ call = [c \in Conns |-> Idle]
  /\ delete = {}
  /\ clock = 0
  /\ heard = [w \in Workers |-> Never]
  /\ gone = {}

-----------------------------------------------------------------------------
(* Proof.ReportWorkerInfo *)

\* interval.tick() of the worker's loop, which awaits its report.
Report(c, w) ==
  /\ call[c].pc = "idle"
  /\ Cardinality(ReportsOf(w)) < MaxReports
  /\ call' = [call EXCEPT ![c] = [Idle EXCEPT !.pc = "find", !.worker = w]]
  /\ UNCHANGED <<rows, used, delete, clock, heard, gone>>

\* Mutants: the answer of the SELECT is not looked at, and the row always
\* inserted or always updated.
FindInserts(c) ==
  /\ call[c].pc = "find"
  /\ call' = [call EXCEPT ![c] = [@ EXCEPT !.pc = "insert", !.at = clock]]
  /\ UNCHANGED <<rows, used, delete, clock, heard, gone>>

FindUpdates(c) ==
  /\ call[c].pc = "find"
  /\ \E id \in RowsOf(call[c].worker) \cup {NoRow} :
       call' = [call EXCEPT ![c] = [@ EXCEPT !.pc = "update", !.row = id,
                                             !.at = clock]]
  /\ UNCHANGED <<rows, used, delete, clock, heard, gone>>

\* find().one: any one of the worker's rows; then the stamp is taken.
Find(c) ==
  /\ call[c].pc = "find"
  /\ \/ \E id \in RowsOf(call[c].worker) :
          call' = [call EXCEPT ![c] = [@ EXCEPT !.pc = "update", !.row = id,
                                                !.at = clock]]
     \/ /\ RowsOf(call[c].worker) = {}
        /\ call' = [call EXCEPT ![c] = [@ EXCEPT !.pc = "insert", !.at = clock]]
  /\ UNCHANGED <<rows, used, delete, clock, heard, gone>>

Earlier(m, n) == IF m < n THEN m ELSE n

\* The row is written; the worker is told so, or the answer is lost.
Stored(c, id) ==
  /\ rows' = [rows EXCEPT ![id] = [worker_id |-> call[c].worker,
                                   update_at |-> call[c].at]]
  /\ \/ heard' = [heard EXCEPT ![call[c].worker] = call[c].at]
     \/ heard' = [heard EXCEPT ![call[c].worker] = Earlier(@, call[c].at)]
  /\ call' = [call EXCEPT ![c] = Idle]
  /\ UNCHANGED <<delete, clock, gone>>

Fail(c) ==
  /\ call' = [call EXCEPT ![c] = Idle]
  /\ UNCHANGED <<rows, used, delete, clock, heard, gone>>

\* Mutants: update_at is left as it was; an UPDATE of no row is a success.
UpdateKeepsStamp(c) ==
  /\ call[c].pc = "update"
  /\ rows[call[c].row].worker_id = call[c].worker
  /\ heard' = [heard EXCEPT ![call[c].worker] = call[c].at]
  /\ call' = [call EXCEPT ![c] = Idle]
  /\ UNCHANGED <<rows, used, delete, clock, gone>>

UpdateUnchecked(c) ==
  /\ call[c].pc = "update"
  /\ \/ /\ rows[call[c].row] # NoRecord
        /\ Stored(c, call[c].row)
        /\ UNCHANGED used
     \/ /\ rows[call[c].row] = NoRecord
        /\ heard' = [heard EXCEPT ![call[c].worker] = call[c].at]
        /\ call' = [call EXCEPT ![c] = Idle]
        /\ UNCHANGED <<rows, used, delete, clock, gone>>

\* The UPDATE by primary key is an error when the row was deleted meanwhile.
Update(c) ==
  /\ call[c].pc = "update"
  /\ \/ /\ rows[call[c].row] # NoRecord
        /\ Stored(c, call[c].row)
        /\ UNCHANGED used
     \/ rows[call[c].row] = NoRecord /\ Fail(c)

Insert(c) ==
  /\ call[c].pc = "insert"
  /\ \E id \in RowIds \ used : Stored(c, id) /\ used' = used \cup {id}

\* A statement fails, the server dies, or the worker does not wait.
Abort(c) ==
  /\ call[c].pc # "idle"
  /\ Fail(c)

-----------------------------------------------------------------------------
(* `gpuproxy worker delete <id>`: a call that takes the argument for the   *)
(* id of a row, then a call that takes it for a worker id                  *)

Delete(ids) ==
  /\ rows' = [id \in RowIds |-> IF id \in ids THEN NoRecord ELSE rows[id]]
  /\ heard' = [w \in Workers |->
                 IF RowsOf(w) \cap ids # {} THEN Never ELSE heard[w]]
  /\ UNCHANGED <<used, call, clock>>

DeleteWorkerById(id) ==
  /\ delete = {}
  /\ Delete(used \cap {id})
  /\ delete' = {id}
  /\ gone' = gone \cup (used \cap {id})

\* Mutant: the second call, too, takes its argument for the id of a row.
DeleteWorkerByIdAgain(id) ==
  /\ id \in delete
  /\ Delete(used \cap {id})
  /\ delete' = {}
  /\ gone' = gone \cup RowsOf(id)

DeleteWorkerByWorkerId(id) ==
  /\ id \in delete
  /\ Delete(RowsOf(id))
  /\ delete' = {}
  /\ gone' = gone \cup RowsOf(id)

\* A call fails: the command ends, and the second is not made.
DeleteFails ==
  /\ delete # {}
  /\ delete' = {}
  /\ UNCHANGED <<rows, used, call, clock, heard, gone>>

Tick ==
  /\ clock < MaxClock
  /\ clock' = clock + 1
  /\ UNCHANGED <<rows, used, call, delete, heard, gone>>

Handle(c) == Find(c) \/ Update(c) \/ Insert(c)

Next ==
  \/ \E c \in Conns :
       \/ \E w \in Workers : Report(c, w)
       \/ Handle(c) \/ Abort(c)
  \/ \E id \in used \cup Workers :
       DeleteWorkerById(id) \/ DeleteWorkerByWorkerId(id)
  \/ DeleteFails
  \/ Tick

Spec == Init /\ [][Next]_vars

-----------------------------------------------------------------------------
\* The workers `gpuproxy worker offline` shows.
get_offline_worker(dur) ==
  {rows[id].worker_id :
     id \in {i \in RowIds : rows[i] # NoRecord /\ rows[i].update_at < clock - dur}}

\* The types of the table and the handlers.
TypeOK ==
  /\ rows \in [RowIds -> [worker_id : Workers \cup {NoWorker},
                          update_at : 0..MaxClock]]
  /\ call \in [Conns -> [pc : {"idle", "find", "update", "insert"},
                         worker : Workers \cup {NoWorker},
                         row : RowIds \cup {NoRow},
                         at : 0..MaxClock]]
  /\ \A c \in Conns : /\ call[c].worker = NoWorker <=> call[c].pc = "idle"
                      /\ call[c].row # NoRow <=> call[c].pc = "update"
  /\ used \in SUBSET RowIds /\ gone \in SUBSET used
  /\ delete \in SUBSET (used \cup Workers) /\ Cardinality(delete) <= 1
  /\ clock \in 0..MaxClock
  /\ heard \in [Workers -> {Never} \cup (0..MaxClock)]

(***************************************************************************)
(* A worker has no more rows than reports that may overlap, however long   *)
(* it reports and whatever is deleted: reports that found no row insert    *)
(* one each, and no later one does while a row is left.  With one report   *)
(* at a time worker_id is `unique` (entity/src/workers_state.rs:11).       *)
(***************************************************************************)
RowsWithinReports == \A w \in Workers : Cardinality(RowsOf(w)) <= MaxReports

(***************************************************************************)
(* A worker whose report was acknowledged is listed, with the time of that *)
(* report or a later one, until its row is deleted: a report that raced    *)
(* with a delete is not acknowledged.  Only a report that was stamped      *)
(* before and stored after it puts its time back.                          *)
(***************************************************************************)
HeardIsListed ==
  \A w \in Workers : heard[w] # Never =>
    \E id \in RowsOf(w) : rows[id].update_at >= heard[w]

(***************************************************************************)
(* A worker that reported within the last `dur` seconds is not among the   *)
(* offline ones, unless overlapping reports gave it a second row, which    *)
(* nobody refreshes.                                                       *)
(***************************************************************************)
OfflineIsSilent ==
  \A dur \in 0..MaxClock, w \in Workers :
    w \in get_offline_worker(dur) =>
      heard[w] < clock - dur \/ Cardinality(RowsOf(w)) > 1

(***************************************************************************)
(* What `worker delete` removed, given the id of the row or of the worker, *)
(* stays removed: a report that found the row before does not bring it     *)
(* back.                                                                   *)
(***************************************************************************)
DeletedIsGone == \A id \in gone : rows[id] = NoRecord
=============================================================================
