----------------------------- MODULE LocalWorker -----------------------------
(***************************************************************************)
(* LocalWorker::process_tasks (gpuproxy/src/proxy_rpc/worker.rs): one life *)
(* of the worker process, its tokio tasks, channels and counter.           *)
(*                                                                         *)
(*   fetcher   asks the server for tasks, sends them into the channel      *)
(*             `chan` of capacity max_task and counts them;                *)
(*   executor  selects between a task in `chan`, whose resource it reads   *)
(*             (with retries) before it spawns the computation, and a      *)
(*             result, which it records with the server and uncounts;      *)
(*   spawned   computations send into the result channel of capacity 1.    *)
(*                                                                         *)
(* Every await is a point where the others may run.  A job is one delivery *)
(* of a task by the server; a job that left the worker stands for a new    *)
(* delivery when it is fetched again.  The server may refuse any request.  *)
(***************************************************************************)
EXTENDS Integers, Sequences, FiniteSets, SequencesExt

CONSTANTS
  Jobs,
  NoJob,
  MaxTask,    \* --max-tasks
  RetrySum,   \* RETRY_SUM: retries of reading a resource
  MaxUsize    \* usize::MAX, where the atomic counter wraps around

\* tokio's channel(0) panics, so a worker that started has a slot.
ASSUME MaxTaskAssumption == MaxTask \in Nat \ {0}
ASSUME RetryAssumption == RetrySum \in Nat
ASSUME UsizeAssumption == MaxUsize \in Nat /\ MaxTask < MaxUsize
ASSUME JobsAssumption == IsFiniteSet(Jobs) /\ NoJob \notin Jobs

VARIABLES
  fpc,          \* where the fetcher is
  pending,      \* un_complete_task_result
  select_task,  \* the fetcher's task
  chan,         \* tx / rx
  count,        \* tasks sent and not yet recorded or given up
  epc,          \* where the executor is
  undo_task,    \* the executor's task
  retry_count,
  spawned,      \* jobs computed, or waiting to send their result
  result        \* result_tx / result_rx

fetcher == <<fpc, pending, select_task>>
executor == <<epc, undo_task, retry_count>>
vars == <<fpc, pending, select_task, chan, count, epc, undo_task,
          retry_count, spawned, result>>

Init ==
  /\ fpc = "uncompleted"
  /\ pending = <<>>
  /\ select_task = NoJob
  /\ chan = <<>>
  /\ count = 0
  /\ epc = "select"
  /\ undo_task = NoJob
  /\ retry_count = 0
  /\ spawned = {}
  /\ result = NoJob

\* AtomicUsize::fetch_add and fetch_sub wrap around.
Inc(n) == IF n = MaxUsize THEN 0 ELSE n + 1
Dec(n) == IF n = 0 THEN MaxUsize ELSE n - 1

\* The jobs the worker has started on, and all it has.
Active == (({select_task, undo_task, result} \ {NoJob}) \cup Range(chan))
            \cup spawned
Held == Active \cup Range(pending)

-----------------------------------------------------------------------------
(* The fetcher *)

\* fetch_uncompleted answers with the tasks this worker id left Running, in
\* any number; an error panics the fetcher, which drops tx.
FetchUncompleted ==
  /\ fpc = "uncompleted"
  /\ \E S \in SUBSET Jobs : pending' \in SetToSeqs(S)
  /\ fpc' = "tick"
  /\ UNCHANGED <<select_task, chan, count, executor, spawned, result>>

FetchUncompletedFails ==
  /\ fpc = "uncompleted"
  /\ fpc' = "panicked"
  /\ UNCHANGED <<pending, select_task, chan, count, executor, spawned, result>>

\* Mutant: the last unfinished task is read and not popped.
TickPendingKeeps ==
  /\ fpc = "tick"
  /\ count < MaxTask
  /\ pending # <<>>
  /\ select_task' = Last(pending)
  /\ fpc' = "send"
  /\ UNCHANGED <<pending, chan, count, executor, spawned, result>>

\* interval.tick() with a free slot; without one the fetcher waits for the
\* next tick.
TickPending ==
  /\ fpc = "tick"
  /\ count < MaxTask
  /\ pending # <<>>
  /\ select_task' = Last(pending)
  /\ pending' = Front(pending)
  /\ fpc' = "send"
  /\ UNCHANGED <<chan, count, executor, spawned, result>>

\* Mutants: a slot too many; new tasks before the unfinished ones.
TickFetchOneMore ==
  /\ fpc = "tick"
  /\ count <= MaxTask
  /\ pending = <<>>
  /\ fpc' = "fetch"
  /\ UNCHANGED <<pending, select_task, chan, count, executor, spawned, result>>

TickFetchAnyway ==
  /\ fpc = "tick"
  /\ count < MaxTask
  /\ fpc' = "fetch"
  /\ UNCHANGED <<pending, select_task, chan, count, executor, spawned, result>>

TickFetch ==
  /\ fpc = "tick"
  /\ count < MaxTask
  /\ pending = <<>>
  /\ fpc' = "fetch"
  /\ UNCHANGED <<pending, select_task, chan, count, executor, spawned, result>>

FetchOneTodo ==
  /\ fpc = "fetch"
  /\ \/ /\ select_task' \in Jobs \ Held
        /\ fpc' = "send"
     \/ /\ fpc' = "tick"
        /\ UNCHANGED select_task
  /\ UNCHANGED <<pending, chan, count, executor, spawned, result>>

SendTask ==
  /\ fpc = "send"
  /\ Len(chan) < MaxTask
  /\ chan' = Append(chan, select_task)
  /\ select_task' = NoJob
  /\ fpc' = "count"
  /\ UNCHANGED <<pending, count, executor, spawned, result>>

CountTask ==
  /\ fpc = "count"
  /\ count' = Inc(count)
  /\ fpc' = "tick"
  /\ UNCHANGED <<pending, select_task, chan, executor, spawned, result>>

Fetcher ==
  \/ FetchUncompleted \/ FetchUncompletedFails
  \/ TickPending \/ TickFetch
  \/ FetchOneTodo \/ SendTask \/ CountTask

-----------------------------------------------------------------------------
(* The executor *)

RecvTask ==
  /\ epc = "select"
  /\ chan # <<>>
  /\ undo_task' = Head(chan)
  /\ chan' = Tail(chan)
  /\ retry_count' = 1
  /\ epc' = "resource"
  /\ UNCHANGED <<fetcher, count, spawned, result>>

\* The channel is closed and empty: an error is logged, and again after 60s.
RecvNone ==
  /\ epc = "select"
  /\ chan = <<>>
  /\ fpc = "panicked"
  /\ epc' = "closed"
  /\ UNCHANGED <<fetcher, chan, count, undo_task, retry_count, spawned, result>>

Reselect ==
  /\ epc = "closed"
  /\ epc' = "select"
  /\ UNCHANGED <<fetcher, chan, count, undo_task, retry_count, spawned, result>>

ResourceOk ==
  /\ epc = "resource"
  /\ spawned' = spawned \cup {undo_task}
  /\ undo_task' = NoJob
  /\ epc' = "select"
  /\ UNCHANGED <<fetcher, chan, count, retry_count, result>>

\* Mutant: one retry too many.
ResourceRetryOneMore ==
  /\ epc = "resource"
  /\ retry_count <= RetrySum + 1
  /\ retry_count' = retry_count + 1
  /\ UNCHANGED <<fetcher, chan, count, epc, undo_task, spawned, result>>

ResourceRetry ==
  /\ epc = "resource"
  /\ retry_count <= RetrySum
  /\ retry_count' = retry_count + 1
  /\ UNCHANGED <<fetcher, chan, count, epc, undo_task, spawned, result>>

\* Mutant: the early `continue` without the fetch_sub.
GiveUpUncounted ==
  /\ epc = "resource"
  /\ retry_count > RetrySum
  /\ undo_task' = NoJob
  /\ epc' = "select"
  /\ UNCHANGED <<fetcher, chan, count, retry_count, spawned, result>>

\* The task is dropped without telling the server.
GiveUp ==
  /\ epc = "resource"
  /\ retry_count > RetrySum
  /\ count' = Dec(count)
  /\ undo_task' = NoJob
  /\ epc' = "select"
  /\ UNCHANGED <<fetcher, chan, retry_count, spawned, result>>

\* Mutant: the result frees its slot on arrival and again when recorded.
RecvResultUncounting ==
  /\ epc = "select"
  /\ result # NoJob
  /\ undo_task' = result
  /\ result' = NoJob
  /\ count' = Dec(count)
  /\ epc' = "record"
  /\ UNCHANGED <<fetcher, chan, retry_count, spawned>>

RecvResult ==
  /\ epc = "select"
  /\ result # NoJob
  /\ undo_task' = result
  /\ result' = NoJob
  /\ epc' = "record"
  /\ UNCHANGED <<fetcher, chan, count, retry_count, spawned>>

\* Mutant: an error of the call skips the fetch_sub.
RecordResultUncounted ==
  /\ epc = "record"
  /\ undo_task' = NoJob
  /\ count' \in {count, Dec(count)}
  /\ epc' = "select"
  /\ UNCHANGED <<fetcher, chan, retry_count, spawned, result>>

\* record_proof or record_error; an error of the call is only logged, and
\* the deferred fetch_sub runs in any case.
RecordResult ==
  /\ epc = "record"
  /\ undo_task' = NoJob
  /\ count' = Dec(count)
  /\ epc' = "select"
  /\ UNCHANGED <<fetcher, chan, retry_count, spawned, result>>

ReadResource == ResourceOk \/ ResourceRetry \/ GiveUp

Executor ==
  \/ RecvTask \/ RecvNone \/ Reselect
  \/ ReadResource
  \/ RecvResult \/ RecordResult

-----------------------------------------------------------------------------
(* The computations *)

\* c2 returned, with a proof, an error or a caught panic, and there is room
\* in the result channel.
SendResult(j) ==
  /\ j \in spawned
  /\ result = NoJob
  /\ result' = j
  /\ spawned' = spawned \ {j}
  /\ UNCHANGED <<fetcher, chan, count, executor>>

Next == Fetcher \/ Executor \/ \E j \in Jobs : SendResult(j)

Spec == Init /\ [][Next]_vars

(***************************************************************************)
(* tokio polls every task that is ready, requests end (HTTP_TIMEOUT), and  *)
(* computations end.  tokio::select! polls its branches in random order,   *)
(* so a branch that is ready again and again is taken; senders of a full   *)
(* channel are served first come, first served.                            *)
(***************************************************************************)
Fairness ==
  /\ WF_vars(Fetcher)
  /\ WF_vars(ReadResource) /\ WF_vars(RecordResult) /\ WF_vars(Reselect)
  /\ SF_vars(RecvTask) /\ SF_vars(RecvResult)
  /\ \A j \in Jobs : SF_vars(SendResult(j))

FairSpec == Spec /\ Fairness

-----------------------------------------------------------------------------
One(j) == IF j = NoJob THEN 0 ELSE 1

\* The tasks that occupy a slot: from tx.send to the fetch_sub.
Load == Len(chan) + One(undo_task) + Cardinality(spawned) + One(result)

TypeOK ==
  /\ fpc \in {"uncompleted", "tick", "fetch", "send", "count", "panicked"}
  /\ pending \in Seq(Jobs)
  /\ select_task \in Jobs \cup {NoJob}
  /\ select_task # NoJob <=> fpc = "send"
  /\ chan \in Seq(Jobs)
  /\ count \in 0..MaxUsize
  /\ epc \in {"select", "resource", "record", "closed"}
  /\ undo_task \in Jobs \cup {NoJob}
  /\ undo_task # NoJob <=> epc \in {"resource", "record"}
  /\ retry_count \in 0..(RetrySum + 1)
  /\ spawned \in SUBSET Jobs
  /\ IsFiniteSet(spawned)
  /\ result \in Jobs \cup {NoJob}

(***************************************************************************)
(* The count the fetcher compares with max_task is the number of tasks in  *)
(* the worker, although a task is sent before it is counted: a task that   *)
(* is over before it is counted takes the counter below zero, to           *)
(* usize::MAX, but only while the fetcher is about to add it.              *)
(***************************************************************************)
CountIsLoad ==
  IF fpc = "count" THEN Inc(count) = Load ELSE count = Load

(***************************************************************************)
(* `max-tasks: how many tasks can run at most` (README.MD): the worker     *)
(* never has more than max_task tasks, the one in the fetcher's hands      *)
(* included, however its tasks interleave.                                 *)
(***************************************************************************)
CapacityBound == Load + One(select_task) <= MaxTask

(***************************************************************************)
(* The worker computes a delivered task once: a job is in one place only   *)
(* of the unfinished list, the fetcher, the channel, the executor, the     *)
(* computations and the result channel.                                    *)
(***************************************************************************)
HeldOnce ==
  /\ IsInjective(pending) /\ IsInjective(chan)
  /\ Range(pending) \cap Active = {}
  /\ Range(chan) \cap (spawned \cup {select_task, undo_task, result}) = {}
  /\ spawned \cap {select_task, undo_task, result} = {}
  /\ select_task # NoJob => select_task \notin {undo_task, result}
  /\ undo_task # NoJob => undo_task # result

(***************************************************************************)
(* Every task the worker gets leaves it: no slot is leaked and no channel  *)
(* is blocked for ever, whatever the server answers.                       *)
(***************************************************************************)
EveryJobLeaves == \A j \in Jobs : j \in Held ~> j \notin Held

(***************************************************************************)
(* A worker whose start-up request succeeded asks for new tasks for ever.  *)
(***************************************************************************)
KeepsAsking == []<>(fpc \in {"fetch", "panicked"})

-----------------------------------------------------------------------------
\* The worker implements WorkerSlots.
Slots == INSTANCE WorkerSlots WITH
           recovered <- fpc \notin {"uncompleted", "panicked"},
           waiting   <- Range(pending),
           active    <- Active

ImplementsSlots == Slots!SlotsSpec
=============================================================================
