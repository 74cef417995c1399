# gpuproxy in TLA+

gpuproxy takes the C2 proof computations of Filecoin miners, queues them in a
database and hands them to GPU workers.  A computation takes the better part of
an hour on expensive hardware, so what can go wrong is seldom one bad answer
and mostly an order of events: a proof lost after it was computed, a task given
to two workers or to none, parameters deleted under a task that needs them, a
slot of a worker that is never given back.  These modules model the parts that
decide about that, TLC checks them on small instances, and TLAPS proves every
safety property and both refinements for all instances; what concerns liveness is
checked by TLC only.

Paths below are relative to `src/gpuproxy/src/` unless they start with `src/`.

## 1. The system

    venus-cluster --stdin/stdout--> cluster_c2_plugin --JSON-RPC--> gpuproxy server --SQL--> database
                                                                      ^   |                (or files)
    operator (gpuproxy task/worker ...) --------- JSON-RPC -----------+   |
    gpuproxy_worker (GPU machine) -- JSON-RPC: fetch, resource, result ---+

| component | state | operations |
|---|---|---|
| task table (`proxy_rpc/db_ops.rs`, `src/entity`, `src/migration`) | rows of `tasks`: state Undefined, Init, Running, Error, Completed; worker_id, proof, error_msg, create_at | add_task, has_task, fetch, fetch_one_todo, fetch_uncompleted, record_error, record_proof, update_status_by_id; one SQL statement each, except fetch_one_todo, a transaction |
| resource store (`resource/mod.rs`, `db_ops.rs`) | the parameters of tasks by resource id, in the database or in files | has, get, store, delete |
| RPC server (`proxy_rpc/rpc.rs`, `http_server`) | none of its own: handlers run concurrently, one per request | Proof.SubmitC2Task, AddTask, FetchTodo, FetchUncomplete, RecordProof, RecordError, UpdateStatusById, ReportWorkerInfo, DeleteWorker*, and read-only ones |
| worker process (`proxy_rpc/worker.rs`) | fetcher task, executor task, one computation per task, channel of capacity max_task, result channel of capacity 1, an atomic counter, the list of unfinished tasks | process_tasks, register |
| worker registry (`db_ops.rs`, `cli/worker_states.rs`) | rows of `workers_states`: worker_id, update_at | report, delete by id and by worker id, list offline |
| cluster_c2_plugin (`cluster_c2_plugin/main.rs`) | one tokio task per request read from stdin | get the task, reset it or add it, poll until it ends, write the answer |
| worker identity (`db_ops.rs` get_worker_id) | one row of `worker_infos` in the process's own database | find or insert at start |
| migrations (`src/migration`) | the schema; seaql_migrations, the versions that were applied | Migrator::up: four migrations, thirteen statements |
| start-up (`gpuproxy/main.rs` start_server, `gpuproxy_worker/main.rs` run_worker) | where the process is | migrate, find or insert the worker id, ask for the unfinished tasks |
| parameter fetch (`cli/params_fetch`) | files in the parameter cache, the ipget binary | check digests, get ipget, download, check again |
| operator commands (`cli/tasks.rs`, `cli/worker_states.rs`) | | force a state of tasks, delete a worker in two calls, list |
| Go client (`src/gpuproxy-go`) | | generated JSON-RPC stub |

How they interact: everything but the worker's own state is in the database
(and the files); the plugin, the workers and the operator reach it through RPC
calls, each of which may be lost, answered late or cut off by a crash.  No
component pushes anything to another: the plugin and the workers poll.

### What is hard here

* Handlers issue several statements outside a transaction (`add_task_inner`,
  `record_proof`, `report_worker_info`); all interleavings of them are possible.
* `fetch_one_todo` is a transaction, but two of them can read the same row.
* The plugin acts on a task state it read in an earlier call.
* A call may take effect and its answer be lost, or take effect when its caller
  gave it up long ago; nothing is retried except by the plugin's next request or
  by the restart of a worker.
* The worker counts a task *after* it sent it, so it can be over before it is
  counted, and the `AtomicUsize` goes below zero.
* Server, workers and plugin restart independently on what is stored.
* A start is a dozen statements without a transaction, and dies between any two.

`PROJECT.json` lists these hazards at their lines, with the properties that
watch them and those that no property covers yet, and why.

### What makes the components correct

* server: a task goes to one worker per entry into the queue; a task without a
  proof keeps its parameters; an acknowledged call has taken effect for good.
* worker: never more than `max_task` tasks, each delivered task computed once,
  unfinished ones first, no slot leaked, no channel blocked for ever.
* whole system: an answer is a stored proof, or an error recorded since it was asked; no
  task is computed twice at a time and no result undone when the clients keep
  their side; every request is answered, and after faults again.
* registry: one row per worker, or as many as reports of it overlap; a worker that
  reports is listed and not offline; what was deleted stays deleted.
* start-up: a process that serves has the whole schema; it finds the identity its
  unfinished tasks are filed under; a failed start can be repeated.
* parameter fetch: it ends, with every file complete, and spoils no good one.

## 2. The modules

`DbOps` <- `ProxyServer` <- `Cluster` is the main line, and `Cluster` implements
`ProofService`; `LocalWorker` implements `WorkerSlots`; `WorkersState`, `Startup`
and `ParamsFetch` stand alone.  `MC*` modules give small instances,
`*_proofs` modules hold the theorems.

**DbOps** -- the `tasks` table as a function from task ids to rows, and each SQL
statement as an operator from table to table.  A task id is the pair of miner
and resource, because `gen_task_id` hashes just these; a resource is identified
with its uuid-v5.  Rows are never deleted; a row not inserted has state "None".
create_at stays because it is the sort key of the queue; the columns nothing
decides on are left out.

**ProxyServer** -- the RPC handlers, for arbitrary clients.  `call[c]` is the
handler of connection `c` with its program counter; a handler takes one step
per SQL statement or file operation, so every `await` is a point of
interleaving.  `Abort` is a statement that fails or a handler that is dropped;
`Crash` drops them all and keeps tables and files.  `Backend` selects
`DbResource` or `FileResource`.  A file is written in two steps, of which other
handlers see the first: `fs::write` creates or truncates, then writes.  A handler
whose file was truncated or unlinked by another meanwhile (`write_stale`) makes
no file complete: the conservative reading.  The SQL transaction of
`fetch_one_todo` is two steps, the SELECT and the guarded UPDATE, which is what
read committed isolation gives.  `handed` is a history variable: hand-outs since
the task entered the queue.

**WorkerSlots**, **LocalWorker** -- the abstract promise of a worker, and
`process_tasks` with its two tokio tasks, its computations, its channels and its
counter, which wraps at `MaxUsize`.  Actions of the fetcher are FetchUncompleted
to CountTask, those of the executor RecvTask to RecordResult, in the order of
the code; the outcome of `c2` (proof, error, caught panic) does not change the
path of a task, so SendResult stands for all three.  A job is one delivery of a
task.  `ImplementsSlots` is the refinement mapping.

**ProofService**, **Cluster** -- the abstract promise to venus-cluster (a request is
answered once, with a stored proof that is never lost again, with an error of the
task that was recorded while it was open, or with the error of a call), and
plugin, server and workers together.  The server is `INSTANCE ProxyServer`; the
worker is what LocalWorker refines: slots, unfinished tasks and a fetcher call.
A call of several statements is a handler of ProxyServer that the client awaits;
a call of one statement takes effect in the step that issues it, and what the
client does with the answer is a later step.  When the client gave it up before,
it takes effect at any later time: `late` holds the resets and the recorded errors
(`ResetLost`, `RecordErrorLost`) that the server may still carry out
(`CarryOutLate`); two of them that are alike are one.  A worker that reads a file cut
short hands it to c2, which fails (stage "garbage").

While `faulty`, calls fail before or after they take effect, time out while the
server is still busy with them, and server, workers and plugin die and restart at
any point.  A call whose handler died with the server (`Unanswered`) times out,
also after the faults.  `Calm` is the end of the faults: the operator stops the
workers, the server finishes everything it was asked for, late calls included,
and the workers are started again.  `Exclusive` is what venus-cluster is expected to
do: one open request per task.  `plugin[p].failed` is history: an error was recorded for
the task, in time or late, while the request was open.

**WorkersState** -- the registry: report (SELECT, then the stamp, then UPDATE or
INSERT; the answer may be lost after the write), the two calls of `gpuproxy worker
delete`, and a clock.  `MaxReports` bounds the reports of one worker id in progress
at a time: a worker awaits each of its reports, so it is 1, unless two processes have
the id or the worker timed out on a report the server still handles.  `heard` (the
stamp of the last acknowledged report, put back only by one that was stamped before
and stored after it) and `gone` (the rows that delete commands were to remove) are
history.

**Startup** -- `start_server` and `run_worker` up to the first request of the
fetcher.  `Script` is the list of the statements of the four migrations with the
record of each version; `made` is the set of those that took effect, in whatever
process.  `Migrate` runs the next one that was pending when the process read
seaql_migrations; what cannot be run twice depends on the database (`Tolerated`).
Then `Find`, `Insert`, `Resume` and, from the rest of the system, only that tasks
are taken and finished under the id.  With `shared`, two processes use one
database at once.  sea-orm-migration itself is external and modelled by how
`Migrator::up` is used.

**ParamsFetch** -- one run of the command after the other on one cache directory.
A file is absent, wrong or good; a check looks at one file per step; ipget may
leave anything in a file whether it reports success or not, because the code
does not use what it reports.

## 3. The runs

States are distinct states; bounds are the constants of each `.cfg`.

| run | question | instance | states |
|---|---|---|---|
| ProxyServerDb | server with parameters in the database | 2 tasks, 2 handlers, 1 worker id, stamps {0,1} | 921k |
| ProxyServerFs | server with parameters in files, operator forcing states | 1 task, 3 handlers, 2 workers | 253k |
| LocalWorker | a worker's safety, refinement and liveness | 4 jobs, 2 slots, 2 retries, counter 0..4 | 7k |
| ClusterFaults | answers under loss, late calls, time-out, crash and restart of every part; recovery | 1 request, 1 worker of 1 slot, parameters in files, fairness | 607k |
| ClusterRaces | answers under races of requests and workers | 2 requests, 2 workers of 2 slots, no faults | 1.5M |
| ClusterExclusive | one place per task, results kept, requests answered | 2 tasks, 2 requests, 2 workers of 1 slot, one stamp, fairness | 83k |
| WorkersState | registry with overlapping reports | 2 workers, 2 reports (of one worker or of two), 4 rows, clock 0..2 | 260k |
| Startup | migrations, identity and unfinished tasks through crashes of the start | 2 processes, 2 ids, 1 task, sqlite and mysql, shared or not, fairness | 8k |
| ParamsFetch | completeness and end of the parameter fetch | 2 files to fetch and 2 not, fairness | 20k |
| ProxyServerShared, ProxyServerFsTorn, ClusterReset | the findings of section 6 | smallest that shows it | - |

Why the bounds are enough.  The races of the server are between two handlers of one
task (submit/submit, submit/record, fetch/fetch), and a third matters only for files,
where one handler can be between two that disturb it; a second task is there for the
order of the queue.  Two stamps distinguish older, younger and the same second.  The
worker's counter is at its edges with two slots: a task can be over before it is
counted while another runs; four jobs leave always two that are unfinished or new.
`MaxUsize` needs to be larger than `MaxTask` only, so that zero and the wrapped value
are different from every load.  In Cluster the safety properties speak of one task; a
second request is what makes a stale reset, a second worker what makes a double
computation, and a second task is what can be overtaken (ClusterExclusive).  In
ClusterFaults one request is closed and asked again without bound, so a task goes
through any number of tries, and the files make torn parameters part of the faults.
One slot is enough there: what meets a later try of the task is a call that was given
up and takes effect late, or a handler nobody awaits; two computations of one task are
in ClusterRaces, and the safety properties are proved for any number of slots.  A
client that gave up on a call of several statements issues the next call of that kind
when the handler of the first is done or dead; two such handlers at once are what the
ProxyServer runs are about.  In WorkersState two reports find no row and insert one
each, and with four row ids a worker is inserted, deleted and inserted again by
overlapping reports.  In Startup the database was left by any of the five releases of
the schema, and two processes are enough for every race of two statements; each
inserts at most one id.  In ParamsFetch one file can be good while the other is
fetched.

`ImplementsService` implies `ProofIsStored` and `ErrorIsFresh`; the invariants are
kept where their shorter counterexamples help.  Symmetry is used only in safety
runs.  Deadlock is checked in every run but Startup, where the system may stop:
after the faults the only task may be filed under an id of a shared database that
no process uses any more, and ready processes then only wait.

### Fairness

* LocalWorker: the fetcher, the executor's reads and its recording calls are
  weakly fair, as tokio polls what is ready and every request ends after
  `HTTP_TIMEOUT`.  Receiving a task, receiving a result and sending a result are
  strongly fair: `tokio::select!` polls its branches in random order, so a branch
  that is ready again and again is taken, and senders of a full channel are
  served in turn.  That every computation ends is assumed.
* Cluster: each request of the plugin, each fetcher, each slot and each handler
  of the server is weakly fair, and so is the time-out of a call that cannot be
  answered any more (`HTTP_TIMEOUT` of `get_proxy_api`); nothing is assumed of
  venus-cluster, and no fault has to happen.
  - `EveryRequestAnswered` (ClusterExclusive, no faults): a request is answered, or
    *another* task is reset again and again.  The second case is real: a task that
    is reset keeps its create_at and stays in front of younger ones.  Without the
    exception TLC finds the starvation.
  - `AnsweredAfterRecovery` (ClusterFaults): after `Calm` every open request is
    answered, unless its task is `Stuck`.  The premise is one restart of the workers
    with nothing of theirs in progress: nothing in the code restarts them, and
    without it a task whose hand-out was lost stays Running for ever.
* Startup: a process that is down is started again, its steps and its computations
  go on.  This is the operator's part (a service manager); nothing is assumed of
  when faults happen, only that they may end.
* ParamsFetch: the process goes on and is started again when it died; a file that
  is downloaded again and again arrives at last (strong fairness of that outcome).

## 4. What is proved

`ProxyServer_proofs` (assumptions: those of DbOps and ProxyServer, which TLC
evaluates in every run):

* `TypeCorrect`: Spec => []TypeOK, for any tasks, workers, connections, both stores.
* `EachTaskHandedOutOnce`.  `HandedOutOnce` is not inductive: `HandInv` adds that a
  task that is not inserted or is in the queue has not been handed out, which is
  what the filter of the UPDATE needs.
* `AcknowledgedStaysStored`, from `KnowInv`: what each program counter of a
  handler implies about the tables (a handler past `fetch_task` has a row, one past
  `store_proof` a proof, ...), which is stable since rows and proofs are never
  removed (`NextKeepsRows`).
* `UnprovenTasksHaveResources` (both stores) and `UnprovenTasksHaveParameters`
  (database), **under `UnsharedResources`**: no two tasks have the same
  parameters.  `ResInv` says that a resource is there when its task has no proof,
  and already when a handler is between storing the resource and inserting
  the row; it survives `DeleteResource` because the handler that deletes has stored
  the proof of the only task with that resource.  The hypothesis is necessary:
  run ProxyServerShared is the counterexample without it.

`HandInv`, `KnowInv` and `ResInv` are checked by TLC too.  The last section of the module
is for clients: which statement a handler runs next, what it writes to which row, and
that one handler moves at a time.

`LocalWorker_proofs` (assumptions: MaxTask >= 1, MaxTask < MaxUsize, finitely many
jobs).  All from one inductive invariant `WorkerInv`: TypeOK, CountIsLoad,
CapacityBound and HeldOnce, strengthened by `NothingBefore` (before the first
request the worker is empty) and `SlotReserved` (between the comparison with
`max_task` and the answer of fetch_todo nothing else takes the slot: loads only
fall).

* `TypeCorrect`, `CountIsExact`, `StaysWithinCapacity`, `JobsHeldOnce`.
* `WorkerImplementsSlots`: Spec => ImplementsSlots.  Every step maps to a step of
  WorkerSlots or to a stutter; the bound on `Cardinality(active)` comes from
  CapacityBound, by counting the parts of `Active`.

`Cluster_proofs` (assumptions: those of Cluster; faults and races included).  The
server is `Server_ == INSTANCE ProxyServer_proofs` over the variables of Cluster;
`NextServer` shows that every step of plugin, workers and faults is a step, or a
stutter, of the server with arbitrary clients, so that its invariants are taken
over instead of proved again.

* `ClusterTyped`, from `ClusterInv`: TypeOK, the server's `KnowInv`, empty slots have no
  task (`SlotsTyped`), and a request that awaits a submission awaits that of its own
  task (`SubmitInv`), which is why an acknowledged one may be traced.
* `AnswersHaveProofs`, with `ProofInv`: a Completed row has its proof.  `TaskSteps` lists
  who writes a row: a handler, a recorded error or a reset, both in time or late
  (`ErrorStep`, `LateSteps`).
* `ErrorsAreFresh`, with `FreshInv`: once a request is past its first call, the row of its
  task is in Error only if an error was recorded while the request was open.
* `ClusterImplementsService`: Spec => ImplementsService.  A step of one request maps to
  Ask, Answer or Close of ProofService, a stored proof to Prove, a recorded error to
  Fail, the plugin's exit to Forget, every other step to a stutter.

`ClusterExclusive_proofs`, **under `Exclusive` and `~Faults`** (the side venus-cluster
and the machines have to keep; run ClusterReset has the counterexample to the last of
them without it, and ClusterRaces and ClusterFaults check what still holds).
`ExclInv` follows a task through the system: every call is awaited by its caller and
runs the statements it was called for (`CallsAwaited`, so that nothing times out or is
dropped, and no call is late); a task is in one slot, or in one answer on its way to a
fetcher (`OneHolder`); the row of a task somebody holds is Running, or Completed once
its proof is stored (`HeldRuns`); a request about to reset its task finds it in Error
still (`ResetsErrors`).  None of these is inductive alone: a second holder is excluded
because the row of a held task is not Init, and the row stays so because there is no
second holder to record an error and no second request to reset it.  `RowSteps` sums
that up as the five transitions a row has.

* `TasksAreComputedOnce` (no task is in two slots, whatever its stage), `ResultsStay`
  (an action property), `ErrorsAloneAreReset` (what
  `cluster_c2_plugin/main.rs:170` says, and ClusterReset refutes in general).
* `RunningTasksAreHeld`, also **under `UnsharedResources`**: with the server's `ResInv` a
  worker finds the parameters of a Running task and does not give it up.

`WorkersState_proofs` (assumptions: row ids and workers are not the null values).

* `RegistryTyped`; `HeardStaysListed` and `DeletedStaysGone`: a report that has found a
  row knows its worker, an id is inserted once, and no UPDATE of a report brings a row
  back.
* `RowsStayWithinReports`: a worker's rows and its reports that are about to insert one
  are at most `MaxReports` together, because a report decides to insert only when
  there is no row; `WorkersHaveOneRow` is its case `MaxReports = 1`.
* `OfflineAreSilent`: a worker with one row that was heard lately is not offline.

`Startup_proofs`.

* `StartTyped`; `ReadyAreMigrated`: what a process no longer has to do is made, in each of
  its program counters, whatever other processes make at the same time.
* `OwnersAreStored`: in a database of its own a process that has an id, or is about to
  insert one, has the only one.

`ParamsFetch_proofs`.

* `FetchTyped`; `FetchComplete`: in every round a selected file is good, still to be
  checked, or wanted; `FetchKeepsGood`, an action property.

Every inductive invariant was checked by TLC on the instance of the run before it was
proved.  Hypotheses of theorems are stated in them.  `UnsharedResources` and
`Exclusive /\ ~Faults` are met by a run of section 3 that checks the same property, and
where they fail a run of section 6 shows what happens; `MaxReports = 1` is the case of
run WorkersState without the overlap.

Only model-checked: liveness (EveryJobLeaves, KeepsAsking, EveryRequestAnswered,
AnsweredAfterRecovery, StartsAgain, LeftTasksEnd, FetchEnds), which rests on fairness and
ENABLED and is out of the prover's reach.  That `Cluster`'s view of a worker (slots,
unfinished tasks, one call of the fetcher) is what LocalWorker refines is argued by
reading WorkerSlots and Cluster side by side; it is neither proved nor checked.

## 5. What the properties do not say

The exceptions in the properties are cases the code really has.

* A *stuck* task (`Cluster!Stuck`): its proof was stored and its parameters deleted;
  then a late record_error of another computation of it overwrote Completed
  (`record_error` has no filter), and the next request reset it.  It is handed out,
  the worker finds no parameters and gives up without telling the server, and the
  request is polled for ever, although the proof is in the row.
* `ComputedOnce`, `CompletedStays` and `RunningIsHeld` need `Exclusive` and no faults;
  run ClusterReset shows what happens with two open requests of one task.
* `KeepsAsking`, `StartsAgain` and `LeftTasksEnd` except a fetcher that panicked: when
  Proof.FetchUncomplete fails once at start-up, `expect` (`proxy_rpc/worker.rs:127`) ends
  the fetcher and drops the sender of its channel; the process stays up, the
  executor is in the arm "should never occur" (`worker.rs:224`) once a minute
  (`RecvNone` of LocalWorker), and the worker asks for nothing any more.
* A *torn* migration (`Startup!Torn`) ends every later start.  `ignore_exist`
  (`src/migration/src/m20220426_000001_create_table.rs:130`) knows the message
  "Duplicate key name" of mysql; sqlite says otherwise, so on sqlite a process that
  dies among the eight indexes does not start again; on both, neither does one
  that dies between ALTER TABLE ... ADD COLUMN and the record of its version.
* `OwnerIsStored` and `LeftTasksEnd` speak of processes that do not share a database.
  Two that do may store two ids, and any later start may pick either; or they have
  one id, and the second to start takes up the Running tasks of the first.
* `RowsWithinReports` leaves a worker two rows when two of its reports overlapped, and
  nothing removes the second: `src/entity/src/workers_state.rs:11` says `unique`, the
  migration makes no such index.  One of the rows then shows the worker offline, and
  `OfflineIsSilent` excepts it.
* For `ErrorIsFresh` an error that was recorded while the request was open is fresh, even
  when it is the late error of a computation for an earlier request.
* `FetchEnds` excepts a partly unpacked ipget: `ipget_path.exists()` takes it for the
  binary, no download can succeed, and the loop goes round until the operator
  removes it.  `GoodIsKept` excepts a good file that could not be read at the check:
  it is downloaded over.  An ipget that survives the process it was started by is
  not modelled.  The comment at `cli/params_fetch/mod.rs:217` ("leave verifying-key
  files") may be read as keeping them; the code takes every .vk file out of the list,
  and the model follows the code.
* Cluster has no operator who forces states (`gpuproxy task update-state`); a task that
  is forced to Completed without a proof is answered with an empty one.  The server's
  own properties hold around it (ProxyServerFs).
* A submission of a task that is Completed stores its parameters again, and nothing
  deletes them any more; that costs space and concerns no property.

## 6. Findings

1. **ProxyServerShared**: record_proof deletes a resource that a task of another miner
   still needs (`proxy_rpc/rpc.rs:255`; `src/entity/src/resource_info.rs:4` says every task
   has a resource).
2. **ProxyServerFsTorn**: a half written file passes for a stored resource
   (`resource/mod.rs:60`, `config/mod.rs:5`).
3. **ClusterReset**: a reset hits a task that is not in state Error
   (`cluster_c2_plugin/main.rs:170-173`).

## 7. Not modelled

Parsing and validation of parameters (before any state changes), base64 and JSON,
logging, listing and printing, flags, TLS, the computation itself, and the
interiors of sea-orm, of ipget and of the digest.  The HTTP server is a copy of
jsonrpsee's; of it we keep that requests run concurrently and that answers can be
lost (batches are several such requests); its access control and limits touch no
state of the system.  The RPC client forwards methods one to one; of it we keep
the outcomes of a call.  The Go client is generated and calls what ProxyServer's
clients call.

## 8. Plan

Done: DbOps, ProxyServer, WorkerSlots, LocalWorker, ProofService, Cluster, WorkersState,
Startup and ParamsFetch, with the safety properties of all of them and both refinements
proved.  What is left, in this order:

1. The worker of `Cluster` as an instance of `WorkerSlots`: which steps of Cluster are
   Recover, Resume, Take and Finish of one worker between two of its restarts.
2. The transitions of a row (`RowSteps`) without `Exclusive`: which of them a second request
   or a lost call adds, as a theorem of Cluster with faults.
3. The finding ProxyServerFsTorn as a theorem on what does hold for files: a file is
   cut short only while a handler writes it or after one died in it.
