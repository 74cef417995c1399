------------------------------- MODULE Cluster -------------------------------
(***************************************************************************)
(* The whole system: venus-cluster asks the c2 plugin for proofs           *)
(* (gpuproxy/src/cluster_c2_plugin/main.rs), the plugin submits tasks to   *)
(* the server (ProxyServer) and polls them, and the workers fetch, compute *)
(* and record them (LocalWorker, here reduced to the tasks of each worker  *)
(* and their stage).                                                       *)
(*                                                                         *)
(* A request of the plugin has a client and so a connection of its own; a  *)
(* worker has one call of its fetcher and one of its executor at a time.   *)
(* A call of one statement takes effect in the step that issues it, or     *)
(* later, when its caller gave it up; what the client does with its answer *)
(* is a later step.  Two calls that are late and alike are one.            *)
(***************************************************************************)
EXTENDS Naturals, FiniteSets

CONSTANTS
  Requests,   \* requests the plugin serves at a time
  Faults,     \* whether calls are lost and processes die, for a time
  Backend,    \* where the server keeps the parameters: "db" or "fs"
  Slots,      \* the places for a task in a worker: --max-tasks of them
  Exclusive,  \* whether venus-cluster keeps to one open request per task
  Miners, Resources, TaskIds, Workers, NoWorker, Stamps, Conns, NoTask

ASSUME SwitchAssumption == Faults \in BOOLEAN /\ Exclusive \in BOOLEAN
ASSUME ConnsAssumption ==
  Conns = ({"plugin"} \X Requests) \cup ({"fetcher", "executor"} \X Workers)
ASSUME ServerAssumption ==
  /\ Backend \in {"db", "fs"}
  /\ TaskIds \subseteq Miners \X Resources /\ NoTask \notin TaskIds
  /\ NoWorker \notin Workers
  /\ Stamps \subseteq Nat /\ 0 \in Stamps

VARIABLES
  tasks, res, call, handed,  \* of the server
  plugin,    \* request -> where process_request is
  work,      \* worker -> slot -> the task in it and its stage
  pending,   \* worker -> tasks of its previous life, not taken up yet
  fetching,  \* worker -> whether its fetcher awaits Proof.FetchTodo
  faulty,    \* whether faults happen still
  late       \* the calls of one statement that their callers gave up, and
             \* that the server may still carry out

Server == INSTANCE ProxyServer WITH ClientStates <- {"Init"}

server == <<tasks, res, call, handed>>
worker == <<work, pending, fetching>>
vars == <<tasks, res, call, handed, plugin, work, pending, fetching, faulty,
          late>>

\* `failed` is history: an error was recorded for the task since the request.
Idle == [pc |-> "idle", task |-> NoTask, failed |-> FALSE, answer |-> "none"]

LateReset(t) == [op |-> "reset", task |-> t, worker |-> NoWorker]
LateError(w, t) == [op |-> "record_error", task |-> t, worker |-> w]
LateCalls == {LateReset(t) : t \in TaskIds}
                \cup {LateError(w, t) : w \in Workers, t \in TaskIds}

NoJob == [task |-> NoTask, stage |-> "none"]

Init ==
  /\ Server!Init
  /\ plugin = [p \in Requests |-> Idle]
  /\ work = [w \in Workers |-> [s \in Slots |-> NoJob]]
  /\ pending = [w \in Workers |-> {}]
  /\ fetching = [w \in Workers |-> FALSE]
  /\ faulty = Faults
  /\ late = {}

-----------------------------------------------------------------------------
(* The plugin: process_request, then trace_task_result *)

pluginConn(p) == <<"plugin", p>>

\* Whoever waits for the call of connection c waits in vain: its handler is
\* gone with a crash of the server.
Unanswered(c) == call[c] = Server!NoCall

Goto(p, pc) == plugin' = [plugin EXCEPT ![p].pc = pc]

Answer(p, answer) ==
  plugin' = [plugin EXCEPT ![p] = [@ EXCEPT !.pc = "answered",
                                            !.answer = answer]]

\* venus-cluster writes a request to the plugin's stdin.
Ask(p, t) ==
  /\ plugin[p].pc = "idle"
  /\ Exclusive => \A q \in Requests : plugin[q].task # t
  /\ plugin' = [plugin EXCEPT ![p] = [Idle EXCEPT !.pc = "get_task",
                                                  !.task = t]]
  /\ UNCHANGED <<server, worker, faulty, late>>

\* Mutant: a task in state Error is traced like any other.
GetTaskNoReset(p) ==
  /\ plugin[p].pc = "get_task"
  /\ Goto(p, IF Server!has_task(tasks, plugin[p].task) THEN "trace"
                                                       ELSE "add_task")
  /\ UNCHANGED <<server, worker, faulty, late>>

\* Mutants: a row that is not found is traced; whatever is found is reset.
GetTaskNoAdd(p) ==
  /\ plugin[p].pc = "get_task"
  /\ LET t == plugin[p].task IN
     Goto(p, IF tasks[t].state = "Error" THEN "reset" ELSE "trace")
  /\ UNCHANGED <<server, worker, faulty, late>>

GetTaskResetsAll(p) ==
  /\ plugin[p].pc = "get_task"
  /\ LET t == plugin[p].task IN
     Goto(p, IF Server!has_task(tasks, t) THEN "reset" ELSE "add_task")
  /\ UNCHANGED <<server, worker, faulty, late>>

\* What the answer says may have changed when the plugin acts on it.
GetTask(p) ==
  /\ plugin[p].pc = "get_task"
  /\ LET t == plugin[p].task IN
     Goto(p, IF ~Server!has_task(tasks, t) THEN "add_task"
             ELSE IF tasks[t].state = "Error" THEN "reset"
             ELSE "trace")
  /\ UNCHANGED <<server, worker, faulty, late>>

\* Mutant: the new state is not the one a worker fetches.
ResetToUndefined(p) ==
  /\ plugin[p].pc = "reset"
  /\ Server!UpdateStatusById({plugin[p].task}, "Undefined")
  /\ Goto(p, "trace")
  /\ UNCHANGED <<worker, faulty, late>>

ResetTask(p) ==
  /\ plugin[p].pc = "reset"
  /\ Server!UpdateStatusById({plugin[p].task}, "Init")
  /\ Goto(p, "trace")
  /\ UNCHANGED <<worker, faulty, late>>

AddTask(p) ==
  /\ plugin[p].pc = "add_task"
  /\ Server!AddTask(pluginConn(p), plugin[p].task)
  /\ Goto(p, "adding")
  /\ UNCHANGED <<worker, faulty, late>>

TaskAdded(p) ==
  /\ plugin[p].pc = "adding"
  /\ Server!Close(pluginConn(p))
  /\ IF call[pluginConn(p)].answer = "ok" THEN Goto(p, "trace")
                                          ELSE Answer(p, "call_error")
  /\ UNCHANGED <<worker, faulty, late>>

\* Mutant: whatever is over is taken for a success.
PollAnyEnd(p) ==
  /\ plugin[p].pc = "trace"
  /\ tasks[plugin[p].task].state \in {"Error", "Completed"}
  /\ Answer(p, "proof")
  /\ UNCHANGED <<server, worker, faulty, late>>

\* One round of trace_task_result; any other state, or an error of the
\* call, is another round.
Poll(p) ==
  /\ plugin[p].pc = "trace"
  /\ \/ /\ tasks[plugin[p].task].state = "Error"
        /\ Answer(p, "task_error")
     \/ /\ tasks[plugin[p].task].state = "Completed"
        /\ Answer(p, "proof")
  /\ UNCHANGED <<server, worker, faulty, late>>

\* The response is written to stdout.
Respond(p) ==
  /\ plugin[p].pc = "answered"
  /\ plugin' = [plugin EXCEPT ![p] = Idle]
  /\ UNCHANGED <<server, worker, faulty, late>>

\* A call of process_request fails, or gets no answer in HTTP_TIMEOUT: `?`
\* ends the request.
CallFails(p) ==
  /\ \/ faulty /\ plugin[p].pc \in {"get_task", "reset", "add_task", "adding"}
     \/ plugin[p].pc = "adding" /\ Unanswered(pluginConn(p))
  /\ Answer(p, "call_error")
  /\ UNCHANGED <<server, worker, faulty, late>>

\* The reset gets no answer in time, and takes effect later.
ResetLost(p) ==
  /\ faulty
  /\ plugin[p].pc = "reset"
  /\ late' = late \cup {LateReset(plugin[p].task)}
  /\ Answer(p, "call_error")
  /\ UNCHANGED <<server, worker, faulty>>

\* The plugin dies with its requests.
PluginExits ==
  /\ faulty
  /\ plugin' = [p \in Requests |-> Idle]
  /\ UNCHANGED <<server, worker, faulty, late>>

Plugin(p) ==
  GetTask(p) \/ ResetTask(p) \/ AddTask(p) \/ TaskAdded(p) \/ Poll(p)
    \/ Respond(p)

-----------------------------------------------------------------------------
(* The workers *)

fetchConn(w) == <<"fetcher", w>>
execConn(w) == <<"executor", w>>

Set(w, s, t, stage) ==
  work' = [work EXCEPT ![w][s] = [task |-> t, stage |-> stage]]

Stage(w, s, stage) == Set(w, s, work[w][s].task, stage)

Free(w, s) == work' = [work EXCEPT ![w][s] = NoJob]

Recording(w) == \E s \in Slots : work[w][s].stage = "record"

\* The fetcher, which has nothing unfinished left and a slot to fill.
Fetch(w) ==
  /\ ~fetching[w]
  /\ pending[w] = {}
  /\ \E s \in Slots : work[w][s] = NoJob
  /\ Server!FetchTodo(fetchConn(w), w)
  /\ fetching' = [fetching EXCEPT ![w] = TRUE]
  /\ UNCHANGED <<plugin, work, pending, faulty, late>>

Fetched(w) ==
  /\ fetching[w]
  /\ Server!Close(fetchConn(w))
  /\ fetching' = [fetching EXCEPT ![w] = FALSE]
  /\ IF call[fetchConn(w)].answer = "ok"
     THEN \E s \in Slots : /\ work[w][s] = NoJob
                           /\ Set(w, s, call[fetchConn(w)].task, "taken")
     ELSE UNCHANGED work
  /\ UNCHANGED <<plugin, pending, faulty, late>>

\* A task of the previous life takes a slot.
Resume(w) ==
  /\ \E t \in pending[w], s \in Slots :
       /\ work[w][s] = NoJob
       /\ Set(w, s, t, "taken")
       /\ pending' = [pending EXCEPT ![w] = @ \ {t}]
  /\ UNCHANGED <<server, plugin, fetching, faulty, late>>

\* Through the server, or from the directory it writes its files to: both
\* return what is in the file at this moment, and what is cut short is no
\* JSON that c2 could parse.
ReadResource(w, s) ==
  /\ work[w][s].stage = "taken"
  /\ LET content == res[Server!ResourceOf(work[w][s].task)] IN
     /\ content # "absent"
     /\ Stage(w, s, IF content = "full" THEN "compute" ELSE "garbage")
  /\ UNCHANGED <<server, plugin, pending, fetching, faulty, late>>

\* After RETRY_SUM retries the task is dropped, and the server not told.
GiveUp(w, s) ==
  /\ work[w][s].stage = "taken"
  /\ res[Server!ResourceOf(work[w][s].task)] = "absent" \/ faulty
  /\ Free(w, s)
  /\ UNCHANGED <<server, plugin, pending, fetching, faulty, late>>

\* c2 returned a proof.
RecordProof(w, s) ==
  /\ work[w][s].stage = "compute"
  /\ ~Recording(w)
  /\ Server!RecordProof(execConn(w), w, work[w][s].task)
  /\ Stage(w, s, "record")
  /\ UNCHANGED <<plugin, pending, fetching, faulty, late>>

\* An error of the call is logged, and the task is left as it is.
ProofRecorded(w, s) ==
  /\ work[w][s].stage = "record"
  /\ Server!Close(execConn(w))
  /\ Free(w, s)
  /\ UNCHANGED <<plugin, pending, fetching, faulty, late>>

\* Mutant: the error of a computation is logged only.
RecordErrorUnsent(w, s) ==
  /\ work[w][s].stage \in {"compute", "garbage"}
  /\ ~Recording(w)
  /\ Free(w, s)
  /\ UNCHANGED <<server, plugin, pending, fetching, faulty, late>>

\* The history of the requests that are open when an error is recorded.
Failed(t) ==
  plugin' = [p \in Requests |-> IF plugin[p].task = t
                               THEN [plugin[p] EXCEPT !.failed = TRUE]
                               ELSE plugin[p]]

\* c2 failed or panicked.
RecordError(w, s) ==
  /\ work[w][s].stage \in {"compute", "garbage"}
  /\ ~Recording(w)
  /\ Server!RecordError(w, work[w][s].task)
  /\ Free(w, s)
  /\ Failed(work[w][s].task)
  /\ UNCHANGED <<pending, fetching, faulty, late>>

\* c2 failed, and record_error gets no answer in time: it takes effect later,
\* when the task may be with another worker, Completed or reset.
RecordErrorLost(w, s) ==
  /\ faulty
  /\ work[w][s].stage \in {"compute", "garbage"}
  /\ ~Recording(w)
  /\ late' = late \cup {LateError(w, work[w][s].task)}
  /\ Free(w, s)
  /\ UNCHANGED <<server, plugin, pending, fetching, faulty>>

\* The call that records a result fails, or record_proof gets no answer in
\* time; the server may still be busy with it.
RecordLost(w, s) ==
  /\ \/ work[w][s].stage = "record" /\ (faulty \/ Unanswered(execConn(w)))
     \/ faulty /\ work[w][s].stage \in {"compute", "garbage"} /\ ~Recording(w)
  /\ Free(w, s)
  /\ UNCHANGED <<server, plugin, pending, fetching, faulty, late>>

\* Proof.FetchTodo gets no answer in time.
FetchLost(w) ==
  /\ fetching[w]
  /\ faulty \/ Unanswered(fetchConn(w))
  /\ fetching' = [fetching EXCEPT ![w] = FALSE]
  /\ UNCHANGED <<server, plugin, work, pending, faulty, late>>

\* Mutant: a worker that starts does not ask for what it left.
RestartForgets(ws) ==
  /\ work' = [w \in Workers |-> IF w \in ws THEN [s \in Slots |-> NoJob]
                                            ELSE work[w]]
  /\ fetching' = [w \in Workers |-> fetching[w] /\ w \notin ws]
  /\ UNCHANGED <<server, plugin, pending>>

\* Worker processes are started again, and ask with their stored ids for the
\* tasks they left Running.
Restart(ws) ==
  /\ work' = [w \in Workers |-> IF w \in ws THEN [s \in Slots |-> NoJob]
                                            ELSE work[w]]
  /\ pending' = [w \in Workers |-> IF w \in ws
                                   THEN Server!fetch_uncompleted(tasks, w)
                                   ELSE pending[w]]
  /\ fetching' = [w \in Workers |-> fetching[w] /\ w \notin ws]
  /\ UNCHANGED <<server, plugin>>

WorkerRestarts(w) ==
  /\ faulty
  /\ Restart({w})
  /\ UNCHANGED <<faulty, late>>

\* The faults are over: the operator stopped the workers, the server is done
\* with what they had asked for, and they are started again.
Calm ==
  /\ faulty
  /\ \A c \in Conns : Unanswered(c)
  /\ Restart(Workers)
  /\ late = {} /\ UNCHANGED late
  /\ faulty' = FALSE

\* What the executor does with a task, whatever comes of it.
Process(w, s) ==
  ReadResource(w, s) \/ GiveUp(w, s) \/ RecordProof(w, s)
    \/ ProofRecorded(w, s) \/ RecordError(w, s)

-----------------------------------------------------------------------------
(* The server *)

Awaited(c) ==
  \/ \E p \in Requests : c = pluginConn(p) /\ plugin[p].pc = "adding"
  \/ \E w \in Workers : \/ c = fetchConn(w) /\ fetching[w]
                        \/ c = execConn(w) /\ Recording(w)

Handle(c) == Server!Handle(c) /\ UNCHANGED <<plugin, worker, faulty, late>>

\* An answer nobody waits for is dropped.
Drop(c) ==
  /\ ~Awaited(c)
  /\ Server!Close(c)
  /\ UNCHANGED <<plugin, worker, faulty, late>>

\* A call takes effect that its caller gave up.
CarryOutLate(l) ==
  /\ faulty /\ l \in late
  /\ late' = late \ {l}
  /\ \/ /\ l.op = "reset"
        /\ Server!UpdateStatusById({l.task}, "Init")
        /\ UNCHANGED plugin
     \/ /\ l.op = "record_error"
        /\ Server!RecordError(l.worker, l.task)
        /\ Failed(l.task)
  /\ UNCHANGED <<worker, faulty>>

HandlerFails ==
  /\ faulty
  /\ (\E c \in Conns : Server!Abort(c)) \/ Server!Crash
  /\ UNCHANGED <<plugin, worker, faulty, late>>

Next ==
  \/ \E p \in Requests :
       \/ \E t \in TaskIds : Ask(p, t)
       \/ Plugin(p) \/ CallFails(p) \/ ResetLost(p)
  \/ \E w \in Workers :
       \/ Fetch(w) \/ Fetched(w) \/ Resume(w) \/ FetchLost(w)
       \/ WorkerRestarts(w)
       \/ \E s \in Slots :
            Process(w, s) \/ RecordLost(w, s) \/ RecordErrorLost(w, s)
  \/ \E c \in Conns : Handle(c) \/ Drop(c)
  \/ \E l \in late : CarryOutLate(l)
  \/ PluginExits \/ HandlerFails \/ Calm

Spec == Init /\ [][Next]_vars

(***************************************************************************)
(* Every process goes on: the runtimes poll what is ready, the plugin and  *)
(* the fetchers are loops with timers, every computation ends, and a call  *)
(* that gets no answer ends after HTTP_TIMEOUT.  No fault has to happen.   *)
(***************************************************************************)
Fairness ==
  /\ \A p \in Requests :
       /\ WF_vars(Plugin(p))
       /\ WF_vars(Unanswered(pluginConn(p)) /\ CallFails(p))
  /\ \A w \in Workers :
       /\ WF_vars(Fetch(w)) /\ WF_vars(Fetched(w)) /\ WF_vars(Resume(w))
       /\ WF_vars(Unanswered(fetchConn(w)) /\ FetchLost(w))
       /\ \A s \in Slots :
            /\ WF_vars(Process(w, s))
            /\ WF_vars(Unanswered(execConn(w)) /\ RecordLost(w, s))
  /\ \A c \in Conns : WF_vars(Handle(c)) /\ WF_vars(Drop(c))

FairSpec == Spec /\ Fairness

-----------------------------------------------------------------------------
Pc == {"idle", "get_task", "reset", "add_task", "adding", "trace", "answered"}

\* The types of the parts; a request that is over, and no other, has an
\* answer, and one that traces a task found or made its row.
TypeOK ==
  /\ Server!TypeOK
  /\ plugin \in [Requests ->
                   [pc : Pc, task : TaskIds \cup {NoTask}, failed : BOOLEAN,
                    answer : {"none", "proof", "task_error", "call_error"}]]
  /\ \A p \in Requests :
       /\ plugin[p].task = NoTask <=> plugin[p].pc = "idle"
       /\ plugin[p].answer # "none" <=> plugin[p].pc = "answered"
       /\ plugin[p].pc \in {"reset", "trace"} =>
            Server!has_task(tasks, plugin[p].task)
  /\ work \in [Workers ->
                 [Slots -> [task : TaskIds \cup {NoTask},
                            stage : {"none", "taken", "compute", "garbage",
                                     "record"}]]]
  /\ pending \in [Workers -> SUBSET TaskIds]
  /\ fetching \in [Workers -> BOOLEAN]
  /\ faulty \in BOOLEAN /\ (faulty => Faults)
  /\ late \subseteq LateCalls /\ (late # {} => faulty)

(***************************************************************************)
(* A request answered with a proof has one: whatever is lost, reset or     *)
(* computed twice, the output the plugin writes is not the empty proof of  *)
(* a new row, and the proof is in the database.                            *)
(***************************************************************************)
ProofIsStored ==
  \A p \in Requests :
    plugin[p].answer = "proof" => tasks[plugin[p].task].proof

(***************************************************************************)
(* A retry is one: a request is answered with an error that was recorded   *)
(* while it was open, never with the one that it found.  (A computation of *)
(* an earlier try that is over late is recorded like any other.)           *)
(***************************************************************************)
ErrorIsFresh ==
  \A p \in Requests : plugin[p].answer = "task_error" => plugin[p].failed

(***************************************************************************)
(* A task is in one slot of one worker only, as long as venus-cluster has  *)
(* one request open per task and no call is lost: it is not given out      *)
(* again before the computation it was given out for is over and recorded. *)
(***************************************************************************)
ComputedOnce ==
  \A v, w \in Workers, r, s \in Slots :
    work[v][r].task = work[w][s].task /\ work[v][r].task # NoTask
    => v = w /\ r = s

(***************************************************************************)
(* A task that is Completed stays so: no late error and no reset undoes    *)
(* the result, under the same conditions.                                  *)
(***************************************************************************)
CompletedStays ==
  [][\A t \in TaskIds :
       tasks[t].state = "Completed" => tasks'[t].state = "Completed"]_vars

(***************************************************************************)
(* Every request is answered: venus-cluster gets a proof or an error and   *)
(* can ask again.  A task that is reset keeps its create_at, so that one   *)
(* that fails and is asked for again for ever can keep the workers from    *)
(* younger ones; nothing else can.                                         *)
(***************************************************************************)
EveryRequestAnswered ==
  \A p \in Requests :
    \/ plugin[p].pc = "get_task" ~> plugin[p].pc = "answered"
    \/ \E q \in Requests \ {p} : []<><<ResetTask(q)>>_vars

(***************************************************************************)
(* A task that is Running is in the hands of a worker, or in the answer on *)
(* the way to one: without faults none is lost between the components.     *)
(***************************************************************************)
RunningIsHeld ==
  \A t \in TaskIds : tasks[t].state = "Running" =>
    \E w \in Workers :
      \/ \E s \in Slots : work[w][s].task = t
      \/ fetching[w] /\ call[fetchConn(w)].task = t

\* The request of p waits for a task that was proved, whose parameters were
\* deleted then, and that went back to the queue: no worker can compute it
\* again, and none says so.
Stuck(p) ==
  /\ plugin[p].pc = "trace"
  /\ LET t == plugin[p].task IN
     /\ tasks[t].state \in {"Init", "Running"}
     /\ tasks[t].proof
     /\ res[Server!ResourceOf(t)] = "absent"

(***************************************************************************)
(* After the faults one restart of the workers repairs everything they did *)
(* to the tasks: lost answers of Proof.FetchTodo, lost results, parameters *)
(* given up and files half written.  Every open request is answered,       *)
(* unless its task is stuck.                                               *)
(***************************************************************************)
AnsweredAfterRecovery ==
  \A p \in Requests :
    (~faulty /\ plugin[p].pc \notin {"idle", "answered"})
      ~> (plugin[p].pc = "answered" \/ []Stuck(p))

\* The state of ProofService: what venus-cluster sees of its requests, and
\* the tasks whose proof is in the database.
request ==
  [p \in Requests |->
     [status |-> CASE plugin[p].pc = "idle" -> "closed"
                   [] plugin[p].pc = "answered" -> plugin[p].answer
                   [] OTHER -> "open",
      task |-> plugin[p].task, failed |-> plugin[p].failed]]

proved == {t \in TaskIds : tasks[t].proof}

(***************************************************************************)
(* The plugin, the server and the workers together keep the promise of     *)
(* ProofService, through faults and races.                                 *)
(***************************************************************************)
Service == INSTANCE ProofService WITH Tasks <- TaskIds

ImplementsService == Service!Spec

(***************************************************************************)
(* main.rs:170: "reset task if task is in Error state".  A task enters the *)
(* queue when it is new, or from the state Error.                          *)
(***************************************************************************)
OnlyErrorsAreReset ==
  [][\A t \in TaskIds :
       tasks'[t].state = "Init" =>
         tasks[t].state \in {"None", "Init", "Error"}]_vars
=============================================================================
