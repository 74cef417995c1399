----------------------- MODULE ClusterExclusive_proofs -----------------------
(***************************************************************************)
(* Proofs about the whole system when venus-cluster keeps to one open      *)
(* request per task and no call is lost: a task is in one place at a time, *)
(* from the answer of Proof.FetchTodo to the end of its Proof.RecordProof, *)
(* and its row says where.  For every number of requests, workers, slots   *)
(* and tasks, and both resource stores.                                    *)
(***************************************************************************)
EXTENDS Cluster_proofs

-----------------------------------------------------------------------------
(* The inductive invariant *)

\* venus-cluster has one request per task open.
OneRequestPerTask ==
  \A p, q \in Requests :
    plugin[p].task = plugin[q].task /\ plugin[p].task # NoTask => p = q

\* Every call is awaited by the one who made it, as long as it runs.
PluginAwaits(p) ==
  /\ call[pluginConn(p)].op \in {"none", "add_task"}
  /\ plugin[p].pc = "adding" <=> call[pluginConn(p)].pc # "idle"

FetcherAwaits(w) ==
  /\ call[fetchConn(w)].op \in {"none", "fetch_todo"}
  /\ fetching[w] <=> call[fetchConn(w)].pc # "idle"

ExecutorAwaits(w) ==
  /\ call[execConn(w)].op \in {"none", "record_proof"}
  /\ Recording(w) <=> call[execConn(w)].pc # "idle"
  /\ \A s \in Slots : work[w][s].stage = "record" =>
       call[execConn(w)].task = work[w][s].task
  /\ \A r, s \in Slots :
       work[w][r].stage = "record" /\ work[w][s].stage = "record" => r = s

CallsAwaited ==
  /\ \A p \in Requests : PluginAwaits(p)
  /\ \A w \in Workers : FetcherAwaits(w) /\ ExecutorAwaits(w)
  /\ \A c \in Conns : Server_!InItsStatements(c)

\* The answer on its way to the fetcher of w is task t.
Claimed(w, t) ==
  call[fetchConn(w)].answer = "ok" /\ call[fetchConn(w)].task = t

\* A task is in one slot, or in one answer.
OneHolder ==
  /\ \A v, w \in Workers, r, s \in Slots :
       work[v][r].task = work[w][s].task /\ work[v][r].task # NoTask =>
         v = w /\ r = s
  /\ \A v, w \in Workers, t \in TaskIds :
       Claimed(v, t) /\ Claimed(w, t) => v = w
  /\ \A v, w \in Workers, s \in Slots : ~Claimed(v, work[w][s].task)

\* The result of slot s is in the database, and its call is not over.
Stored(w, s) ==
  /\ work[w][s].stage = "record"
  /\ call[execConn(w)].pc \in {"delete_resource", "done"}

\* The row of a task that somebody holds says so.
HeldRuns ==
  /\ \A w \in Workers, t \in TaskIds :
       Claimed(w, t) => tasks[t].state = "Running"
  /\ \A w \in Workers, s \in Slots : work[w][s].stage # "none" =>
       tasks[work[w][s].task].state =
         IF Stored(w, s) THEN "Completed" ELSE "Running"

\* Only a task in state Error is reset, and none that has a proof.
ResetsErrors ==
  /\ \A p \in Requests :
       plugin[p].pc = "reset" => tasks[plugin[p].task].state = "Error"
  /\ \A t \in TaskIds : tasks[t].proof => tasks[t].state = "Completed"

\* No worker was ever started again.
NoneLeft == \A w \in Workers : pending[w] = {}

ExclInv ==
  /\ ClusterInv /\ ~faulty
  /\ OneRequestPerTask /\ CallsAwaited /\ NoneLeft
  /\ OneHolder /\ HeldRuns /\ ResetsErrors

LEMMA InitExcl == ~Faults /\ Init => ExclInv
<1> SUFFICES ASSUME ~Faults, Init PROVE ExclInv
  OBVIOUS
<1>1. ClusterInv /\ ~faulty
  BY InitClusterInv DEF Init
<1>2. call = [c \in Conns |-> Server!NoCall]
  BY DEF Init, Server!Init
<1>3. \A w \in Workers, s \in Slots :
        work[w][s].stage = "none" /\ work[w][s].task = NoTask
  BY DEF Init, NoJob
<1>4. OneRequestPerTask /\ NoneLeft
  BY DEF Init, Idle, OneRequestPerTask, NoneLeft
<1>5. CallsAwaited
  BY <1>2, <1>3, ConnsOfAll
     DEF Init, Idle, CallsAwaited, PluginAwaits, FetcherAwaits, ExecutorAwaits,
         Recording, Server!NoCall, Server_!InItsStatements
<1>6. \A w \in Workers : \A t : ~Claimed(w, t)
  BY <1>2, ConnsOfAll DEF Claimed, Server!NoCall
<1>7. OneHolder /\ HeldRuns
  BY <1>3, <1>6 DEF OneHolder, HeldRuns
<1>8. ResetsErrors
  BY DEF Init, Idle, Server!Init, Server!EmptyTable, Server!NoRow, ResetsErrors
<1> QED
  BY <1>1, <1>4, <1>5, <1>7, <1>8 DEF ExclInv

-----------------------------------------------------------------------------
(* The steps *)

\* What the plugin, the workers and the server do when nothing is lost.
PlainStep ==
  \/ \E p \in Requests : (\E t \in TaskIds : Ask(p, t)) \/ Plugin(p)
  \/ \E w \in Workers : Fetch(w) \/ Fetched(w)
  \/ \E w \in Workers, s \in Slots : Process(w, s)
  \/ \E c \in Conns : Handle(c)

LEMMA PlainSteps ==
  ASSUME ClusterInv, ~faulty, CallsAwaited, NoneLeft, [Next]_vars
  PROVE  PlainStep \/ UNCHANGED vars
<1>1. ASSUME NEW p \in Requests PROVE ~CallFails(p) /\ ~ResetLost(p)
  BY DEF CallFails, ResetLost, Unanswered, CallsAwaited, PluginAwaits,
         Server!NoCall
<1>2. ASSUME NEW w \in Workers
      PROVE  ~Resume(w) /\ ~FetchLost(w) /\ ~WorkerRestarts(w)
  BY DEF Resume, FetchLost, WorkerRestarts, Unanswered, NoneLeft, CallsAwaited,
         FetcherAwaits, Server!NoCall
<1>3. ASSUME NEW w \in Workers, NEW s \in Slots
      PROVE  ~RecordLost(w, s) /\ ~RecordErrorLost(w, s)
  BY DEF RecordLost, RecordErrorLost, Unanswered, CallsAwaited, ExecutorAwaits,
         Recording, Server!NoCall
<1>4. ASSUME NEW c \in Conns PROVE ~Drop(c)
  <2>1. \/ \E p \in Requests : c = pluginConn(p)
        \/ \E w \in Workers : c = fetchConn(w) \/ c = execConn(w)
    BY ConnsAssumption DEF pluginConn, fetchConn, execConn
  <2>2. call[c].pc = "done" => Awaited(c)
    BY <2>1 DEF Awaited, CallsAwaited, PluginAwaits, FetcherAwaits,
                ExecutorAwaits
  <2> QED
    BY <2>2 DEF Drop, Server!Close
<1>5. /\ ~PluginExits /\ ~HandlerFails /\ ~Calm
      /\ \A l \in late : ~CarryOutLate(l)
  BY DEF PluginExits, HandlerFails, Calm, CarryOutLate
<1> QED
  BY <1>1, <1>2, <1>3, <1>4, <1>5 DEF Next, PlainStep

\* Without faults no error is recorded late.
LEMMA ErrorsInTime ==
  ASSUME ~faulty, NEW t, ErrorStep(t)
  PROVE  \E w \in Workers, s \in Slots : RecordError(w, s) /\ work[w][s].task = t
BY DEF ErrorStep, CarryOutLate

\* The steps that leave every call as it is.
LEMMA QuietSteps ==
  /\ \A p \in Requests :
       (\E t \in TaskIds : Ask(p, t)) \/ GetTask(p) \/ ResetTask(p) \/ Poll(p)
         \/ Respond(p) => UNCHANGED <<call, work, pending, fetching>>
  /\ \A w \in Workers, s \in Slots :
       ReadResource(w, s) \/ GiveUp(w, s) \/ RecordError(w, s) =>
         UNCHANGED <<call, pending, fetching>>
<1>1. ASSUME NEW p \in Requests,
             (\E t \in TaskIds : Ask(p, t)) \/ GetTask(p) \/ ResetTask(p)
               \/ Poll(p) \/ Respond(p)
      PROVE  UNCHANGED <<call, work, pending, fetching>>
  BY <1>1, Zenon
     DEF Ask, GetTask, ResetTask, Poll, Respond, server, worker,
         Server!UpdateStatusById
<1>2. ASSUME NEW w \in Workers, NEW s \in Slots,
             ReadResource(w, s) \/ GiveUp(w, s) \/ RecordError(w, s)
      PROVE  UNCHANGED <<call, pending, fetching>>
  BY <1>2, Zenon
     DEF ReadResource, GiveUp, RecordError, server, Server!RecordError
<1> QED
  BY <1>1, <1>2

\* A statement of the server: no client takes a step, and no call ends.
LEMMA HandleKeeps ==
  ASSUME ClusterInv, NEW c \in Conns, Handle(c), NEW d \in Conns
  PROVE  /\ UNCHANGED <<plugin, work, pending, fetching>>
         /\ Server_!HandlerGoesOn(d)
         /\ call'[d].pc = "idle" <=> call[d].pc = "idle"
         /\ call[c].pc \notin {"idle", "done"}
<1>t. /\ Server_!TypeOK /\ call \in [Conns -> Server!Call]
  BY SameTypeOK DEF ClusterInv, TypeOK, Server!TypeOK, Server!CallsTyped
<1>1. UNCHANGED <<plugin, work, pending, fetching>>
  BY DEF Handle, worker
<1>2. Server_!Handle(c)
  BY SameHandle DEF Handle
<1>3. Server_!HandlerGoesOn(d)
  BY <1>2, <1>t, ServerFits, Server_!HandlersGoOn
<1>4. call'[d].pc = "idle" <=> call[d].pc = "idle"
  BY <1>3, <1>t DEF Server_!HandlerGoesOn
<1>5. call[c].pc \notin {"idle", "done"}
  BY <1>2
     DEF Server_!Handle, Server_!HasResource, Server_!StoreResourceDb,
         Server_!CreateFile, Server_!FinishFile, Server_!HasTask,
         Server_!InsertTask, Server_!SelectTodo, Server_!ClaimTodo,
         Server_!FetchTask, Server_!StoreProof, Server_!DeleteResource
<1> QED
  BY <1>1, <1>3, <1>4, <1>5

\* The handler a statement belongs to, from what each connection is for.
LEMMA WhoHandles ==
  ASSUME ClusterInv, CallsAwaited, NEW c \in Conns
  PROVE  /\ call[c].pc = "store_proof" =>
              \E w \in Workers, s \in Slots :
                /\ c = execConn(w) /\ work[w][s].stage = "record"
                /\ call[c].task = work[w][s].task
         /\ call[c].pc = "claim_todo" => \E w \in Workers : c = fetchConn(w)
<1>t. call[c] \in Server!Call
  BY DEF ClusterInv, TypeOK, Server!TypeOK, Server!CallsTyped
<1>1. \/ \E p \in Requests : c = pluginConn(p)
      \/ \E w \in Workers : c = fetchConn(w) \/ c = execConn(w)
  BY ConnsAssumption DEF pluginConn, fetchConn, execConn
<1>2. call[c].pc = "store_proof" => call[c].op = "record_proof"
  BY <1>t DEF CallsAwaited, Server_!InItsStatements, Server!Call
<1>3. call[c].pc = "claim_todo" => call[c].op = "fetch_todo"
  BY <1>t DEF CallsAwaited, Server_!InItsStatements, Server!Call
<1>4. call[c].pc = "store_proof" =>
        \E w \in Workers : c = execConn(w) /\ Recording(w)
  BY <1>1, <1>2 DEF CallsAwaited, PluginAwaits, FetcherAwaits, ExecutorAwaits
<1>5. call[c].pc = "claim_todo" => \E w \in Workers : c = fetchConn(w)
  BY <1>1, <1>3 DEF CallsAwaited, PluginAwaits, FetcherAwaits, ExecutorAwaits
<1> QED
  BY <1>4, <1>5 DEF Recording, CallsAwaited, ExecutorAwaits

\* The connections of the clients are different ones.
LEMMA ConnsApart ==
  /\ \A v, w \in Workers :
       /\ fetchConn(v) # execConn(w)
       /\ fetchConn(v) = fetchConn(w) \/ execConn(v) = execConn(w) => v = w
  /\ \A p \in Requests, w \in Workers :
       pluginConn(p) # fetchConn(w) /\ pluginConn(p) # execConn(w)
BY DEF pluginConn, fetchConn, execConn

-----------------------------------------------------------------------------
(* The calls *)

LEMMA NextPluginAwaits ==
  ASSUME ClusterInv, CallsAwaited, PlainStep \/ UNCHANGED vars,
         NEW p \in Requests
  PROVE  PluginAwaits(p)'
<1> DEFINE c == pluginConn(p)
<1>t. /\ c \in Conns /\ PluginAwaits(p) /\ call \in [Conns -> Server!Call]
      /\ plugin \in [Requests -> RequestRecord] /\ plugin[p] \in RequestRecord
  BY ConnsOfAll
     DEF ClusterInv, TypeOK, Server!TypeOK, Server!CallsTyped, CallsAwaited,
         RequestRecord
<1>s. ASSUME call'[c] = call[c],
             plugin'[p].pc = "adding" <=> plugin[p].pc = "adding"
      PROVE  PluginAwaits(p)'
  BY <1>s, <1>t DEF PluginAwaits
<1>1. ASSUME NEW q \in Requests, (\E t \in TaskIds : Ask(q, t)) \/ Plugin(q)
      PROVE  PluginAwaits(p)'
  <2>1. CASE AddTask(q)
    <3>1. /\ plugin' = [plugin EXCEPT ![q].pc = "adding"]
          /\ call[pluginConn(q)].pc = "idle"
          /\ call' = [call EXCEPT ![pluginConn(q)] =
                        [op |-> "add_task", pc |-> "has_resource",
                         task |-> plugin[q].task, worker |-> NoWorker,
                         answer |-> "none"]]
      BY <2>1 DEF AddTask, Goto, Server!AddTask, Server!Start
    <3>2. CASE q = p
      <4>1. /\ plugin'[p] = [plugin[p] EXCEPT !.pc = "adding"]
            /\ call'[c] = [op |-> "add_task", pc |-> "has_resource",
                           task |-> plugin[p].task, worker |-> NoWorker,
                           answer |-> "none"]
        BY <3>1, <3>2, <1>t
      <4>2. plugin'[p].pc = "adding"
        BY <4>1, <1>t DEF RequestRecord
      <4> QED
        BY <4>1, <4>2 DEF PluginAwaits
    <3>3. CASE q # p
      BY <3>1, <3>3, <1>t, <1>s, ConnsOfAll
    <3> QED
      BY <3>2, <3>3
  <2>2. CASE TaskAdded(q)
    <3>1. call' = [call EXCEPT ![pluginConn(q)] = Server!NoCall]
      BY <2>2 DEF TaskAdded, Server!Close
    <3>2. \E pc \in {"trace", "answered"} : \E a :
            plugin' = [plugin EXCEPT ![q] = [@ EXCEPT !.pc = pc, !.answer = a]]
      <4>1. CASE Goto(q, "trace")
        <5>1. plugin' = [plugin EXCEPT ![q] =
                           [@ EXCEPT !.pc = "trace",
                                     !.answer = plugin[q].answer]]
          BY <4>1, <1>t DEF Goto, RequestRecord
        <5> QED
          BY <5>1
      <4>2. CASE Answer(q, "call_error")
        BY <4>2 DEF Answer
      <4> QED
        BY <2>2, <4>1, <4>2 DEF TaskAdded
    <3>3. CASE q = p
      <4>1. plugin'[p].pc \in {"trace", "answered"}
        BY <3>2, <3>3, <1>t DEF RequestRecord
      <4>2. call'[c] = Server!NoCall
        BY <3>1, <3>3, <1>t
      <4> QED
        BY <4>1, <4>2 DEF PluginAwaits, Server!NoCall
    <3>4. CASE q # p
      BY <3>1, <3>2, <3>4, <1>t, <1>s, ConnsOfAll
    <3> QED
      BY <3>3, <3>4
  <2>3. CASE (\E t \in TaskIds : Ask(q, t)) \/ GetTask(q) \/ ResetTask(q)
               \/ Poll(q) \/ Respond(q)
    <3>1. call'[c] = call[c]
      BY <2>3, QuietSteps
    <3>2. plugin'[p].pc = "adding" <=> plugin[p].pc = "adding"
      <4>1. CASE q # p
        BY <2>3, <4>1, <1>t
           DEF Ask, GetTask, ResetTask, Poll, Respond, Goto, Answer
      <4>2. CASE q = p
        <5>1. ASSUME NEW t \in TaskIds, Ask(p, t)
              PROVE  plugin[p].pc # "adding" /\ plugin'[p].pc # "adding"
          <6>1. plugin[p].pc = "idle"
            BY <5>1 DEF Ask
          <6>2. plugin'[p] = [pc |-> "get_task", task |-> t, failed |-> FALSE,
                              answer |-> "none"]
            BY <5>1, AskMoves DEF ClusterInv
          <6> QED
            BY <6>1, <6>2
        <5>2. CASE GetTask(p) \/ ResetTask(p)
          <6>1. PICK pc \in {"add_task", "reset", "trace"} : Goto(p, pc)
            BY <5>2 DEF GetTask, ResetTask
          <6>2. plugin'[p] = [plugin[p] EXCEPT !.pc = pc]
            BY <6>1, GotoMoves DEF ClusterInv, Pc
          <6> QED
            BY <5>2, <6>2, <1>t DEF GetTask, ResetTask, RequestRecord
        <5>3. CASE Poll(p)
          <6>1. PICK a \in {"proof", "task_error"} : Answer(p, a)
            BY <5>3 DEF Poll
          <6>2. plugin'[p] = [plugin[p] EXCEPT !.pc = "answered", !.answer = a]
            BY <6>1, AnswerMoves DEF ClusterInv
          <6> QED
            BY <5>3, <6>2, <1>t DEF Poll, RequestRecord
        <5>4. CASE Respond(p)
          BY <5>4, <1>t DEF Respond, Idle
        <5> QED
          BY <2>3, <4>2, <5>1, <5>2, <5>3, <5>4
      <4> QED
        BY <4>1, <4>2
    <3> QED
      BY <3>1, <3>2, <1>s
  <2> QED
    BY <1>1, <2>1, <2>2, <2>3 DEF Plugin
<1>2. ASSUME NEW w \in Workers, Fetch(w) \/ Fetched(w) PROVE PluginAwaits(p)'
  <2>1. UNCHANGED plugin
    BY <1>2, Zenon DEF Fetch, Fetched
  <2>2. call'[c] = call[c]
    BY <1>2, <1>t, ConnsOfAll
       DEF Fetch, Fetched, Server!FetchTodo, Server!Start, Server!Close
  <2> QED
    BY <2>1, <2>2, <1>s
<1>3. ASSUME NEW w \in Workers, NEW s \in Slots, Process(w, s)
      PROVE  PluginAwaits(p)'
  <2>1. CASE RecordError(w, s)
    <3>1. call'[c] = call[c]
      BY <2>1, QuietSteps
    <3>2. \/ plugin'[p] = [plugin[p] EXCEPT !.failed = TRUE]
          \/ plugin'[p] = plugin[p]
      BY <2>1, RecordErrorSteps, FailMoves DEF ClusterInv
    <3> QED
      BY <3>1, <3>2, <1>s, <1>t DEF RequestRecord
  <2>2. CASE ReadResource(w, s) \/ GiveUp(w, s)
    BY <2>2, <1>s, QuietSteps DEF ReadResource, GiveUp
  <2>3. CASE RecordProof(w, s) \/ ProofRecorded(w, s)
    <3>1. UNCHANGED plugin
      BY <2>3, Zenon DEF RecordProof, ProofRecorded
    <3>2. call'[c] = call[c]
      BY <2>3, <1>t, ConnsOfAll
         DEF RecordProof, ProofRecorded, Server!RecordProof, Server!Start,
             Server!Close
    <3> QED
      BY <3>1, <3>2, <1>s
  <2> QED
    BY <1>3, <2>1, <2>2, <2>3 DEF Process
<1>4. ASSUME NEW d \in Conns, Handle(d) PROVE PluginAwaits(p)'
  BY <1>4, <1>t, HandleKeeps DEF PluginAwaits, Server_!HandlerGoesOn
<1>5. CASE UNCHANGED vars
  BY <1>5, <1>s DEF vars
<1> QED
  BY <1>1, <1>2, <1>3, <1>4, <1>5 DEF PlainStep

LEMMA NextFetcherAwaits ==
  ASSUME ClusterInv, CallsAwaited, PlainStep \/ UNCHANGED vars,
         NEW w \in Workers
  PROVE  FetcherAwaits(w)'
<1> DEFINE c == fetchConn(w)
<1>t. /\ c \in Conns /\ FetcherAwaits(w) /\ call \in [Conns -> Server!Call]
      /\ fetching \in [Workers -> BOOLEAN]
  BY ConnsOfAll
     DEF ClusterInv, TypeOK, Server!TypeOK, Server!CallsTyped, CallsAwaited
<1>s. ASSUME call'[c] = call[c], fetching'[w] <=> fetching[w]
      PROVE  FetcherAwaits(w)'
  BY <1>s, <1>t DEF FetcherAwaits
<1>1. ASSUME NEW q \in Requests, (\E t \in TaskIds : Ask(q, t)) \/ Plugin(q)
      PROVE  FetcherAwaits(w)'
  <2>1. UNCHANGED fetching
    BY <1>1, Zenon
       DEF Plugin, Ask, GetTask, ResetTask, AddTask, TaskAdded, Poll, Respond,
           worker
  <2>2. CASE AddTask(q) \/ TaskAdded(q)
    <3>1. call'[c] = call[c]
      BY <2>2, <1>t, ConnsOfAll
         DEF AddTask, TaskAdded, Server!AddTask, Server!Start, Server!Close
    <3> QED
      BY <3>1, <2>1, <1>s
  <2>3. CASE (\E t \in TaskIds : Ask(q, t)) \/ GetTask(q) \/ ResetTask(q)
               \/ Poll(q) \/ Respond(q)
    BY <2>1, <2>3, <1>s, QuietSteps
  <2> QED
    BY <1>1, <2>2, <2>3 DEF Plugin
<1>2. ASSUME NEW v \in Workers, Fetch(v) PROVE FetcherAwaits(w)'
  <2>1. /\ call' = [call EXCEPT ![fetchConn(v)] =
                      [op |-> "fetch_todo", pc |-> "select_todo",
                       task |-> NoTask, worker |-> v, answer |-> "none"]]
        /\ fetching' = [fetching EXCEPT ![v] = TRUE]
    BY <1>2 DEF Fetch, Server!FetchTodo, Server!Start
  <2>2. CASE v = w
    BY <2>1, <2>2, <1>t DEF FetcherAwaits
  <2>3. CASE v # w
    BY <2>1, <2>3, <1>t, <1>s, ConnsApart
  <2> QED
    BY <2>2, <2>3
<1>3. ASSUME NEW v \in Workers, Fetched(v) PROVE FetcherAwaits(w)'
  <2>1. /\ call' = [call EXCEPT ![fetchConn(v)] = Server!NoCall]
        /\ fetching' = [fetching EXCEPT ![v] = FALSE]
    BY <1>3 DEF Fetched, Server!Close
  <2>2. CASE v = w
    BY <2>1, <2>2, <1>t DEF FetcherAwaits, Server!NoCall
  <2>3. CASE v # w
    BY <2>1, <2>3, <1>t, <1>s, ConnsApart
  <2> QED
    BY <2>2, <2>3
<1>4. ASSUME NEW v \in Workers, NEW s \in Slots, Process(v, s)
      PROVE  FetcherAwaits(w)'
  <2>1. CASE ReadResource(v, s) \/ GiveUp(v, s) \/ RecordError(v, s)
    BY <2>1, <1>s, QuietSteps
  <2>2. CASE RecordProof(v, s) \/ ProofRecorded(v, s)
    <3>1. UNCHANGED fetching
      BY <2>2, Zenon DEF RecordProof, ProofRecorded
    <3>2. call'[c] = call[c]
      BY <2>2, <1>t, ConnsApart
         DEF RecordProof, ProofRecorded, Server!RecordProof, Server!Start,
             Server!Close
    <3> QED
      BY <3>1, <3>2, <1>s
  <2> QED
    BY <1>4, <2>1, <2>2 DEF Process
<1>5. ASSUME NEW d \in Conns, Handle(d) PROVE FetcherAwaits(w)'
  BY <1>5, <1>t, HandleKeeps DEF FetcherAwaits, Server_!HandlerGoesOn
<1>6. CASE UNCHANGED vars
  BY <1>6, <1>s DEF vars
<1> QED
  BY <1>1, <1>2, <1>3, <1>4, <1>5, <1>6 DEF PlainStep

LEMMA NextStatements ==
  ASSUME ClusterInv, CallsAwaited, PlainStep \/ UNCHANGED vars,
         NEW c \in Conns
  PROVE  Server_!InItsStatements(c)'
<1>t. /\ Server_!InItsStatements(c) /\ call \in [Conns -> Server!Call]
      /\ call[c] \in Server!Call /\ Server_!TypeOK
  BY SameTypeOK
     DEF ClusterInv, TypeOK, Server!TypeOK, Server!CallsTyped, CallsAwaited
<1>s. ASSUME call'[c] = call[c] PROVE Server_!InItsStatements(c)'
  BY <1>s, <1>t DEF Server_!InItsStatements
<1>n. ASSUME NEW d, Server!Close(d) PROVE Server_!InItsStatements(c)'
  BY <1>n, <1>t DEF Server!Close, Server!NoCall, Server_!InItsStatements
<1>1. ASSUME NEW q \in Requests, (\E t \in TaskIds : Ask(q, t)) \/ Plugin(q)
      PROVE  Server_!InItsStatements(c)'
  <2>1. CASE AddTask(q)
    BY <2>1, <1>t
       DEF AddTask, Server!AddTask, Server!Start, Server_!InItsStatements
  <2>2. CASE TaskAdded(q)
    BY <2>2, <1>n DEF TaskAdded
  <2>3. CASE (\E t \in TaskIds : Ask(q, t)) \/ GetTask(q) \/ ResetTask(q)
               \/ Poll(q) \/ Respond(q)
    BY <2>3, <1>s, QuietSteps
  <2> QED
    BY <1>1, <2>1, <2>2, <2>3 DEF Plugin
<1>2. ASSUME NEW w \in Workers, Fetch(w) PROVE Server_!InItsStatements(c)'
  BY <1>2, <1>t DEF Fetch, Server!FetchTodo, Server!Start, Server_!InItsStatements
<1>3. ASSUME NEW w \in Workers, Fetched(w) PROVE Server_!InItsStatements(c)'
  BY <1>3, <1>n DEF Fetched
<1>4. ASSUME NEW w \in Workers, NEW s \in Slots, Process(w, s)
      PROVE  Server_!InItsStatements(c)'
  <2>1. CASE ReadResource(w, s) \/ GiveUp(w, s) \/ RecordError(w, s)
    BY <2>1, <1>s, QuietSteps
  <2>2. CASE RecordProof(w, s)
    BY <2>2, <1>t
       DEF RecordProof, Server!RecordProof, Server!Start,
           Server_!InItsStatements
  <2>3. CASE ProofRecorded(w, s)
    BY <2>3, <1>n DEF ProofRecorded
  <2> QED
    BY <1>4, <2>1, <2>2, <2>3 DEF Process
<1>5. ASSUME NEW d \in Conns, Handle(d) PROVE Server_!InItsStatements(c)'
  <2>1. Server_!Handle(d)
    BY <1>5, SameHandle DEF Handle
  <2>2. CASE d = c
    <3>1. /\ call'[c].op = call[c].op
          /\ call[c].pc \notin {"idle", "done"}
      BY <1>5, <2>2, HandleKeeps DEF Server_!HandlerGoesOn
    <3>2. /\ call[c].pc = "has_resource" =>
               call'[c].pc \in {"has_task", "store_resource"}
          /\ call[c].pc = "store_resource" =>
               call'[c].pc \in {"has_task", "write_file", "done"}
          /\ call[c].pc \in {"write_file", "write_stale"} =>
               call'[c].pc = "has_task"
          /\ call[c].pc = "has_task" => call'[c].pc \in {"insert_task", "done"}
          /\ call[c].pc = "insert_task" => call'[c].pc = "done"
          /\ call[c].pc = "select_todo" =>
               call'[c].pc \in {"claim_todo", "done"}
          /\ call[c].pc = "claim_todo" => call'[c].pc = "done"
          /\ call[c].pc = "fetch_task" =>
               call'[c].pc \in {"store_proof", "done"}
          /\ call[c].pc = "store_proof" => call'[c].pc = "delete_resource"
          /\ call[c].pc = "delete_resource" => call'[c].pc = "done"
      BY <2>1, <2>2, <1>t, ServerFits, Server_!HandlerMoves
    <3> QED
      BY <3>1, <3>2, <1>t DEF Server_!InItsStatements
  <2>3. CASE d # c
    <3>1. \/ call'[c] = call[c]
          \/ /\ call[c].pc = "write_file"
             /\ call'[c] = [call[c] EXCEPT !.pc = "write_stale"]
      BY <2>1, <2>3, <1>t, ServerFits, Server_!HandlersApart
    <3>2. \/ call'[c] = call[c]
          \/ /\ call[c].pc = "write_file" /\ call'[c].pc = "write_stale"
             /\ call'[c].op = call[c].op
      BY <3>1, <1>t DEF Server!Call
    <3> QED
      BY <3>2, <1>s, <1>t DEF Server_!InItsStatements
  <2> QED
    BY <2>2, <2>3
<1>6. CASE UNCHANGED vars
  BY <1>6, <1>s DEF vars
<1> QED
  BY <1>1, <1>2, <1>3, <1>4, <1>5, <1>6 DEF PlainStep

-----------------------------------------------------------------------------
(* The slots *)

\* Slot s of w is written, and no other.
SlotSet(w, s, job) ==
  /\ work'[w][s] = job
  /\ \A v \in Workers, r \in Slots :
       v # w \/ r # s => work'[v][r] = work[v][r]

Taken(w) == [task |-> call[fetchConn(w)].task, stage |-> "taken"]

Staged(w, s, stage) == [task |-> work[w][s].task, stage |-> stage]

\* What each step of a worker does to its slots.
LEMMA FetchedWrites ==
  ASSUME ClusterInv, NEW w \in Workers, Fetched(w)
  PROVE  \/ \E s \in Slots : /\ work[w][s] = NoJob /\ SlotSet(w, s, Taken(w))
                            /\ call[fetchConn(w)].answer = "ok"
         \/ call[fetchConn(w)].answer # "ok" /\ UNCHANGED work
<1>1. \/ \E s \in Slots :
           /\ work[w][s] = NoJob /\ call[fetchConn(w)].answer = "ok"
           /\ work' = [work EXCEPT ![w][s] = Taken(w)]
      \/ call[fetchConn(w)].answer # "ok" /\ UNCHANGED work
  BY DEF Fetched, Set, Taken
<1>2. /\ work = [v \in Workers |-> work[v]]
      /\ \A v \in Workers : work[v] = [s \in Slots |-> work[v][s]]
  BY DEF ClusterInv, TypeOK
<1> QED
  BY <1>1, <1>2 DEF SlotSet

LEMMA ProcessWrites ==
  ASSUME ClusterInv, NEW w \in Workers, NEW s \in Slots
  PROVE  /\ ReadResource(w, s) => \E g \in {"compute", "garbage"} :
                                   SlotSet(w, s, Staged(w, s, g))
         /\ RecordProof(w, s) => SlotSet(w, s, Staged(w, s, "record"))
         /\ GiveUp(w, s) \/ ProofRecorded(w, s) \/ RecordError(w, s) =>
              SlotSet(w, s, NoJob)
<1>t. /\ work = [v \in Workers |-> work[v]]
      /\ \A v \in Workers : work[v] = [r \in Slots |-> work[v][r]]
  BY DEF ClusterInv, TypeOK
<1>1. ReadResource(w, s) => \E g \in {"compute", "garbage"} :
                             SlotSet(w, s, Staged(w, s, g))
  <2>1. ReadResource(w, s) => \E g \in {"compute", "garbage"} :
                               work' = [work EXCEPT ![w][s] = Staged(w, s, g)]
    BY DEF ReadResource, Stage, Set, Staged
  <2> QED
    BY <2>1, <1>t DEF SlotSet
<1>2. RecordProof(w, s) => SlotSet(w, s, Staged(w, s, "record"))
  <2>1. RecordProof(w, s) => work' = [work EXCEPT ![w][s] = Staged(w, s, "record")]
    BY DEF RecordProof, Stage, Set, Staged
  <2> QED
    BY <2>1, <1>t DEF SlotSet
<1>3. GiveUp(w, s) \/ ProofRecorded(w, s) \/ RecordError(w, s) =>
        SlotSet(w, s, NoJob)
  <2>1. GiveUp(w, s) \/ ProofRecorded(w, s) \/ RecordError(w, s) =>
          work' = [work EXCEPT ![w][s] = NoJob]
    BY DEF GiveUp, ProofRecorded, RecordError, Free
  <2> QED
    BY <2>1, <1>t DEF SlotSet
<1> QED
  BY <1>1, <1>2, <1>3

\* The steps that write to slot s of w, and what is in it then.
SlotStep(w, s) ==
  \/ /\ Fetched(w) /\ call[fetchConn(w)].answer = "ok"
     /\ work[w][s] = NoJob /\ SlotSet(w, s, Taken(w))
  \/ /\ ReadResource(w, s)
     /\ \E g \in {"compute", "garbage"} : SlotSet(w, s, Staged(w, s, g))
  \/ RecordProof(w, s) /\ SlotSet(w, s, Staged(w, s, "record"))
  \/ /\ GiveUp(w, s) \/ ProofRecorded(w, s) \/ RecordError(w, s)
     /\ SlotSet(w, s, NoJob)

\* A step writes to one slot or to none.
LEMMA SlotSteps ==
  ASSUME ClusterInv, PlainStep \/ UNCHANGED vars
  PROVE  UNCHANGED work \/ \E w \in Workers, s \in Slots : SlotStep(w, s)
<1>1. ASSUME NEW p \in Requests, (\E t \in TaskIds : Ask(p, t)) \/ Plugin(p)
      PROVE  UNCHANGED work
  BY <1>1, Zenon
     DEF Plugin, Ask, GetTask, ResetTask, AddTask, TaskAdded, Poll, Respond,
         worker
<1>2. ASSUME NEW w \in Workers, Fetch(w) PROVE UNCHANGED work
  BY <1>2 DEF Fetch
<1>3. ASSUME NEW c \in Conns, Handle(c) PROVE UNCHANGED work
  BY <1>3 DEF Handle, worker
<1>4. ASSUME NEW w \in Workers, Fetched(w)
      PROVE  UNCHANGED work \/ \E s \in Slots : SlotStep(w, s)
  BY <1>4, FetchedWrites DEF SlotStep
<1>5. ASSUME NEW w \in Workers, NEW s \in Slots, Process(w, s)
      PROVE  SlotStep(w, s)
  BY <1>5, ProcessWrites DEF Process, SlotStep
<1>6. CASE UNCHANGED vars
  BY <1>6 DEF vars
<1> QED
  BY <1>1, <1>2, <1>3, <1>4, <1>5, <1>6 DEF PlainStep

LEMMA NextExecutorAwaits ==
  ASSUME ClusterInv, CallsAwaited, PlainStep \/ UNCHANGED vars,
         NEW w \in Workers
  PROVE  ExecutorAwaits(w)'
<1> DEFINE c == execConn(w)
<1>t. /\ c \in Conns /\ ExecutorAwaits(w) /\ Server_!InItsStatements(c)
      /\ call \in [Conns -> Server!Call]
  BY ConnsOfAll
     DEF ClusterInv, TypeOK, Server!TypeOK, Server!CallsTyped, CallsAwaited
\* A step that neither begins nor ends a recording of w.
<1>s. ASSUME call'[c] = call[c],
             \A s \in Slots :
               \/ work'[w][s] = work[w][s]
               \/ work[w][s].stage # "record" /\ work'[w][s].stage # "record"
      PROVE  ExecutorAwaits(w)'
  <2>1. \A s \in Slots :
          /\ work'[w][s].stage = "record" <=> work[w][s].stage = "record"
          /\ work'[w][s].stage = "record" => work'[w][s] = work[w][s]
    BY <1>s
  <2>2. Recording(w)' <=> Recording(w)
    BY <2>1 DEF Recording
  <2> QED
    BY <2>1, <2>2, <1>s, <1>t DEF ExecutorAwaits
<1>1. ASSUME NEW q \in Requests, (\E t \in TaskIds : Ask(q, t)) \/ Plugin(q)
      PROVE  ExecutorAwaits(w)'
  <2>1. UNCHANGED work
    BY <1>1, Zenon
       DEF Plugin, Ask, GetTask, ResetTask, AddTask, TaskAdded, Poll, Respond,
           worker
  <2>2. CASE AddTask(q) \/ TaskAdded(q)
    <3>1. call'[c] = call[c]
      BY <2>2, <1>t, ConnsOfAll
         DEF AddTask, TaskAdded, Server!AddTask, Server!Start, Server!Close
    <3> QED
      BY <3>1, <2>1, <1>s
  <2>3. CASE (\E t \in TaskIds : Ask(q, t)) \/ GetTask(q) \/ ResetTask(q)
               \/ Poll(q) \/ Respond(q)
    BY <2>1, <2>3, <1>s, QuietSteps
  <2> QED
    BY <1>1, <2>2, <2>3 DEF Plugin
<1>2. ASSUME NEW v \in Workers, Fetch(v) \/ Fetched(v) PROVE ExecutorAwaits(w)'
  <2>1. call'[c] = call[c]
    BY <1>2, <1>t, ConnsApart
       DEF Fetch, Fetched, Server!FetchTodo, Server!Start, Server!Close
  <2>2. CASE UNCHANGED work
    BY <2>1, <2>2, <1>s
  <2>3. ASSUME NEW s \in Slots, work[v][s] = NoJob, SlotSet(v, s, Taken(v))
        PROVE  ExecutorAwaits(w)'
    BY <2>1, <2>3, <1>s DEF SlotSet, Taken, NoJob
  <2> QED
    BY <1>2, <2>2, <2>3, FetchedWrites DEF Fetch
<1>3. ASSUME NEW v \in Workers, NEW s \in Slots, Process(v, s)
      PROVE  ExecutorAwaits(w)'
  <2>1. CASE ReadResource(v, s)
    <3>1. PICK g \in {"compute", "garbage"} : SlotSet(v, s, Staged(v, s, g))
      BY <2>1, ProcessWrites
    <3>2. call'[c] = call[c] /\ work[v][s].stage = "taken"
      BY <2>1, QuietSteps DEF ReadResource
    <3> QED
      BY <3>1, <3>2, <1>s DEF SlotSet, Staged
  <2>2. CASE GiveUp(v, s) \/ RecordError(v, s)
    <3>1. SlotSet(v, s, NoJob)
      BY <2>2, ProcessWrites
    <3>2. call'[c] = call[c] /\ work[v][s].stage # "record"
      BY <2>2, QuietSteps DEF GiveUp, RecordError
    <3> QED
      BY <3>1, <3>2, <1>s DEF SlotSet, NoJob
  <2>3. CASE RecordProof(v, s)
    <3>1. SlotSet(v, s, Staged(v, s, "record")) /\ ~Recording(v)
      BY <2>3, ProcessWrites DEF RecordProof
    <3>2. call' = [call EXCEPT ![execConn(v)] =
                     [op |-> "record_proof", pc |-> "fetch_task",
                      task |-> work[v][s].task, worker |-> v,
                      answer |-> "none"]]
      BY <2>3 DEF RecordProof, Server!RecordProof, Server!Start
    <3>3. CASE v = w
      <4>1. \A r \in Slots :
              /\ work'[w][r].stage = "record" <=> r = s
              /\ work'[w][s].task = work[w][s].task
        BY <3>1, <3>3 DEF SlotSet, Staged, Recording
      <4>2. /\ call'[c].op = "record_proof" /\ call'[c].pc = "fetch_task"
            /\ call'[c].task = work[w][s].task
        BY <3>2, <3>3, <1>t
      <4> QED
        BY <4>1, <4>2 DEF ExecutorAwaits, Recording
    <3>4. CASE v # w
      <4>1. call'[c] = call[c]
        BY <3>2, <3>4, <1>t, ConnsApart
      <4> QED
        BY <4>1, <3>1, <3>4, <1>s DEF SlotSet
    <3> QED
      BY <3>3, <3>4
  <2>4. CASE ProofRecorded(v, s)
    <3>1. SlotSet(v, s, NoJob) /\ work[v][s].stage = "record"
      BY <2>4, ProcessWrites DEF ProofRecorded
    <3>2. call' = [call EXCEPT ![execConn(v)] = Server!NoCall]
      BY <2>4 DEF ProofRecorded, Server!Close
    <3>3. CASE v = w
      <4>1. \A r \in Slots : work'[w][r].stage # "record"
        BY <3>1, <3>3, <1>t DEF SlotSet, NoJob, ExecutorAwaits
      <4>2. call'[c] = Server!NoCall
        BY <3>2, <3>3, <1>t
      <4> QED
        BY <4>1, <4>2 DEF ExecutorAwaits, Recording, Server!NoCall
    <3>4. CASE v # w
      <4>1. call'[c] = call[c]
        BY <3>2, <3>4, <1>t, ConnsApart
      <4> QED
        BY <4>1, <3>1, <3>4, <1>s DEF SlotSet
    <3> QED
      BY <3>3, <3>4
  <2> QED
    BY <1>3, <2>1, <2>2, <2>3, <2>4 DEF Process
<1>4. ASSUME NEW d \in Conns, Handle(d) PROVE ExecutorAwaits(w)'
  <2>1. /\ UNCHANGED work /\ Server_!HandlerGoesOn(c)
        /\ call'[c].pc = "idle" <=> call[c].pc = "idle"
    BY <1>4, <1>t, HandleKeeps
  <2>2. call[c].pc # "select_todo"
    BY <1>t DEF ExecutorAwaits, Server_!InItsStatements
  <2> QED
    BY <2>1, <2>2, <1>t
       DEF ExecutorAwaits, Recording, Server_!HandlerGoesOn
<1>5. CASE UNCHANGED vars
  BY <1>5, <1>s DEF vars
<1> QED
  BY <1>1, <1>2, <1>3, <1>4, <1>5 DEF PlainStep

LEMMA NextCallsAwaited ==
  ASSUME ClusterInv, CallsAwaited, PlainStep \/ UNCHANGED vars
  PROVE  CallsAwaited'
BY NextPluginAwaits, NextFetcherAwaits, NextExecutorAwaits, NextStatements
   DEF CallsAwaited

-----------------------------------------------------------------------------
(* The requests *)

LEMMA NextOneRequest ==
  ASSUME Exclusive, ClusterInv, OneRequestPerTask, [Next]_vars
  PROVE  OneRequestPerTask'
<1>t. /\ \A p \in Requests : plugin[p] \in RequestRecord
      /\ plugin = [p \in Requests |-> plugin[p]]
  BY DEF ClusterInv, TypeOK, RequestRecord
<1>1. ASSUME NEW p \in Requests, NEW t \in TaskIds, Ask(p, t)
      PROVE  OneRequestPerTask'
  <2>1. /\ \A q \in Requests : plugin[q].task # t
        /\ \A q \in Requests \ {p} : plugin'[q] = plugin[q]
    BY <1>1, <1>t DEF Ask
  <2>2. plugin'[p] = [pc |-> "get_task", task |-> t, failed |-> FALSE,
                      answer |-> "none"]
    BY <1>1, AskMoves DEF ClusterInv
  <2> QED
    BY <2>1, <2>2 DEF OneRequestPerTask
<1>2. CASE \A p \in Requests, t \in TaskIds : ~Ask(p, t)
  <2>1. ASSUME NEW p \in Requests
        PROVE  plugin'[p].task \in {plugin[p].task, NoTask}
    <3>1. CASE RequestStep(p)
      <4>1. ASSUME NEW pc, plugin'[p] = [plugin[p] EXCEPT !.pc = pc]
            PROVE  plugin'[p].task = plugin[p].task
        BY <4>1, <1>t DEF RequestRecord
      <4>2. ASSUME NEW a,
                   plugin'[p] = [plugin[p] EXCEPT !.pc = "answered",
                                                  !.answer = a]
            PROVE  plugin'[p].task = plugin[p].task
        BY <4>2, <1>t DEF RequestRecord
      <4>3. plugin'[p] = Idle => plugin'[p].task = NoTask
        BY DEF Idle
      <4> QED
        BY <1>2, <3>1, <4>1, <4>2, <4>3, RequestMoves
    <3>2. ASSUME NEW t \in TaskIds, ErrorStep(t)
          PROVE  plugin'[p].task = plugin[p].task
      <4>1. \/ plugin'[p] = [plugin[p] EXCEPT !.failed = TRUE]
            \/ plugin'[p] = plugin[p]
        BY <3>2, FailMoves DEF ClusterInv
      <4> QED
        BY <4>1, <1>t DEF RequestRecord
    <3>3. CASE PluginExits
      BY <3>3 DEF PluginExits, Idle
    <3> QED
      BY <3>1, <3>2, <3>3, PluginSteps DEF ClusterInv
  <2> QED
    BY <2>1 DEF OneRequestPerTask
<1> QED
  BY <1>1, <1>2

-----------------------------------------------------------------------------
(* The answers on their way to the fetchers *)

\* The steps of the call of a fetcher.
LEMMA FetchCallSteps ==
  ASSUME ClusterInv, CallsAwaited, PlainStep \/ UNCHANGED vars,
         NEW w \in Workers
  PROVE  \/ call'[fetchConn(w)] = call[fetchConn(w)]
         \/ Fetch(w) \/ Fetched(w) \/ Handle(fetchConn(w))
<1> DEFINE c == fetchConn(w)
           Goal == call'[c] = call[c] \/ Fetch(w) \/ Fetched(w) \/ Handle(c)
<1> SUFFICES Goal
  OBVIOUS
<1>t. /\ c \in Conns /\ FetcherAwaits(w) /\ Server_!InItsStatements(c)
      /\ call \in [Conns -> Server!Call] /\ Server_!TypeOK
  BY ConnsOfAll, SameTypeOK
     DEF ClusterInv, TypeOK, Server!TypeOK, Server!CallsTyped, CallsAwaited
<1>1. ASSUME NEW q \in Requests, (\E u \in TaskIds : Ask(q, u)) \/ Plugin(q)
      PROVE  call'[c] = call[c]
  <2>1. CASE AddTask(q) \/ TaskAdded(q)
    BY <2>1, <1>t, ConnsOfAll
       DEF AddTask, TaskAdded, Server!AddTask, Server!Start, Server!Close
  <2>2. CASE (\E u \in TaskIds : Ask(q, u)) \/ GetTask(q) \/ ResetTask(q)
               \/ Poll(q) \/ Respond(q)
    BY <2>2, QuietSteps
  <2> QED
    BY <1>1, <2>1, <2>2 DEF Plugin
<1>2. ASSUME NEW v \in Workers, v # w, Fetch(v) \/ Fetched(v)
      PROVE  call'[c] = call[c]
  BY <1>2, <1>t, ConnsApart
     DEF Fetch, Fetched, Server!FetchTodo, Server!Start, Server!Close
<1>3. ASSUME NEW v \in Workers, NEW s \in Slots, Process(v, s)
      PROVE  call'[c] = call[c]
  <2>1. CASE ReadResource(v, s) \/ GiveUp(v, s) \/ RecordError(v, s)
    BY <2>1, QuietSteps
  <2>2. CASE RecordProof(v, s) \/ ProofRecorded(v, s)
    BY <2>2, <1>t, ConnsApart
       DEF RecordProof, ProofRecorded, Server!RecordProof, Server!Start,
           Server!Close
  <2> QED
    BY <1>3, <2>1, <2>2 DEF Process
<1>4. ASSUME NEW d \in Conns, d # c, Handle(d) PROVE call'[c] = call[c]
  <2>1. Server_!Handle(d)
    BY <1>4, SameHandle DEF Handle
  <2>2. \/ call'[c] = call[c]
        \/ /\ call[c].pc = "write_file"
           /\ call'[c] = [call[c] EXCEPT !.pc = "write_stale"]
    BY <2>1, <1>4, <1>t, ServerFits, Server_!HandlersApart
  <2>3. call[c].pc # "write_file"
    BY <1>t DEF FetcherAwaits, Server_!InItsStatements
  <2> QED
    BY <2>2, <2>3
<1>5. CASE UNCHANGED vars
  BY <1>5 DEF vars
<1> QED
  BY <1>1, <1>2, <1>3, <1>4, <1>5 DEF PlainStep

\* An answer is made by the UPDATE that claims the task, and by no other
\* step.
LEMMA ClaimsAreMade ==
  ASSUME ClusterInv, CallsAwaited, PlainStep \/ UNCHANGED vars,
         NEW w \in Workers, NEW t \in TaskIds, Claimed(w, t)'
  PROVE  \/ Claimed(w, t) /\ ~Fetched(w)
         \/ /\ Handle(fetchConn(w)) /\ UNCHANGED <<plugin, work>>
            /\ tasks[t].state = "Init" /\ tasks'[t].state = "Running"
<1> DEFINE c == fetchConn(w)
<1>t. /\ c \in Conns /\ FetcherAwaits(w) /\ Server_!InItsStatements(c)
      /\ call \in [Conns -> Server!Call] /\ Server_!TypeOK
  BY ConnsOfAll, SameTypeOK
     DEF ClusterInv, TypeOK, Server!TypeOK, Server!CallsTyped, CallsAwaited
<1>1. ~Fetched(w)
  BY <1>t DEF Fetched, Server!Close, Server!NoCall, Claimed
<1>2. ~Fetch(w)
  BY <1>t DEF Fetch, Server!FetchTodo, Server!Start, Claimed
<1>3. ASSUME Handle(c)
      PROVE  /\ UNCHANGED <<plugin, work>>
             /\ tasks[t].state = "Init" /\ tasks'[t].state = "Running"
  <2>1. Server_!Handle(c)
    BY <1>3, SameHandle DEF Handle
  <2>2. call[c].pc \in {"select_todo", "claim_todo"}
    BY <1>3, <1>t, HandleKeeps DEF FetcherAwaits, Server_!InItsStatements
  <2>3. Server_!SelectTodo(c) \/ Server_!ClaimTodo(c)
    BY <2>1, <2>2
       DEF Server_!Handle, Server_!HasResource, Server_!StoreResourceDb,
           Server_!CreateFile, Server_!FinishFile, Server_!HasTask,
           Server_!InsertTask, Server_!FetchTask, Server_!StoreProof,
           Server_!DeleteResource
  <2>4. Server_!ClaimTodo(c)
    BY <2>3, <1>t, ServerFits, Server_!SelectAnswers DEF Claimed
  <2>5. tasks[t].state = "Init" /\ tasks'[t].state = "Running"
    BY <2>4, <1>t, ServerFits, Server_!ClaimAnswers DEF Claimed
  <2>6. UNCHANGED <<plugin, work>>
    BY <1>3, <1>t, HandleKeeps
  <2> QED
    BY <2>5, <2>6
<1> QED
  BY <1>1, <1>2, <1>3, FetchCallSteps DEF Claimed

\* An answer that was made stays until the fetcher takes it.
LEMMA ClaimsAreKept ==
  ASSUME ClusterInv, CallsAwaited, PlainStep \/ UNCHANGED vars,
         NEW w \in Workers, NEW t \in TaskIds, Claimed(w, t)
  PROVE  \/ Claimed(w, t)'
         \/ Fetched(w) /\ \E s \in Slots : SlotSet(w, s, Taken(w))
<1> DEFINE c == fetchConn(w)
<1>1. c \in Conns /\ call[c].pc = "done"
  BY ConnsOfAll
     DEF ClusterInv, TypeOK, Server!TypeOK, Server!CallsTyped, Claimed
<1>2. ~Fetch(w) /\ ~Handle(c)
  BY <1>1, HandleKeeps DEF Fetch, Server!FetchTodo, Server!Start
<1>3. Fetched(w) => \E s \in Slots : SlotSet(w, s, Taken(w))
  BY FetchedWrites DEF Claimed
<1> QED
  BY <1>2, <1>3, FetchCallSteps DEF Claimed

-----------------------------------------------------------------------------
(* One holder *)

\* What the types say of claims and slots.
LEMMA HoldersTyped ==
  ASSUME ClusterInv
  PROVE  /\ \A w \in Workers : \A t : Claimed(w, t) => t \in TaskIds
         /\ \A w \in Workers, s \in Slots :
              /\ work[w][s].task \in TaskIds \cup {NoTask}
              /\ work[w][s].stage = "none" <=> work[w][s].task = NoTask
         /\ NoTask \notin TaskIds
BY ConnsOfAll, ServerAssumption
   DEF ClusterInv, TypeOK, SlotsTyped, Server!TypeOK, Server!CallsTyped, Claimed

\* A slot keeps its task, loses it, or takes the one its fetcher claimed.
LEMMA SlotTasks ==
  ASSUME ClusterInv, PlainStep \/ UNCHANGED vars,
         NEW w \in Workers, NEW s \in Slots
  PROVE  \/ work'[w][s].task \in {work[w][s].task, NoTask}
         \/ Fetched(w) /\ Claimed(w, work'[w][s].task)
<1>1. CASE UNCHANGED work
  BY <1>1
<1>2. ASSUME NEW v \in Workers, NEW r \in Slots, SlotStep(v, r)
      PROVE  \/ work'[w][s].task \in {work[w][s].task, NoTask}
             \/ Fetched(w) /\ Claimed(w, work'[w][s].task)
  BY <1>2 DEF SlotStep, SlotSet, Taken, Staged, NoJob, Claimed
<1> QED
  BY <1>1, <1>2, SlotSteps

LEMMA NextOneHolder ==
  ASSUME ClusterInv, CallsAwaited, OneHolder, HeldRuns,
         PlainStep \/ UNCHANGED vars, ClusterInv'
  PROVE  OneHolder'
<1>1. ASSUME NEW v \in Workers, NEW w \in Workers, NEW r \in Slots,
             NEW s \in Slots, work'[v][r].task = work'[w][s].task,
             work'[v][r].task # NoTask
      PROVE  v = w /\ r = s
  <2>1. CASE UNCHANGED work
    BY <2>1, <1>1 DEF OneHolder
  <2>2. ASSUME NEW x \in Workers, NEW y \in Slots, SlotStep(x, y)
        PROVE  v = w /\ r = s
    <3>1. \/ Claimed(x, work'[x][y].task)
          \/ work'[x][y].task \in {work[x][y].task, NoTask}
      BY <2>2 DEF SlotStep, SlotSet, Taken, Staged, NoJob, Claimed
    <3>2. \A a \in Workers, b \in Slots :
            a # x \/ b # y => work'[a][b] = work[a][b]
      BY <2>2 DEF SlotStep, SlotSet
    <3>3. ASSUME NEW a \in Workers, NEW b \in Slots, a # x \/ b # y,
                 work'[a][b].task = work'[x][y].task, work'[a][b].task # NoTask
          PROVE  FALSE
      BY <3>1, <3>2, <3>3 DEF OneHolder
    <3>4. CASE (v = x /\ r = y) \/ (w = x /\ s = y)
      BY <3>3, <3>4, <1>1
    <3>5. CASE (v # x \/ r # y) /\ (w # x \/ s # y)
      BY <3>2, <3>5, <1>1 DEF OneHolder
    <3> QED
      BY <3>4, <3>5
  <2> QED
    BY <2>1, <2>2, SlotSteps
<1>2. ASSUME NEW v \in Workers, NEW w \in Workers, NEW t \in TaskIds,
             Claimed(v, t)', Claimed(w, t)'
      PROVE  v = w
  <2>1. \/ Claimed(v, t)
        \/ Handle(fetchConn(v)) /\ tasks[t].state = "Init"
    BY <1>2, ClaimsAreMade
  <2>2. \/ Claimed(w, t)
        \/ Handle(fetchConn(w)) /\ tasks[t].state = "Init"
    BY <1>2, ClaimsAreMade
  <2>3. CASE Claimed(v, t) /\ Claimed(w, t)
    BY <2>3 DEF OneHolder
  <2>4. CASE Handle(fetchConn(v)) /\ Handle(fetchConn(w))
    <3>1. /\ fetchConn(v) \in Conns /\ fetchConn(w) \in Conns
          /\ Server_!Handle(fetchConn(v)) /\ Server_!Handle(fetchConn(w))
          /\ Server_!TypeOK
      BY <2>4, ConnsOfAll, SameHandle, SameTypeOK DEF Handle, ClusterInv, TypeOK
    <3> QED
      BY <3>1, ServerFits, ConnsApart, Server_!OneHandler
  <2> QED
    BY <2>1, <2>2, <2>3, <2>4 DEF HeldRuns
<1>3. ASSUME NEW v \in Workers, NEW w \in Workers, NEW s \in Slots,
             Claimed(v, work[w][s].task)'
      PROVE  FALSE
  <2>1. /\ call'[fetchConn(v)].answer = "ok"
        /\ call'[fetchConn(v)].task = work'[w][s].task
    BY <1>3 DEF Claimed
  <2>2. call'[fetchConn(v)].task \in TaskIds
    BY <2>1, ConnsOfAll
       DEF ClusterInv, TypeOK, Server!TypeOK, Server!CallsTyped
  <2>3. PICK t \in TaskIds : t = work'[w][s].task
    BY <2>1, <2>2
  <2>4. Claimed(v, t)'
    BY <2>1, <2>3 DEF Claimed
  <2>5. CASE Claimed(v, t) /\ ~Fetched(v)
    BY <2>3, <2>5, SlotTasks, HoldersTyped DEF OneHolder
  <2>6. CASE UNCHANGED work /\ tasks[t].state = "Init"
    BY <2>3, <2>6, HoldersTyped DEF HeldRuns
  <2> QED
    BY <2>4, <2>5, <2>6, ClaimsAreMade
<1> QED
  BY <1>1, <1>2, <1>3 DEF OneHolder

-----------------------------------------------------------------------------
(* The rows *)

\* What a step may do to the row of t: a result is stored, or an error
\* recorded, by the slot that holds t, and only an error is reset.
RowStep(t) ==
  \/ tasks'[t] = tasks[t]
  \/ /\ tasks[t].state = "None" /\ tasks'[t].state = "Init"
     /\ ~tasks'[t].proof /\ UNCHANGED <<plugin, work>>
  \/ /\ tasks[t].state = "Init" /\ tasks'[t].state = "Running"
     /\ tasks'[t].proof = tasks[t].proof /\ UNCHANGED <<plugin, work>>
     /\ \E w \in Workers : Claimed(w, t)'
  \/ /\ tasks[t].state = "Running" /\ tasks'[t].state = "Completed"
     /\ UNCHANGED <<plugin, work>>
     /\ \E w \in Workers, s \in Slots :
          /\ work[w][s].task = t /\ work[w][s].stage = "record"
          /\ call'[execConn(w)].pc = "delete_resource"
  \/ /\ tasks[t].state = "Running" /\ tasks'[t].state = "Error"
     /\ tasks'[t].proof = tasks[t].proof
     /\ \E w \in Workers, s \in Slots : RecordError(w, s) /\ work[w][s].task = t
  \/ /\ tasks[t].state = "Error" /\ tasks'[t].state = "Init"
     /\ tasks'[t].proof = tasks[t].proof
     /\ \E p \in Requests : ResetTask(p) /\ plugin[p].task = t

LEMMA RowSteps ==
  ASSUME ExclInv, [Next]_vars, NEW t \in TaskIds
  PROVE  RowStep(t)
<1>t. /\ Server_!TypeOK /\ TypeOK /\ SlotsTyped /\ ClusterInv /\ CallsAwaited
      /\ HeldRuns /\ ResetsErrors /\ ~faulty
  BY SameTypeOK DEF ExclInv, ClusterInv, TypeOK
<1>1. ASSUME NEW c \in Conns, Handle(c), Server_!HandlerWrites(c, t)
      PROVE  RowStep(t)
  <2>1. UNCHANGED <<plugin, work>> /\ Server_!Handle(c)
    BY <1>1, <1>t, HandleKeeps, SameHandle DEF Handle
  <2>2. CASE Server_!ClaimTodo(c) /\ call[c].task = t /\ tasks[t].state = "Init"
             /\ tasks'[t].state = "Running" /\ tasks'[t].proof = tasks[t].proof
    <3>1. call'[c].answer = "ok" /\ call'[c].task = t
      <4>1. ~UNCHANGED tasks
        BY <2>2
      <4> QED
        BY <2>2, <4>1, <1>t, ServerFits, Server_!ClaimAnswers
    <3>2. PICK w \in Workers : c = fetchConn(w)
      BY <2>2, <1>t, WhoHandles DEF Server_!ClaimTodo
    <3> QED
      BY <2>1, <2>2, <3>1, <3>2 DEF RowStep, Claimed
  <2>3. CASE Server_!StoreProof(c) /\ call[c].task = t
             /\ tasks'[t].state = "Completed"
    <3>1. call[c].pc = "store_proof"
      BY <2>3 DEF Server_!StoreProof
    <3>2. PICK w \in Workers, s \in Slots :
            /\ c = execConn(w) /\ work[w][s].stage = "record"
            /\ work[w][s].task = t
      BY <2>3, <3>1, <1>t, WhoHandles
    <3>3. tasks[t].state = "Running"
      BY <3>1, <3>2, <1>t DEF HeldRuns, Stored
    <3>4. call'[c].pc = "delete_resource"
      BY <2>1, <3>1, <1>t, ServerFits, Server_!HandlerMoves
    <3> QED
      BY <2>1, <2>3, <3>2, <3>3, <3>4 DEF RowStep
  <2>4. CASE tasks[t].state = "None" /\ tasks'[t].state = "Init"
             /\ ~tasks'[t].proof
    BY <2>1, <2>4 DEF RowStep
  <2> QED
    BY <1>1, <2>2, <2>3, <2>4 DEF Server_!HandlerWrites, RowStep
<1>2. ASSUME NEW w \in Workers, NEW s \in Slots, RecordError(w, s),
             work[w][s].task = t, tasks'[t].state = "Error",
             tasks'[t].proof = tasks[t].proof
      PROVE  RowStep(t)
  <2>1. tasks[t].state = "Running"
    BY <1>2, <1>t DEF RecordError, HeldRuns, Stored
  <2> QED
    BY <1>2, <2>1 DEF RowStep
<1>3. ASSUME NEW p \in Requests, ResetTask(p),
             plugin[p].task = t, tasks'[t].state = "Init",
             tasks'[t].proof = tasks[t].proof
      PROVE  RowStep(t)
  <2>1. tasks[t].state = "Error"
    BY <1>3, <1>t DEF ResetTask, ResetsErrors
  <2> QED
    BY <1>3, <2>1 DEF RowStep
<1>4. TaskStep(t)
  BY <1>t, TaskSteps
<1>5. \A l \in late : ~CarryOutLate(l)
  BY <1>t DEF CarryOutLate
<1>6. CASE /\ ErrorStep(t)
           /\ tasks'[t].state = "Error" /\ tasks'[t].proof = tasks[t].proof
  BY <1>2, <1>6, <1>t, ErrorsInTime
<1> QED
  BY <1>1, <1>3, <1>4, <1>5, <1>6 DEF TaskStep, RowStep

LEMMA NextResetsErrors ==
  ASSUME ExclInv, [Next]_vars
  PROVE  ResetsErrors'
<1>t. /\ ClusterInv /\ ResetsErrors /\ OneRequestPerTask /\ HeldRuns
      /\ \A p \in Requests : /\ plugin[p] \in RequestRecord
                             /\ plugin[p].pc # "idle" => plugin[p].task \in TaskIds
  BY DEF ExclInv, ClusterInv, TypeOK, RequestRecord
<1>r. ASSUME NEW p \in Requests, ResetTask(p) PROVE plugin'[p].pc = "trace"
  <2>1. plugin'[p] = [plugin[p] EXCEPT !.pc = "trace"]
    BY <1>r, <1>t, GotoMoves DEF ResetTask, ClusterInv, Pc
  <2> QED
    BY <2>1, <1>t DEF RequestRecord
<1>1. ASSUME NEW p \in Requests, plugin'[p].pc = "reset"
      PROVE  tasks'[plugin'[p].task].state = "Error"
  <2>1. CASE GetTask(p)
    <3>1. PICK pc \in {"add_task", "reset", "trace"} :
            /\ Goto(p, pc)
            /\ pc = "reset" => tasks[plugin[p].task].state = "Error"
      BY <2>1 DEF GetTask
    <3>2. plugin'[p] = [plugin[p] EXCEPT !.pc = pc]
      BY <3>1, <1>t, GotoMoves DEF ClusterInv, Pc
    <3>3. plugin'[p].task = plugin[p].task /\ pc = "reset"
      BY <3>2, <1>1, <1>t DEF RequestRecord
    <3>4. UNCHANGED tasks
      BY <2>1 DEF GetTask, server
    <3> QED
      BY <3>1, <3>3, <3>4
  <2>2. ASSUME plugin[p].pc = "reset", plugin'[p].task = plugin[p].task,
               ~ResetTask(p)
        PROVE  tasks'[plugin'[p].task].state = "Error"
    <3> DEFINE t == plugin[p].task
    <3>1. t \in TaskIds /\ tasks[t].state = "Error"
      BY <2>2, <1>t DEF ResetsErrors
    <3>2. ASSUME NEW q \in Requests, ResetTask(q), plugin[q].task = t
          PROVE  FALSE
      <4>1. q = p
        BY <3>1, <3>2, <1>t, ServerAssumption DEF OneRequestPerTask
      <4> QED
        BY <3>2, <4>1, <2>2
    <3>3. tasks'[t] = tasks[t]
      BY <3>1, <3>2, RowSteps DEF RowStep
    <3> QED
      BY <3>1, <3>3, <2>2
  <2>3. ~ResetTask(p)
    BY <1>1, <1>r
  <2>4. CASE plugin'[p] = plugin[p]
    BY <1>1, <2>2, <2>3, <2>4
  <2>5. ASSUME NEW t \in TaskIds, ErrorStep(t)
        PROVE  tasks'[plugin'[p].task].state = "Error"
    <3>1. \/ plugin'[p] = [plugin[p] EXCEPT !.failed = TRUE]
          \/ plugin'[p] = plugin[p]
      BY <2>5, <1>t, FailMoves DEF ClusterInv
    <3>2. plugin'[p].pc = plugin[p].pc /\ plugin'[p].task = plugin[p].task
      BY <3>1, <1>t DEF RequestRecord
    <3> QED
      BY <1>1, <2>2, <2>3, <3>2
  <2>6. CASE RequestStep(p)
    <3>1. ASSUME NEW t \in TaskIds,
                 plugin'[p] = [pc |-> "get_task", task |-> t,
                               failed |-> FALSE, answer |-> "none"]
          PROVE  FALSE
      BY <1>1, <3>1
    <3>2. ASSUME AddTask(p) \/ TaskAdded(p) PROVE FALSE
      <4>1. ASSUME NEW pc \in {"trace", "adding"}, Goto(p, pc) PROVE FALSE
        <5>1. plugin'[p] = [plugin[p] EXCEPT !.pc = pc]
          BY <4>1, <1>t, GotoMoves DEF ClusterInv, Pc
        <5> QED
          BY <5>1, <1>1, <1>t DEF RequestRecord
      <4>2. ASSUME Answer(p, "call_error") PROVE FALSE
        <5>1. plugin'[p] = [plugin[p] EXCEPT !.pc = "answered",
                                             !.answer = "call_error"]
          BY <4>2, <1>t, AnswerMoves DEF ClusterInv
        <5> QED
          BY <5>1, <1>1, <1>t DEF RequestRecord
      <4> QED
        BY <3>2, <4>1, <4>2 DEF AddTask, TaskAdded
    <3>3. ASSUME NEW a, plugin'[p] = [plugin[p] EXCEPT !.pc = "answered",
                                                       !.answer = a]
          PROVE  FALSE
      BY <3>3, <1>1, <1>t DEF RequestRecord
    <3>4. plugin'[p] # Idle
      BY <1>1 DEF Idle
    <3> QED
      BY <2>1, <2>3, <2>6, <3>1, <3>2, <3>3, <3>4, <1>t, RequestMoves
  <2>7. ~PluginExits
    BY <1>1 DEF PluginExits, Idle
  <2> QED
    BY <2>4, <2>5, <2>6, <2>7, <1>t, PluginSteps DEF ClusterInv
<1>2. ASSUME NEW t \in TaskIds, tasks'[t].proof
      PROVE  tasks'[t].state = "Completed"
  BY <1>2, <1>t, RowSteps DEF RowStep, ResetsErrors
<1> QED
  BY <1>1, <1>2 DEF ResetsErrors

\* The steps of the call of an executor.
LEMMA ExecCallSteps ==
  ASSUME ClusterInv, CallsAwaited, PlainStep \/ UNCHANGED vars,
         NEW w \in Workers
  PROVE  \/ call'[execConn(w)] = call[execConn(w)]
         \/ \E s \in Slots : RecordProof(w, s) \/ ProofRecorded(w, s)
         \/ Handle(execConn(w))
<1> DEFINE c == execConn(w)
           Goal == \/ call'[c] = call[c]
                   \/ \E s \in Slots : RecordProof(w, s) \/ ProofRecorded(w, s)
                   \/ Handle(c)
<1> SUFFICES Goal
  OBVIOUS
<1>t. /\ c \in Conns /\ ExecutorAwaits(w) /\ Server_!InItsStatements(c)
      /\ call \in [Conns -> Server!Call] /\ Server_!TypeOK
  BY ConnsOfAll, SameTypeOK
     DEF ClusterInv, TypeOK, Server!TypeOK, Server!CallsTyped, CallsAwaited
<1>1. ASSUME NEW q \in Requests, (\E u \in TaskIds : Ask(q, u)) \/ Plugin(q)
      PROVE  call'[c] = call[c]
  <2>1. CASE AddTask(q) \/ TaskAdded(q)
    BY <2>1, <1>t, ConnsOfAll
       DEF AddTask, TaskAdded, Server!AddTask, Server!Start, Server!Close
  <2>2. CASE (\E u \in TaskIds : Ask(q, u)) \/ GetTask(q) \/ ResetTask(q)
               \/ Poll(q) \/ Respond(q)
    BY <2>2, QuietSteps
  <2> QED
    BY <1>1, <2>1, <2>2 DEF Plugin
<1>2. ASSUME NEW v \in Workers, Fetch(v) \/ Fetched(v) PROVE call'[c] = call[c]
  BY <1>2, <1>t, ConnsApart
     DEF Fetch, Fetched, Server!FetchTodo, Server!Start, Server!Close
<1>3. ASSUME NEW v \in Workers, NEW s \in Slots, Process(v, s) PROVE Goal
  <2>1. CASE ReadResource(v, s) \/ GiveUp(v, s) \/ RecordError(v, s)
    BY <2>1, QuietSteps
  <2>2. CASE v = w /\ (RecordProof(v, s) \/ ProofRecorded(v, s))
    BY <2>2
  <2>3. CASE v # w /\ (RecordProof(v, s) \/ ProofRecorded(v, s))
    <3>1. call'[c] = call[c]
      BY <2>3, <1>t, ConnsApart
         DEF RecordProof, ProofRecorded, Server!RecordProof, Server!Start,
             Server!Close
    <3> QED
      BY <3>1
  <2> QED
    BY <1>3, <2>1, <2>2, <2>3 DEF Process
<1>4. ASSUME NEW d \in Conns, d # c, Handle(d) PROVE call'[c] = call[c]
  <2>1. Server_!Handle(d)
    BY <1>4, SameHandle DEF Handle
  <2>2. \/ call'[c] = call[c]
        \/ /\ call[c].pc = "write_file"
           /\ call'[c] = [call[c] EXCEPT !.pc = "write_stale"]
    BY <2>1, <1>4, <1>t, ServerFits, Server_!HandlersApart
  <2>3. call[c].pc # "write_file"
    BY <1>t DEF ExecutorAwaits, Server_!InItsStatements
  <2> QED
    BY <2>2, <2>3
<1>5. CASE UNCHANGED vars
  BY <1>5 DEF vars
<1> QED
  BY <1>1, <1>2, <1>3, <1>4, <1>5 DEF PlainStep

\* While a slot keeps recording and its row stays as it is, the call does
\* not pass the UPDATE that stores the proof.
LEMMA StoredStays ==
  ASSUME ExclInv, PlainStep \/ UNCHANGED vars,
         NEW w \in Workers, NEW s \in Slots,
         work[w][s].stage = "record", work'[w][s] = work[w][s],
         tasks'[work[w][s].task] = tasks[work[w][s].task]
  PROVE  Stored(w, s)' <=> Stored(w, s)
<1> DEFINE c == execConn(w)
           t == work[w][s].task
<1>t. /\ c \in Conns /\ ExecutorAwaits(w) /\ Server_!InItsStatements(c)
      /\ Server_!TypeOK /\ t \in TaskIds /\ ClusterInv /\ CallsAwaited
  BY ConnsOfAll, SameTypeOK, HoldersTyped
     DEF ExclInv, ClusterInv, TypeOK, CallsAwaited
<1>1. CASE call'[c] = call[c]
  BY <1>1 DEF Stored
<1>2. ASSUME NEW r \in Slots PROVE ~RecordProof(w, r) /\ ~ProofRecorded(w, r)
  <2>1. ~RecordProof(w, r)
    BY DEF RecordProof, Recording
  <2>2. ASSUME ProofRecorded(w, r) PROVE FALSE
    <3>1. r = s
      BY <2>2, <1>t DEF ProofRecorded, ExecutorAwaits
    <3>2. SlotSet(w, s, NoJob)
      BY <2>2, <3>1, <1>t, ProcessWrites
    <3> QED
      BY <3>2 DEF SlotSet, NoJob
  <2> QED
    BY <2>1, <2>2
<1>3. CASE Handle(c)
  <2>1. Server_!Handle(c) /\ call[c].pc \in {"fetch_task", "store_proof",
                                            "delete_resource"}
    BY <1>3, <1>t, SameHandle, HandleKeeps
       DEF Handle, ExecutorAwaits, Server_!InItsStatements
  <2>2. call[c].task = t
    BY <1>t DEF ExecutorAwaits
  <2>3. CASE call[c].pc = "fetch_task"
    <3>1. tasks[t].state = "Running"
      BY <2>3, <1>t DEF ExclInv, HeldRuns, Stored
    <3>2. call'[c].pc = "store_proof"
      BY <2>1, <2>2, <2>3, <3>1, <1>t, ServerFits, Server_!HandlerMoves
         DEF Server_!has_task
    <3> QED
      BY <2>3, <3>2 DEF Stored
  <2>4. CASE call[c].pc = "store_proof"
    <3>1. tasks[t].state = "Running"
      BY <2>4, <1>t DEF ExclInv, HeldRuns, Stored
    <3>2. Server_!StoreProof(c)
      BY <2>1, <2>4
         DEF Server_!Handle, Server_!HasResource, Server_!StoreResourceDb,
             Server_!CreateFile, Server_!FinishFile, Server_!HasTask,
             Server_!InsertTask, Server_!SelectTodo, Server_!ClaimTodo,
             Server_!FetchTask, Server_!DeleteResource
    <3>3. tasks'[t].state = "Completed"
      BY <3>1, <3>2, <2>2, <1>t, ServerFits, Server_!RowsWritten
         DEF Server_!has_task
    <3> QED
      BY <3>1, <3>3
  <2>5. CASE call[c].pc = "delete_resource"
    <3>1. call'[c].pc = "done"
      BY <2>1, <2>5, <1>t, ServerFits, Server_!HandlerMoves
    <3> QED
      BY <2>5, <3>1 DEF Stored
  <2> QED
    BY <2>1, <2>3, <2>4, <2>5
<1> QED
  BY <1>1, <1>2, <1>3, <1>t, ExecCallSteps

LEMMA NextHeldRuns ==
  ASSUME ExclInv, [Next]_vars, PlainStep \/ UNCHANGED vars, ClusterInv'
  PROVE  HeldRuns'
<1>t. ClusterInv /\ CallsAwaited /\ HeldRuns /\ OneHolder
  BY DEF ExclInv
<1>1. ASSUME NEW w \in Workers, NEW t \in TaskIds, Claimed(w, t)'
      PROVE  tasks'[t].state = "Running"
  <2>1. CASE Claimed(w, t)
    <3>1. /\ tasks[t].state = "Running"
          /\ \A v \in Workers, s \in Slots : work[v][s].task # t
      BY <2>1, <1>t DEF HeldRuns, OneHolder
    <3> QED
      BY <3>1, RowSteps DEF RowStep
  <2> QED
    BY <1>1, <2>1, <1>t, ClaimsAreMade
<1>2. ASSUME NEW w \in Workers, NEW s \in Slots, work'[w][s].stage # "none"
      PROVE  tasks'[work'[w][s].task].state =
               IF Stored(w, s)' THEN "Completed" ELSE "Running"
  <2>1. CASE work'[w][s] = work[w][s]
    <3> DEFINE t == work[w][s].task
    <3>1. /\ t \in TaskIds
          /\ tasks[t].state = IF Stored(w, s) THEN "Completed" ELSE "Running"
      BY <1>2, <2>1, <1>t, HoldersTyped DEF HeldRuns
    <3>2. ASSUME NEW v \in Workers, NEW r \in Slots, work[v][r].task = t
          PROVE  v = w /\ r = s
      BY <3>1, <3>2, <1>t, HoldersTyped DEF OneHolder
    <3>3. CASE tasks'[t] = tasks[t]
      <4>1. CASE work[w][s].stage = "record"
        BY <2>1, <3>1, <3>3, <4>1, StoredStays
      <4>2. CASE work[w][s].stage # "record"
        BY <2>1, <3>1, <3>3, <4>2 DEF Stored
      <4> QED
        BY <4>1, <4>2
    <3>4. CASE /\ tasks'[t].state = "Completed"
               /\ \E v \in Workers, r \in Slots :
                    /\ work[v][r].task = t /\ work[v][r].stage = "record"
                    /\ call'[execConn(v)].pc = "delete_resource"
      BY <2>1, <3>2, <3>4 DEF Stored
    <3>5. ASSUME NEW v \in Workers, NEW r \in Slots, RecordError(v, r),
                 work[v][r].task = t
          PROVE  FALSE
      <4>1. SlotSet(w, s, NoJob)
        BY <3>2, <3>5, <1>t, ProcessWrites
      <4> QED
        BY <4>1, <1>2 DEF SlotSet, NoJob
    <3>6. RowStep(t)
      BY <3>1, RowSteps
    <3> QED
      BY <2>1, <3>1, <3>3, <3>4, <3>5, <3>6 DEF RowStep
  <2>2. ASSUME SlotStep(w, s)
        PROVE  tasks'[work'[w][s].task].state =
                 IF Stored(w, s)' THEN "Completed" ELSE "Running"
    <3>1. CASE Fetched(w) /\ call[fetchConn(w)].answer = "ok"
               /\ SlotSet(w, s, Taken(w))
      <4>1. /\ UNCHANGED tasks /\ ~Stored(w, s)'
            /\ Claimed(w, work'[w][s].task)
        BY <3>1 DEF Fetched, Server!Close, SlotSet, Taken, Claimed, Stored
      <4>2. tasks[work'[w][s].task].state = "Running"
        BY <4>1, <1>t, HoldersTyped DEF HeldRuns
      <4> QED
        BY <4>1, <4>2
    <3>2. ASSUME NEW g \in {"compute", "garbage"}, ReadResource(w, s),
                 SlotSet(w, s, Staged(w, s, g))
          PROVE  tasks'[work'[w][s].task].state =
                   IF Stored(w, s)' THEN "Completed" ELSE "Running"
      <4>1. /\ UNCHANGED tasks /\ ~Stored(w, s)'
            /\ work[w][s].stage = "taken" /\ work'[w][s].task = work[w][s].task
        BY <3>2 DEF ReadResource, server, SlotSet, Staged, Stored
      <4> QED
        BY <4>1, <1>t DEF HeldRuns, Stored
    <3>3. CASE RecordProof(w, s) /\ SlotSet(w, s, Staged(w, s, "record"))
      <4>1. /\ UNCHANGED tasks /\ work[w][s].stage = "compute"
            /\ work'[w][s].task = work[w][s].task
        BY <3>3
           DEF RecordProof, Server!RecordProof, Server!Start, SlotSet, Staged
      <4>2. call'[execConn(w)].pc = "fetch_task"
        BY <3>3, ConnsOfAll
           DEF RecordProof, Server!RecordProof, Server!Start, ExclInv,
               ClusterInv, TypeOK, Server!TypeOK, Server!CallsTyped
      <4> QED
        BY <4>1, <4>2, <1>t DEF HeldRuns, Stored
    <3>4. ~SlotSet(w, s, NoJob)
      BY <1>2 DEF SlotSet, NoJob
    <3> QED
      BY <2>2, <3>1, <3>2, <3>3, <3>4 DEF SlotStep
  <2>3. work'[w][s] = work[w][s] \/ SlotStep(w, s)
    BY <1>t, SlotSteps DEF SlotStep, SlotSet
  <2> QED
    BY <2>1, <2>2, <2>3
<1> QED
  BY <1>1, <1>2 DEF HeldRuns

-----------------------------------------------------------------------------
(* The invariant, and what follows from it *)

LEMMA NextExclInv == Exclusive /\ ExclInv /\ [Next]_vars => ExclInv'
<1> SUFFICES ASSUME Exclusive, ExclInv, [Next]_vars PROVE ExclInv'
  OBVIOUS
<1>1. ClusterInv' /\ ~faulty'
  BY NextClusterInv, NextFaulty DEF ExclInv, ClusterInv
<1>2. PlainStep \/ UNCHANGED vars
  BY PlainSteps DEF ExclInv
<1>3. OneRequestPerTask' /\ CallsAwaited' /\ OneHolder'
  BY <1>1, <1>2, NextOneRequest, NextCallsAwaited, NextOneHolder DEF ExclInv
<1>4. HeldRuns' /\ ResetsErrors'
  BY <1>1, <1>2, NextHeldRuns, NextResetsErrors
<1>5. UNCHANGED pending
  <2>1. ASSUME NEW p \in Requests, (\E t \in TaskIds : Ask(p, t)) \/ Plugin(p)
        PROVE  UNCHANGED pending
    BY <2>1, Zenon
       DEF Plugin, Ask, GetTask, ResetTask, AddTask, TaskAdded, Poll, Respond,
           worker
  <2>2. ASSUME NEW w \in Workers, Fetch(w) \/ Fetched(w) PROVE UNCHANGED pending
    BY <2>2, Zenon DEF Fetch, Fetched
  <2>3. ASSUME NEW w \in Workers, NEW s \in Slots, Process(w, s)
        PROVE  UNCHANGED pending
    BY <2>3, Zenon
       DEF Process, ReadResource, GiveUp, RecordProof, ProofRecorded, RecordError
  <2>4. ASSUME NEW c \in Conns, Handle(c) PROVE UNCHANGED pending
    BY <2>4 DEF Handle, worker
  <2> QED
    BY <1>2, <2>1, <2>2, <2>3, <2>4 DEF PlainStep, vars
<1>6. NoneLeft'
  BY <1>5 DEF ExclInv, NoneLeft
<1> QED
  BY <1>1, <1>3, <1>4, <1>6 DEF ExclInv

LEMMA ExclInvHolds == Exclusive /\ ~Faults => (Spec => []ExclInv)
<1> SUFFICES ASSUME Exclusive, ~Faults PROVE Spec => []ExclInv
  OBVIOUS
<1>1. Init => ExclInv
  BY InitExcl
<1>2. ExclInv /\ [Next]_vars => ExclInv'
  BY NextExclInv
<1> QED
  BY <1>1, <1>2, PTL DEF Spec

(***************************************************************************)
(* No task is in two slots at a time: from Proof.FetchTodo to              *)
(* Proof.RecordProof it has one holder, and it is put back into the queue  *)
(* only from the state Error, which the holder gives it when it lets go.   *)
(***************************************************************************)
THEOREM TasksAreComputedOnce == Exclusive /\ ~Faults => (Spec => []ComputedOnce)
<1>1. ExclInv => ComputedOnce
  BY DEF ExclInv, OneHolder, ComputedOnce
<1> QED
  BY <1>1, ExclInvHolds, PTL

(***************************************************************************)
(* A result is final: nobody records an error for a task whose proof is    *)
(* stored, and nobody resets it.                                           *)
(***************************************************************************)
THEOREM ResultsStay == Exclusive /\ ~Faults => (Spec => CompletedStays)
<1>1. ASSUME ExclInv, [Next]_vars
      PROVE  [\A t \in TaskIds : tasks[t].state = "Completed" =>
                                   tasks'[t].state = "Completed"]_vars
  BY <1>1, RowSteps DEF RowStep
<1> QED
  BY <1>1, ExclInvHolds, PTL DEF Spec, CompletedStays

(***************************************************************************)
(* "reset task if task is in Error state" (cluster_c2_plugin/main.rs:170)  *)
(* is true of the code under these conditions: between the answer the      *)
(* plugin read and its reset nobody else takes the task out of Error.  Run *)
(* ClusterReset shows that it is not without them.                         *)
(***************************************************************************)
THEOREM ErrorsAloneAreReset ==
  Exclusive /\ ~Faults => (Spec => OnlyErrorsAreReset)
<1>1. ASSUME ExclInv, [Next]_vars
      PROVE  [\A t \in TaskIds : tasks'[t].state = "Init" =>
                tasks[t].state \in {"None", "Init", "Error"}]_vars
  BY <1>1, RowSteps DEF RowStep
<1> QED
  BY <1>1, ExclInvHolds, PTL DEF Spec, OnlyErrorsAreReset

-----------------------------------------------------------------------------
(* No running task is lost, when no two tasks share their parameters *)

Held(t) ==
  \E w \in Workers : Claimed(w, t) \/ \E s \in Slots : work[w][s].task = t

HeldInv ==
  /\ ExclInv /\ Server_!ResInv
  /\ \A t \in TaskIds : tasks[t].state = "Running" => Held(t)

LEMMA NextHeld ==
  ASSUME HeldInv, [Next]_vars, NEW t \in TaskIds, tasks'[t].state = "Running"
  PROVE  Held(t)'
<1>t. /\ ExclInv /\ ClusterInv /\ CallsAwaited /\ HeldRuns /\ ResetsErrors
      /\ PlainStep \/ UNCHANGED vars
  BY PlainSteps DEF HeldInv, ExclInv
<1>1. CASE \E w \in Workers : Claimed(w, t)'
  BY <1>1 DEF Held
<1>2. CASE tasks'[t] = tasks[t]
  <2>1. tasks[t].state = "Running" /\ ~tasks[t].proof
    BY <1>2, <1>t DEF ResetsErrors
  <2>2. ASSUME NEW w \in Workers, Claimed(w, t) PROVE Held(t)'
    <3>1. CASE Claimed(w, t)'
      BY <3>1 DEF Held
    <3>2. ASSUME NEW s \in Slots, SlotSet(w, s, Taken(w)) PROVE Held(t)'
      BY <2>2, <3>2 DEF Held, SlotSet, Taken, Claimed
    <3> QED
      BY <2>2, <3>1, <3>2, <1>t, ClaimsAreKept
  <2>3. ASSUME NEW w \in Workers, NEW s \in Slots, work[w][s].task = t
        PROVE  Held(t)'
    <3>1. CASE work'[w][s].task = t
      BY <3>1 DEF Held
    <3>2. ~GiveUp(w, s)
      <4>1. Server_!has_task(tasks, t) /\ Server_!UnprovenTaskHasResource
        BY <2>1 DEF Server_!has_task, HeldInv, Server_!ResInv
      <4>2. res[Server!ResourceOf(t)] # "absent"
        BY <4>1, <2>1, SameStatements DEF Server_!UnprovenTaskHasResource
      <4> QED
        BY <4>2, <2>3, <1>t DEF GiveUp, ExclInv
    <3>3. ~ProofRecorded(w, s)
      BY <2>1, <2>3, <1>t DEF ProofRecorded, Server!Close, HeldRuns, Stored
    <3>4. ~RecordError(w, s)
      <4>1. SUFFICES ASSUME RecordError(w, s) PROVE FALSE
        OBVIOUS
      <4>2. Server_!RecordError(w, t)
        BY <4>1, <2>3, SameRequests, Zenon DEF RecordError
      <4>3. Server_!TypeOK /\ Server_!has_task(tasks, t)
        BY <2>1, <1>t, SameTypeOK DEF ClusterInv, TypeOK, Server_!has_task
      <4>4. tasks'[t].state = "Error"
        BY <4>2, <4>3, ServerFits, Server_!RowsWritten
      <4> QED
        BY <4>4
    <3>5. work[w][s] # NoJob
      BY <2>3, ServerAssumption DEF NoJob
    <3>6. work'[w][s] = work[w][s] \/ SlotStep(w, s)
      BY <1>t, SlotSteps DEF SlotStep, SlotSet
    <3> QED
      BY <2>3, <3>1, <3>2, <3>3, <3>4, <3>5, <3>6
         DEF SlotStep, SlotSet, Staged
  <2>4. Held(t)
    BY <2>1 DEF HeldInv
  <2> QED
    BY <2>2, <2>3, <2>4 DEF Held
<1> QED
  BY <1>1, <1>2, <1>t, RowSteps DEF RowStep

LEMMA NextHeldInv ==
  ASSUME Server_!UnsharedResources, Exclusive
  PROVE  HeldInv /\ [Next]_vars => HeldInv'
<1> SUFFICES ASSUME HeldInv, [Next]_vars PROVE HeldInv'
  OBVIOUS
<1>1. ExclInv'
  BY NextExclInv DEF HeldInv
<1>2. Server_!ResInv'
  <2>1. /\ TypeOK /\ SlotsTyped /\ Server_!TypeOK /\ Server_!KnowInv
        /\ Server_!ResInv
    BY SameTypeOK DEF HeldInv, ExclInv, ClusterInv, TypeOK
  <2>2. [Server_!Next]_(Server_!vars)
    BY <2>1, NextServer
  <2> QED
    BY <2>1, <2>2, ServerFits, Server_!NextResources
<1>3. \A t \in TaskIds : tasks'[t].state = "Running" => Held(t)'
  BY NextHeld
<1> QED
  BY <1>1, <1>2, <1>3 DEF HeldInv

(***************************************************************************)
(* A task that is Running is not lost between the components: it is in a   *)
(* slot, or in the answer on its way to a fetcher.  A worker gives a task  *)
(* up only when its parameters are gone, which they are not as long as it  *)
(* has no proof; with shared parameters (run ProxyServerShared) they may   *)
(* be.                                                                     *)
(***************************************************************************)
THEOREM RunningTasksAreHeld ==
  Server_!UnsharedResources /\ Exclusive /\ ~Faults =>
    (Spec => []RunningIsHeld)
<1> SUFFICES ASSUME Server_!UnsharedResources, Exclusive, ~Faults
             PROVE  Spec => []RunningIsHeld
  OBVIOUS
<1>1. Init => HeldInv
  <2> SUFFICES ASSUME Init PROVE HeldInv
    OBVIOUS
  <2>1. Server_!ResInv
    BY SameInit, ServerFits, Server_!InitResources DEF Init
  <2>2. \A t \in TaskIds : tasks[t].state # "Running"
    BY DEF Init, Server!Init, Server!EmptyTable, Server!NoRow
  <2> QED
    BY <2>1, <2>2, InitExcl DEF HeldInv
<1>2. HeldInv /\ [Next]_vars => HeldInv'
  BY NextHeldInv
<1>3. HeldInv => RunningIsHeld
  <2> SUFFICES ASSUME HeldInv, NEW t \in TaskIds, tasks[t].state = "Running"
               PROVE  \E w \in Workers :
                        \/ \E s \in Slots : work[w][s].task = t
                        \/ fetching[w] /\ call[fetchConn(w)].task = t
    BY DEF RunningIsHeld
  <2>1. ASSUME NEW w \in Workers, Claimed(w, t)
        PROVE  fetching[w] /\ call[fetchConn(w)].task = t
    <3>1. call[fetchConn(w)].pc = "done" /\ call[fetchConn(w)].task = t
      BY <2>1, ConnsOfAll
         DEF HeldInv, ExclInv, ClusterInv, TypeOK, Server!TypeOK,
             Server!CallsTyped, Claimed
    <3> QED
      BY <3>1 DEF HeldInv, ExclInv, CallsAwaited, FetcherAwaits
  <2> QED
    BY <2>1 DEF HeldInv, Held
<1> QED
  BY <1>1, <1>2, <1>3, PTL DEF Spec

=============================================================================
