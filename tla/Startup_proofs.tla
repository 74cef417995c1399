--------------------------- MODULE Startup_proofs ---------------------------
(***************************************************************************)
(* Proofs about the start of processes on one database, for every number   *)
(* of processes, tasks and worker ids, alone or sharing the database.      *)
(***************************************************************************)
EXTENDS Startup, TLAPS

-----------------------------------------------------------------------------
(* The order of the migrations' statements *)

Names == {"resource_infos", "worker_infos", "tasks", "tasks_create_at",
          "tasks_start_at", "tasks_complete_at", "tasks_state",
          "tasks_tasktype", "tasks_worker_id", "tasks_workerid_state",
          "tasks_workerid_tasktype", "workers_states", "tasks.comment",
          "seaql_migrations"}

Statement ==
  [version : Nat, kind : {"table", "index", "column", "record"}, name : Names]

\* Versions ascend, and the record of a version follows its statements.
InOrder(s) ==
  \A j, i \in 1..Len(s) : j < i =>
    /\ s[j].version <= s[i].version
    /\ s[j].version = s[i].version => s[j].kind # "record"

\* The statements of one version.
OfVersion(s, v) ==
  /\ s \in Seq(Statement)
  /\ InOrder(s)
  /\ \A i \in 1..Len(s) : s[i].version = v

\* The statements of all versions to v.
UpToVersion(s, v) ==
  /\ s \in Seq(Statement)
  /\ InOrder(s)
  /\ \A i \in 1..Len(s) : s[i].version <= v

LEMMA MigrationInOrder ==
  ASSUME NEW version \in Nat, NEW kind \in {"table", "index", "column"},
         NEW names \in Seq(Names)
  PROVE  OfVersion(Migration(version, kind, names), version)
<1> DEFINE own == [i \in 1..Len(names) |->
                     [version |-> version, kind |-> kind, name |-> names[i]]]
           record == [version |-> version, kind |-> "record",
                      name |-> "seaql_migrations"]
<1>1. own \in Seq(Statement) /\ Len(own) = Len(names)
  BY DEF Statement
<1>2. \A i \in 1..Len(own) : own[i].version = version /\ own[i].kind = kind
  BY <1>1
<1>3. record \in Statement /\ record.version = version
  BY DEF Statement, Names
<1>4. Migration(version, kind, names) = own \o <<record>>
  BY DEF Migration
<1> HIDE DEF own, record
<1>5. /\ own \o <<record>> \in Seq(Statement)
      /\ Len(own \o <<record>>) = Len(own) + 1
      /\ \A i \in 1..Len(own) : (own \o <<record>>)[i] = own[i]
      /\ (own \o <<record>>)[Len(own) + 1] = record
  BY <1>1, <1>3
<1> DEFINE m == own \o <<record>>
<1>6. /\ m \in Seq(Statement) /\ Len(m) = Len(own) + 1
      /\ \A i \in 1..Len(own) : m[i].version = version /\ m[i].kind = kind
      /\ m[Len(own) + 1].version = version
  BY <1>2, <1>3, <1>5
<1>7. Len(own) \in Nat
  BY <1>1
<1> HIDE DEF m
<1>8. \A i \in 1..Len(m) : m[i].version = version
  BY <1>6, <1>7
<1>9. InOrder(m)
  BY <1>6, <1>7, <1>8 DEF InOrder
<1>10. OfVersion(m, version)
  BY <1>6, <1>8, <1>9 DEF OfVersion
<1> QED
  BY <1>4, <1>10 DEF m

LEMMA ConcatInOrder ==
  ASSUME NEW v \in Nat, NEW s, NEW t, UpToVersion(s, v), OfVersion(t, v + 1)
  PROVE  UpToVersion(s \o t, v + 1)
<1> DEFINE u == s \o t
<1>a. /\ s \in Seq(Statement) /\ t \in Seq(Statement)
      /\ InOrder(s) /\ InOrder(t)
      /\ \A i \in 1..Len(s) : s[i].version <= v
      /\ \A i \in 1..Len(t) : t[i].version = v + 1
  BY DEF UpToVersion, OfVersion
<1>1. /\ u \in Seq(Statement) /\ Len(u) = Len(s) + Len(t)
      /\ \A i \in 1..Len(s) : u[i] = s[i]
      /\ \A i \in 1..Len(t) : u[Len(s) + i] = t[i]
  BY <1>a
<1>2. Len(s) \in Nat /\ Len(t) \in Nat
  BY <1>a
<1>3. \A i \in 1..Len(s) : s[i].version \in Nat
  <2>1. \A i \in 1..Len(s) : s[i] \in Statement
    BY <1>a
  <2> QED
    BY <2>1 DEF Statement
<1> HIDE DEF u
<1>4. \A i \in 1..Len(u) :
        i \in 1..Len(s) \/ (i - Len(s) \in 1..Len(t) /\ i = Len(s) + (i - Len(s)))
  BY <1>1, <1>2
<1>5. ASSUME NEW i \in 1..Len(u), i \notin 1..Len(s)
      PROVE  u[i] = t[i - Len(s)]
  <2>1. i - Len(s) \in 1..Len(t) /\ i = Len(s) + (i - Len(s))
    BY <1>4, <1>5
  <2>2. u[Len(s) + (i - Len(s))] = t[i - Len(s)]
    BY <1>1, <2>1
  <2> QED
    BY <2>1, <2>2
<1>6. \A i \in 1..Len(u) : u[i].version \in Nat /\ u[i].version <= v + 1
  <2> SUFFICES ASSUME NEW i \in 1..Len(u)
               PROVE  u[i].version \in Nat /\ u[i].version <= v + 1
    OBVIOUS
  <2>1. CASE i \in 1..Len(s)
    <3>1. u[i] = s[i] /\ s[i].version \in Nat /\ s[i].version <= v
      BY <1>a, <1>1, <1>3, <2>1
    <3> QED
      BY <3>1
  <2>2. CASE i \notin 1..Len(s)
    <3>1. u[i] = t[i - Len(s)] /\ i - Len(s) \in 1..Len(t)
      BY <1>4, <1>5, <2>2
    <3>2. u[i].version = v + 1
      BY <1>a, <3>1
    <3> QED
      BY <3>2
  <2> QED
    BY <2>1, <2>2
<1>7. ASSUME NEW j \in 1..Len(u), NEW i \in 1..Len(u), j < i
      PROVE  /\ u[j].version <= u[i].version
             /\ u[j].version = u[i].version => u[j].kind # "record"
  <2>1. CASE i \in 1..Len(s)
    <3>1. j \in 1..Len(s)
      BY <1>2, <1>7, <2>1
    <3>2. u[j] = s[j] /\ u[i] = s[i]
      BY <1>1, <2>1, <3>1
    <3> QED
      BY <1>a, <1>7, <2>1, <3>1, <3>2 DEF InOrder
  <2>2. CASE j \in 1..Len(s) /\ i \notin 1..Len(s)
    <3>1. u[j] = s[j] /\ u[i] = t[i - Len(s)] /\ i - Len(s) \in 1..Len(t)
      BY <1>1, <1>4, <1>5, <2>2
    <3>2. u[j].version <= v /\ u[j].version \in Nat /\ u[i].version = v + 1
      BY <1>a, <1>3, <2>2, <3>1
    <3> QED
      BY <3>2
  <2>3. CASE j \notin 1..Len(s)
    <3>1. i \notin 1..Len(s)
      BY <1>2, <1>7, <2>3
    <3>2. /\ u[i] = t[i - Len(s)] /\ i - Len(s) \in 1..Len(t)
          /\ u[j] = t[j - Len(s)] /\ j - Len(s) \in 1..Len(t)
          /\ j - Len(s) < i - Len(s)
      BY <1>2, <1>4, <1>5, <1>7, <2>3, <3>1
    <3> QED
      BY <1>a, <3>2 DEF InOrder
  <2> QED
    BY <2>1, <2>2, <2>3
<1> QED
  BY <1>1, <1>6, <1>7 DEF InOrder, u, UpToVersion

\* What the proofs need of the four migrations.
LEMMA ScriptInOrder ==
  /\ DOMAIN Script \subseteq Nat
  /\ \A i \in DOMAIN Script : Script[i].version \in Nat
  /\ \A i, j \in DOMAIN Script : j < i => Script[j].version <= Script[i].version
  /\ \A i, r \in DOMAIN Script :
       Script[r].kind = "record" /\ Script[i].version = Script[r].version => i <= r
<1>1. UpToVersion(m20220101, 1)
  <2>1. OfVersion(m20220101, 1)
    <3>1. <<"resource_infos", "worker_infos", "tasks">> \in Seq(Names)
      BY DEF Names
    <3> QED
      BY <3>1, MigrationInOrder DEF m20220101
  <2> QED
    BY <2>1 DEF UpToVersion, OfVersion
<1>2. OfVersion(m20220426, 2)
  <2>1. <<"tasks_create_at", "tasks_start_at", "tasks_complete_at",
          "tasks_state", "tasks_tasktype", "tasks_worker_id",
          "tasks_workerid_state", "tasks_workerid_tasktype">> \in Seq(Names)
    BY DEF Names
  <2> QED
    BY <2>1, MigrationInOrder DEF m20220426
<1>3. OfVersion(m20230111, 3)
  <2>1. <<"workers_states">> \in Seq(Names)
    BY DEF Names
  <2> QED
    BY <2>1, MigrationInOrder DEF m20230111
<1>4. OfVersion(m20230113, 4)
  <2>1. <<"tasks.comment">> \in Seq(Names)
    BY DEF Names
  <2> QED
    BY <2>1, MigrationInOrder DEF m20230113
<1>5. UpToVersion(m20220101 \o m20220426, 2)
  <2>1. OfVersion(m20220426, 1 + 1)
    BY <1>2
  <2>2. UpToVersion(m20220101 \o m20220426, 1 + 1)
    BY <1>1, <2>1, ConcatInOrder
  <2> QED
    BY <2>2
<1>6. UpToVersion((m20220101 \o m20220426) \o m20230111, 3)
  <2>1. OfVersion(m20230111, 2 + 1)
    BY <1>3
  <2>2. UpToVersion((m20220101 \o m20220426) \o m20230111, 2 + 1)
    BY <1>5, <2>1, ConcatInOrder
  <2> QED
    BY <2>2
<1>7. UpToVersion(Script, 3 + 1)
  <2>1. OfVersion(m20230113, 3 + 1)
    BY <1>4
  <2>2. UpToVersion(((m20220101 \o m20220426) \o m20230111) \o m20230113, 3 + 1)
    BY <1>6, <2>1, ConcatInOrder
  <2> QED
    BY <2>2 DEF Script
<1>8. Script \in Seq(Statement) /\ InOrder(Script)
  BY <1>7 DEF UpToVersion
<1>9. DOMAIN Script = 1..Len(Script) /\ Len(Script) \in Nat
  BY <1>8
<1>10. \A i \in DOMAIN Script : Script[i] \in Statement
  BY <1>8, <1>9
<1>11. \A i \in DOMAIN Script : i \in Nat /\ Script[i].version \in Nat
  BY <1>9, <1>10 DEF Statement
<1>12. \A i, j \in DOMAIN Script : j < i =>
         /\ Script[j].version <= Script[i].version
         /\ Script[j].version = Script[i].version => Script[j].kind # "record"
  BY <1>8, <1>9 DEF InOrder
<1> QED
  BY <1>11, <1>12

-----------------------------------------------------------------------------
(* The schema *)

\* The statements take effect in order, whoever runs them.
MadeInOrder == \A i \in made, j \in DOMAIN Script : j < i => j \in made

\* What a process that is up has not still to do is done.
RestIsMade ==
  \A p \in Procs : proc[p].pc # "down" => DOMAIN Script \subseteq made \cup proc[p].todo

PendingDone ==
  \A p \in Procs : proc[p].pc \in Up => proc[p].todo = {}

SchemaInv == TypeOK /\ MadeInOrder /\ RestIsMade /\ PendingDone

\* A version is recorded after all of its statements.
LEMMA AppliedIsMade ==
  ASSUME TypeOK, MadeInOrder, NEW i \in DOMAIN Script,
         Script[i].version \in applied
  PROVE  i \in made
<1>1. PICK r \in made : /\ Script[r].kind = "record"
                        /\ Script[i].version = Script[r].version
  BY DEF applied
<1>2. r \in DOMAIN Script /\ i <= r
  BY <1>1, ScriptInOrder DEF TypeOK
<1>3. i = r \/ i < r
  BY <1>2, ScriptInOrder
<1> QED
  BY <1>1, <1>3 DEF MadeInOrder

\* The record of a process, as TypeOK has it.
Process ==
  [pc : Up \cup {"down", "migrate"}, todo : SUBSET DOMAIN Script,
   id : Ids \cup {NoId}, held : SUBSET Tasks]

ProcessTyped(r) ==
  /\ r \in Process
  /\ r.todo # {} => r.pc = "migrate"
  /\ r.id # NoId <=> r.pc \in {"resume", "ready", "deaf"}
  /\ r.held # {} => r.pc = "ready"

LEMMA DownTyped == ProcessTyped(Down) /\ Down.pc = "down" /\ Down.id = NoId
BY DEF ProcessTyped, Down, Process, Up

\* One process takes a step, the others stay where they are.
Moves(p) ==
  /\ proc' \in [Procs -> Process]
  /\ \A q \in Procs : ProcessTyped(proc'[q])
  /\ \A q \in Procs \ {p} : proc'[q] = proc[q]

LEMMA ProcMoves ==
  ASSUME TypeOK, NEW p \in Procs, NEW r, ProcessTyped(r),
         proc' = [proc EXCEPT ![p] = r]
  PROVE  Moves(p) /\ proc'[p] = r
BY DEF TypeOK, Moves, ProcessTyped, Process

\* What each step does to the process that takes it.
LEMMA ProcTyped ==
  ASSUME TypeOK, NEW p \in Procs
  PROVE  ProcessTyped(proc[p])
BY DEF TypeOK, ProcessTyped, Process

LEMMA StartMoves ==
  ASSUME TypeOK, NEW p \in Procs, Start(p)
  PROVE  /\ Moves(p)
         /\ proc'[p].pc = "migrate" /\ proc'[p].id = NoId
         /\ proc'[p].todo = {i \in DOMAIN Script : Script[i].version \notin applied}
<1> DEFINE todo == {i \in DOMAIN Script : Script[i].version \notin applied}
           r == [Down EXCEPT !.pc = "migrate", !.todo = todo]
<1>1. ProcessTyped(r) /\ r.pc = "migrate" /\ r.id = NoId /\ r.todo = todo
  BY DownTyped DEF ProcessTyped, Process, Down, Up
<1>2. proc' = [proc EXCEPT ![p] = r]
  BY DEF Start
<1> HIDE DEF r, todo
<1>3. Moves(p) /\ proc'[p] = r
  BY <1>1, <1>2, ProcMoves
<1> QED
  BY <1>1, <1>3 DEF todo

\* The process dies, or is ended by a statement that failed.
LEMMA DownMoves ==
  ASSUME TypeOK, NEW p \in Procs, proc' = [proc EXCEPT ![p] = Down]
  PROVE  Moves(p) /\ proc'[p] = Down
BY DownTyped, ProcMoves

LEMMA MigrateMoves ==
  ASSUME TypeOK, NEW p \in Procs, NEW i \in proc[p].todo,
         proc' = [proc EXCEPT ![p].todo = @ \ {i}]
  PROVE  /\ Moves(p)
         /\ proc[p].pc = "migrate" /\ proc'[p].pc = "migrate"
         /\ proc'[p].id = NoId /\ proc'[p].todo = proc[p].todo \ {i}
<1> DEFINE r == [proc[p] EXCEPT !.todo = @ \ {i}]
<1>1. ProcessTyped(proc[p]) /\ proc[p].pc = "migrate" /\ proc[p].id = NoId
  BY ProcTyped DEF ProcessTyped
<1>2. /\ ProcessTyped(r) /\ r.pc = "migrate" /\ r.id = NoId
      /\ r.todo = proc[p].todo \ {i}
  BY <1>1 DEF ProcessTyped, Process
<1>3. proc' = [proc EXCEPT ![p] = r]
  OBVIOUS
<1> HIDE DEF r
<1> QED
  BY <1>1, <1>2, <1>3, ProcMoves

LEMMA IdentifyMoves ==
  ASSUME TypeOK, NEW p \in Procs, proc[p].todo = {}, proc[p].held = {},
         NEW id \in Ids \cup {NoId}, NEW pc \in {"insert", "resume"},
         pc = "resume" <=> id # NoId, Identify(p, pc, id)
  PROVE  /\ Moves(p)
         /\ proc'[p].pc = pc /\ proc'[p].id = id /\ proc'[p].todo = {}
<1> DEFINE r == [proc[p] EXCEPT !.pc = pc, !.id = id]
<1>1. ProcessTyped(proc[p])
  BY ProcTyped
<1>2. ProcessTyped(r) /\ r.pc = pc /\ r.id = id /\ r.todo = {}
  BY <1>1, NoIdAssumption DEF ProcessTyped, Process, Up
<1>3. proc' = [proc EXCEPT ![p] = r]
  BY DEF Identify
<1> HIDE DEF r
<1> QED
  BY <1>2, <1>3, ProcMoves

\* A process that has its id goes on with it.
LEMMA ReadyMoves ==
  ASSUME TypeOK, NEW p \in Procs, proc[p].pc \in {"resume", "ready", "deaf"},
         NEW pc \in {"resume", "ready", "deaf"}, NEW held \in SUBSET Tasks,
         held # {} => pc = "ready",
         proc' = [proc EXCEPT ![p] = [@ EXCEPT !.pc = pc, !.held = held]]
  PROVE  /\ Moves(p)
         /\ proc'[p].pc = pc /\ proc'[p].id = proc[p].id /\ proc'[p].todo = {}
         /\ proc'[p].held = held
<1> DEFINE r == [proc[p] EXCEPT !.pc = pc, !.held = held]
<1>1. ProcessTyped(proc[p]) /\ proc[p].todo = {} /\ proc[p].id # NoId
  BY ProcTyped DEF ProcessTyped
<1>2. /\ ProcessTyped(r) /\ r.pc = pc /\ r.id = proc[p].id /\ r.todo = {}
      /\ r.held = held
  BY <1>1 DEF ProcessTyped, Process, Up
<1>3. proc' = [proc EXCEPT ![p] = r]
  OBVIOUS
<1> HIDE DEF r
<1> QED
  BY <1>2, <1>3, ProcMoves

\* What a process does once it has its id.
Works(p) ==
  \/ Resume(p) \/ FetcherPanics(p)
  \/ \E t \in Tasks : Take(p, t) \/ Finish(p, t)

LEMMA WorkMoves ==
  ASSUME TypeOK, NEW p \in Procs, Works(p)
  PROVE  /\ Moves(p)
         /\ proc[p].pc \in {"resume", "ready"}
         /\ proc'[p].pc \in {"ready", "deaf"}
         /\ proc'[p].id = proc[p].id /\ proc'[p].todo = {}
         /\ owner' \in [Tasks -> Ids \cup {NoId}]
         /\ \A t \in Tasks : owner'[t] \in {owner[t], NoId, proc[p].id}
         /\ UNCHANGED <<database, shared, made, infos>>
<1>t. ProcessTyped(proc[p]) /\ owner \in [Tasks -> Ids \cup {NoId}]
  BY ProcTyped DEF TypeOK
<1>1. CASE Resume(p)
  <2> DEFINE held == {t \in Tasks : owner[t] = proc[p].id}
  <2>1. /\ proc[p].pc = "resume"
        /\ proc' = [proc EXCEPT ![p] = [@ EXCEPT !.pc = "ready", !.held = held]]
        /\ UNCHANGED <<database, shared, made, infos, owner>>
    BY <1>1 DEF Resume, Deployment
  <2>2. held \in SUBSET Tasks
    OBVIOUS
  <2> HIDE DEF held
  <2> QED
    BY <1>t, <2>1, <2>2, ReadyMoves
<1>2. CASE FetcherPanics(p)
  <2>1. /\ proc[p].pc = "resume"
        /\ proc' = [proc EXCEPT ![p].pc = "deaf"]
        /\ UNCHANGED <<database, shared, made, infos, owner>>
    BY <1>2 DEF FetcherPanics, Deployment
  <2>2. proc[p].held = {}
    BY <1>t, <2>1 DEF ProcessTyped
  <2>3. [proc[p] EXCEPT !.pc = "deaf"] = [proc[p] EXCEPT !.pc = "deaf", !.held = {}]
    BY <1>t, <2>2 DEF ProcessTyped, Process
  <2>4. proc' = [proc EXCEPT ![p] = [@ EXCEPT !.pc = "deaf", !.held = {}]]
    BY <2>1, <2>3
  <2> QED
    BY <1>t, <2>1, <2>4, ReadyMoves
<1>3. ASSUME NEW t \in Tasks, Take(p, t) \/ Finish(p, t)
      PROVE  /\ Moves(p)
             /\ proc[p].pc \in {"resume", "ready"}
             /\ proc'[p].pc \in {"ready", "deaf"}
             /\ proc'[p].id = proc[p].id /\ proc'[p].todo = {}
             /\ owner' \in [Tasks -> Ids \cup {NoId}]
             /\ \A u \in Tasks : owner'[u] \in {owner[u], NoId, proc[p].id}
             /\ UNCHANGED <<database, shared, made, infos>>
  <2>1. PICK held \in SUBSET Tasks : proc' = [proc EXCEPT ![p].held = held]
    <3>1. proc[p].held \cup {t} \in SUBSET Tasks /\ proc[p].held \ {t} \in SUBSET Tasks
      BY <1>t DEF ProcessTyped, Process
    <3> QED
      BY <1>3, <3>1 DEF Take, Finish
  <2>2. proc[p].pc = "ready"
    BY <1>t, <1>3 DEF Take, Finish, ProcessTyped
  <2>3. [proc[p] EXCEPT !.held = held] = [proc[p] EXCEPT !.pc = "ready", !.held = held]
    BY <1>t, <2>2 DEF ProcessTyped, Process
  <2>4. proc' = [proc EXCEPT ![p] = [@ EXCEPT !.pc = "ready", !.held = held]]
    BY <2>1, <2>3
  <2>5. /\ Moves(p) /\ proc'[p].pc = "ready"
        /\ proc'[p].id = proc[p].id /\ proc'[p].todo = {}
    BY <2>2, <2>4, ReadyMoves
  <2>6. /\ owner' \in [Tasks -> Ids \cup {NoId}]
        /\ \A u \in Tasks : owner'[u] \in {owner[u], NoId, proc[p].id}
        /\ UNCHANGED <<database, shared, made, infos>>
    <3>1. proc[p].id \in Ids \cup {NoId}
      BY <1>t DEF ProcessTyped, Process
    <3> QED
      BY <1>t, <1>3, <3>1 DEF Take, Finish, Deployment
  <2> QED
    BY <2>2, <2>5, <2>6
<1> QED
  BY <1>1, <1>2, <1>3 DEF Works

\* The next statement of the pending migrations takes effect.
RunsStatement(p) ==
  /\ \E i \in proc[p].todo :
       /\ \A j \in proc[p].todo : i <= j
       /\ made' = made \cup {i}
       /\ proc' = [proc EXCEPT ![p].todo = @ \ {i}]
  /\ UNCHANGED <<database, shared, infos, owner>>

Ends(p) ==
  /\ proc' = [proc EXCEPT ![p] = Down]
  /\ UNCHANGED <<database, shared, made, infos, owner>>

\* The kinds of steps: the process starts, runs a statement, ends, finds or
\* stores its id, works, or nothing moves.
LEMMA Steps ==
  ASSUME [Next]_vars
  PROVE  \/ \E p \in Procs :
              \/ Start(p) \/ Find(p) \/ Insert(p) \/ Works(p)
              \/ RunsStatement(p) \/ Ends(p)
         \/ UNCHANGED <<database, shared, made, infos, proc, owner>>
<1>1. ASSUME NEW p \in Procs, Migrate(p)
      PROVE  RunsStatement(p) \/ Ends(p)
  BY <1>1 DEF Migrate, RunsStatement, Ends, Deployment
<1>2. ASSUME NEW p \in Procs, Crash(p)
      PROVE  Ends(p)
  BY <1>2 DEF Crash, Ends, Deployment
<1> QED
  BY <1>1, <1>2 DEF Next, Step, Works, Calm, vars, Deployment

\* A process that has its schema finds an id or stores a new one.
LEMMA IdMoves ==
  ASSUME TypeOK, NEW p \in Procs, Find(p) \/ Insert(p)
  PROVE  /\ Moves(p) /\ proc[p].todo = {} /\ proc'[p].todo = {}
         /\ \/ /\ proc[p].pc = "migrate" /\ proc'[p].pc = "resume"
               /\ proc'[p].id \in infos /\ UNCHANGED infos
            \/ /\ proc[p].pc = "migrate" /\ proc'[p].pc = "insert"
               /\ proc'[p].id = NoId /\ infos = {} /\ UNCHANGED infos
            \/ /\ proc[p].pc = "insert" /\ proc'[p].pc = "resume"
               /\ proc'[p].id \in Ids /\ infos' = infos \cup {proc'[p].id}
         /\ UNCHANGED <<database, shared, made, owner>>
<1>t. ProcessTyped(proc[p]) /\ infos \subseteq Ids
  BY ProcTyped DEF TypeOK
<1>1. ASSUME NEW id \in infos, proc[p].pc = "migrate", proc[p].todo = {},
             Identify(p, "resume", id)
      PROVE  /\ Moves(p) /\ proc'[p].todo = {}
             /\ proc'[p].pc = "resume" /\ proc'[p].id \in infos
  <2>1. proc[p].held = {} /\ id \in Ids /\ id # NoId
    BY <1>t, <1>1, NoIdAssumption DEF ProcessTyped
  <2> QED
    BY <1>1, <2>1, IdentifyMoves
<1>2. ASSUME proc[p].pc = "migrate", proc[p].todo = {},
             Identify(p, "insert", NoId)
      PROVE  /\ Moves(p) /\ proc'[p].todo = {}
             /\ proc'[p].pc = "insert" /\ proc'[p].id = NoId
  <2>1. proc[p].held = {}
    BY <1>t, <1>2 DEF ProcessTyped
  <2> QED
    BY <1>2, <2>1, IdentifyMoves
<1>3. ASSUME NEW id \in Ids, proc[p].pc = "insert", Identify(p, "resume", id)
      PROVE  /\ Moves(p) /\ proc[p].todo = {} /\ proc'[p].todo = {}
             /\ proc'[p].pc = "resume" /\ proc'[p].id = id
  <2>1. proc[p].held = {} /\ proc[p].todo = {} /\ id # NoId
    BY <1>t, <1>3, NoIdAssumption DEF ProcessTyped
  <2> QED
    BY <1>3, <2>1, IdentifyMoves
<1>4. CASE Find(p)
  BY <1>1, <1>2, <1>4 DEF Find, Deployment
<1>5. CASE Insert(p)
  <2>1. PICK id \in Ids : infos' = infos \cup {id} /\ Identify(p, "resume", id)
    BY <1>5 DEF Insert
  <2> QED
    BY <1>3, <1>5, <2>1 DEF Insert, Deployment
<1> QED
  BY <1>4, <1>5

LEMMA FaultyTyped ==
  ASSUME faulty \in BOOLEAN, [Next]_vars
  PROVE  faulty' \in BOOLEAN
<1>1. ASSUME NEW p \in Procs, Step(p) PROVE faulty' \in BOOLEAN
  BY <1>1 DEF Step, Start, Migrate, Find, Insert, Resume
<1>2. ASSUME NEW p \in Procs, FetcherPanics(p) \/ Crash(p) PROVE faulty' \in BOOLEAN
  BY <1>2 DEF FetcherPanics, Crash
<1>3. ASSUME NEW p \in Procs, NEW t \in Tasks, Take(p, t) \/ Finish(p, t)
      PROVE  faulty' \in BOOLEAN
  BY <1>3 DEF Take, Finish
<1> QED
  BY <1>1, <1>2, <1>3 DEF Next, Calm, vars

\* What the proofs need of a step: the types, and what it does to the
\* schema and to the process that takes it.
LEMMA NextTyped ==
  ASSUME TypeOK, [Next]_vars
  PROVE  TypeOK'
<1>t. /\ \A q \in Procs : ProcessTyped(proc[q])
      /\ proc \in [Procs -> Process] /\ faulty' \in BOOLEAN
  BY ProcTyped, FaultyTyped DEF TypeOK, Process
<1>p. ASSUME proc' \in [Procs -> Process],
             \A q \in Procs : ProcessTyped(proc'[q]),
             made' \in SUBSET DOMAIN Script, infos' \in SUBSET Ids,
             owner' \in [Tasks -> Ids \cup {NoId}],
             UNCHANGED <<database, shared>>
      PROVE  TypeOK'
  BY <1>t, <1>p DEF TypeOK, ProcessTyped, Process
<1>1. ASSUME NEW p \in Procs, Start(p) PROVE TypeOK'
  BY <1>1, <1>p, StartMoves DEF Start, Deployment, Moves, TypeOK
<1>2. ASSUME NEW p \in Procs, RunsStatement(p) PROVE TypeOK'
  <2>1. PICK i \in proc[p].todo : /\ made' = made \cup {i}
                                  /\ proc' = [proc EXCEPT ![p].todo = @ \ {i}]
    BY <1>2 DEF RunsStatement
  <2>2. Moves(p)
    BY <2>1, MigrateMoves
  <2>3. made' \in SUBSET DOMAIN Script
    BY <1>t, <2>1 DEF TypeOK, Process
  <2> QED
    BY <1>2, <1>p, <2>2, <2>3 DEF RunsStatement, Moves, TypeOK
<1>3. ASSUME NEW p \in Procs, Ends(p) PROVE TypeOK'
  BY <1>3, <1>p, DownMoves DEF Ends, Moves, TypeOK
<1>4. ASSUME NEW p \in Procs, Find(p) \/ Insert(p) PROVE TypeOK'
  <2>1. Moves(p) /\ infos' \in SUBSET Ids
    BY <1>4, IdMoves DEF TypeOK
  <2> QED
    BY <1>4, <1>p, <2>1 DEF Find, Insert, Deployment, Moves, TypeOK
<1>5. ASSUME NEW p \in Procs, Works(p) PROVE TypeOK'
  BY <1>5, <1>p, WorkMoves DEF Moves, TypeOK
<1>6. CASE UNCHANGED <<database, shared, made, infos, proc, owner>>
  BY <1>6, <1>t, <1>p DEF TypeOK
<1> QED
  BY <1>1, <1>2, <1>3, <1>4, <1>5, <1>6, Steps

LEMMA NextSchema ==
  ASSUME SchemaInv, [Next]_vars
  PROVE  SchemaInv'
<1>t. /\ TypeOK /\ TypeOK' /\ made \in SUBSET DOMAIN Script
      /\ MadeInOrder /\ RestIsMade /\ PendingDone
  BY NextTyped DEF SchemaInv, TypeOK
\* A step of one process, after which the schema has at least what it had.
<1>s. ASSUME NEW p \in Procs, Moves(p), made \subseteq made',
             \/ proc'[p].pc = "down"
             \/ /\ DOMAIN Script \subseteq made' \cup proc'[p].todo
                /\ proc'[p].pc \in Up => proc'[p].todo = {},
             MadeInOrder'
      PROVE  SchemaInv'
  <2>1. RestIsMade'
    BY <1>t, <1>s DEF RestIsMade, Moves
  <2>2. PendingDone'
    BY <1>t, <1>s DEF PendingDone, Moves, Up
  <2> QED
    BY <1>t, <1>s, <2>1, <2>2 DEF SchemaInv
<1>o. UNCHANGED made => MadeInOrder'
  BY <1>t DEF MadeInOrder
<1>1. ASSUME NEW p \in Procs, Start(p) PROVE SchemaInv'
  <2>1. /\ Moves(p) /\ proc'[p].pc = "migrate" /\ UNCHANGED made
        /\ proc'[p].todo = {i \in DOMAIN Script : Script[i].version \notin applied}
    BY <1>t, <1>1, StartMoves DEF Start
  <2>2. DOMAIN Script \subseteq made \cup proc'[p].todo
    BY <1>t, <2>1, AppliedIsMade
  <2>3. DOMAIN Script \subseteq made' \cup proc'[p].todo
    BY <2>1, <2>2
  <2> QED
    BY <1>o, <1>s, <2>1, <2>3 DEF Up
<1>2. ASSUME NEW p \in Procs, RunsStatement(p) PROVE SchemaInv'
  <2>1. PICK i \in proc[p].todo :
          /\ \A j \in proc[p].todo : i <= j
          /\ made' = made \cup {i}
          /\ proc' = [proc EXCEPT ![p].todo = @ \ {i}]
    BY <1>2 DEF RunsStatement
  <2>2. /\ Moves(p) /\ proc[p].pc = "migrate" /\ proc'[p].pc = "migrate"
        /\ proc'[p].todo = proc[p].todo \ {i}
    BY <1>t, <2>1, MigrateMoves
  <2>3. DOMAIN Script \subseteq made \cup proc[p].todo
    BY <1>t, <2>2 DEF RestIsMade
  <2>4. DOMAIN Script \subseteq made' \cup proc'[p].todo
    BY <2>1, <2>2, <2>3
  \* What precedes the least pending statement is not pending.
  <2>5. ASSUME NEW j \in DOMAIN Script, j < i PROVE j \in made
    <3>1. j \notin proc[p].todo
      <4>1. ~(i <= j)
        <5>1. i \in Nat /\ j \in Nat
          BY <1>t, ScriptInOrder DEF TypeOK
        <5> QED
          BY <2>5, <5>1
      <4> QED
        BY <2>1, <4>1
    <3> QED
      BY <2>3, <3>1
  <2>6. MadeInOrder'
    BY <1>t, <2>1, <2>5 DEF MadeInOrder
  <2> QED
    BY <1>s, <2>1, <2>2, <2>4, <2>6 DEF Up
<1>3. ASSUME NEW p \in Procs, Ends(p) PROVE SchemaInv'
  <2>1. Moves(p) /\ proc'[p].pc = "down" /\ UNCHANGED made
    BY <1>t, <1>3, DownMoves, DownTyped DEF Ends
  <2> QED
    BY <1>o, <1>s, <2>1
\* Past the migrations nothing is pending and the schema does not change.
<1>4. ASSUME NEW p \in Procs, Find(p) \/ Insert(p) \/ Works(p) PROVE SchemaInv'
  <2>1. /\ Moves(p) /\ UNCHANGED made /\ proc[p].todo = {} /\ proc'[p].todo = {}
        /\ proc[p].pc # "down"
    <3>1. CASE Find(p) \/ Insert(p)
      BY <1>t, <3>1, IdMoves
    <3>2. CASE Works(p)
      BY <1>t, <3>2, WorkMoves DEF PendingDone, Up
    <3> QED
      BY <1>4, <3>1, <3>2
  <2>2. DOMAIN Script \subseteq made' \cup proc'[p].todo
    BY <1>t, <2>1 DEF RestIsMade
  <2> QED
    BY <1>o, <1>s, <2>1, <2>2
<1>5. CASE UNCHANGED <<database, shared, made, infos, proc, owner>>
  BY <1>5, <1>t, <1>o DEF SchemaInv, RestIsMade, PendingDone
<1> QED
  BY <1>1, <1>2, <1>3, <1>4, <1>5, Steps

LEMMA InitSchema == Init => SchemaInv
<1> SUFFICES ASSUME Init PROVE SchemaInv
  OBVIOUS
<1>1. PICK last \in 0..4 : made = {i \in DOMAIN Script : Script[i].version <= last}
  BY DEF Init
<1>2. \A p \in Procs : proc[p] = Down
  BY DEF Init
<1>3. proc \in [Procs -> Process]
  BY DownTyped DEF Init, ProcessTyped
<1>4. TypeOK
  BY <1>1, <1>2, <1>3, DownTyped DEF Init, TypeOK, ProcessTyped, Process
<1>5. MadeInOrder
  <2> SUFFICES ASSUME NEW i \in made, NEW j \in DOMAIN Script, j < i
               PROVE  j \in made
    BY DEF MadeInOrder
  <2>1. i \in DOMAIN Script /\ Script[i].version <= last
    BY <1>1
  <2>2. Script[j].version <= Script[i].version
    BY <2>1, ScriptInOrder
  <2>3. Script[j].version \in Nat /\ Script[i].version \in Nat /\ last \in Nat
    BY <2>1, ScriptInOrder
  <2>4. Script[j].version <= last
    BY <2>1, <2>2, <2>3
  <2> QED
    BY <1>1, <2>4
<1> QED
  BY <1>2, <1>4, <1>5, DownTyped DEF SchemaInv, RestIsMade, PendingDone, Up

LEMMA SchemaInvariant == Spec => []SchemaInv
<1>1. SchemaInv /\ [Next]_vars => SchemaInv'
  BY NextSchema
<1> QED
  BY <1>1, InitSchema, PTL DEF Spec

(***************************************************************************)
(* The database and the processes that start on it are well typed; a       *)
(* process has an id only once it found or stored one.                     *)
(***************************************************************************)
THEOREM StartTyped == Spec => []TypeOK
BY SchemaInvariant, PTL DEF SchemaInv

(***************************************************************************)
(* A process that is past Migrator::up works on the whole schema, whatever *)
(* release left the database, wherever earlier starts died between two     *)
(* statements and however many processes migrate at once: statements take  *)
(* effect in the order of the script and a version is recorded last.       *)
(***************************************************************************)
THEOREM ReadyAreMigrated == Spec => []ReadyIsMigrated
<1>1. SchemaInv => ReadyIsMigrated
  BY DEF SchemaInv, ReadyIsMigrated, RestIsMade, PendingDone, TypeOK, Up
<1> QED
  BY <1>1, SchemaInvariant, PTL

-----------------------------------------------------------------------------
(* The worker id, when no two processes share the database *)

OneProcess ==
  \A p, q \in Procs : p = q \/ proc[p].pc = "down" \/ proc[q].pc = "down"

(***************************************************************************)
(* One worker id is stored at most, none while a process is about to store *)
(* one, and whatever has an id - a process that is up, a task that is      *)
(* Running - has this one.                                                 *)
(***************************************************************************)
IdentityInv ==
  ~shared =>
    /\ OneProcess
    /\ \A a, b \in infos : a = b
    /\ \A p \in Procs : /\ proc[p].pc = "insert" => infos = {}
                        /\ proc[p].id # NoId => proc[p].id \in infos
    /\ \A t \in Tasks : owner[t] # NoId => owner[t] \in infos

LEMMA NextIdentity ==
  ASSUME TypeOK, IdentityInv, [Next]_vars
  PROVE  IdentityInv'
<1> SUFFICES ASSUME ~shared'
             PROVE  /\ OneProcess'
                    /\ \A a, b \in infos' : a = b
                    /\ \A p \in Procs : /\ proc'[p].pc = "insert" => infos' = {}
                                        /\ proc'[p].id # NoId => proc'[p].id \in infos'
                    /\ \A t \in Tasks : owner'[t] # NoId => owner'[t] \in infos'
  BY DEF IdentityInv
<1>s. ~shared
  <2>1. ASSUME NEW p \in Procs, Start(p) \/ Find(p) \/ Insert(p) PROVE UNCHANGED shared
    BY <2>1 DEF Start, Find, Insert, Deployment
  <2>2. ASSUME NEW p \in Procs, Works(p) PROVE UNCHANGED shared
    BY <2>2, WorkMoves
  <2> QED
    BY <2>1, <2>2, Steps DEF RunsStatement, Ends
<1>t. /\ OneProcess
      /\ \A a, b \in infos : a = b
      /\ \A p \in Procs : /\ proc[p].pc = "insert" => infos = {}
                          /\ proc[p].id # NoId => proc[p].id \in infos
      /\ \A t \in Tasks : owner[t] # NoId => owner[t] \in infos
  BY <1>s DEF IdentityInv
<1>p. \A p \in Procs : ProcessTyped(proc[p])
  BY ProcTyped
\* A process that was up, or was started while all were down, is the one
\* that is up.
<1>a. ASSUME NEW p \in Procs, Moves(p),
             \/ proc'[p].pc = "down"
             \/ proc[p].pc # "down"
             \/ \A q \in Procs : proc[q].pc = "down"
      PROVE  /\ OneProcess'
             /\ proc'[p].pc # "down" =>
                  \A q \in Procs \ {p} : proc'[q].pc = "down" /\ proc'[q].id = NoId
  <2>1. \A q \in Procs \ {p} : proc'[q] = proc[q]
    BY <1>a DEF Moves
  <2>2. \A q \in Procs : proc[q].pc = "down" => proc[q].id = NoId
    BY <1>p DEF ProcessTyped
  <2> QED
    BY <1>a, <1>t, <2>1, <2>2 DEF OneProcess
<1>1. ASSUME NEW p \in Procs, Start(p)
      PROVE  /\ OneProcess' /\ UNCHANGED <<infos, owner>> /\ Moves(p)
             /\ proc'[p].pc # "insert" /\ proc'[p].id = NoId
  BY <1>1, <1>a, <1>s, StartMoves DEF Start
<1>2. ASSUME NEW p \in Procs, RunsStatement(p)
      PROVE  /\ OneProcess' /\ UNCHANGED <<infos, owner>> /\ Moves(p)
             /\ proc'[p].pc # "insert" /\ proc'[p].id = NoId
  <2>1. PICK i \in proc[p].todo : proc' = [proc EXCEPT ![p].todo = @ \ {i}]
    BY <1>2 DEF RunsStatement
  <2>2. /\ Moves(p) /\ proc[p].pc = "migrate" /\ proc'[p].pc = "migrate"
        /\ proc'[p].id = NoId
    BY <2>1, MigrateMoves
  <2> QED
    BY <1>2, <1>a, <2>2 DEF RunsStatement
<1>3. ASSUME NEW p \in Procs, Ends(p)
      PROVE  /\ OneProcess' /\ UNCHANGED <<infos, owner>> /\ Moves(p)
             /\ proc'[p].pc # "insert" /\ proc'[p].id = NoId
  <2>1. Moves(p) /\ proc'[p].pc = "down" /\ proc'[p].id = NoId
    BY <1>3, DownMoves, DownTyped DEF Ends
  <2> QED
    BY <1>3, <1>a, <2>1 DEF Ends
<1>4. CASE \E p \in Procs : Start(p) \/ RunsStatement(p) \/ Ends(p)
  <2>1. PICK p \in Procs :
          /\ OneProcess' /\ UNCHANGED <<infos, owner>> /\ Moves(p)
          /\ proc'[p].pc # "insert" /\ proc'[p].id = NoId
    BY <1>1, <1>2, <1>3, <1>4
  <2> QED
    BY <1>t, <2>1 DEF Moves
<1>5. ASSUME NEW p \in Procs, Find(p) \/ Insert(p)
      PROVE  /\ OneProcess'
             /\ \A a, b \in infos' : a = b
             /\ \A q \in Procs : /\ proc'[q].pc = "insert" => infos' = {}
                                 /\ proc'[q].id # NoId => proc'[q].id \in infos'
             /\ \A t \in Tasks : owner'[t] # NoId => owner'[t] \in infos'
  <2>1. /\ Moves(p) /\ UNCHANGED owner
        /\ \/ /\ proc[p].pc = "migrate" /\ proc'[p].pc = "resume"
              /\ proc'[p].id \in infos /\ UNCHANGED infos
           \/ /\ proc[p].pc = "migrate" /\ proc'[p].pc = "insert"
              /\ proc'[p].id = NoId /\ infos = {} /\ UNCHANGED infos
           \/ /\ proc[p].pc = "insert" /\ proc'[p].pc = "resume"
              /\ proc'[p].id \in Ids /\ infos' = infos \cup {proc'[p].id}
    BY <1>5, IdMoves
  <2>2. /\ OneProcess'
        /\ \A q \in Procs \ {p} : proc'[q].pc = "down" /\ proc'[q].id = NoId
    BY <1>a, <2>1
  <2>3. proc[p].pc = "insert" => infos = {}
    BY <1>t
  <2>4. \A a, b \in infos' : a = b
    BY <1>t, <2>1, <2>3
  <2>5. \A t \in Tasks : owner'[t] # NoId => owner'[t] \in infos'
    BY <1>t, <2>1
  <2>6. /\ proc'[p].pc = "insert" => infos' = {}
        /\ proc'[p].id # NoId => proc'[p].id \in infos'
    BY <2>1
  <2> QED
    BY <2>2, <2>4, <2>5, <2>6
<1>6. ASSUME NEW p \in Procs, Works(p)
      PROVE  /\ OneProcess'
             /\ \A a, b \in infos' : a = b
             /\ \A q \in Procs : /\ proc'[q].pc = "insert" => infos' = {}
                                 /\ proc'[q].id # NoId => proc'[q].id \in infos'
             /\ \A t \in Tasks : owner'[t] # NoId => owner'[t] \in infos'
  <2>1. /\ Moves(p) /\ UNCHANGED infos
        /\ proc[p].pc \in {"resume", "ready"} /\ proc'[p].pc \in {"ready", "deaf"}
        /\ proc'[p].id = proc[p].id
        /\ \A t \in Tasks : owner'[t] \in {owner[t], NoId, proc[p].id}
    BY <1>6, WorkMoves
  <2>2. /\ OneProcess'
        /\ \A q \in Procs \ {p} : proc'[q].pc = "down" /\ proc'[q].id = NoId
    BY <1>a, <2>1
  <2>3. proc[p].id # NoId => proc[p].id \in infos
    BY <1>t
  <2> QED
    BY <1>t, <2>1, <2>2, <2>3
<1>7. CASE UNCHANGED <<database, shared, made, infos, proc, owner>>
  BY <1>7, <1>t DEF OneProcess
<1> QED
  BY <1>4, <1>5, <1>6, <1>7, Steps

(***************************************************************************)
(* When one process at a time uses the database, a task that is Running is *)
(* so under the one stored worker id, which every later life of the        *)
(* process finds (worker_info.rs get_worker_id).                           *)
(***************************************************************************)
THEOREM OwnersAreStored == Spec => []OwnerIsStored
<1>1. Init => IdentityInv
  BY DownTyped DEF Init, IdentityInv, OneProcess
<1>2. SchemaInv /\ IdentityInv /\ [Next]_vars => IdentityInv'
  BY NextIdentity DEF SchemaInv
<1>3. IdentityInv => OwnerIsStored
  <2> SUFFICES ASSUME IdentityInv, ~shared, NEW t \in Tasks, owner[t] # NoId
               PROVE  infos = {owner[t]}
    BY DEF OwnerIsStored
  <2> QED
    BY DEF IdentityInv
<1> QED
  BY <1>1, <1>2, <1>3, SchemaInvariant, PTL DEF Spec

=============================================================================
