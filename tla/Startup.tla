------------------------------- MODULE Startup -------------------------------
(***************************************************************************)
(* How a gpuproxy or gpuproxy_worker process starts on its database        *)
(* (start_server, run_worker): it brings the schema up to date, finds or   *)
(* makes its worker id, and takes up the tasks it left Running in an       *)
(* earlier life.  A process may die between any two statements and is      *)
(* started again; with `shared`, two processes use one database at once.   *)
(*                                                                         *)
(* Migrator::up is sea-orm-migration's: it reads which versions are in     *)
(* seaql_migrations, runs the others in order and inserts the version of   *)
(* each when its statements are done; on sqlite and mysql no transaction   *)
(* holds a migration together.                                             *)
(***************************************************************************)
EXTENDS Naturals, FiniteSets, Sequences

CONSTANTS
  Procs,      \* processes, started on one database
  Databases,  \* the kinds of database to look at: "sqlite", "mysql"
  Ids,        \* uuids for new worker ids
  Tasks,      \* tasks on the server
  NoId

ASSUME DatabasesAssumption == Databases \subseteq {"sqlite", "mysql"}
ASSUME NoIdAssumption == NoId \notin Ids

VARIABLES
  database, shared,  \* how the program is deployed: these never change
  made,    \* the statements of the migrations that took effect
  infos,   \* the rows of worker_infos
  proc,    \* process -> where it is
  owner,   \* task -> the worker id it is Running under
  faulty   \* whether processes still die and statements fail

vars == <<database, shared, made, infos, proc, owner, faulty>>

-----------------------------------------------------------------------------
(* The migrations: statements of one kind, then the insertion of the version *)

Migration(version, kind, names) ==
  [i \in 1..Len(names) |-> [version |-> version, kind |-> kind, name |-> names[i]]]
    \o <<[version |-> version, kind |-> "record", name |-> "seaql_migrations"]>>

m20220101 == Migration(1, "table", <<"resource_infos", "worker_infos", "tasks">>)

m20220426 == Migration(2, "index",
  <<"tasks_create_at", "tasks_start_at", "tasks_complete_at", "tasks_state",
    "tasks_tasktype", "tasks_worker_id", "tasks_workerid_state",
    "tasks_workerid_tasktype">>)

m20230111 == Migration(3, "table", <<"workers_states">>)

m20230113 == Migration(4, "column", <<"tasks.comment">>)

Script == m20220101 \o m20220426 \o m20230111 \o m20230113

\* Mutant: a version is applied when something of it is there.
appliedInPart == {Script[i].version : i \in made}

applied == {Script[i].version : i \in {j \in made : Script[j].kind = "record"}}

\* What cannot be run twice: ignore_exist knows the message of mysql only,
\* and ADD COLUMN and the primary key of seaql_migrations have no such help.
Unrepeatable ==
  {"column", "record"} \cup (IF database = "sqlite" THEN {"index"} ELSE {})

\* Mutant: tables are created without IF NOT EXISTS.
ToleratedNoTable(i) == Script[i].kind \notin Unrepeatable \cup {"table"}

\* CREATE TABLE has IF NOT EXISTS.
Tolerated(i) == Script[i].kind \notin Unrepeatable

-----------------------------------------------------------------------------
Down == [pc |-> "down", todo |-> {}, id |-> NoId, held |-> {}]

\* The database is new, or left by a release with fewer migrations.
Init ==
  /\ database \in Databases
  /\ shared \in BOOLEAN
  /\ \E last \in 0..4 :
       made = {i \in DOMAIN Script : Script[i].version <= last}
  /\ infos = {}
  /\ proc = [p \in Procs |-> Down]
  /\ owner = [t \in Tasks |-> NoId]
  /\ faulty = TRUE

Deployment == <<database, shared>>

\* The file of a sqlite database is made, connections are opened, and
\* seaql_migrations is created if it is not there and read.
Start(p) ==
  /\ proc[p].pc = "down"
  /\ shared \/ \A q \in Procs : proc[q].pc = "down"
  /\ proc' = [proc EXCEPT ![p] =
       [Down EXCEPT !.pc = "migrate",
                    !.todo = {i \in DOMAIN Script : Script[i].version \notin applied}]]
  /\ UNCHANGED <<Deployment, made, infos, owner, faulty>>

\* The next statement of the pending migrations; its error ends the process.
Migrate(p) ==
  /\ proc[p].pc = "migrate"
  /\ \E i \in proc[p].todo :
       /\ \A j \in proc[p].todo : i <= j
       /\ \/ /\ i \notin made \/ Tolerated(i)
             /\ made' = made \cup {i}
             /\ proc' = [proc EXCEPT ![p].todo = @ \ {i}]
          \/ /\ i \in made /\ ~Tolerated(i)
             /\ proc' = [proc EXCEPT ![p] = Down]
             /\ UNCHANGED made
  /\ UNCHANGED <<Deployment, infos, owner, faulty>>

Identify(p, pc, id) ==
  proc' = [proc EXCEPT ![p] = [@ EXCEPT !.pc = pc, !.id = id]]

\* Mutant: a new id is made whatever is stored.
FindNothing(p) ==
  /\ proc[p].pc = "migrate" /\ proc[p].todo = {}
  /\ Identify(p, "insert", NoId)
  /\ UNCHANGED <<Deployment, made, infos, owner, faulty>>

\* get_worker_id: any row will do.
Find(p) ==
  /\ proc[p].pc = "migrate" /\ proc[p].todo = {}
  /\ \/ \E id \in infos : Identify(p, "resume", id)
     \/ infos = {} /\ Identify(p, "insert", NoId)
  /\ UNCHANGED <<Deployment, made, infos, owner, faulty>>

\* Mutant: the id is not stored.
InsertNothing(p) ==
  /\ proc[p].pc = "insert"
  /\ \E id \in Ids \ infos : Identify(p, "resume", id)
  /\ UNCHANGED <<Deployment, made, infos, owner, faulty>>

\* Mutant: the id is stored, and not the one the process goes on with.
InsertUnused(p) ==
  /\ proc[p].pc = "insert"
  /\ \E id \in Ids \ infos : infos' = infos \cup {id} /\ Identify(p, "resume", NoId)
  /\ UNCHANGED <<Deployment, made, owner, faulty>>

Insert(p) ==
  /\ proc[p].pc = "insert"
  /\ \E id \in Ids \ infos : infos' = infos \cup {id} /\ Identify(p, "resume", id)
  /\ UNCHANGED <<Deployment, made, owner, faulty>>

\* The fetcher asks for the tasks that are Running under the id.
Resume(p) ==
  /\ proc[p].pc = "resume"
  /\ proc' = [proc EXCEPT ![p] =
       [@ EXCEPT !.pc = "ready", !.held = {t \in Tasks : owner[t] = proc[p].id}]]
  /\ UNCHANGED <<Deployment, made, infos, owner, faulty>>

\* That call fails: expect() ends the fetcher, and not the process.
FetcherPanics(p) ==
  /\ faulty
  /\ proc[p].pc = "resume"
  /\ proc' = [proc EXCEPT ![p].pc = "deaf"]
  /\ UNCHANGED <<Deployment, made, infos, owner, faulty>>

\* The server hands a task to the worker, and the worker records its end.
Take(p, t) ==
  /\ proc[p].pc = "ready"
  /\ owner[t] = NoId
  /\ owner' = [owner EXCEPT ![t] = proc[p].id]
  /\ proc' = [proc EXCEPT ![p].held = @ \cup {t}]
  /\ UNCHANGED <<Deployment, made, infos, faulty>>

Finish(p, t) ==
  /\ t \in proc[p].held
  /\ owner' = [owner EXCEPT ![t] = NoId]
  /\ proc' = [proc EXCEPT ![p].held = @ \ {t}]
  /\ UNCHANGED <<Deployment, made, infos, faulty>>

\* The process dies, or a statement of its start fails; the operator stops a
\* process whose fetcher is gone, if he notices.
Crash(p) ==
  /\ proc[p].pc # "down"
  /\ faulty \/ proc[p].pc = "deaf"
  /\ proc' = [proc EXCEPT ![p] = Down]
  /\ UNCHANGED <<Deployment, made, infos, owner, faulty>>

\* No more faults.
Calm ==
  /\ faulty
  /\ faulty' = FALSE
  /\ UNCHANGED <<Deployment, made, infos, proc, owner>>

Step(p) == Start(p) \/ Migrate(p) \/ Find(p) \/ Insert(p) \/ Resume(p)

Next ==
  \/ \E p \in Procs :
       \/ Step(p) \/ FetcherPanics(p) \/ Crash(p)
       \/ \E t \in Tasks : Take(p, t) \/ Finish(p, t)
  \/ Calm

Spec == Init /\ [][Next]_vars

(***************************************************************************)
(* A process that is down is started again by its operator, goes on with   *)
(* its start, and ends its computations.                                   *)
(***************************************************************************)
Fairness ==
  \A p \in Procs :
    /\ WF_vars(Step(p))
    /\ \A t \in Tasks : WF_vars(Finish(p, t))

FairSpec == Spec /\ Fairness

-----------------------------------------------------------------------------
Up == {"insert", "resume", "ready", "deaf"}

\* The types of the database and the processes; a process has an id from
\* when it found or stored one, and tasks only when it is ready.
TypeOK ==
  /\ database \in Databases /\ shared \in BOOLEAN /\ faulty \in BOOLEAN
  /\ made \in SUBSET DOMAIN Script
  /\ infos \in SUBSET Ids
  /\ proc \in [Procs -> [pc : Up \cup {"down", "migrate"},
                         todo : SUBSET DOMAIN Script,
                         id : Ids \cup {NoId}, held : SUBSET Tasks]]
  /\ \A p \in Procs :
       /\ proc[p].todo # {} => proc[p].pc = "migrate"
       /\ proc[p].id # NoId <=> proc[p].pc \in {"resume", "ready", "deaf"}
       /\ proc[p].held # {} => proc[p].pc = "ready"
  /\ owner \in [Tasks -> Ids \cup {NoId}]

(***************************************************************************)
(* A process that is past Migrator::up has the whole schema, whatever      *)
(* release made the database, wherever an earlier start died, and whoever  *)
(* else migrates at the same time.                                         *)
(***************************************************************************)
ReadyIsMigrated ==
  (\E p \in Procs : proc[p].pc \in Up) => made = DOMAIN Script

(***************************************************************************)
(* worker_info.rs: the row saves the worker's identity.  When no two       *)
(* processes share the database, a task that is Running is so under the    *)
(* one id every later life of the process will find.                       *)
(***************************************************************************)
OwnerIsStored ==
  ~shared => \A t \in Tasks : owner[t] # NoId => infos = {owner[t]}

\* A migration stopped after a statement that cannot be repeated.
Torn ==
  \E i \in made : /\ Script[i].kind \in Unrepeatable
                  /\ Script[i].version \notin applied

\* A process of which only the fetcher died.
Deaf == \E p \in Procs : proc[p].pc = "deaf"

(***************************************************************************)
(* Once the faults are over a process that is started again gets ready, or *)
(* another one holds the database alone: two that race through one         *)
(* migration or make two ids hurt each other once, and not for ever.  What *)
(* no restart repairs is a torn migration and a fetcher that panicked.     *)
(***************************************************************************)
StartsAgain ==
  \A p \in Procs :
    ~faulty ~> \/ proc[p].pc = "ready"
               \/ ~shared /\ \E q \in Procs : proc[q].pc = "ready"
               \/ []Torn
               \/ []Deaf

(***************************************************************************)
(* A task that a process left Running when it died is taken up by a later  *)
(* life and ends, under the same exceptions.                               *)
(***************************************************************************)
LeftTasksEnd ==
  \A t \in Tasks :
    (~shared /\ ~faulty /\ owner[t] # NoId) ~>
      (owner[t] = NoId \/ []Torn \/ []Deaf)
=============================================================================
