----------------------------- MODULE WorkerSlots -----------------------------
(***************************************************************************)
(* What a gpuproxy worker promises, without its tasks, channels and        *)
(* counters: it first takes up again the tasks it left unfinished, works   *)
(* on at most MaxTask (--max-tasks) tasks at a time, takes a new task only *)
(* when no unfinished one waits, and works on each task it is given once.  *)
(***************************************************************************)
EXTENDS FiniteSets, Naturals

CONSTANTS Jobs, MaxTask

VARIABLES
  recovered,  \* the unfinished tasks of the previous life were looked up
  waiting,    \* unfinished tasks that are not taken up yet
  active      \* tasks being worked on

slots == <<recovered, waiting, active>>

SlotsInit ==
  /\ recovered = FALSE
  /\ waiting = {}
  /\ active = {}

Recover ==
  /\ ~recovered
  /\ recovered' = TRUE
  /\ waiting' \in SUBSET Jobs
  /\ UNCHANGED active

Resume(j) ==
  /\ j \in waiting \ active
  /\ Cardinality(active) < MaxTask
  /\ waiting' = waiting \ {j}
  /\ active' = active \cup {j}
  /\ UNCHANGED recovered

Take(j) ==
  /\ recovered
  /\ waiting = {}
  /\ j \notin active
  /\ Cardinality(active) < MaxTask
  /\ active' = active \cup {j}
  /\ UNCHANGED <<recovered, waiting>>

Finish(j) ==
  /\ j \in active
  /\ active' = active \ {j}
  /\ UNCHANGED <<recovered, waiting>>

SlotsNext ==
  \/ Recover
  \/ \E j \in Jobs : Resume(j) \/ Take(j) \/ Finish(j)

SlotsSpec == SlotsInit /\ [][SlotsNext]_slots
=============================================================================
