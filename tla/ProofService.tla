----------------------------- MODULE ProofService -----------------------------
(***************************************************************************)
(* What venus-cluster may rely on when it writes a request to the plugin:  *)
(* it is answered at most once, with a proof that is stored and is never   *)
(* lost again, with an error of the task that was recorded while the       *)
(* request was open, or with the error of a call.  Cluster implements it.  *)
(***************************************************************************)
CONSTANTS Requests, Tasks, NoTask

VARIABLES
  request,  \* request -> its task and how far it is
  proved    \* the tasks whose proof is stored

vars == <<request, proved>>

Closed == [status |-> "closed", task |-> NoTask, failed |-> FALSE]

Init ==
  /\ request = [p \in Requests |-> Closed]
  /\ proved = {}

Ask(p, t) ==
  /\ request[p] = Closed
  /\ request' = [request EXCEPT ![p] = [Closed EXCEPT !.status = "open",
                                                      !.task = t]]
  /\ UNCHANGED proved

\* A worker computed the proof, or failed to.
Prove(t) == proved' = proved \cup {t} /\ UNCHANGED request

Fail(t) ==
  /\ request' = [p \in Requests |-> IF request[p].task = t
                                    THEN [request[p] EXCEPT !.failed = TRUE]
                                    ELSE request[p]]
  /\ UNCHANGED proved

Answer(p, status) ==
  /\ request[p].status = "open"
  /\ status = "proof" => request[p].task \in proved
  /\ status = "task_error" => request[p].failed
  /\ request' = [request EXCEPT ![p].status = status]
  /\ UNCHANGED proved

\* The answer is read.
Close(p) ==
  /\ request[p].status \in {"proof", "task_error", "call_error"}
  /\ request' = [request EXCEPT ![p] = Closed]
  /\ UNCHANGED proved

\* The plugin dies with its requests.
Forget == request' = [p \in Requests |-> Closed] /\ UNCHANGED proved

Next ==
  \/ \E p \in Requests, t \in Tasks : Ask(p, t)
  \/ \E t \in Tasks : Prove(t) \/ Fail(t)
  \/ \E p \in Requests, s \in {"proof", "task_error", "call_error"} :
       Answer(p, s)
  \/ \E p \in Requests : Close(p)
  \/ Forget

Spec == Init /\ [][Next]_vars
=============================================================================
