------------------------------ MODULE MCCluster ------------------------------
(***************************************************************************)
(* Small instances of Cluster for TLC.                                     *)
(***************************************************************************)
EXTENDS Cluster, TLC

CONSTANTS m1, r1, r2, w1, w2, q1, q2

OneMiner == {m1}
OneTask == {<<m1, r1>>}
TwoTasks == {<<m1, r1>>, <<m1, r2>>}
OneStamp == {0}

\* Requests and workers are interchangeable; used by safety runs only.
RequestsAndWorkers == Permutations(Requests) \cup Permutations(Workers)

ClusterConns == ({"plugin"} \X Requests) \cup ({"fetcher", "executor"} \X Workers)
=============================================================================
