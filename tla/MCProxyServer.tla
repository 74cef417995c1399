--------------------------- MODULE MCProxyServer ---------------------------
(***************************************************************************)
(* Small instances of ProxyServer for TLC.                                 *)
(***************************************************************************)
EXTENDS ProxyServer, TLC

CONSTANTS m1, m2, r1, r2, c1, c2, c3, w1, w2

\* One miner that submits one task per resource.
OneMiner == {m1}
OwnTasks == {gen_task_id(m1, r1), gen_task_id(m1, r2)}
OneTask == {gen_task_id(m1, r1)}

\* Two miners that submit the same parameters.
TwoMiners == {m1, m2}
SharedTasks == {gen_task_id(m1, r1), gen_task_id(m2, r1)}

TwoStamps == {0, 1}
OneStamp == {0}

\* What the plugin and `gpuproxy tasks update-status` send.
PluginStates == {"Init"}
OperatorStates == {"Undefined", "Init", "Completed"}

\* Connections and workers are interchangeable; used by safety runs only.
ConnsAndWorkers == Permutations(Conns) \cup Permutations(Workers)
=============================================================================
