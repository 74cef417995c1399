---------------------------- MODULE MCLocalWorker ----------------------------
(***************************************************************************)
(* Small instances of LocalWorker for TLC: two slots, more jobs than slots *)
(* and a counter that wraps around soon after max_task.                    *)
(***************************************************************************)
EXTENDS LocalWorker

CONSTANTS j1, j2, j3, j4

FourJobs == {j1, j2, j3, j4}
=============================================================================
