--------------------------- MODULE MCWorkersState ---------------------------
(***************************************************************************)
(* Small instances of WorkersState for TLC.                                *)
(***************************************************************************)
EXTENDS WorkersState, TLC

CONSTANTS w1, w2, i1, i2, i3, i4, c1, c2

\* Connections, rows and workers are interchangeable.
Interchangeable ==
  Permutations(Conns) \cup Permutations(RowIds) \cup Permutations(Workers)
=============================================================================
