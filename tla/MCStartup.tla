------------------------------ MODULE MCStartup ------------------------------
(***************************************************************************)
(* A small instance of Startup for TLC.  Of two processes each inserts at  *)
(* most one worker id.                                                     *)
(***************************************************************************)
EXTENDS Startup

CONSTANTS p1, p2, i1, i2, t1
=============================================================================
