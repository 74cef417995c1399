---------------------------- MODULE MCParamsFetch ----------------------------
(***************************************************************************)
(* A small instance of ParamsFetch for TLC: two files are asked for, a     *)
(* verifying key and a file of another sector size are not.                *)
(***************************************************************************)
EXTENDS ParamsFetch

Entry(name, ext, size) == [name |-> name, ext |-> ext, sector_size |-> size]

FourFiles == {Entry("a", "params", 2048), Entry("b", "params", 2048),
              Entry("a", "vk", 2048), Entry("c", "params", 512)}
=============================================================================
