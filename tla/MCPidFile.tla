----------------------------- MODULE MCPidFile -----------------------------
(***************************************************************************)
(* Instances of PidFile for TLC.                                           *)
(***************************************************************************)
EXTENDS PidFile, TLC

Symmetry == Permutations(Procs)
=============================================================================
