---------------------------- MODULE MCForwarder ----------------------------
(***************************************************************************)
(* Instances of Forwarder for TLC.                                         *)
(***************************************************************************)
EXTENDS Forwarder, TLC

Symmetry == Permutations(Conns)
=============================================================================
