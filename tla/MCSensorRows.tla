---------------------------- MODULE MCSensorRows ----------------------------
(***************************************************************************)
(* Instances of SensorRows for TLC.                                        *)
(***************************************************************************)
EXTENDS SensorRows

OneSecond == [s \in Sensors |-> 1]
=============================================================================
