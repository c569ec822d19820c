---------------------------- MODULE MCSynchList ----------------------------
(* Instances of SynchList for TLC. *)
EXTENDS SynchList

CONSTANTS a, b, t1, t2, t3
=============================================================================
