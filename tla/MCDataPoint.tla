---------------------------- MODULE MCDataPoint ----------------------------
(* A switch with two writers. *)
EXTENDS DataPoint

CONSTANTS off, on, s1, s2
=============================================================================
