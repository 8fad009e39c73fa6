---------------------------- MODULE MCConnection ----------------------------
(* ConnectionRecovery with model values for the interfaces. *)
EXTENDS ConnectionRecovery

CONSTANT i1
=============================================================================
