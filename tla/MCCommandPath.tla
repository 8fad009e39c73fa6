---------------------------- MODULE MCCommandPath ----------------------------
(* Instances of CommandPath: two writes of one parameter that coalesce and  *)
(* a critical command that does not.                                       *)
EXTENDS CommandPath, TLC

CONSTANTS w1, w2, stop, key

PathPrio == [c \in Calls |-> IF c = stop THEN 0 ELSE 2]
PathKey == [c \in Calls |-> IF c \in {w1, w2} THEN key ELSE NoKey]
=============================================================================
