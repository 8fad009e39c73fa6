------------------------------ MODULE PermitPool ------------------------------
(***************************************************************************)
(* What a throttle pool promises, without queue, priorities, pacing,       *)
(* cancellation or shutdown: users take and return permits, a permit that  *)
(* is returned may go to the next user in the same step, and never more    *)
(* than Permits users hold one.                                            *)
(***************************************************************************)
EXTENDS Integers, FiniteSets

CONSTANTS Users, Permits

VARIABLE holding

Take(u) == /\ u \notin holding
           /\ Cardinality(holding) < Permits
           /\ holding' = holding \cup {u}

Return(u) == /\ u \in holding
             /\ holding' = holding \ {u}

PassOn(u, v) == /\ u \in holding /\ v \notin holding
                /\ holding' = (holding \ {u}) \cup {v}

PoolInit == holding = {}
PoolNext == \E u \in Users : Take(u) \/ Return(u) \/ \E v \in Users : PassOn(u, v)
PoolSpec == PoolInit /\ [][PoolNext]_holding
=============================================================================
