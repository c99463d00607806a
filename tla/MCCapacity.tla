----------------------------- MODULE MCCapacity -----------------------------
(***************************************************************************)
(* One tenant, two flows: the first has two runs, the second one.          *)
(***************************************************************************)
EXTENDS CapacityProps

CONSTANTS a1, a2, b1

MCTenantOf == [s \in Steps |-> "tenant"]
MCFlowOf == [s \in Steps |-> IF s = b1 THEN "b" ELSE "a"]
=============================================================================
