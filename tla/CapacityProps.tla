---------------------------- MODULE CapacityProps ---------------------------
(***************************************************************************)
(* What the ceilings promise the tenants, and cost none of them.           *)
(***************************************************************************)
EXTENDS Capacity

Live(of, whose) == {s \in Steps : /\ of[s] = whose
                                  /\ rows[s].status = "running"
                                  /\ rows[s].lease = "live"}

(* However many workers claim at once, and whatever became of those that   *)
(* claimed before, no tenant and no flow has more steps with a live lease  *)
(* than its ceiling (checkLimits; "a limit that is only approximately a    *)
(* limit" is the same as none).                                            *)
CeilingsHold ==
  \A s \in Steps : /\ Cardinality(Live(TenantOf, TenantOf[s])) <= PerTenant
                   /\ Cardinality(Live(FlowOf, FlowOf[s])) <= PerFlow

(* A step that is refused for want of room runs in the end, though its     *)
(* message is deleted before it is claimed and put back after, and the     *)
(* worker may die between; as long as a worker is left that nobody stops   *)
(* (runStep's deferral, drainQueue, the janitor's stranded runs).          *)
EveryStepRuns == <>(\A s \in Steps : rows[s].status = "succeeded")
=============================================================================
