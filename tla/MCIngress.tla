------------------------------- MODULE MCIngress -------------------------------
(* Small instances of Ingress. *)
EXTENDS IngressProps

CONSTANTS r1, r2, r3, r4, shop, crm

(* Two copies to the one endpoint, the others to the other.                *)
TwoEndpoints == [q \in Request |-> IF q \in {r1, r2} THEN shop ELSE crm]

================================================================================
