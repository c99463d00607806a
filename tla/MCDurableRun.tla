----------------------------- MODULE MCDurableRun -----------------------------
(* Small instances of DurableRun. *)
EXTENDS DurableRunProps, TLC

CONSTANTS w1, w2

(* Every process has an id of its own.                                     *)
OwnIds == [w \in Worker |-> w]

(* A chain abandons nothing. A detour abandons the second step, or does    *)
(* not. A fork abandons the one step or the other.                         *)
Chain  == [s \in Step |-> {{}}]
Detour == [s \in Step |-> IF s = 1 THEN {{2}, {}} ELSE {{}}]
Fork  == [s \in Step |-> IF s = 1 THEN {{2}, {3}} ELSE {{}}]

Symmetric == Permutations(Worker)

================================================================================
