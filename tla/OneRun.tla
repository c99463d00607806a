--------------------------------- MODULE OneRun ---------------------------------
(***************************************************************************)
(* What createRun promises the callers that give it one idempotency key:   *)
(* one of their runs is chosen, once, and whoever is answered is answered  *)
(* with that run (engine/repository.ts: createRun).                        *)
(***************************************************************************)
CONSTANTS Request, NoRequest

VARIABLES
  chosen,    \* the request whose run it is, or NoRequest
  answer     \* per request: the run it has been told, or NoRequest

vars == <<chosen, answer>>

Init ==
  /\ chosen = NoRequest
  /\ answer = [q \in Request |-> NoRequest]

Choose(q) ==
  /\ chosen = NoRequest
  /\ chosen' = q
  /\ UNCHANGED answer

Tell(q) ==
  /\ chosen # NoRequest /\ answer[q] = NoRequest
  /\ answer' = [answer EXCEPT ![q] = chosen]
  /\ UNCHANGED chosen

Next == \E q \in Request : Choose(q) \/ Tell(q)

Spec == Init /\ [][Next]_vars

================================================================================
