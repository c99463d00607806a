--------------------------------- MODULE Ingress ---------------------------------
(***************************************************************************)
(* How a webhook delivery becomes a run: the route and the gate of         *)
(* automa-webhook-gate, the app's onAccepted, and createRun with its       *)
(* deduplication, at the granularity of SQL statements.                    *)
(*                                                                         *)
(* One dedup key and one flow: rows of other keys never meet these. The    *)
(* copies of the delivery that arrive are authentic (forged ones touch     *)
(* nothing) and may come to several endpoints of the flow: some senders'   *)
(* keys are event ids, which are the same wherever the event is sent.      *)
(*                                                                         *)
(* An operator named ...Slip is not part of the model. It is the           *)
(* definition it is named after with a plausible mistake in it, kept to    *)
(* try out that the properties notice.                                     *)
(***************************************************************************)
EXTENDS FiniteSets

CONSTANTS
  Request,    \* the HTTP requests that carry a copy of the delivery
  NoRequest,
  Endpoint,   \* the endpoints they are addressed to, all of one flow
  At,         \* request -> its endpoint
  Patient,    \* does a sender wait for an answer before it sends again?
  MayDie      \* may processes and connections die where nothing is unwound?

ASSUME IngressAssumption ==
  /\ NoRequest \notin Request
  /\ At \in [Request -> Endpoint]
  /\ Patient \in BOOLEAN /\ MayDie \in BOOLEAN

VARIABLES
  pc,        \* per request: where its handler is
  result,    \* per request: the run that createRun returned
  records,   \* webhook_deliveries: the endpoints that have a row for the key
  keyRow,    \* run_idempotency: the run that has the key, once committed
  runs,      \* the committed runs rows, each named after the request that made it
  started,   \* those committed with step rows and an advance_run message
  acked,     \* history: the endpoints whose sender has been answered 200
  impaired   \* history: the endpoints where something died that nobody unwinds

vars == <<pc, result, records, keyRow, runs, started, acked, impaired>>

(* The handler's way through the transaction of onAccepted: "found" a run  *)
(* with the key; or "looked" in vain and inserted a runs row, then "won"   *)
(* the key or "lost" it to another.                                        *)
InTransaction == {"found", "looked", "won", "lost"}
Answered      == {"ok", "duplicate", "error"}

PC == {"away", "gate", "accepted", "committed", "thrown", "dead"} \cup InTransaction \cup Answered

(* Recorded as seen, and not yet answered.                                 *)
InHand(q) == pc[q] \in {"accepted", "committed", "thrown"} \cup InTransaction

TypeOK ==
  /\ pc \in [Request -> PC]
  /\ result \in [Request -> Request \cup {NoRequest}]
  /\ records \in SUBSET Endpoint
  /\ keyRow \in Request \cup {NoRequest}
  /\ runs \in SUBSET Request /\ started \in SUBSET Request
  /\ acked \in SUBSET Endpoint /\ impaired \in SUBSET Endpoint

Init ==
  /\ pc = [q \in Request |-> "away"]
  /\ result = [q \in Request |-> NoRequest]
  /\ records = {} /\ keyRow = NoRequest /\ runs = {} /\ started = {}
  /\ acked = {} /\ impaired = {}

Goes(q, from, to) == pc[q] = from /\ pc' = [pc EXCEPT ![q] = to]

--------------------------------------------------------------------------------
(* The route and the gate                                                  *)

(* A copy arrives: the first, a retry, or a copy of either. A patient      *)
(* sender has had an answer to the last one before it sends another.       *)
Arrive(q) ==
  /\ Goes(q, "away", "gate")
  /\ Patient => \A other \in Request :
       At[other] = At[q] => pc[other] \in {"away", "dead"} \cup Answered
  /\ UNCHANGED <<result, records, keyRow, runs, started, acked, impaired>>

(* Slip: what the INSERT reports is not looked at.                         *)
IsFirstSlip(q) == TRUE

(* The one INSERT ... ON CONFLICT DO NOTHING of the store inserts a row.   *)
IsFirst(q) == At[q] \notin records

GateAccepts(q) ==
  /\ Goes(q, "gate", "accepted") /\ IsFirst(q)
  /\ records' = records \cup {At[q]}
  /\ UNCHANGED <<result, keyRow, runs, started, acked, impaired>>

GateFindsDuplicate(q) ==
  /\ Goes(q, "gate", "duplicate") /\ ~ IsFirst(q)
  /\ acked' = acked \cup {At[q]}
  /\ UNCHANGED <<result, records, keyRow, runs, started, impaired>>

(* The store does not answer. The row may have been inserted all the same, *)
(* and the route releases only what onAccepted throws over.                *)
GateThrows(q) ==
  /\ MayDie /\ Goes(q, "gate", "error")
  /\ \/ IsFirst(q) /\ records' = records \cup {At[q]} /\ impaired' = impaired \cup {At[q]}
     \/ UNCHANGED <<records, impaired>>
  /\ UNCHANGED <<result, keyRow, runs, started, acked>>

--------------------------------------------------------------------------------
(* onAccepted: one transaction around createRun                            *)

(* Slip: the loser returns the run it has just inserted.                   *)
WinnerSlip(q) == q

(* findRunByIdempotencyKey                                                 *)
Winner(q) == keyRow

(* findRunByIdempotencyKey, and if there is none the INSERT of a runs row, *)
(* which nobody sees before the commit.                                    *)
Look(q) ==
  /\ \/ /\ Goes(q, "accepted", "found") /\ keyRow # NoRequest
        /\ result' = [result EXCEPT ![q] = Winner(q)]
     \/ /\ Goes(q, "accepted", "looked") /\ keyRow = NoRequest
        /\ UNCHANGED result
  /\ UNCHANGED <<records, keyRow, runs, started, acked, impaired>>

(* Slip: a key that another transaction has inserted does not stop this    *)
(* one, as if the table had no primary key.                                *)
KeyIsFreeSlip(q) == TRUE

(* The INSERT into run_idempotency waits for a transaction that has        *)
(* inserted the key and is not over.                                       *)
KeyIsFree(q) == \A other \in Request : pc[other] # "won"

(* Slip: the violation of the primary key is not noticed.                  *)
LosesSlip(q) == FALSE

Loses(q) == keyRow # NoRequest

(* The key is inserted; or it is there, the savepoint is rolled back to,   *)
(* and the winner is read. The runs row stands before the savepoint.       *)
ClaimKey(q) ==
  /\ KeyIsFree(q)
  /\ \/ /\ Goes(q, "looked", "won") /\ ~ Loses(q)
        /\ result' = [result EXCEPT ![q] = q]
     \/ /\ Goes(q, "looked", "lost") /\ Loses(q)
        /\ result' = [result EXCEPT ![q] = Winner(q)]
  /\ UNCHANGED <<records, keyRow, runs, started, acked, impaired>>

(* insertSteps, enqueue and COMMIT for the winner; COMMIT for the others.  *)
Commit(q) ==
  /\ pc[q] \in {"found", "won", "lost"}
  /\ pc' = [pc EXCEPT ![q] = "committed"]
  /\ IF pc[q] = "won" THEN keyRow' = q /\ started' = started \cup {q}
                      ELSE UNCHANGED <<keyRow, started>>
  /\ IF pc[q] = "found" THEN UNCHANGED runs ELSE runs' = runs \cup {q}
  /\ UNCHANGED <<result, records, acked, impaired>>

(* A deadlock or a serialization failure: withTransaction starts again.    *)
Rerun(q) ==
  /\ pc[q] \in InTransaction
  /\ pc' = [pc EXCEPT ![q] = "accepted"]
  /\ result' = [result EXCEPT ![q] = NoRequest]
  /\ UNCHANGED <<records, keyRow, runs, started, acked, impaired>>

(* The endpoint or the flow is gone, the database is down, the connection  *)
(* is lost, before the commit or before the commit is heard of.            *)
HandoffThrows(q) ==
  /\ pc[q] \in {"accepted", "committed"} \cup InTransaction
  /\ pc' = [pc EXCEPT ![q] = "thrown"]
  /\ result' = [result EXCEPT ![q] = NoRequest]
  /\ UNCHANGED <<records, keyRow, runs, started, acked, impaired>>

Answer(q) ==
  /\ Goes(q, "committed", "ok")
  /\ acked' = acked \cup {At[q]}
  /\ UNCHANGED <<result, records, keyRow, runs, started, impaired>>

(* Slip: the record stands when the handoff has failed.                    *)
ReleasedSlip(q) == records

(* release deletes the endpoint's row, whoever inserted it.                *)
Released(q) == records \ {At[q]}

(* The 500 that tells the sender to try again.                             *)
Release(q) ==
  /\ Goes(q, "thrown", "error")
  /\ \/ records' = Released(q) /\ UNCHANGED impaired
     \/ MayDie /\ UNCHANGED records /\ impaired' = impaired \cup {At[q]}
  /\ UNCHANGED <<result, keyRow, runs, started, acked>>

(* The process dies: an open transaction rolls back, the record stands.    *)
Die(q) ==
  /\ MayDie /\ InHand(q)
  /\ pc' = [pc EXCEPT ![q] = "dead"]
  /\ impaired' = impaired \cup {At[q]}
  /\ UNCHANGED <<result, records, keyRow, runs, started, acked>>

(* A row outlives its request: retention is a day.                         *)
Prune(e) ==
  /\ e \in records /\ \A q \in Request : At[q] = e => ~ InHand(q)
  /\ records' = records \ {e}
  /\ UNCHANGED <<pc, result, keyRow, runs, started, acked, impaired>>

Handle(q) == GateAccepts(q) \/ GateFindsDuplicate(q) \/ GateThrows(q) \/ Look(q) \/ ClaimKey(q)
             \/ Commit(q) \/ Rerun(q) \/ HandoffThrows(q) \/ Answer(q) \/ Release(q) \/ Die(q)

Next == \/ \E q \in Request : Arrive(q) \/ Handle(q)
        \/ \E e \in Endpoint : Prune(e)

Spec == Init /\ [][Next]_vars

================================================================================
