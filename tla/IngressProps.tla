------------------------------ MODULE IngressProps ------------------------------
(***************************************************************************)
(* What is claimed of Ingress. The first part holds; the second part       *)
(* states what a comment says and the code does not do.                    *)
(***************************************************************************)
EXTENDS Ingress, Naturals

(* Whatever copies arrive at whichever endpoints, whatever is released,    *)
(* retried or run again, one run at most gets steps and a message          *)
(* (repository.ts:137-172).                                                *)
OneStart == Cardinality(started) <= 1

(* Who is answered "not a duplicate" has a run that will be executed, even *)
(* if a lost commit, another endpoint or an earlier copy made it           *)
(* (server.ts:256-275).                                                    *)
AnsweredIsStarted == \A q \in Request : pc[q] = "ok" => result[q] \in started

(* Two copies sent to one endpoint are never handed off at the same time,  *)
(* although a failed handoff gives the record back (store.ts:58-77).       *)
HandedOffAlone ==
  \A q, r \in Request : q # r /\ At[q] = At[r] /\ InHand(q) => ~ InHand(r)

(* A record that makes the gate answer "duplicate" stands for a delivery   *)
(* that has started a run or may still do so, unless something died that   *)
(* nobody unwinds (README.md:299-306).                                     *)
RecordStandsForWork ==
  \A e \in records \ impaired : started # {} \/ \E q \in Request : At[q] = e /\ InHand(q)

(* All callers with one key are answered with one run.                     *)
Once == INSTANCE OneRun WITH
          chosen <- keyRow,
          answer <- [q \in Request |-> IF pc[q] = "ok" THEN result[q] ELSE NoRequest]

ImplementsOneRun == Once!Spec

--------------------------------------------------------------------------------
(* Claimed by comments, and true only in part                              *)

(* "A run that exists but was never scheduled is invisible work [...].     *)
(* Neither is possible if they commit together." (repository.ts:98-100):   *)
(* every run has steps and a message. The loser of the race for the key    *)
(* commits the runs row it had inserted before the savepoint.              *)
RunsAreScheduled == runs \subseteq started

(* "so the sender's retry is treated as a new delivery rather than a       *)
(* duplicate" (fastify.ts:103-104): a sender that has been answered 200,   *)
(* and so stops, has a run or a copy that may still start one. A retry     *)
(* that arrives while the original is being handed off is answered 200 as  *)
(* a duplicate, and the original may then fail.                            *)
NothingLost ==
  \A e \in acked : started # {} \/ \E q \in Request : InHand(q)

================================================================================
