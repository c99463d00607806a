------------------------------ MODULE IngressProofs ------------------------------
(***************************************************************************)
(* Theorems about Ingress, for every set of requests and endpoints,        *)
(* patient senders or not, with and without processes that die.            *)
(***************************************************************************)
EXTENDS IngressProps, FiniteSetTheorems, TLAPS

(* The key is held by one transaction at a time, the committed holder is   *)
(* the one run that was started, and whoever has been given a run has been *)
(* given that one.                                                         *)
KeyInv ==
  /\ \A q \in Request : pc[q] = "won" => keyRow = NoRequest /\ result[q] = q
  /\ \A q, r \in Request : pc[q] = "won" /\ pc[r] = "won" => q = r
  /\ started = {keyRow} \ {NoRequest}
  /\ \A q \in Request : pc[q] \in {"found", "lost", "committed", "ok"} =>
       keyRow # NoRequest /\ result[q] = keyRow

(* A copy that is being handed off has its endpoint's record.              *)
Recorded == \A q \in Request : InHand(q) => At[q] \in records

IngressInv == TypeOK /\ KeyInv /\ Recorded /\ HandedOffAlone /\ RecordStandsForWork

(* The invariant holds before the first request.                           *)
LEMMA IngressInit == Init => IngressInv
  BY DEF Init, IngressInv, TypeOK, PC, KeyInv, Recorded, HandedOffAlone, RecordStandsForWork,
         InHand, InTransaction

(* Every step keeps the types.                                             *)
LEMMA TypeStep ==
  ASSUME TypeOK, [Next]_vars
  PROVE  TypeOK'
  <1>1. ASSUME NEW q \in Request,
               Arrive(q) \/ GateAccepts(q) \/ GateFindsDuplicate(q) \/ GateThrows(q)
        PROVE  TypeOK'
    BY <1>1, IngressAssumption
       DEF TypeOK, PC, InTransaction, Answered, Goes, Arrive, GateAccepts, GateFindsDuplicate, GateThrows
  <1>2. ASSUME NEW q \in Request, Look(q) \/ ClaimKey(q) \/ Rerun(q) \/ HandoffThrows(q)
        PROVE  TypeOK'
    BY <1>2 DEF TypeOK, PC, InTransaction, Answered, Goes, Look, ClaimKey, Rerun, HandoffThrows, Winner
  <1>3. ASSUME NEW q \in Request, Commit(q) PROVE TypeOK'
    BY <1>3 DEF TypeOK, PC, InTransaction, Answered, Commit
  <1>4. ASSUME NEW q \in Request, Answer(q) \/ Release(q) \/ Die(q) PROVE TypeOK'
    BY <1>4, IngressAssumption
       DEF TypeOK, PC, InTransaction, Answered, Goes, Answer, Release, Released, Die
  <1>5. ASSUME NEW e \in Endpoint, Prune(e) PROVE TypeOK'
    BY <1>5 DEF TypeOK, Prune
  <1>6. ASSUME UNCHANGED vars PROVE TypeOK'
    BY <1>6 DEF TypeOK, vars
  <1> QED
    BY <1>1, <1>2, <1>3, <1>4, <1>5, <1>6 DEF Next, Handle

(* Every step keeps the key with its run.                                  *)
LEMMA KeyStep ==
  ASSUME TypeOK, KeyInv, [Next]_vars
  PROVE  KeyInv'
  <1>0. pc \in [Request -> PC] /\ result \in [Request -> Request \cup {NoRequest}]
    BY DEF TypeOK
  <1>1. ASSUME NEW q \in Request,
               \/ Arrive(q) \/ GateAccepts(q) \/ GateFindsDuplicate(q) \/ GateThrows(q)
               \/ Release(q) \/ Die(q)
        PROVE  KeyInv'
    <2>1. /\ \E to \in {"gate", "accepted", "duplicate", "error", "dead"} :
                pc' = [pc EXCEPT ![q] = to]
          /\ UNCHANGED <<result, keyRow, started>>
      BY <1>1 DEF Goes, Arrive, GateAccepts, GateFindsDuplicate, GateThrows, Release, Die
    <2> QED
      BY <1>0, <2>1 DEF KeyInv
  <1>2. ASSUME NEW q \in Request, Rerun(q) \/ HandoffThrows(q) PROVE KeyInv'
    <2>1. /\ \E to \in {"accepted", "thrown"} : pc' = [pc EXCEPT ![q] = to]
          /\ result' = [result EXCEPT ![q] = NoRequest]
          /\ UNCHANGED <<keyRow, started>>
      BY <1>2 DEF Rerun, HandoffThrows
    <2> QED
      BY <1>0, <2>1 DEF KeyInv
  <1>3. ASSUME NEW q \in Request, Look(q) PROVE KeyInv'
    BY <1>0, <1>3 DEF KeyInv, Look, Goes, Winner
  <1>4. ASSUME NEW q \in Request, ClaimKey(q) PROVE KeyInv'
    BY <1>0, <1>4 DEF KeyInv, ClaimKey, KeyIsFree, Loses, Goes, Winner
  <1>5. ASSUME NEW q \in Request, Commit(q) PROVE KeyInv'
    <2>1. CASE pc[q] = "won"
      <3>1. /\ pc' = [pc EXCEPT ![q] = "committed"] /\ keyRow' = q /\ result' = result
            /\ started' = started \cup {q}
        BY <1>5, <2>1 DEF Commit
      <3>2. keyRow = NoRequest /\ result[q] = q /\ started = {} /\ q # NoRequest
        BY <2>1, IngressAssumption DEF KeyInv
      <3>3. \A r \in Request : r # q => pc'[r] \notin {"won", "found", "lost", "committed", "ok"}
        BY <1>0, <2>1, <3>1, <3>2 DEF KeyInv
      <3> QED
        BY <1>0, <3>1, <3>2, <3>3 DEF KeyInv
    <2>2. CASE pc[q] \in {"found", "lost"}
      <3>1. pc' = [pc EXCEPT ![q] = "committed"] /\ UNCHANGED <<keyRow, result, started>>
        BY <1>5, <2>2 DEF Commit
      <3> QED
        BY <1>0, <2>2, <3>1 DEF KeyInv
    <2> QED
      BY <1>5, <2>1, <2>2 DEF Commit
  <1>6. ASSUME NEW q \in Request, Answer(q) PROVE KeyInv'
    BY <1>0, <1>6 DEF KeyInv, Answer, Goes
  <1>7. ASSUME (\E e \in Endpoint : Prune(e)) \/ UNCHANGED vars PROVE KeyInv'
    BY <1>7 DEF KeyInv, Prune, vars
  <1> QED
    BY <1>1, <1>2, <1>3, <1>4, <1>5, <1>6, <1>7 DEF Next, Handle

(* How a request changes hands.                                            *)
LEMMA RecordStep ==
  ASSUME IngressInv, [Next]_vars
  PROVE  Recorded' /\ HandedOffAlone' /\ RecordStandsForWork'
  <1> USE DEF InHand, InTransaction
  <1>0. pc \in [Request -> PC] /\ At \in [Request -> Endpoint]
    BY IngressAssumption DEF IngressInv, TypeOK
  <1> DEFINE Goal == Recorded' /\ HandedOffAlone' /\ RecordStandsForWork'
  (* Nobody is handed off who was not before, or stops being handed off.   *)
  <1>1. ASSUME \A q \in Request : InHand(q)' <=> InHand(q),
               records' = records, impaired' = impaired, started \subseteq started'
        PROVE  Goal
    BY <1>1 DEF IngressInv, Recorded, HandedOffAlone, RecordStandsForWork
  <1>2. ASSUME NEW q \in Request, GateAccepts(q) PROVE Goal
    BY <1>0, <1>2 DEF IngressInv, Recorded, HandedOffAlone, RecordStandsForWork, GateAccepts,
                      IsFirst, Goes
  <1>3. ASSUME NEW q \in Request, GateThrows(q) PROVE Goal
    BY <1>0, <1>3 DEF IngressInv, Recorded, HandedOffAlone, RecordStandsForWork, GateThrows, Goes
  <1>4. ASSUME NEW q \in Request, Answer(q) PROVE Goal
    <2>1. started # {} /\ started' = started
      BY <1>4, IngressAssumption DEF IngressInv, KeyInv, Answer, Goes
    <2> QED
      BY <1>0, <1>4, <2>1 DEF IngressInv, Recorded, HandedOffAlone, RecordStandsForWork, Answer, Goes
  <1>5. ASSUME NEW q \in Request, Release(q) PROVE Goal
    BY <1>0, <1>5 DEF IngressInv, Recorded, HandedOffAlone, RecordStandsForWork, Release, Released,
                      Goes
  <1>6. ASSUME NEW q \in Request, Die(q) PROVE Goal
    BY <1>0, <1>6 DEF IngressInv, Recorded, HandedOffAlone, RecordStandsForWork, Die
  <1>7. ASSUME NEW e \in Endpoint, Prune(e) PROVE Goal
    BY <1>7 DEF IngressInv, Recorded, HandedOffAlone, RecordStandsForWork, Prune
  <1>8. ASSUME NEW q \in Request,
               \/ Arrive(q) \/ GateFindsDuplicate(q) \/ Look(q) \/ ClaimKey(q) \/ Commit(q)
               \/ Rerun(q) \/ HandoffThrows(q)
        PROVE  Goal
    <2>1. /\ \A r \in Request : InHand(r)' <=> InHand(r)
          /\ records' = records /\ impaired' = impaired /\ started \subseteq started'
      BY <1>0, <1>8 DEF Arrive, GateFindsDuplicate, Look, ClaimKey, Commit, Rerun, HandoffThrows, Goes
    <2> QED
      BY <1>1, <2>1
  <1>9. ASSUME UNCHANGED vars PROVE Goal
    BY <1>1, <1>9 DEF vars
  <1> QED
    BY <1>2, <1>3, <1>4, <1>5, <1>6, <1>7, <1>8, <1>9 DEF Next, Handle

(* Every step keeps the invariant.                                         *)
LEMMA IngressNext == IngressInv /\ [Next]_vars => IngressInv'
  BY TypeStep, KeyStep, RecordStep DEF IngressInv

(* The invariant holds in every state.                                     *)
LEMMA IngressAlways == Spec => []IngressInv
  BY IngressInit, IngressNext, PTL DEF Spec

(* One run at most is started for a key, however many copies arrive, at    *)
(* however many endpoints, and whatever fails.                             *)
THEOREM StartsOnce == Spec => []OneStart
  <1>1. IngressInv => OneStart
    <2> SUFFICES ASSUME IngressInv PROVE Cardinality(started) <= 1
      BY DEF OneStart
    <2>1. started = {} \/ started = {keyRow}
      BY DEF IngressInv, KeyInv
    <2>2. Cardinality({}) = 0 /\ Cardinality({keyRow}) = 1
      BY FS_EmptySet, FS_Singleton
    <2> QED
      BY <2>1, <2>2
  <1> QED
    BY <1>1, IngressAlways, PTL

(* Who is answered "not a duplicate" has a run that was started.           *)
THEOREM AnswersAreTrue == Spec => []AnsweredIsStarted
  <1>1. IngressInv => AnsweredIsStarted
    BY DEF IngressInv, KeyInv, AnsweredIsStarted
  <1> QED
    BY <1>1, IngressAlways, PTL

(* A record that makes the gate answer "duplicate" stands for work, except *)
(* where something died that nobody unwinds (store.ts:58-77).              *)
THEOREM RecordsAreRight == Spec => []RecordStandsForWork
  <1>1. IngressInv => RecordStandsForWork
    BY DEF IngressInv
  <1> QED
    BY <1>1, IngressAlways, PTL

--------------------------------------------------------------------------------
(* createRun implements the choice of one run per key                      *)

Answers == [q \in Request |-> IF pc[q] = "ok" THEN result[q] ELSE NoRequest]

(* Every step is one of the abstract choice of a run, or unseen.           *)
LEMMA OneRunNext ==
  ASSUME IngressInv, [Next]_vars
  PROVE  Once!Next \/ (keyRow' = keyRow /\ Answers' = Answers)
  <1>0. pc \in [Request -> PC] /\ result \in [Request -> Request \cup {NoRequest}]
    BY DEF IngressInv, TypeOK
  <1>1. ASSUME NEW q \in Request, pc[q] # "ok", pc'[q] # "ok", keyRow' = keyRow,
               \A r \in Request : r # q => pc'[r] = pc[r] /\ result'[r] = result[r]
        PROVE  keyRow' = keyRow /\ Answers' = Answers
    BY <1>1 DEF Answers
  <1>2. ASSUME NEW q \in Request,
               \/ Arrive(q) \/ GateAccepts(q) \/ GateFindsDuplicate(q) \/ GateThrows(q)
               \/ Look(q) \/ ClaimKey(q) \/ Rerun(q) \/ HandoffThrows(q) \/ Release(q) \/ Die(q)
        PROVE  keyRow' = keyRow /\ Answers' = Answers
    <2>1. /\ pc[q] # "ok" /\ pc'[q] # "ok" /\ keyRow' = keyRow
          /\ \A r \in Request : r # q => pc'[r] = pc[r] /\ result'[r] = result[r]
      BY <1>0, <1>2 DEF Arrive, GateAccepts, GateFindsDuplicate, GateThrows, Look, ClaimKey, Rerun,
                        HandoffThrows, Release, Die, Goes, InHand, InTransaction
    <2> QED
      BY <1>1, <2>1
  <1>3. ASSUME NEW q \in Request, Commit(q)
        PROVE  Once!Next \/ (keyRow' = keyRow /\ Answers' = Answers)
    <2>1. Answers' = Answers
      BY <1>0, <1>3 DEF Commit, Answers
    <2>2. CASE pc[q] = "won"
      <3>1. keyRow = NoRequest /\ keyRow' = q
        BY <1>3, <2>2 DEF IngressInv, KeyInv, Commit
      <3>2. Once!Choose(q)
        BY <2>1, <3>1 DEF Once!Choose, Answers
      <3> QED
        BY <3>2 DEF Once!Next
    <2>3. CASE pc[q] # "won"
      BY <1>3, <2>1, <2>3 DEF Commit
    <2> QED
      BY <2>2, <2>3
  <1>4. ASSUME NEW q \in Request, Answer(q) PROVE Once!Next
    <2>1. /\ pc[q] = "committed" /\ pc' = [pc EXCEPT ![q] = "ok"]
          /\ result' = result /\ keyRow' = keyRow
      BY <1>4 DEF Answer, Goes
    <2>2. keyRow # NoRequest /\ result[q] = keyRow
      BY <2>1 DEF IngressInv, KeyInv
    <2>3. Answers[q] = NoRequest /\ Answers' = [Answers EXCEPT ![q] = keyRow]
      BY <1>0, <2>1, <2>2 DEF Answers
    <2>4. Once!Tell(q)
      BY <2>1, <2>2, <2>3 DEF Once!Tell, Answers
    <2> QED
      BY <2>4 DEF Once!Next
  <1>5. ASSUME (\E e \in Endpoint : Prune(e)) \/ UNCHANGED vars
        PROVE  keyRow' = keyRow /\ Answers' = Answers
    BY <1>5 DEF Prune, vars, Answers
  <1> QED
    BY <1>2, <1>3, <1>4, <1>5 DEF Next, Handle

(* However many copies of a delivery arrive, and wherever a transaction    *)
(* stops: two of one endpoint are never handed off at the same time, also  *)
(* after a failed handoff gave the record back (store.ts:58-77).           *)
THEOREM CopiesHandedOffAlone == Spec => []HandedOffAlone
  <1>1. IngressInv => HandedOffAlone
    BY DEF IngressInv
  <1> QED
    BY <1>1, IngressAlways, PTL

(* All callers that give createRun one key, and are answered, are answered *)
(* with the one run that was chosen for it.                                *)
THEOREM ImplementsOnce == Spec => ImplementsOneRun
  <1>1. Init => Once!Init
    BY DEF Init, Once!Init
  <1>2. IngressInv /\ [Next]_vars => [Once!Next]_Once!vars
    BY OneRunNext DEF Once!vars, Answers
  <1> QED
    BY <1>1, <1>2, IngressAlways, PTL DEF Spec, ImplementsOneRun, Once!Spec

================================================================================
