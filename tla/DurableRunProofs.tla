---------------------------- MODULE DurableRunProofs ----------------------------
(***************************************************************************)
(* Theorems about DurableRun, for every flow, set of workers and limit:    *)
(* its types, its fencing, and that it implements FencedSteps.             *)
(***************************************************************************)
EXTENDS DurableRunProps, TLAPS

(* The decision about a failed attempt: its kind, and counters that are    *)
(* still counters and have not gone down (retry.ts:98-171).                *)
LEMMA OutcomeType ==
  ASSUME NEW state \in [consumed : Nat, deferrals : Nat], NEW c, NEW idempotent,
         NEW maxAttempts, NEW maxDeferrals
  PROVE  LET outcome == onAttemptFailed(state, c, idempotent, maxAttempts, maxDeferrals) IN
         /\ outcome.kind \in {"retry", "exhausted", "pause", "terminal"}
         /\ outcome.consumed \in Nat /\ outcome.consumed >= state.consumed
         /\ outcome.deferrals \in Nat /\ outcome.deferrals >= state.deferrals
  BY DEF onAttemptFailed, decideRetry, ConsumedAfter, DeferralsAfter

(* A message is one of the queue's messages.                               *)
LEMMA MessageType ==
  /\ Advance \in Message
  /\ \A s \in Step : RunStep(s) \in Message /\ AdvanceLater(s) \in Message
  BY DEF Message, Ready

(* Putting a message into a bag of messages leaves a bag of messages.      *)
LEMMA EnqueueType ==
  ASSUME outbox \in [Message -> Nat], NEW m \in Message, Enqueue(m)
  PROVE  outbox' \in [Message -> Nat]
  BY DEF Enqueue

(* A message that is taken into a batch leaves a bag of messages in each.  *)
LEMMA TakesType ==
  ASSUME batch \in [Worker -> [Message -> Nat]], NEW w \in Worker, NEW m \in Message, Takes(w, m)
  PROVE  batch' \in [Worker -> [Message -> Nat]]
  BY DEF Takes

(* A worker that does nothing is in a state a worker can be in.            *)
LEMMA IdleType == Idle \in WorkerState
  BY DEF Idle, WorkerState

(* Whatever a worker is sent to do next, its locals keep their types.      *)
LEMMA LocalsType ==
  ASSUME TypeOK, NEW w \in Worker
  PROVE  /\ \A plan \in RunStatus \cup {"none", "dispatch"}, s \in Step \cup {NoStep} :
              Plans(w, plan, s) \in WorkerState
         /\ Seeks(w) \in WorkerState
         /\ Lists(w) \in WorkerState
         /\ \A s \in Step : Executes(s) \in WorkerState
         /\ \A result \in Results : Records(w, result) \in WorkerState
  <1>1. worker[w] \in WorkerState
    BY DEF TypeOK
  <1>2. \A plan \in RunStatus \cup {"none", "dispatch"}, s \in Step \cup {NoStep} :
          Plans(w, plan, s) \in WorkerState
    BY <1>1 DEF Plans, WorkerState
  <1>3. Seeks(w) \in WorkerState
    BY <1>1 DEF Seeks, WorkerState
  <1>4. Lists(w) \in WorkerState
    BY <1>1 DEF Lists, WorkerState
  <1>5. ASSUME NEW s \in Step PROVE Executes(s) \in WorkerState
    <2>1. step[s].consumed \in Nat /\ step[s].deferrals \in Nat /\ epoch[s] + 1 \in Nat
      BY DEF TypeOK, StepRow
    <2> QED
      BY <2>1, IdleType DEF Executes, WorkerState
  <1>6. \A result \in Results : Records(w, result) \in WorkerState
    BY <1>1 DEF Records, WorkerState
  <1> QED
    BY <1>2, <1>3, <1>4, <1>5, <1>6

(* One worker that is sent on leaves every worker in a state of one.       *)
LEMMA BecomesType ==
  ASSUME TypeOK, NEW w \in Worker, NEW state \in WorkerState, Becomes(w, state)
  PROVE  worker' \in [Worker -> WorkerState]
  BY DEF TypeOK, Becomes

(* What the updates of the run make of its row is a row.                   *)
LEMMA RunFieldType ==
  ASSUME NEW r \in RunRow
  PROVE  /\ \A x \in RunStatus : [r EXCEPT !.status = x] \in RunRow
         /\ [r EXCEPT !.cancelRequested = TRUE] \in RunRow
         /\ [r EXCEPT !.stepsSucceeded = r.stepsSucceeded + 1] \in RunRow
         /\ [r EXCEPT !.stepsFailed = r.stepsFailed + 1] \in RunRow
  <1>1. \A x \in RunStatus : [r EXCEPT !.status = x] \in RunRow
    BY DEF RunRow
  <1>2. [r EXCEPT !.cancelRequested = TRUE] \in RunRow
    BY DEF RunRow
  <1>3. r.stepsSucceeded + 1 \in Int /\ r.stepsFailed + 1 \in Int
    BY DEF RunRow
  <1>4. \A x \in Int : [r EXCEPT !.stepsSucceeded = x] \in RunRow
    BY DEF RunRow
  <1>5. \A x \in Int : [r EXCEPT !.stepsFailed = x] \in RunRow
    BY DEF RunRow
  <1> QED
    BY <1>1, <1>2, <1>3, <1>4, <1>5

(* What the updates of a step make of its row is a row.                    *)
LEMMA StepFieldType ==
  ASSUME NEW row \in StepRow
  PROVE  /\ \A w \in Worker : Claimed(row, w) \in StepRow
         /\ recordSuccess(row) \in StepRow
         /\ markSkipped(row) \in StepRow
         /\ Kept(row) \in StepRow
         /\ \A group \in Nat : resetStep(group) \in StepRow
         /\ [row EXCEPT !.lease = "lapsed"] \in StepRow
         /\ [row EXCEPT !.retry = "due"] \in StepRow
  <1>1. \A w \in Worker : Claimed(row, w) \in StepRow
    BY WorkerAssumption DEF Claimed, StepRow, StepStatus
  <1>2. recordSuccess(row) \in StepRow
    BY DEF recordSuccess, StepRow, StepStatus
  <1>3. markSkipped(row) \in StepRow
    BY DEF markSkipped, StepRow, StepStatus
  <1>4. Kept(row) \in StepRow
    BY DEF Kept, StepRow, StepStatus
  <1>5. \A group \in Nat : resetStep(group) \in StepRow
    BY DEF resetStep, StepRow, StepStatus
  <1>6. [row EXCEPT !.lease = "lapsed"] \in StepRow /\ [row EXCEPT !.retry = "due"] \in StepRow
    BY DEF StepRow
  <1> QED
    BY <1>1, <1>2, <1>3, <1>4, <1>5, <1>6

(* The types hold when the run is created.                                 *)
LEMMA TypeInit == Init => TypeOK
  <1> SUFFICES ASSUME Init PROVE TypeOK
    OBVIOUS
  <1>1. NoMessages \in [Message -> Nat]
    BY DEF NoMessages
  <1>2. outbox \in [Message -> Nat]
    BY <1>1 DEF Init
  <1>3. batch \in [Worker -> [Message -> Nat]]
    BY <1>1 DEF Init
  <1>4. worker \in [Worker -> WorkerState]
    BY IdleType DEF Init
  <1>5. run \in RunRow /\ overdue \in SUBSET {"db", "node"} /\ losses \in Nat
    BY DEF Init, RunRow, RunStatus
  <1>6. step \in [Step -> StepRow]
    BY DEF Init, StepRow, StepStatus
  <1>7. person \in [Person -> PersonState]
    BY DEF Init, Away, PersonState
  <1>8. dlq \in Seq(DlqRow) /\ epoch \in [Step -> Nat]
    BY DEF Init
  <1> QED
    BY <1>2, <1>3, <1>4, <1>5, <1>6, <1>7, <1>8 DEF TypeOK

(* What recording an outcome does to a step row keeps it a step row.       *)
LEMMA FailedRowType ==
  ASSUME NEW row \in StepRow, NEW status \in StepStatus, NEW retry \in {"none", "later", "due"},
         NEW outcome, outcome.consumed \in Nat, outcome.deferrals \in Nat
  PROVE  FailedRow(row, status, retry, outcome) \in StepRow
  BY DEF FailedRow, StepRow

(* The decision of a worker is of the kinds there are, and takes no        *)
(* failure back.                                                           *)
LEMMA WorkerOutcome ==
  ASSUME TypeOK, NEW w \in Worker
  PROVE  /\ Outcome(w).kind \in {"retry", "exhausted", "pause", "terminal"}
         /\ Outcome(w).consumed \in Nat /\ Outcome(w).consumed >= worker[w].consumed
         /\ Outcome(w).deferrals \in Nat /\ Outcome(w).deferrals >= worker[w].deferrals
  <1> DEFINE state == [consumed |-> worker[w].consumed, deferrals |-> worker[w].deferrals]
  <1>1. state \in [consumed : Nat, deferrals : Nat]
    BY DEF TypeOK, WorkerState
  <1> QED
    BY <1>1, OutcomeType DEF Outcome

(* A worker that records has a step.                                       *)
HasTarget == \A w \in Worker : Working(w) => worker[w].target \in Step

(* Every step keeps the types.                                             *)
LEMMA TypeNext == TypeOK /\ HasTarget /\ [Next]_vars => TypeOK'
  <1> SUFFICES ASSUME TypeOK, HasTarget, [Next]_vars PROVE TypeOK'
    OBVIOUS
  <1>run. run \in RunRow
    BY DEF TypeOK
  <1>overdue. overdue \in SUBSET {"db", "node"}
    BY DEF TypeOK
  <1>step. step \in [Step -> StepRow]
    BY DEF TypeOK
  <1>outbox. outbox \in [Message -> Nat]
    BY DEF TypeOK
  <1>batch. batch \in [Worker -> [Message -> Nat]]
    BY DEF TypeOK
  <1>worker. worker \in [Worker -> WorkerState]
    BY DEF TypeOK
  <1>person. person \in [Person -> PersonState]
    BY DEF TypeOK
  <1>dlq. dlq \in Seq(DlqRow)
    BY DEF TypeOK
  <1>epoch. epoch \in [Step -> Nat]
    BY DEF TypeOK
  <1>losses. losses \in Nat
    BY DEF TypeOK
  <1>group. run.attemptGroup + 1 \in Nat
    BY <1>run DEF RunRow
  <1>1. ASSUME NEW w \in Worker, ClaimBatch(w) PROVE TypeOK'
    <2>1. PICK b \in Batches :
            /\ \A m \in Ready : b[m] <= outbox[m]
            /\ outbox' = [m \in Message |-> IF m \in Ready THEN outbox[m] - b[m] ELSE outbox[m]]
            /\ batch' = [batch EXCEPT ![w] = [m \in Message |-> IF m \in Ready THEN b[m] ELSE 0]]
      BY <1>1 DEF ClaimBatch
    <2>2. \A m \in Ready : b[m] \in Nat
      BY CountsAssumption DEF Batches
    <2>3. outbox' \in [Message -> Nat]
      <3>1. \A m \in Ready : outbox[m] \in Nat /\ outbox[m] - b[m] \in Nat
        BY <1>outbox, <2>1, <2>2 DEF Message
      <3> QED
        BY <1>outbox, <2>1, <3>1
    <2>4. [m \in Message |-> IF m \in Ready THEN b[m] ELSE 0] \in [Message -> Nat]
      BY <2>2
    <2>5. batch' \in [Worker -> [Message -> Nat]]
      BY <1>batch, <2>1, <2>4
    <2> QED
      BY <1>1, <2>3, <2>5 DEF TypeOK, ClaimBatch
  <1>2. ASSUME NEW w \in Worker, AdvanceRead(w) PROVE TypeOK'
    <2>1. batch' \in [Worker -> [Message -> Nat]]
      BY <1>batch, <1>2, TakesType, MessageType DEF AdvanceRead
    <2>2. worker' \in [Worker -> WorkerState]
      <3>1. {"cancelled", "timed_out"} \subseteq RunStatus
        BY DEF RunStatus
      <3> QED
        BY <1>worker, <1>2, <3>1, LocalsType, BecomesType DEF AdvanceRead
    <2> QED
      BY <1>2, <2>1, <2>2 DEF TypeOK, AdvanceRead
  <1>3. ASSUME NEW w \in Worker, AdvanceNext(w) PROVE TypeOK'
    <2>1. worker' \in [Worker -> WorkerState]
      BY <1>worker, <1>3, LocalsType, BecomesType DEF AdvanceNext
    <2> QED
      BY <1>3, <2>1 DEF TypeOK, AdvanceNext
  <1>4. ASSUME NEW w \in Worker, AdvanceList(w) PROVE TypeOK'
    <2>1. worker' \in [Worker -> WorkerState]
      BY <1>worker, <1>4, IdleType, LocalsType, BecomesType DEF AdvanceList
    <2> QED
      BY <1>4, <2>1 DEF TypeOK, AdvanceList
  <1>5. ASSUME NEW w \in Worker, AdvanceWrite(w) PROVE TypeOK'
    <2>1. run' \in RunRow
      <3>1. "running" \in RunStatus
        BY DEF RunStatus
      <3> QED
        BY <1>run, <1>5, <3>1, RunFieldType DEF AdvanceWrite, setRunStatus
    <2>2. outbox' \in [Message -> Nat]
      BY <1>outbox, <1>5 DEF AdvanceWrite, Enqueue
    <2>3. worker' \in [Worker -> WorkerState]
      BY <1>worker, <1>5, IdleType, BecomesType DEF AdvanceWrite
    <2> QED
      BY <1>5, <2>1, <2>2, <2>3 DEF TypeOK, AdvanceWrite
  <1>6. ASSUME NEW w \in Worker, ClaimStep(w) PROVE TypeOK'
    <2>1. PICK s \in Step :
            /\ Takes(w, RunStep(s))
            /\ \/ /\ step' = [step EXCEPT ![s] = Claimed(step[s], w)]
                  /\ epoch' = [epoch EXCEPT ![s] = epoch[s] + 1]
                  /\ Becomes(w, Executes(s))
               \/ step' = step /\ epoch' = epoch /\ worker' = worker
      BY <1>6 DEF ClaimStep
    <2>2. batch' \in [Worker -> [Message -> Nat]]
      BY <1>batch, <2>1, TakesType, MessageType
    <2>3. step' \in [Step -> StepRow]
      <3>1. step[s] \in StepRow
        BY <1>step
      <3>2. Claimed(step[s], w) \in StepRow
        BY <3>1, StepFieldType
      <3>3. step' = [step EXCEPT ![s] = Claimed(step[s], w)] \/ step' = step
        BY <2>1
      <3> QED
        BY <1>step, <3>2, <3>3
    <2>4. epoch' \in [Step -> Nat]
      BY <1>epoch, <2>1
    <2>5. worker' \in [Worker -> WorkerState]
      BY <1>worker, <2>1, LocalsType, BecomesType
    <2> QED
      BY <1>6, <2>2, <2>3, <2>4, <2>5 DEF TypeOK, ClaimStep
  <1>7. ASSUME NEW w \in Worker, Execute(w) PROVE TypeOK'
    <2>1. worker' \in [Worker -> WorkerState]
      BY <1>worker, <1>7, LocalsType, BecomesType DEF Execute
    <2> QED
      BY <1>7, <2>1 DEF TypeOK, Execute
  <1>8. ASSUME NEW w \in Worker, RecordStale(w) PROVE TypeOK'
    <2>1. worker' \in [Worker -> WorkerState]
      BY <1>worker, <1>8, IdleType, BecomesType DEF RecordStale
    <2> QED
      BY <1>8, <2>1 DEF TypeOK, RecordStale
  <1>9. ASSUME NEW w \in Worker, RecordSuccess(w) PROVE TypeOK'
    <2>1. worker' \in [Worker -> WorkerState] /\ outbox' \in [Message -> Nat]
      BY <1>outbox, <1>9, IdleType, BecomesType, EnqueueType, MessageType DEF RecordSuccess
    <2>2. step' \in [Step -> StepRow]
      BY <1>step, <1>9, StepFieldType DEF RecordSuccess
    <2>3. run' \in RunRow
      BY <1>run, <1>9, RunFieldType DEF RecordSuccess
    <2> QED
      BY <1>9, <2>1, <2>2, <2>3 DEF TypeOK, RecordSuccess
  <1>10. ASSUME NEW w \in Worker, RecordRetry(w) PROVE TypeOK'
    <2>1. worker[w].target \in Step
      BY <1>10 DEF RecordRetry, HasTarget, Working
    <2>2. worker' \in [Worker -> WorkerState] /\ outbox' \in [Message -> Nat]
      BY <1>outbox, <1>10, <2>1, IdleType, BecomesType, EnqueueType, MessageType DEF RecordRetry
    <2>3. step' \in [Step -> StepRow]
      BY <1>step, <1>10, <2>1, WorkerOutcome, FailedRowType DEF RecordRetry, StepStatus
    <2> QED
      BY <1>10, <2>2, <2>3 DEF TypeOK, RecordRetry
  <1>11. ASSUME NEW w \in Worker, RecordPause(w) PROVE TypeOK'
    <2>1. worker[w].target \in Step
      BY <1>11 DEF RecordPause, HasTarget, Working
    <2>2. worker' \in [Worker -> WorkerState] /\ outbox' \in [Message -> Nat]
      BY <1>outbox, <1>11, IdleType, BecomesType, EnqueueType, MessageType DEF RecordPause
    <2>3. step' \in [Step -> StepRow]
      BY <1>step, <1>11, <2>1, WorkerOutcome, FailedRowType DEF RecordPause, StepStatus
    <2> QED
      BY <1>11, <2>2, <2>3 DEF TypeOK, RecordPause
  <1>12. ASSUME NEW w \in Worker, RecordFailed(w) PROVE TypeOK'
    <2>1. worker[w].target \in Step
      BY <1>12 DEF RecordFailed, HasTarget, Working
    <2>2. worker' \in [Worker -> WorkerState] /\ outbox' \in [Message -> Nat]
      BY <1>outbox, <1>12, IdleType, BecomesType, EnqueueType, MessageType DEF RecordFailed
    <2>3. step' \in [Step -> StepRow]
      BY <1>step, <1>12, <2>1, WorkerOutcome, FailedRowType DEF RecordFailed, StepStatus
    <2>4. run' \in RunRow
      BY <1>run, <1>12, RunFieldType DEF RecordFailed
    <2>5. dlq' \in Seq(DlqRow)
      <3>1. DlqReasons(Outcome(w), worker[w].result) \subseteq DlqReason
        BY DEF DlqReasons, DlqReason
      <3>2. step[worker[w].target].group \in Nat
        BY <1>step, <2>1 DEF StepRow
      <3> QED
        <4>1. CASE UNCHANGED dlq
          BY <1>dlq, <4>1
        <4>2. CASE \E reason \in DlqReasons(Outcome(w), worker[w].result) :
                     dlq' = Append(dlq, [step |-> worker[w].target,
                                         group |-> step[worker[w].target].group,
                                         reason |-> reason, replays |-> 0])
          <5>1. \A reason \in DlqReason :
                  [step |-> worker[w].target, group |-> step[worker[w].target].group,
                   reason |-> reason, replays |-> 0] \in DlqRow
            BY <2>1, <3>2 DEF DlqRow
          <5> QED
            BY <1>dlq, <3>1, <4>2, <5>1
        <4> QED
          BY <1>12, <4>1, <4>2 DEF RecordFailed
    <2> QED
      BY <1>12, <2>2, <2>3, <2>4, <2>5 DEF TypeOK, RecordFailed
  <1>13. ASSUME NEW w \in Worker, Sweep(w) PROVE TypeOK'
    BY <1>13, EnqueueType, MessageType DEF TypeOK, Sweep
  <1>14. ASSUME NEW w \in Worker, Crash(w) PROVE TypeOK'
    <2>1. NoMessages \in [Message -> Nat]
      BY DEF NoMessages
    <2> QED
      BY <1>14, <2>1, IdleType, BecomesType DEF TypeOK, Crash
  <1>15. ASSUME NEW s \in Step, LeaseLapses(s) PROVE TypeOK'
    <2>1. step' \in [Step -> StepRow]
      BY <1>step, <1>15, StepFieldType DEF LeaseLapses
    <2> QED
      BY <1>15, <2>1 DEF TypeOK, LeaseLapses
  <1>16. ASSUME NEW s \in Step, RetryComesDue(s) PROVE TypeOK'
    <2>1. step' \in [Step -> StepRow]
      <3>1. step' = [step EXCEPT ![s].retry = "due"] \/ step' = step
        BY <1>16 DEF RetryComesDue
      <3>2. [step[s] EXCEPT !.retry = "due"] \in StepRow
        BY <1>step, StepFieldType
      <3> QED
        BY <1>step, <3>1, <3>2
    <2>2. outbox' \in [Message -> Nat]
      <3>1. AdvanceLater(s) # Advance
        BY DEF AdvanceLater, Advance
      <3> QED
        BY <1>outbox, <1>16, <3>1, MessageType DEF RetryComesDue
    <2> QED
      BY <1>16, <2>1, <2>2 DEF TypeOK, RetryComesDue
  <1>17. ASSUME NEW clock \in {"db", "node"}, DeadlinePasses(clock) PROVE TypeOK'
    BY <1>17 DEF TypeOK, DeadlinePasses
  <1>18. ASSUME NEW p \in Person, ResumeRead(p) PROVE TypeOK'
    <2>1. person' \in [Person -> PersonState]
      <3>1. \A s \in Step : [pc |-> "write", from |-> s, group |-> run.attemptGroup + 1,
                             entry |-> 0] \in PersonState
        BY <1>group DEF PersonState
      <3> QED
        BY <1>person, <1>18, <3>1 DEF ResumeRead
    <2> QED
      BY <1>18, <2>1 DEF TypeOK, ResumeRead
  <1>19. ASSUME NEW p \in Person, ReplayRead(p) PROVE TypeOK'
    <2>1. \A e \in DOMAIN dlq : e \in Nat /\ dlq[e].step \in Step
      <3>1. \A e \in DOMAIN dlq : e \in Nat /\ dlq[e] \in DlqRow
        BY <1>dlq
      <3> QED
        BY <3>1 DEF DlqRow
    <2>2. person' \in [Person -> PersonState]
      <3>1. \A e \in DOMAIN dlq :
              [pc |-> "write", from |-> dlq[e].step, group |-> run.attemptGroup + 1,
               entry |-> e] \in PersonState
        BY <1>group, <2>1 DEF PersonState
      <3> QED
        BY <1>person, <1>19, <3>1 DEF ReplayRead
    <2> QED
      BY <1>19, <2>2 DEF TypeOK, ReplayRead
  <1>20. ASSUME NEW p \in Person, ResumeWrite(p) PROVE TypeOK'
    <2>1. person[p].group \in Nat
      BY <1>person DEF PersonState
    <2>2. run' \in RunRow
      <3>1. ResumedRun(person[p].group) \in RunRow
        BY <2>1 DEF ResumedRun, RunRow, RunStatus
      <3> QED
        BY <1>run, <1>20, <3>1 DEF ResumeWrite
    <2>3. step' \in [Step -> StepRow]
      BY <1>step, <1>20, <2>1, StepFieldType DEF ResumeWrite
    <2>4. outbox' \in [Message -> Nat]
      BY <1>outbox, <1>20, EnqueueType, MessageType DEF ResumeWrite
    <2>5. dlq' \in Seq(DlqRow)
      <3>1. \A e \in DOMAIN dlq : dlq[e] \in DlqRow
        BY <1>dlq
      <3>2. \A e \in DOMAIN dlq : [dlq[e] EXCEPT !.replays = @ + 1] \in DlqRow
        BY <3>1 DEF DlqRow
      <3>3. DOMAIN dlq = 1 .. Len(dlq) /\ Len(dlq) \in Nat
        BY <1>dlq
      <3>4. dlq' \in [1 .. Len(dlq) -> DlqRow]
        BY <1>dlq, <1>20, <3>1, <3>2, <3>3 DEF ResumeWrite
      <3> QED
        BY <1>dlq, <3>3, <3>4
    <2>6. person' \in [Person -> PersonState]
      BY <1>person, <1>20 DEF ResumeWrite, Away, PersonState
    <2> QED
      BY <1>20, <2>2, <2>3, <2>4, <2>5, <2>6 DEF TypeOK, ResumeWrite
  <1>21. ASSUME RequestCancel PROVE TypeOK'
    <2>1. run' \in RunRow
      BY <1>run, <1>21, RunFieldType DEF RequestCancel
    <2> QED
      BY <1>21, <2>1 DEF TypeOK, RequestCancel
  <1>22. ASSUME LoseQueue PROVE TypeOK'
    BY <1>22 DEF TypeOK, LoseQueue, NoMessages
  <1>23. ASSUME UNCHANGED vars PROVE TypeOK'
    BY <1>23 DEF TypeOK, vars
  <1> QED
    BY <1>1, <1>2, <1>3, <1>4, <1>5, <1>6, <1>7, <1>8, <1>9, <1>10, <1>11, <1>12, <1>13,
       <1>14, <1>15, <1>16, <1>17, <1>18, <1>19, <1>20, <1>21, <1>22, <1>23
       DEF Next, Process, Record

--------------------------------------------------------------------------------
(* Who works on what                                                       *)

(* What a worker is sent to do, read back.                                 *)
LEMMA LocalsFields ==
  ASSUME TypeOK, NEW w \in Worker
  PROVE  /\ \A plan, s : Plans(w, plan, s).pc = "write"
         /\ Seeks(w).pc = "next"
         /\ Lists(w).pc = "list"
         /\ Idle.pc = "idle"
         /\ \A s : /\ Executes(s).pc = "exec"
                  /\ Executes(s).target = s
                  /\ Executes(s).token = epoch[s] + 1
         /\ \A result : /\ Records(w, result).pc = "record"
                       /\ Records(w, result).target = worker[w].target
                       /\ Records(w, result).token = worker[w].token
  <1>1. worker[w] \in WorkerState
    BY DEF TypeOK
  <1>2. \A plan, s : Plans(w, plan, s).pc = "write"
    BY <1>1 DEF Plans, WorkerState
  <1>3. Seeks(w).pc = "next" /\ Lists(w).pc = "list" /\ Idle.pc = "idle"
    BY <1>1 DEF Seeks, Lists, Idle, WorkerState
  <1>4. \A s : /\ Executes(s).pc = "exec"
             /\ Executes(s).target = s
             /\ Executes(s).token = epoch[s] + 1
    BY DEF Executes, Idle
  <1>5. \A result : /\ Records(w, result).pc = "record"
                  /\ Records(w, result).target = worker[w].target
                  /\ Records(w, result).token = worker[w].token
    BY <1>1 DEF Records, WorkerState
  <1> QED
    BY <1>2, <1>3, <1>4, <1>5

(* A step of the system, seen through its workers: one of them begins to   *)
(* work on a claim, one goes on working on its claim, one stops or does    *)
(* something else, or none is touched.                                     *)
Begins(w, s)  == Becomes(w, Executes(s)) /\ worker[w].pc = "idle"
GoesOn(w)     == worker[w].pc = "exec" /\ \E result \in Results : Becomes(w, Records(w, result))
IsElsewhere(w) == \E state \in WorkerState :
                   state.pc \in {"idle", "next", "list", "write"} /\ Becomes(w, state)

(* What a step does to the workers: one begins a claim, and only that      *)
(* takes a token, or goes on with one, or stops, or none moves.            *)
LEMMA WorkersMove ==
  ASSUME TypeOK, [Next]_vars
  PROVE  \/ \E w \in Worker, s \in Step :
              ClaimStep(w) /\ Begins(w, s) /\ epoch' = [epoch EXCEPT ![s] = epoch[s] + 1]
              /\ step' = [step EXCEPT ![s] = Claimed(step[s], w)] /\ Claimable(step[s])
         \/ /\ epoch' = epoch
            /\ \/ \E w \in Worker : GoesOn(w) \/ IsElsewhere(w)
               \/ worker' = worker
  <1> DEFINE Goal ==
         \/ \E w \in Worker, s \in Step :
              ClaimStep(w) /\ Begins(w, s) /\ epoch' = [epoch EXCEPT ![s] = epoch[s] + 1]
              /\ step' = [step EXCEPT ![s] = Claimed(step[s], w)] /\ Claimable(step[s])
         \/ /\ epoch' = epoch
            /\ \/ \E w \in Worker : GoesOn(w) \/ IsElsewhere(w)
               \/ worker' = worker
  <1>1. ASSUME NEW w \in Worker, AdvanceRead(w) \/ AdvanceNext(w) \/ AdvanceList(w) PROVE Goal
    <2>1. epoch' = epoch
      BY <1>1 DEF AdvanceRead, AdvanceNext, AdvanceList
    <2>2. {"cancelled", "timed_out"} \subseteq RunStatus
      BY DEF RunStatus
    <2>3. worker' = worker \/ \E state \in WorkerState :
            state.pc \in {"idle", "next", "list", "write"} /\ Becomes(w, state)
      BY <1>1, <2>2, LocalsType, LocalsFields, IdleType DEF AdvanceRead, AdvanceNext, AdvanceList
    <2> QED
      BY <2>1, <2>3 DEF IsElsewhere
  <1>2. ASSUME NEW w \in Worker, AdvanceWrite(w) \/ Record(w) \/ Crash(w) PROVE Goal
    <2>1. epoch' = epoch
      BY <1>2 DEF AdvanceWrite, Record, RecordStale, RecordSuccess, RecordRetry, RecordPause,
                  RecordFailed, Crash
    <2>2. Becomes(w, Idle)
      BY <1>2 DEF AdvanceWrite, Record, RecordStale, RecordSuccess, RecordRetry, RecordPause,
                  RecordFailed, Crash
    <2> QED
      BY <2>1, <2>2, IdleType, LocalsFields DEF IsElsewhere
  <1>3. ASSUME NEW w \in Worker, ClaimStep(w) PROVE Goal
    <2>1. PICK s \in Step :
            /\ Takes(w, RunStep(s))
            /\ \/ /\ Claimable(step[s])
                  /\ step' = [step EXCEPT ![s] = Claimed(step[s], w)]
                  /\ epoch' = [epoch EXCEPT ![s] = epoch[s] + 1]
                  /\ Becomes(w, Executes(s))
               \/ step' = step /\ epoch' = epoch /\ worker' = worker
      BY <1>3 DEF ClaimStep
    <2>2. worker[w].pc = "idle"
      BY <2>1 DEF Takes
    <2> QED
      BY <1>3, <2>1, <2>2 DEF Begins
  <1>4. ASSUME NEW w \in Worker, Execute(w) PROVE Goal
    BY <1>4 DEF Execute, GoesOn
  <1>5. ASSUME NEW w \in Worker, ClaimBatch(w) \/ Sweep(w) PROVE Goal
    BY <1>5 DEF ClaimBatch, Sweep
  <1>6. ASSUME NEW s \in Step, LeaseLapses(s) \/ RetryComesDue(s) PROVE Goal
    BY <1>6 DEF LeaseLapses, RetryComesDue
  <1>7. ASSUME NEW p \in Person, ResumeRead(p) \/ ReplayRead(p) \/ ResumeWrite(p) PROVE Goal
    BY <1>7 DEF ResumeRead, ReplayRead, ResumeWrite
  <1>8. ASSUME \/ \E clock \in {"db", "node"} : DeadlinePasses(clock)
               \/ RequestCancel \/ LoseQueue \/ UNCHANGED vars
        PROVE Goal
    BY <1>8 DEF DeadlinePasses, RequestCancel, LoseQueue, vars
  <1> QED
    BY <1>1, <1>2, <1>3, <1>4, <1>5, <1>6, <1>7, <1>8 DEF Next, Process

TypeInv == TypeOK /\ HasTarget

(* A worker that works has a step to work on, and keeps it.                *)
LEMMA HasTargetNext == TypeInv /\ [Next]_vars => HasTarget'
  <1> SUFFICES ASSUME TypeOK, HasTarget, [Next]_vars, NEW v \in Worker, Working(v)'
               PROVE  worker'[v].target \in Step
    BY DEF TypeInv, HasTarget, Working
  <1>0. worker \in [Worker -> WorkerState]
    BY DEF TypeOK
  <1>1. ASSUME NEW w \in Worker, NEW s \in Step, Begins(w, s) PROVE worker'[v].target \in Step
    <2>1. worker'[v] = IF v = w THEN Executes(s) ELSE worker[v]
      BY <1>0, <1>1 DEF Begins, Becomes
    <2> QED
      BY <1>1, <2>1, LocalsFields DEF HasTarget, Working
  <1>2. ASSUME NEW w \in Worker, GoesOn(w) PROVE worker'[v].target \in Step
    <2>1. PICK result \in Results : Becomes(w, Records(w, result))
      BY <1>2 DEF GoesOn
    <2>2. worker'[v] = IF v = w THEN Records(w, result) ELSE worker[v]
      BY <1>0, <2>1 DEF Becomes
    <2> QED
      BY <1>2, <2>2, LocalsFields DEF HasTarget, Working, GoesOn
  <1>3. ASSUME NEW w \in Worker, IsElsewhere(w) PROVE worker'[v].target \in Step
    <2>1. PICK state \in WorkerState :
            state.pc \in {"idle", "next", "list", "write"} /\ Becomes(w, state)
      BY <1>3 DEF IsElsewhere
    <2>2. worker'[v] = IF v = w THEN state ELSE worker[v]
      BY <1>0, <2>1 DEF Becomes
    <2> QED
      BY <2>1, <2>2 DEF HasTarget, Working
  <1>4. ASSUME worker' = worker PROVE worker'[v].target \in Step
    BY <1>4 DEF HasTarget, Working
  <1> QED
    BY <1>1, <1>2, <1>3, <1>4, WorkersMove

(* Both hold when the run is created.                                      *)
LEMMA TypeInvInit == Init => TypeInv
  <1>1. Init => HasTarget
    BY DEF Init, HasTarget, Working, Idle
  <1> QED
    BY <1>1, TypeInit DEF TypeInv

(* The inductive invariant behind every proof about DurableRun.            *)
LEMMA TypeInvAlways == Spec => []TypeInv
  <1>1. Init => TypeInv
    BY TypeInvInit
  <1>2. TypeInv /\ [Next]_vars => TypeInv'
    BY TypeNext, HasTargetNext DEF TypeInv
  <1> QED
    BY <1>1, <1>2, PTL DEF Spec

(* The state has the types DurableRun declares, for every flow, whatever   *)
(* the workers and the people do.                                          *)
THEOREM TypeCorrect == Spec => []TypeOK
  <1>1. TypeInv => TypeOK
    BY DEF TypeInv
  <1> QED
    BY <1>1, TypeInvAlways, PTL

--------------------------------------------------------------------------------
(* The rows                                                                *)

(* What one step of the system does to one row of step_executions.         *)
IsClaimed(t) == \E w \in Worker : /\ ClaimStep(w) /\ Claimable(step[t])
                                  /\ step'[t] = Claimed(step[t], w)
                                  /\ epoch' = [epoch EXCEPT ![t] = epoch[t] + 1]
IsSucceeded(t) == \E w \in Worker : /\ RecordSuccess(w) /\ worker[w].target = t
                                    /\ step[t].status = "running"
                                    /\ step'[t] = recordSuccess(step[t])
IsSkipped(t) == step[t].status = "pending" /\ step'[t] = markSkipped(step[t])
IsRetried(t) == \E w \in Worker : /\ RecordRetry(w) /\ worker[w].target = t
                                  /\ step'[t] = FailedRow(step[t], "failed", "later", Outcome(w))
IsPaused(t) == \E w \in Worker :
                 /\ RecordPause(w) /\ worker[w].target = t
                 /\ step'[t] = FailedRow(step[t], "waiting_confirmation", "none", Outcome(w))
IsFailed(t) == \E w \in Worker : /\ RecordFailed(w) /\ worker[w].target = t
                                 /\ step'[t] = FailedRow(step[t], "failed", "none", Outcome(w))
IsLapsed(t) == step'[t] = [step[t] EXCEPT !.lease = "lapsed"]
IsDue(t) == step[t].retry = "later" /\ step'[t] = [step[t] EXCEPT !.retry = "due"]

RowMove(t) == \/ step'[t] = step[t]
              \/ IsClaimed(t) \/ IsSucceeded(t) \/ IsSkipped(t)
              \/ IsRetried(t) \/ IsPaused(t) \/ IsFailed(t)
              \/ IsLapsed(t) \/ IsDue(t)

(* Only a resume does anything else.                                       *)
LEMMA RowsMove ==
  ASSUME TypeInv, [Next]_vars, NEW t \in Step
  PROVE  RowMove(t) \/ Restart
  <1>0. step \in [Step -> StepRow]
    BY DEF TypeInv, TypeOK
  <1>1. ASSUME step' = step PROVE RowMove(t)
    BY <1>1 DEF RowMove
  <1>2. ASSUME NEW w \in Worker, ClaimStep(w) PROVE RowMove(t)
    <2>1. PICK s \in Step : \/ /\ Claimable(step[s])
                               /\ step' = [step EXCEPT ![s] = Claimed(step[s], w)]
                               /\ epoch' = [epoch EXCEPT ![s] = epoch[s] + 1]
                            \/ step' = step
      BY <1>2 DEF ClaimStep
    <2> QED
      BY <1>0, <1>2, <2>1 DEF RowMove, IsClaimed
  <1>3. ASSUME NEW w \in Worker, RecordSuccess(w) PROVE RowMove(t)
    <2>1. PICK arm \in Abandons[worker[w].target] :
            step' = [u \in Step |-> IF u = worker[w].target THEN recordSuccess(step[u])
                                    ELSE IF u \in arm THEN markSkipped(step[u]) ELSE step[u]]
      BY <1>3 DEF RecordSuccess
    <2>2. CASE t = worker[w].target
      BY <1>3, <2>1, <2>2 DEF RowMove, IsSucceeded, RecordSuccess, Holds
    <2>3. CASE t # worker[w].target
      BY <2>1, <2>3 DEF RowMove, IsSkipped, markSkipped
    <2> QED
      BY <2>2, <2>3
  <1>4. ASSUME NEW w \in Worker, RecordRetry(w) PROVE RowMove(t)
    BY <1>0, <1>4 DEF RecordRetry, RowMove, IsRetried
  <1>5. ASSUME NEW w \in Worker, RecordPause(w) PROVE RowMove(t)
    BY <1>0, <1>5 DEF RecordPause, RowMove, IsPaused
  <1>6. ASSUME NEW w \in Worker, RecordFailed(w) PROVE RowMove(t)
    BY <1>0, <1>6 DEF RecordFailed, RowMove, IsFailed
  <1>7. ASSUME NEW s \in Step, LeaseLapses(s) PROVE RowMove(t)
    BY <1>0, <1>7 DEF LeaseLapses, RowMove, IsLapsed
  <1>8. ASSUME NEW s \in Step, RetryComesDue(s) PROVE RowMove(t)
    BY <1>0, <1>8 DEF RetryComesDue, RowMove, IsDue
  <1>9. ASSUME NEW w \in Worker,
               \/ ClaimBatch(w) \/ AdvanceRead(w) \/ AdvanceNext(w) \/ AdvanceList(w)
               \/ AdvanceWrite(w) \/ Execute(w) \/ RecordStale(w) \/ Sweep(w) \/ Crash(w)
        PROVE  step' = step
    BY <1>9 DEF ClaimBatch, AdvanceRead, AdvanceNext, AdvanceList, AdvanceWrite, Execute,
                RecordStale, Sweep, Crash
  <1>10. ASSUME NEW p \in Person, ResumeRead(p) \/ ReplayRead(p) PROVE step' = step
    BY <1>10 DEF ResumeRead, ReplayRead
  <1>11. ASSUME \/ \E clock \in {"db", "node"} : DeadlinePasses(clock)
                \/ RequestCancel \/ LoseQueue \/ UNCHANGED vars
         PROVE  step' = step
    BY <1>11 DEF DeadlinePasses, RequestCancel, LoseQueue, vars
  <1> QED
    BY <1>1, <1>2, <1>3, <1>4, <1>5, <1>6, <1>7, <1>8, <1>9, <1>10, <1>11
       DEF Next, Process, Record, Restart

--------------------------------------------------------------------------------
(* Fencing                                                                 *)

DistinctIds == \A v, w \in Worker : v # w => IdOf[v] # IdOf[w]

(* What the owner of a running step read when it claimed it still stands.  *)
Knows == \A w \in Worker : Working(w) =>
           LET row == step[worker[w].target] IN
           row.status = "running" /\ row.owner = IdOf[w] =>
             worker[w].consumed = row.consumed /\ worker[w].deferrals = row.deferrals

FenceInv == TypeInv /\ Fence /\ Knows

(* Where nothing is claimed, a row that is running was running before, for *)
(* the same owner and with the same counters.                              *)
LEMMA RunningBefore ==
  ASSUME TypeInv, [Next]_vars, NEW t \in Step, epoch' = epoch, step'[t].status = "running"
  PROVE  /\ step[t].status = "running" /\ step'[t].owner = step[t].owner
         /\ step'[t].consumed = step[t].consumed /\ step'[t].deferrals = step[t].deferrals
  <1>0. step[t] \in StepRow /\ epoch \in [Step -> Nat]
    BY DEF TypeInv, TypeOK
  <1>1. ~ IsClaimed(t)
    BY <1>0 DEF IsClaimed
  <1>2. ~ IsSucceeded(t) /\ ~ IsSkipped(t)
    BY <1>0 DEF IsSucceeded, IsSkipped, recordSuccess, markSkipped, StepRow
  <1>3. ~ IsRetried(t) /\ ~ IsPaused(t) /\ ~ IsFailed(t)
    BY <1>0 DEF IsRetried, IsPaused, IsFailed, FailedRow, StepRow
  <1>4. ~ Restart
    <2>1. ASSUME NEW p \in Person, ResumeWrite(p) PROVE FALSE
      <3>1. step'[t] = IF t < person[p].from THEN Kept(step[t]) ELSE resetStep(person[p].group)
        BY <2>1 DEF ResumeWrite
      <3>2. /\ Kept(step[t]).status = "skipped_resumed"
            /\ resetStep(person[p].group).status = "pending"
        BY <1>0 DEF Kept, resetStep, StepRow
      <3> QED
        BY <3>1, <3>2
    <2> QED
      BY <2>1 DEF Restart
  <1>5. step'[t] = step[t] \/ IsLapsed(t) \/ IsDue(t)
    BY <1>1, <1>2, <1>3, <1>4, RowsMove DEF RowMove
  <1> QED
    BY <1>0, <1>5 DEF IsLapsed, IsDue, StepRow

(* A worker that works after a step in which nothing is claimed was        *)
(* working before, on the same claim and with the same counters.           *)
SameWork(w) == /\ Working(w)
               /\ worker'[w].target = worker[w].target /\ worker'[w].token = worker[w].token
               /\ worker'[w].consumed = worker[w].consumed
               /\ worker'[w].deferrals = worker[w].deferrals

(* Whoever works after such a step did the same work before it.            *)
LEMMA WorkingBefore ==
  ASSUME TypeInv, NEW v \in Worker, Working(v)',
         (\E w \in Worker : GoesOn(w) \/ IsElsewhere(w)) \/ worker' = worker
  PROVE  SameWork(v)
  <1>0. worker \in [Worker -> WorkerState]
    BY DEF TypeInv, TypeOK
  <1>1. ASSUME NEW w \in Worker, GoesOn(w) PROVE SameWork(v)
    <2>1. PICK result \in Results : Becomes(w, Records(w, result))
      BY <1>1 DEF GoesOn
    <2>2. worker'[v] = IF v = w THEN Records(w, result) ELSE worker[v]
      BY <1>0, <2>1 DEF Becomes
    <2>3. worker[w] \in WorkerState
      BY <1>0
    <2> QED
      BY <1>1, <2>2, <2>3 DEF SameWork, Working, GoesOn, Records, WorkerState
  <1>2. ASSUME NEW w \in Worker, IsElsewhere(w) PROVE SameWork(v)
    <2>1. PICK state \in WorkerState :
            state.pc \in {"idle", "next", "list", "write"} /\ Becomes(w, state)
      BY <1>2 DEF IsElsewhere
    <2>2. worker'[v] = IF v = w THEN state ELSE worker[v]
      BY <1>0, <2>1 DEF Becomes
    <2> QED
      BY <2>1, <2>2 DEF SameWork, Working
  <1>3. ASSUME worker' = worker PROVE SameWork(v)
    BY <1>3 DEF SameWork, Working
  <1> QED
    BY <1>1, <1>2, <1>3

(* Nobody works when the run is created.                                   *)
LEMMA FenceInit == Init => FenceInv
  <1>1. Init => \A w \in Worker : ~ Working(w)
    BY DEF Init, Working, Idle
  <1> QED
    BY <1>1, TypeInvInit DEF FenceInv, Fence, Knows

(* The two parts of Fence, and Knows, per worker.                          *)
Newest(w) == /\ worker[w].target \in Step
             /\ worker[w].token \in Nat /\ worker[w].token <= epoch[worker[w].target]
             /\ LET row == step[worker[w].target] IN
                row.status = "running" /\ row.owner = IdOf[w] =>
                  /\ worker[w].token = epoch[worker[w].target]
                  /\ worker[w].consumed = row.consumed /\ worker[w].deferrals = row.deferrals

Apart(v, w) == worker[v].target = worker[w].target => worker[v].token # worker[w].token

(* The fence, said of one worker and of two.                               *)
LEMMA FenceParts ==
  ASSUME TypeInv
  PROVE  FenceInv <=> /\ \A w \in Worker : Working(w) => Newest(w)
                      /\ \A v, w \in Worker : Working(v) /\ Working(w) /\ v # w => Apart(v, w)
  <1>1. \A w \in Worker : worker[w].token \in Nat
    BY DEF TypeInv, TypeOK, WorkerState
  <1> QED
    BY <1>1 DEF FenceInv, Fence, Knows, Newest, Apart

(* Where nothing is claimed.                                               *)
LEMMA FenceStays ==
  ASSUME FenceInv, [Next]_vars, TypeInv', epoch' = epoch,
         (\E w \in Worker : GoesOn(w) \/ IsElsewhere(w)) \/ worker' = worker
  PROVE  FenceInv'
  <1>1. TypeInv
    BY DEF FenceInv
  <1>2. ASSUME NEW w \in Worker, Working(w)' PROVE Newest(w)'
    <2>1. SameWork(w)
      BY <1>1, <1>2, WorkingBefore
    <2>2. Newest(w)
      BY <1>1, <2>1, FenceParts DEF SameWork
    <2>3. CASE step'[worker[w].target].status = "running"
      <3>1. LET s == worker[w].target IN
            /\ step[s].status = "running" /\ step'[s].owner = step[s].owner
            /\ step'[s].consumed = step[s].consumed /\ step'[s].deferrals = step[s].deferrals
        BY <1>1, <2>2, <2>3, RunningBefore DEF Newest
      <3> QED
        BY <2>1, <2>2, <3>1 DEF Newest, SameWork
    <2>4. CASE step'[worker[w].target].status # "running"
      BY <2>1, <2>2, <2>4 DEF Newest, SameWork
    <2> QED
      BY <2>3, <2>4
  <1>3. ASSUME NEW v \in Worker, NEW w \in Worker, Working(v)', Working(w)', v # w
        PROVE  Apart(v, w)'
    <2>1. SameWork(v) /\ SameWork(w)
      BY <1>1, <1>3, WorkingBefore
    <2>2. Apart(v, w)
      BY <1>1, <1>3, <2>1, FenceParts DEF SameWork
    <2> QED
      BY <2>1, <2>2 DEF Apart, SameWork
  <1>4. FenceInv' <=> /\ \A w \in Worker : Working(w)' => Newest(w)'
                      /\ \A v, w \in Worker : Working(v)' /\ Working(w)' /\ v # w => Apart(v, w)'
    <2>1. \A w \in Worker : worker'[w].token \in Nat
      BY DEF TypeInv, TypeOK, WorkerState
    <2> QED
      BY <2>1 DEF FenceInv, Fence, Knows, Newest, Apart
  <1> QED
    BY <1>2, <1>3, <1>4

(* A claim: the claimant's token is newer than every other, and its name   *)
(* replaces any other on the row.                                          *)
LEMMA FenceClaim ==
  ASSUME DistinctIds, FenceInv, TypeInv', NEW w \in Worker, NEW s \in Step, Begins(w, s),
         epoch' = [epoch EXCEPT ![s] = epoch[s] + 1],
         step' = [step EXCEPT ![s] = Claimed(step[s], w)]
  PROVE  FenceInv'
  <1>0. TypeInv /\ worker \in [Worker -> WorkerState] /\ step \in [Step -> StepRow]
        /\ epoch \in [Step -> Nat]
    BY DEF FenceInv, TypeInv, TypeOK
  <1>1. \A v \in Worker : worker'[v] = IF v = w THEN Executes(s) ELSE worker[v]
    BY <1>0 DEF Begins, Becomes
  <1>2. /\ Executes(s).pc = "exec" /\ Executes(s).target = s
        /\ Executes(s).token = epoch[s] + 1
        /\ Executes(s).consumed = step[s].consumed /\ Executes(s).deferrals = step[s].deferrals
    BY DEF Executes, Idle
  <1>3. /\ step'[s].owner = IdOf[w]
        /\ step'[s].consumed = step[s].consumed /\ step'[s].deferrals = step[s].deferrals
    BY <1>0 DEF Claimed, StepRow
  <1>4. epoch'[s] = epoch[s] + 1 /\ epoch[s] \in Nat
    BY <1>0
  <1>5. Newest(w)'
    BY <1>1, <1>2, <1>3, <1>4 DEF Newest
  <1>6. ASSUME NEW v \in Worker, v # w, Working(v)' PROVE Newest(v)' /\ worker[v].token <= epoch[worker[v].target]
    <2>1. Working(v) /\ worker'[v] = worker[v]
      BY <1>1, <1>6 DEF Working
    <2>2. Newest(v)
      BY <1>0, <2>1, FenceParts
    <2>3. CASE worker[v].target = s
      <3>1. IdOf[v] # IdOf[w]
        BY <1>6 DEF DistinctIds
      <3> QED
        BY <1>3, <1>4, <2>1, <2>2, <2>3, <3>1 DEF Newest
    <2>4. CASE worker[v].target # s
      <3>1. /\ step'[worker[v].target] = step[worker[v].target]
            /\ epoch'[worker[v].target] = epoch[worker[v].target]
        BY <1>0, <2>2, <2>4 DEF Newest
      <3> QED
        BY <2>1, <2>2, <3>1 DEF Newest
    <2> QED
      BY <2>3, <2>4
  <1>7. ASSUME NEW v \in Worker, v # w, Working(v)' PROVE Apart(v, w)' /\ Apart(w, v)'
    <2>1. worker'[v] = worker[v] /\ worker[v].token \in Nat /\ worker[v].token <= epoch[worker[v].target]
      BY <1>0, <1>1, <1>6, <1>7 DEF WorkerState
    <2> QED
      BY <1>1, <1>2, <1>4, <2>1 DEF Apart
  <1>8. ASSUME NEW u \in Worker, NEW v \in Worker, u # w, v # w, u # v, Working(u)', Working(v)'
        PROVE  Apart(u, v)'
    <2>1. Working(u) /\ Working(v) /\ worker'[u] = worker[u] /\ worker'[v] = worker[v]
      BY <1>1, <1>8 DEF Working
    <2> QED
      BY <1>0, <1>8, <2>1, FenceParts DEF Apart
  <1>9. FenceInv' <=> /\ \A v \in Worker : Working(v)' => Newest(v)'
                      /\ \A u, v \in Worker : Working(u)' /\ Working(v)' /\ u # v => Apart(u, v)'
    <2>1. \A v \in Worker : worker'[v].token \in Nat
      BY DEF TypeInv, TypeOK, WorkerState
    <2> QED
      BY <2>1 DEF FenceInv, Fence, Knows, Newest, Apart
  <1> QED
    BY <1>5, <1>6, <1>7, <1>8, <1>9

(* Every step keeps the fence.                                             *)
LEMMA FenceNext == DistinctIds /\ FenceInv /\ [Next]_vars => FenceInv'
  <1> SUFFICES ASSUME DistinctIds, FenceInv, [Next]_vars PROVE FenceInv'
    OBVIOUS
  <1>1. TypeInv /\ TypeInv'
    BY TypeNext, HasTargetNext DEF FenceInv, TypeInv
  <1> QED
    BY <1>1, WorkersMove, FenceClaim, FenceStays DEF TypeInv

(* However claims, lapsed leases, crashes, resumes and late results        *)
(* interleave, the worker whose id a running step carries is its newest    *)
(* claimant, provided that no two workers have the same id.                *)
THEOREM FenceHolds ==
  ASSUME DistinctIds
  PROVE  Spec => []Fence
  <1>1. Init => FenceInv
    BY FenceInit
  <1>2. FenceInv /\ [Next]_vars => FenceInv'
    BY FenceNext
  <1>3. FenceInv => Fence
    BY DEF FenceInv
  <1> QED
    BY <1>1, <1>2, <1>3, PTL DEF Spec

--------------------------------------------------------------------------------
(* The refinement: every step of the system is a Grant, a Settle, a        *)
(* Discard or a Reopen of the abstract fence, or invisible there.          *)

Phases    == [s \in Step |-> PhaseOf(step[s])]
Ticket(w) == <<worker[w].target, worker[w].token>>
Tickets   == {Ticket(w) : w \in {v \in Worker : Working(v)}}

(* A worker that stops working gives its ticket up; nobody else has it.    *)
LEMMA TicketGivenUp ==
  ASSUME FenceInv, NEW w \in Worker, Working(w), Becomes(w, Idle)
  PROVE  Ticket(w) \in Tickets /\ Tickets' = Tickets \ {Ticket(w)}
  <1>1. worker \in [Worker -> WorkerState] /\ TypeInv
    BY DEF FenceInv, TypeInv, TypeOK
  <1>2. \A v \in Worker : worker'[v] = IF v = w THEN Idle ELSE worker[v]
    BY <1>1 DEF Becomes
  <1>3. ~ Working(w)'
    BY <1>2 DEF Working, Idle
  <1>4. \A v \in Worker : v # w => (Working(v)' <=> Working(v)) /\ Ticket(v)' = Ticket(v)
    BY <1>2 DEF Working, Ticket
  <1>5. \A v \in Worker : v # w /\ Working(v) => Ticket(v) # Ticket(w)
    BY DEF FenceInv, Fence, Ticket
  <1> QED
    BY <1>3, <1>4, <1>5 DEF Tickets

(* What a worker does that neither works before nor after has no ticket.   *)
LEMMA TicketsKept ==
  ASSUME TypeInv, NEW w \in Worker, ~ Working(w), NEW state \in WorkerState,
         state.pc \in {"idle", "next", "list", "write"}, Becomes(w, state)
  PROVE  Tickets' = Tickets
  <1>1. worker \in [Worker -> WorkerState]
    BY DEF TypeInv, TypeOK
  <1>2. \A v \in Worker : worker'[v] = IF v = w THEN state ELSE worker[v]
    BY <1>1 DEF Becomes
  <1>3. ~ Working(w)'
    BY <1>2 DEF Working
  <1>4. \A v \in Worker : v # w => (Working(v)' <=> Working(v)) /\ Ticket(v)' = Ticket(v)
    BY <1>2 DEF Working, Ticket
  <1> QED
    BY <1>3, <1>4 DEF Tickets

(* Workers that stay have the tickets they had.                            *)
LEMMA TicketsSame ==
  ASSUME worker' = worker
  PROVE  Tickets' = Tickets
  BY DEF Tickets, Ticket, Working

(* The phases of a row, read off its status.                               *)
LEMMA PhaseFacts ==
  ASSUME NEW row
  PROVE  /\ row.status = "running" => PhaseOf(row) = "held"
         /\ row.status = "pending" => PhaseOf(row) = "open"
         /\ row.status = "failed" /\ row.retry # "none" => PhaseOf(row) = "open"
         /\ row.status = "failed" /\ row.retry = "none" => PhaseOf(row) = "shut"
         /\ row.status \in {"succeeded", "skipped", "skipped_resumed", "waiting_confirmation"}
              => PhaseOf(row) = "shut"
  BY DEF PhaseOf, Settled, Finished, FailedForGood, Paused

(* A claim takes a ticket.                                                 *)
LEMMA ClaimGrants ==
  ASSUME TypeInv, NEW w \in Worker, NEW s \in Step, Begins(w, s), Claimable(step[s]),
         epoch' = [epoch EXCEPT ![s] = epoch[s] + 1],
         step' = [step EXCEPT ![s] = Claimed(step[s], w)]
  PROVE  Fenced!Grant(s)
  <1>0. /\ worker \in [Worker -> WorkerState] /\ step \in [Step -> StepRow] /\ step[s] \in StepRow
        /\ epoch \in [Step -> Nat]
    BY DEF TypeInv, TypeOK
  <1>1. \A v \in Worker : worker'[v] = IF v = w THEN Executes(s) ELSE worker[v]
    BY <1>0 DEF Begins, Becomes
  <1>2. ~ Working(w) /\ Working(w)' /\ Ticket(w)' = <<s, epoch[s] + 1>>
    BY <1>1 DEF Begins, Executes, Idle, Working, Ticket
  <1>3. \A v \in Worker : v # w => (Working(v)' <=> Working(v)) /\ Ticket(v)' = Ticket(v)
    BY <1>1 DEF Working, Ticket
  <1>4. Tickets' = Tickets \cup {<<s, epoch[s] + 1>>}
    BY <1>2, <1>3 DEF Tickets
  <1>5. PhaseOf(step[s]) # "shut"
    BY PhaseFacts DEF Claimable
  <1>6. Phases' = [Phases EXCEPT ![s] = "held"]
    <2>1. step'[s] = Claimed(step[s], w) /\ Claimed(step[s], w).status = "running"
      BY <1>0 DEF Claimed, StepRow
    <2>2. PhaseOf(step'[s]) = "held"
      BY <2>1, PhaseFacts
    <2>3. \A t \in Step : PhaseOf(step'[t]) = IF t = s THEN "held" ELSE PhaseOf(step[t])
      BY <1>0, <2>2
    <2>4. Phases' = [t \in Step |-> IF t = s THEN "held" ELSE PhaseOf(step[t])]
      BY <2>3 DEF Phases
    <2> QED
      BY <2>4 DEF Phases
  <1> QED
    BY <1>4, <1>5, <1>6 DEF Fenced!Grant, Phases, Tickets, Ticket

(* A result that is written settles the step by its newest ticket.         *)
LEMMA HolderHasTicket ==
  ASSUME FenceInv, NEW w \in Worker, worker[w].pc = "record", Holds(w)
  PROVE  /\ worker[w].target \in Step /\ Working(w)
         /\ Phases[worker[w].target] = "held"
         /\ Ticket(w) = <<worker[w].target, epoch[worker[w].target]>>
  <1>1. Working(w)
    BY DEF Working
  <1>2. worker[w].target \in Step /\ worker[w].token = epoch[worker[w].target]
    BY <1>1 DEF FenceInv, Fence, Holds
  <1>3. PhaseOf(step[worker[w].target]) = "held"
    BY PhaseFacts DEF Holds
  <1> QED
    BY <1>1, <1>2, <1>3 DEF Ticket, Phases

(* A result that is recorded is one the newest ticket settles.             *)
LEMMA RecordSettles ==
  ASSUME FenceInv, NEW w \in Worker, NEW s \in Step, s = worker[w].target,
         RecordSuccess(w) \/ RecordRetry(w) \/ RecordPause(w) \/ RecordFailed(w)
  PROVE  Fenced!Settle(s)
  <1>1. worker[w].pc = "record" /\ Holds(w) /\ Becomes(w, Idle) /\ epoch' = epoch
    BY DEF RecordSuccess, RecordRetry, RecordPause, RecordFailed
  <1>2. /\ s \in Step /\ Phases[s] = "held"
        /\ <<s, epoch[s]>> \in Tickets /\ Tickets' = Tickets \ {<<s, epoch[s]>>}
    BY <1>1, HolderHasTicket, TicketGivenUp
  <1>3. step \in [Step -> StepRow] /\ \A t \in Step : step[t] \in StepRow
    BY DEF FenceInv, TypeInv, TypeOK
  <1>4. \/ Phases' = [Phases EXCEPT ![s] = "open"]
        \/ \E unneeded \in SUBSET {t \in Step : Phases[t] = "open"} :
             Phases' = [t \in Step |-> IF t = s \/ t \in unneeded THEN "shut" ELSE Phases[t]]
    <2>1. CASE RecordSuccess(w)
      <3>1. PICK arm \in Abandons[s] :
              step' = [t \in Step |-> IF t = s THEN recordSuccess(step[t])
                                      ELSE IF t \in arm THEN markSkipped(step[t]) ELSE step[t]]
        BY <2>1 DEF RecordSuccess
      <3> DEFINE unneeded == {t \in arm \cap Step : t # s /\ step[t].status = "pending"}
      <3>2. step'[s] = recordSuccess(step[s]) /\ recordSuccess(step[s]).status = "succeeded"
        BY <1>2, <1>3, <3>1 DEF recordSuccess, StepRow
      <3>3. PhaseOf(step'[s]) = "shut"
        BY <3>2, PhaseFacts
      <3>4. \A t \in unneeded : PhaseOf(step[t]) = "open" /\ PhaseOf(step'[t]) = "shut"
        <4>1. SUFFICES ASSUME NEW t \in unneeded
                       PROVE  PhaseOf(step[t]) = "open" /\ PhaseOf(step'[t]) = "shut"
          OBVIOUS
        <4>2. step'[t] = markSkipped(step[t]) /\ markSkipped(step[t]).status = "skipped"
          BY <1>3, <3>1 DEF markSkipped, StepRow
        <4> QED
          BY <4>2, PhaseFacts
      <3>5. \A t \in Step : t # s /\ t \notin unneeded => step'[t] = step[t]
        BY <3>1 DEF markSkipped
      <3>6. unneeded \in SUBSET {t \in Step : Phases[t] = "open"}
        BY <3>4 DEF Phases
      <3>7. Phases' = [t \in Step |-> IF t = s \/ t \in unneeded THEN "shut" ELSE Phases[t]]
        BY <3>3, <3>4, <3>5 DEF Phases
      <3> QED
        BY <3>6, <3>7
    <2>2. CASE RecordRetry(w)
      <3>1. step' = [step EXCEPT ![s] = FailedRow(step[s], "failed", "later", Outcome(w))]
        BY <2>2 DEF RecordRetry
      <3>2. step'[s].status = "failed" /\ step'[s].retry = "later"
        BY <1>2, <1>3, <3>1 DEF FailedRow, StepRow
      <3>3. PhaseOf(step'[s]) = "open" /\ \A t \in Step : t # s => step'[t] = step[t]
        BY <1>3, <3>1, <3>2, PhaseFacts
      <3> QED
        BY <1>2, <3>3 DEF Phases
    <2>3. CASE RecordPause(w) \/ RecordFailed(w)
      <3>1. PICK status \in {"failed", "waiting_confirmation"} :
              step' = [step EXCEPT ![s] = FailedRow(step[s], status, "none", Outcome(w))]
        BY <2>3 DEF RecordPause, RecordFailed
      <3>2. step'[s].status = status /\ step'[s].retry = "none"
        BY <1>2, <1>3, <3>1 DEF FailedRow, StepRow
      <3>3. PhaseOf(step'[s]) = "shut" /\ \A t \in Step : t # s => step'[t] = step[t]
        BY <1>3, <3>1, <3>2, PhaseFacts
      <3>4. Phases' = [t \in Step |-> IF t = s \/ t \in {} THEN "shut" ELSE Phases[t]]
        BY <1>2, <3>3 DEF Phases
      <3>5. {} \in SUBSET {t \in Step : Phases[t] = "open"}
        OBVIOUS
      <3> QED
        BY <3>4, <3>5
    <2> QED
      BY <2>1, <2>2, <2>3
  <1> QED
    BY <1>1, <1>2, <1>4 DEF Fenced!Settle, Phases, Tickets, Ticket

(* A worker whose result is stale, or that dies, throws its ticket away.   *)
LEMMA GoneDiscards ==
  ASSUME FenceInv, NEW w \in Worker, Working(w), Becomes(w, Idle), step' = step, epoch' = epoch
  PROVE  \E ticket \in Tickets : Fenced!Discard(ticket)
  <1>1. Ticket(w) \in Tickets /\ Tickets' = Tickets \ {Ticket(w)}
    BY TicketGivenUp
  <1> QED
    BY <1>1 DEF Fenced!Discard, Tickets, Ticket

(* To start the run again is to open its steps again.                      *)
LEMMA ResumeReopens ==
  ASSUME TypeInv, Restart
  PROVE  \E kept \in SUBSET Step : Fenced!Reopen(kept)
  <1>1. PICK p \in Person : ResumeWrite(p)
    BY DEF Restart
  <1> DEFINE kept == {t \in Step : t < person[p].from}
  <1>2. \A t \in Step : PhaseOf(step'[t]) = IF t \in kept THEN "shut" ELSE "open"
    <2> SUFFICES ASSUME NEW t \in Step
                 PROVE  PhaseOf(step'[t]) = IF t \in kept THEN "shut" ELSE "open"
      OBVIOUS
    <2>1. step'[t] = IF t \in kept THEN Kept(step[t]) ELSE resetStep(person[p].group)
      BY <1>1 DEF ResumeWrite
    <2>2. Kept(step[t]).status = "skipped_resumed" /\ resetStep(person[p].group).status = "pending"
      BY DEF TypeInv, TypeOK, StepRow, Kept, resetStep
    <2> QED
      BY <2>1, <2>2, PhaseFacts
  <1>3. Phases' = [s \in Step |-> IF s \in kept THEN "shut" ELSE "open"]
    BY <1>2 DEF Phases
  <1>4. epoch' = epoch /\ Tickets' = Tickets
    BY <1>1, TicketsSame DEF ResumeWrite
  <1> QED
    BY <1>3, <1>4 DEF Fenced!Reopen, Phases, Tickets, Ticket

--------------------------------------------------------------------------------
(* The run is created with every step open and no ticket out.              *)
LEMMA FencedInit == Init => Fenced!Init
  <1> SUFFICES ASSUME Init PROVE Fenced!Init
    OBVIOUS
  <1>1. \A s \in Step : PhaseOf(step[s]) = "open"
    BY PhaseFacts DEF Init
  <1>2. \A w \in Worker : ~ Working(w)
    BY DEF Init, Working, Idle
  <1> QED
    BY <1>1, <1>2 DEF Fenced!Init, Init

Unseen == Phases' = Phases /\ epoch' = epoch /\ Tickets' = Tickets

(* Every step of the run is one of the fenced steps, or unseen.            *)
LEMMA FencedNext ==
  ASSUME FenceInv, [Next]_vars
  PROVE  Fenced!Next \/ Unseen
  <1>0. TypeInv /\ TypeOK
    BY DEF FenceInv, TypeInv
  <1>1. ASSUME NEW w \in Worker,
               ClaimBatch(w) \/ AdvanceRead(w) \/ AdvanceNext(w) \/ AdvanceList(w)
               \/ AdvanceWrite(w) \/ Sweep(w)
        PROVE  Unseen
    <2>1. step' = step /\ epoch' = epoch
      BY <1>1 DEF ClaimBatch, AdvanceRead, AdvanceNext, AdvanceList, AdvanceWrite, Sweep
    <2>2. worker' = worker \/ \E state \in WorkerState :
            state.pc \in {"idle", "next", "list", "write"} /\ Becomes(w, state)
      <3>1. {"cancelled", "timed_out"} \subseteq RunStatus
        BY DEF RunStatus
      <3> QED
        BY <1>0, <1>1, <3>1, LocalsType, LocalsFields, IdleType
           DEF ClaimBatch, AdvanceRead, AdvanceNext, AdvanceList, AdvanceWrite, Sweep
    <2>3. worker' = worker \/ ~ Working(w)
      BY <1>1 DEF ClaimBatch, AdvanceRead, AdvanceNext, AdvanceList, AdvanceWrite, Sweep,
                  Takes, Working
    <2>4. Tickets' = Tickets
      BY <1>0, <2>2, <2>3, TicketsKept, TicketsSame
    <2> QED
      BY <2>1, <2>4 DEF Unseen, Phases
  <1>2. ASSUME NEW w \in Worker, ClaimStep(w) PROVE Fenced!Next \/ Unseen
    <2>1. PICK s \in Step :
            /\ Takes(w, RunStep(s))
            /\ \/ /\ Claimable(step[s])
                  /\ step' = [step EXCEPT ![s] = Claimed(step[s], w)]
                  /\ epoch' = [epoch EXCEPT ![s] = epoch[s] + 1]
                  /\ Becomes(w, Executes(s))
               \/ step' = step /\ epoch' = epoch /\ worker' = worker
      BY <1>2 DEF ClaimStep
    <2>2. CASE step' = step /\ epoch' = epoch /\ worker' = worker
      BY <2>2, TicketsSame DEF Unseen, Phases
    <2>3. CASE ~ (step' = step /\ epoch' = epoch /\ worker' = worker)
      <3>1. Begins(w, s)
        BY <2>1, <2>3 DEF Begins, Takes
      <3>2. Fenced!Grant(s)
        BY <1>0, <2>1, <2>3, <3>1, ClaimGrants
      <3> QED
        BY <3>2 DEF Fenced!Next
    <2> QED
      BY <2>2, <2>3
  <1>3. ASSUME NEW w \in Worker, Execute(w) PROVE Unseen
    <2>1. PICK result \in Results : Becomes(w, Records(w, result))
      BY <1>3 DEF Execute
    <2>2. \A v \in Worker : worker'[v] = IF v = w THEN Records(w, result) ELSE worker[v]
      BY <1>0, <2>1 DEF Becomes, TypeOK
    <2>3. \A v \in Worker : (Working(v)' <=> Working(v)) /\ Ticket(v)' = Ticket(v)
      BY <1>0, <1>3, <2>1, <2>2, LocalsFields DEF Execute, Working, Ticket
    <2>4. Tickets' = Tickets
      BY <2>3 DEF Tickets
    <2> QED
      BY <1>3, <2>4 DEF Execute, Unseen, Phases
  <1>4. ASSUME NEW w \in Worker, RecordStale(w) PROVE Fenced!Next
    <2>1. \E ticket \in Tickets : Fenced!Discard(ticket)
      BY <1>4, GoneDiscards DEF RecordStale, Working
    <2> QED
      BY <2>1 DEF Fenced!Next, Tickets, Ticket
  <1>5. ASSUME NEW w \in Worker,
               RecordSuccess(w) \/ RecordRetry(w) \/ RecordPause(w) \/ RecordFailed(w)
        PROVE  Fenced!Next
    <2>1. worker[w].target \in Step
      BY <1>5, HolderHasTicket DEF RecordSuccess, RecordRetry, RecordPause, RecordFailed
    <2>2. PICK s \in Step : s = worker[w].target
      BY <2>1
    <2>3. Fenced!Settle(s)
      BY <1>5, <2>2, RecordSettles
    <2> QED
      BY <2>3 DEF Fenced!Next
  <1>6. ASSUME NEW w \in Worker, Crash(w) PROVE Fenced!Next \/ Unseen
    <2>1. step' = step /\ epoch' = epoch /\ Becomes(w, Idle)
      BY <1>6 DEF Crash
    <2>2. CASE Working(w)
      <3>1. \E ticket \in Tickets : Fenced!Discard(ticket)
        BY <2>1, <2>2, GoneDiscards
      <3> QED
        BY <3>1 DEF Fenced!Next, Tickets, Ticket
    <2>3. CASE ~ Working(w)
      BY <1>0, <2>1, <2>3, TicketsKept, IdleType, LocalsFields DEF Unseen, Phases
    <2> QED
      BY <2>2, <2>3
  <1>7. ASSUME NEW s \in Step, LeaseLapses(s) \/ RetryComesDue(s) PROVE Unseen
    <2>1. worker' = worker /\ epoch' = epoch
      BY <1>7 DEF LeaseLapses, RetryComesDue
    <2>2. \A t \in Step : PhaseOf(step'[t]) = PhaseOf(step[t])
      <3> SUFFICES ASSUME NEW t \in Step PROVE PhaseOf(step'[t]) = PhaseOf(step[t])
        OBVIOUS
      <3>1. step[t] \in StepRow /\ step \in [Step -> StepRow]
        BY <1>0 DEF TypeOK
      <3>2. \/ step'[t] = step[t]
            \/ step'[t] = [step[t] EXCEPT !.lease = "lapsed"]
            \/ step[t].retry = "later" /\ step'[t] = [step[t] EXCEPT !.retry = "due"]
        BY <1>7, <3>1 DEF LeaseLapses, RetryComesDue
      <3>3. /\ step'[t].status = step[t].status
            /\ step'[t].retry = "none" <=> step[t].retry = "none"
        BY <3>1, <3>2 DEF StepRow
      <3> QED
        BY <3>3 DEF PhaseOf, Settled, Finished, FailedForGood, Paused
    <2> QED
      BY <2>1, <2>2, TicketsSame DEF Unseen, Phases
  <1>8. ASSUME Restart PROVE Fenced!Next
    BY <1>0, <1>8, ResumeReopens DEF Fenced!Next
  <1>9. ASSUME \/ \E p \in Person : ResumeRead(p) \/ ReplayRead(p)
               \/ \E clock \in {"db", "node"} : DeadlinePasses(clock)
               \/ RequestCancel \/ LoseQueue \/ UNCHANGED vars
        PROVE  Unseen
    <2>1. step' = step /\ epoch' = epoch /\ worker' = worker
      BY <1>9 DEF ResumeRead, ReplayRead, DeadlinePasses, RequestCancel, LoseQueue, vars
    <2> QED
      BY <2>1, TicketsSame DEF Unseen, Phases
  <1> QED
    BY <1>1, <1>2, <1>3, <1>4, <1>5, <1>6, <1>7, <1>8, <1>9 DEF Next, Process, Record, Restart

(* Every behaviour of the workers, the queue and the people is one of the  *)
(* abstract fence: a step changes only through the newest claim of it, or  *)
(* because the run is started again.                                       *)
THEOREM ImplementsFence ==
  ASSUME DistinctIds
  PROVE  Spec => ImplementsFencing
  <1>1. Init => FenceInv
    BY FenceInit
  <1>2. FenceInv /\ [Next]_vars => FenceInv'
    BY FenceNext
  <1>3. FenceInv /\ [Next]_vars => [Fenced!Next]_Fenced!vars
    BY FencedNext DEF Unseen, Fenced!vars, Phases, Tickets, Ticket
  <1> QED
    BY <1>1, <1>2, <1>3, FencedInit, PTL DEF Spec, ImplementsFencing, Fenced!Spec

================================================================================
