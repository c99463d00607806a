---------------------------- MODULE DurableRunSafety ----------------------------
(***************************************************************************)
(* More of the safety of DurableRun, for every flow and every set of       *)
(* workers: budgets, counters, verdicts, dead letters and the order in     *)
(* which steps begin.                                                      *)
(***************************************************************************)
EXTENDS DurableRunProofs, FiniteSetTheorems

--------------------------------------------------------------------------------
(* What one step of the system does to a step row that may still be tried  *)

(* A retry leaves both budgets unspent; the counter that the failure does  *)
(* not concern keeps its value (retry.ts:98-171).                          *)
LEMMA RetryWithinBudget ==
  ASSUME NEW state \in [consumed : Nat, deferrals : Nat], NEW c, NEW idempotent,
         NEW maxAttempts \in Nat, NEW maxDeferrals \in Nat,
         state.consumed < maxAttempts, state.deferrals < maxDeferrals,
         onAttemptFailed(state, c, idempotent, maxAttempts, maxDeferrals).kind = "retry"
  PROVE  LET outcome == onAttemptFailed(state, c, idempotent, maxAttempts, maxDeferrals) IN
         outcome.consumed < maxAttempts /\ outcome.deferrals < maxDeferrals
  BY DEF onAttemptFailed, decideRetry, ConsumedAfter, DeferralsAfter, Exhausted

(* Whoever may write a result computed it from the row as it still is.     *)
LEMMA HolderKnows ==
  ASSUME FenceInv, NEW w \in Worker, worker[w].pc = "record", Holds(w)
  PROVE  LET row == step[worker[w].target] IN
         /\ row.status = "running"
         /\ worker[w].consumed = row.consumed /\ worker[w].deferrals = row.deferrals
         /\ row.consumed \in Nat /\ row.deferrals \in Nat
  <1>1. worker[w].target \in Step /\ step \in [Step -> StepRow]
    BY DEF FenceInv, TypeInv, TypeOK, HasTarget, Working
  <1>2. step[worker[w].target] \in StepRow
    BY <1>1
  <1> QED
    BY <1>2 DEF FenceInv, Knows, Working, Holds, StepRow

(* The row after a resume.                                                 *)
LEMMA RestartedRow ==
  ASSUME TypeInv, Restart, NEW t \in Step
  PROVE  \/ step'[t].status = "skipped_resumed"
         \/ step'[t].status = "pending" /\ step'[t].consumed = 0 /\ step'[t].deferrals = 0
  <1>1. PICK p \in Person : ResumeWrite(p)
    BY DEF Restart
  <1>2. step'[t] = IF t < person[p].from THEN Kept(step[t]) ELSE resetStep(person[p].group)
    BY <1>1 DEF ResumeWrite
  <1>3. step[t] \in StepRow
    BY DEF TypeInv, TypeOK
  <1>4. /\ Kept(step[t]).status = "skipped_resumed"
        /\ resetStep(person[p].group).status = "pending"
        /\ resetStep(person[p].group).consumed = 0 /\ resetStep(person[p].group).deferrals = 0
    BY <1>3 DEF Kept, resetStep, StepRow
  <1> QED
    BY <1>2, <1>4

(* Only a resume touches the status of a row that has ended, or owes it a  *)
(* retry again.                                                            *)
LEMMA SettledRow ==
  ASSUME TypeInv, [Next]_vars, ~ Restart, NEW t \in Step, Settled(step[t])
  PROVE  /\ step'[t].status = step[t].status
         /\ step[t].retry = "none" => step'[t].retry = "none"
  <1>1. step[t] \in StepRow
    BY DEF TypeInv, TypeOK
  <1>2. ~ Claimable(step[t]) /\ step[t].status # "running" /\ step[t].status # "pending"
    BY DEF Settled, Finished, FailedForGood, Paused, Claimable
  <1>3. ~ IsClaimed(t) /\ ~ IsSucceeded(t) /\ ~ IsSkipped(t)
    BY <1>2 DEF IsClaimed, IsSucceeded, IsSkipped
  <1>4. ~ IsRetried(t) /\ ~ IsPaused(t) /\ ~ IsFailed(t)
    BY <1>2 DEF IsRetried, IsPaused, IsFailed, RecordRetry, RecordPause, RecordFailed, Holds
  <1> QED
    BY <1>1, <1>3, <1>4, RowsMove DEF RowMove, IsLapsed, IsDue, StepRow

(* A step that has ended keeps its status, whatever duplicates, late       *)
(* results, lapsed leases and branch decisions arrive, until a resume.     *)
THEOREM EndedStepsStay == Spec => EndedStaysEnded
  <1>1. TypeInv /\ [Next]_vars =>
          [\A s \in Step : Settled(step[s]) => Restart \/ step'[s].status = step[s].status]_vars
    BY SettledRow
  <1> QED
    BY <1>1, TypeInvAlways, PTL DEF Spec, EndedStaysEnded

--------------------------------------------------------------------------------
(* Budgets                                                                 *)

LimitsPositive == MaxAttempts > 0 /\ MaxDeferrals > 0

RowHasBudget(row) ==
  ~ Settled(row) => row.consumed < MaxAttempts /\ row.deferrals < MaxDeferrals

BudgetInv == FenceInv /\ BudgetLeft

(* Every step leaves a row its budget, or ends it.                         *)
LEMMA BudgetNext ==
  ASSUME LimitsPositive, BudgetInv, [Next]_vars
  PROVE  BudgetLeft'
  <1> SUFFICES ASSUME NEW t \in Step PROVE RowHasBudget(step'[t])
    BY DEF BudgetLeft, RowHasBudget
  <1>0. TypeInv /\ step[t] \in StepRow /\ RowHasBudget(step[t]) /\ FenceInv
    BY DEF BudgetInv, FenceInv, TypeInv, TypeOK, BudgetLeft, RowHasBudget
  <1>1. CASE Restart
    BY <1>0, <1>1, RestartedRow, CountsAssumption DEF RowHasBudget, Settled, Finished, LimitsPositive
  <1>2. CASE IsClaimed(t)
    <2>1. PICK w \in Worker : Claimable(step[t]) /\ step'[t] = Claimed(step[t], w)
      BY <1>2 DEF IsClaimed
    <2>2. ~ Settled(step[t])
      BY <2>1 DEF Settled, Finished, FailedForGood, Paused, Claimable
    <2>3. step'[t].consumed = step[t].consumed /\ step'[t].deferrals = step[t].deferrals
      BY <1>0, <2>1 DEF Claimed, StepRow
    <2> QED
      BY <1>0, <2>2, <2>3 DEF RowHasBudget
  <1>3. CASE IsSucceeded(t) \/ IsSkipped(t)
    <2>1. step'[t].status \in {"succeeded", "skipped"}
      BY <1>0, <1>3 DEF IsSucceeded, IsSkipped, recordSuccess, markSkipped, StepRow
    <2> QED
      BY <2>1 DEF RowHasBudget, Settled, Finished
  <1>4. CASE IsRetried(t)
    <2>1. PICK w \in Worker : /\ RecordRetry(w) /\ worker[w].target = t
                              /\ step'[t] = FailedRow(step[t], "failed", "later", Outcome(w))
      BY <1>4 DEF IsRetried
    <2>2. /\ step[t].status = "running"
          /\ worker[w].consumed = step[t].consumed /\ worker[w].deferrals = step[t].deferrals
          /\ step[t].consumed \in Nat /\ step[t].deferrals \in Nat
      BY <1>0, <2>1, HolderKnows DEF RecordRetry
    <2>3. step[t].consumed < MaxAttempts /\ step[t].deferrals < MaxDeferrals
      BY <1>0, <2>2 DEF RowHasBudget, Settled, Finished, FailedForGood, Paused
    <2>4. Outcome(w).kind = "retry"
      BY <2>1 DEF RecordRetry
    <2>5. Outcome(w).consumed < MaxAttempts /\ Outcome(w).deferrals < MaxDeferrals
      <3>1. [consumed |-> worker[w].consumed, deferrals |-> worker[w].deferrals]
              \in [consumed : Nat, deferrals : Nat]
        BY <2>2
      <3> QED
        BY <2>2, <2>3, <2>4, <3>1, RetryWithinBudget, CountsAssumption DEF Outcome
    <2>6. /\ step'[t].consumed = Outcome(w).consumed
          /\ step'[t].deferrals = Outcome(w).deferrals
      BY <1>0, <2>1 DEF FailedRow, StepRow
    <2> QED
      BY <2>5, <2>6 DEF RowHasBudget
  <1>5. CASE IsPaused(t) \/ IsFailed(t)
    <2>1. \/ step'[t].status = "waiting_confirmation"
          \/ step'[t].status = "failed" /\ step'[t].retry = "none"
      BY <1>0, <1>5 DEF IsPaused, IsFailed, FailedRow, StepRow
    <2> QED
      BY <2>1 DEF RowHasBudget, Settled, Paused, FailedForGood
  <1>6. CASE IsLapsed(t)
    <2>1. /\ step'[t].status = step[t].status /\ step'[t].retry = step[t].retry
          /\ step'[t].consumed = step[t].consumed /\ step'[t].deferrals = step[t].deferrals
      BY <1>0, <1>6 DEF IsLapsed, StepRow
    <2> QED
      BY <1>0, <2>1 DEF RowHasBudget, Settled, Finished, FailedForGood, Paused
  <1>7. CASE IsDue(t)
    <2>1. /\ step'[t].status = step[t].status /\ step[t].retry = "later"
          /\ step'[t].consumed = step[t].consumed /\ step'[t].deferrals = step[t].deferrals
      BY <1>0, <1>7 DEF IsDue, StepRow
    <2> QED
      BY <1>0, <2>1 DEF RowHasBudget, Settled, Finished, FailedForGood, Paused
  <1> QED
    BY <1>0, <1>1, <1>2, <1>3, <1>4, <1>5, <1>6, <1>7, RowsMove DEF RowMove

(* No path of claims, lapsed leases, crashes and failures buys a step one  *)
(* attempt, or one deferral, more than its limits.                         *)
THEOREM BudgetHolds ==
  ASSUME DistinctIds, LimitsPositive
  PROVE  Spec => []BudgetLeft
  <1>1. Init => BudgetInv
    <2>1. Init => BudgetLeft
      BY CountsAssumption DEF Init, BudgetLeft, LimitsPositive
    <2> QED
      BY <2>1, FenceInit DEF BudgetInv
  <1>2. BudgetInv /\ [Next]_vars => BudgetInv'
    BY FenceNext, BudgetNext DEF BudgetInv
  <1>3. BudgetInv => BudgetLeft
    BY DEF BudgetInv
  <1> QED
    BY <1>1, <1>2, <1>3, PTL DEF Spec

(* Only starting the run again takes failures back.                        *)
LEMMA CountersGrow ==
  ASSUME FenceInv, [Next]_vars, NEW t \in Step, ~ Restart
  PROVE  step'[t].consumed >= step[t].consumed /\ step'[t].deferrals >= step[t].deferrals
  <1>0. TypeInv /\ step[t] \in StepRow /\ step[t].consumed \in Nat /\ step[t].deferrals \in Nat
    BY DEF FenceInv, TypeInv, TypeOK, StepRow
  <1>1. CASE IsRetried(t) \/ IsPaused(t) \/ IsFailed(t)
    <2>1. PICK w \in Worker :
            /\ RecordRetry(w) \/ RecordPause(w) \/ RecordFailed(w)
            /\ worker[w].target = t
            /\ \E status, retry : step'[t] = FailedRow(step[t], status, retry, Outcome(w))
      BY <1>1 DEF IsRetried, IsPaused, IsFailed
    <2>2. worker[w].pc = "record" /\ Holds(w)
      BY <2>1 DEF RecordRetry, RecordPause, RecordFailed
    <2>3. worker[w].consumed = step[t].consumed /\ worker[w].deferrals = step[t].deferrals
      BY <2>1, <2>2, HolderKnows
    <2>4. Outcome(w).consumed >= step[t].consumed /\ Outcome(w).deferrals >= step[t].deferrals
      BY <1>0, <2>3, WorkerOutcome DEF TypeInv
    <2>5. /\ step'[t].consumed = Outcome(w).consumed
          /\ step'[t].deferrals = Outcome(w).deferrals
      BY <1>0, <2>1 DEF FailedRow, StepRow
    <2> QED
      BY <2>4, <2>5
  <1>2. CASE ~ (IsRetried(t) \/ IsPaused(t) \/ IsFailed(t))
    <2>1. step'[t].consumed = step[t].consumed /\ step'[t].deferrals = step[t].deferrals
      <3>1. step'[t] = step[t] \/ IsClaimed(t) \/ IsSucceeded(t) \/ IsSkipped(t)
            \/ IsLapsed(t) \/ IsDue(t)
        BY <1>0, <1>2, RowsMove DEF RowMove
      <3> QED
        BY <1>0, <3>1 DEF IsClaimed, IsSucceeded, IsSkipped, IsLapsed, IsDue, Claimed,
                          recordSuccess, markSkipped, StepRow
    <2> QED
      BY <1>0, <2>1
  <1> QED
    BY <1>1, <1>2

(* Until the run is started again, no late writer takes back an attempt or *)
(* a deferral that another one has recorded.                               *)
THEOREM NothingIsUnspent ==
  ASSUME DistinctIds
  PROVE  Spec => NothingUnspent
  <1>1. Init => FenceInv
    BY FenceInit
  <1>2. FenceInv /\ [Next]_vars => FenceInv'
    BY FenceNext
  <1>3. FenceInv /\ [Next]_vars =>
          [Restart \/ \A s \in Step : /\ step'[s].consumed >= step[s].consumed
                                      /\ step'[s].deferrals >= step[s].deferrals]_vars
    BY CountersGrow
  <1> QED
    BY <1>1, <1>2, <1>3, PTL DEF Spec, NothingUnspent

--------------------------------------------------------------------------------
(* The counters of the runs row                                            *)

Succeeded == {s \in Step : step[s].status = "succeeded"}
Lost      == {s \in Step : FailedForGood(step[s])}

(* Sets of steps can be counted.                                           *)
LEMMA StepsFinite ==
  /\ \A S \in SUBSET Step : IsFiniteSet(S) /\ Cardinality(S) \in Nat
  /\ Cardinality({}) = 0
  /\ \A S \in SUBSET Step, s \in Step : s \notin S => Cardinality(S \cup {s}) = Cardinality(S) + 1
  <1>1. IsFiniteSet(Step)
    BY CountsAssumption, FS_Interval DEF Step
  <1>2. \A S \in SUBSET Step : IsFiniteSet(S)
    BY <1>1, FS_Subset
  <1> QED
    BY <1>2, FS_CardinalityType, FS_EmptySet, FS_AddElement

(* Outside the two actions that increment a counter, and a resume, no row  *)
(* enters or leaves the sets that the counters count.                      *)
LEMMA SameSets ==
  ASSUME TypeInv, [Next]_vars, ~ Restart,
         \A w \in Worker : ~ RecordSuccess(w) /\ ~ RecordFailed(w)
  PROVE  Succeeded' = Succeeded /\ Lost' = Lost
  <1> SUFFICES ASSUME NEW t \in Step
               PROVE  /\ step'[t].status = "succeeded" <=> step[t].status = "succeeded"
                      /\ FailedForGood(step'[t]) <=> FailedForGood(step[t])
    BY DEF Succeeded, Lost
  <1>0. step[t] \in StepRow
    BY DEF TypeInv, TypeOK
  <1>1. \/ step'[t] = step[t] \/ IsClaimed(t) \/ IsSkipped(t)
        \/ IsRetried(t) \/ IsPaused(t) \/ IsLapsed(t) \/ IsDue(t)
    BY RowsMove DEF RowMove, IsSucceeded, IsFailed
  <1>2. CASE IsClaimed(t)
    <2>1. Claimable(step[t]) /\ step'[t].status = "running"
      BY <1>0, <1>2 DEF IsClaimed, Claimed, StepRow
    <2> QED
      BY <2>1 DEF Claimable, FailedForGood
  <1>3. CASE IsSkipped(t)
    <2>1. step[t].status = "pending" /\ step'[t].status = "skipped"
      BY <1>0, <1>3 DEF IsSkipped, markSkipped, StepRow
    <2> QED
      BY <2>1 DEF FailedForGood
  <1>4. CASE IsRetried(t) \/ IsPaused(t)
    <2>1. step[t].status = "running"
      BY <1>4 DEF IsRetried, IsPaused, RecordRetry, RecordPause, Holds
    <2>2. \/ step'[t].status = "failed" /\ step'[t].retry = "later"
          \/ step'[t].status = "waiting_confirmation"
      BY <1>0, <1>4 DEF IsRetried, IsPaused, FailedRow, StepRow
    <2> QED
      BY <2>1, <2>2 DEF FailedForGood
  <1>5. CASE IsLapsed(t)
    <2>1. step'[t].status = step[t].status /\ step'[t].retry = step[t].retry
      BY <1>0, <1>5 DEF IsLapsed, StepRow
    <2> QED
      BY <2>1 DEF FailedForGood
  <1>6. CASE IsDue(t)
    <2>1. step'[t].status = step[t].status /\ step[t].retry = "later" /\ step'[t].retry = "due"
      BY <1>0, <1>6 DEF IsDue, StepRow
    <2> QED
      BY <2>1 DEF FailedForGood
  <1> QED
    BY <1>1, <1>2, <1>3, <1>4, <1>5, <1>6

(* Only a success and a failure that are recorded change a counter.        *)
LEMMA SameCounters ==
  ASSUME TypeInv, [Next]_vars, ~ Restart,
         \A w \in Worker : ~ RecordSuccess(w) /\ ~ RecordFailed(w)
  PROVE  run'.stepsSucceeded = run.stepsSucceeded /\ run'.stepsFailed = run.stepsFailed
  <1>0. run \in RunRow
    BY DEF TypeInv, TypeOK
  <1>1. ASSUME run' = run \/ (\E status : run' = setRunStatus(status))
               \/ run' = [run EXCEPT !.cancelRequested = TRUE]
        PROVE  run'.stepsSucceeded = run.stepsSucceeded /\ run'.stepsFailed = run.stepsFailed
    BY <1>0, <1>1 DEF setRunStatus, RunRow
  <1>2. ASSUME NEW w \in Worker, AdvanceWrite(w)
        PROVE  run' = run \/ \E status : run' = setRunStatus(status)
    BY <1>2 DEF AdvanceWrite
  <1>3. ASSUME NEW w \in Worker,
               \/ ClaimBatch(w) \/ AdvanceRead(w) \/ AdvanceNext(w) \/ AdvanceList(w)
               \/ ClaimStep(w) \/ Execute(w) \/ RecordStale(w) \/ RecordRetry(w) \/ RecordPause(w)
               \/ Sweep(w) \/ Crash(w)
        PROVE  run' = run
    BY <1>3 DEF ClaimBatch, AdvanceRead, AdvanceNext, AdvanceList, ClaimStep, Execute,
                RecordStale, RecordRetry, RecordPause, Sweep, Crash
  <1>4. ASSUME \/ \E s \in Step : LeaseLapses(s) \/ RetryComesDue(s)
               \/ \E clock \in {"db", "node"} : DeadlinePasses(clock)
               \/ \E p \in Person : ResumeRead(p) \/ ReplayRead(p)
               \/ LoseQueue \/ UNCHANGED vars
        PROVE  run' = run
    BY <1>4 DEF LeaseLapses, RetryComesDue, DeadlinePasses, ResumeRead, ReplayRead, LoseQueue, vars
  <1>5. ASSUME RequestCancel PROVE run' = [run EXCEPT !.cancelRequested = TRUE]
    BY <1>5 DEF RequestCancel
  <1> QED
    BY <1>1, <1>2, <1>3, <1>4, <1>5 DEF Next, Process, Record, Restart

(* Every step keeps the counters with the rows.                            *)
LEMMA CountersNext ==
  ASSUME TypeInv, CountersAgree, [Next]_vars
  PROVE  CountersAgree'
  <1>0. run \in RunRow /\ step \in [Step -> StepRow] /\ \A t \in Step : step[t] \in StepRow
    BY DEF TypeInv, TypeOK
  <1>1. run.stepsSucceeded = Cardinality(Succeeded) /\ run.stepsFailed = Cardinality(Lost)
    BY DEF CountersAgree, Succeeded, Lost
  <1> SUFFICES /\ run'.stepsSucceeded = Cardinality(Succeeded')
               /\ run'.stepsFailed = Cardinality(Lost')
    BY DEF CountersAgree, Succeeded, Lost
  <1>2. CASE Restart
    <2>1. Succeeded' = {} /\ Lost' = {}
      BY <1>2, RestartedRow DEF Succeeded, Lost, FailedForGood
    <2>2. run'.stepsSucceeded = 0 /\ run'.stepsFailed = 0
      BY <1>2 DEF Restart, ResumeWrite, ResumedRun
    <2> QED
      BY <2>1, <2>2, StepsFinite
  <1>3. ASSUME NEW w \in Worker, RecordSuccess(w)
        PROVE  /\ run'.stepsSucceeded = Cardinality(Succeeded')
               /\ run'.stepsFailed = Cardinality(Lost')
    <2> DEFINE s == worker[w].target
    <2>1. s \in Step /\ step[s].status = "running"
      BY <1>3 DEF RecordSuccess, Holds, TypeInv, HasTarget, Working
    <2>2. PICK arm \in Abandons[s] :
            step' = [t \in Step |-> IF t = s THEN recordSuccess(step[t])
                                    ELSE IF t \in arm THEN markSkipped(step[t]) ELSE step[t]]
      BY <1>3 DEF RecordSuccess
    <2>3. step'[s].status = "succeeded"
      <3>1. step'[s] = recordSuccess(step[s])
        BY <2>1, <2>2
      <3>2. recordSuccess(step[s]).status = "succeeded"
        BY <1>0, <2>1 DEF recordSuccess, StepRow
      <3> QED
        BY <3>1, <3>2
    <2>4. ASSUME NEW t \in Step, t # s
          PROVE  /\ step'[t].status = "succeeded" <=> step[t].status = "succeeded"
                 /\ FailedForGood(step'[t]) <=> FailedForGood(step[t])
      <3>1. step'[t] = step[t] \/ (step[t].status = "pending" /\ step'[t].status = "skipped")
        BY <1>0, <2>2, <2>4 DEF markSkipped, StepRow
      <3> QED
        BY <3>1 DEF FailedForGood
    <2>5. Succeeded' = Succeeded \cup {s} /\ s \notin Succeeded /\ Lost' = Lost
      BY <2>1, <2>3, <2>4 DEF Succeeded, Lost, FailedForGood
    <2>6. run'.stepsSucceeded = run.stepsSucceeded + 1 /\ run'.stepsFailed = run.stepsFailed
      BY <1>0, <1>3 DEF RecordSuccess, RunRow
    <2>7. Cardinality(Succeeded \cup {s}) = Cardinality(Succeeded) + 1
      <3>1. Succeeded \in SUBSET Step
        BY DEF Succeeded
      <3> QED
        BY <2>1, <2>5, <3>1, StepsFinite
    <2> QED
      BY <1>1, <2>5, <2>6, <2>7
  <1>4. ASSUME NEW w \in Worker, RecordFailed(w)
        PROVE  /\ run'.stepsSucceeded = Cardinality(Succeeded')
               /\ run'.stepsFailed = Cardinality(Lost')
    <2> DEFINE s == worker[w].target
    <2>1. s \in Step /\ step[s].status = "running"
      BY <1>4 DEF RecordFailed, Holds, TypeInv, HasTarget, Working
    <2>2. step' = [step EXCEPT ![s] = FailedRow(step[s], "failed", "none", Outcome(w))]
      BY <1>4 DEF RecordFailed
    <2>3. step'[s].status = "failed" /\ step'[s].retry = "none"
      BY <1>0, <2>1, <2>2 DEF FailedRow, StepRow
    <2>4. \A t \in Step : t # s => step'[t] = step[t]
      BY <1>0, <2>1, <2>2
    <2>5. Succeeded' = Succeeded /\ s \notin Lost /\ Lost' = Lost \cup {s}
      BY <2>1, <2>3, <2>4 DEF Succeeded, Lost, FailedForGood
    <2>6. run'.stepsSucceeded = run.stepsSucceeded /\ run'.stepsFailed = run.stepsFailed + 1
      BY <1>0, <1>4 DEF RecordFailed, RunRow
    <2>7. Cardinality(Lost \cup {s}) = Cardinality(Lost) + 1
      <3>1. Lost \in SUBSET Step
        BY DEF Lost
      <3> QED
        BY <2>1, <2>5, <3>1, StepsFinite
    <2> QED
      BY <1>1, <2>5, <2>6, <2>7
  <1>5. CASE ~ Restart /\ \A w \in Worker : ~ RecordSuccess(w) /\ ~ RecordFailed(w)
    BY <1>1, <1>5, SameSets, SameCounters
  <1> QED
    BY <1>2, <1>3, <1>4, <1>5

(* The counters of the runs row are the numbers of succeeded and of failed *)
(* steps, although nothing ever recomputes them. No assumption about the   *)
(* workers' names is needed: a wrong name would still write row and        *)
(* counter in one transaction.                                             *)
THEOREM CountersHold == Spec => []CountersAgree
  <1>1. Init => TypeInv /\ CountersAgree
    <2>1. ASSUME Init PROVE Succeeded = {} /\ Lost = {}
      BY <2>1 DEF Init, Succeeded, Lost, FailedForGood
    <2>2. ASSUME Init PROVE CountersAgree
      BY <2>1, <2>2, StepsFinite DEF Init, CountersAgree, Succeeded, Lost
    <2> QED
      BY <2>2, TypeInvInit
  <1>2. TypeInv /\ CountersAgree /\ [Next]_vars => TypeInv' /\ CountersAgree'
    BY TypeNext, HasTargetNext, CountersNext DEF TypeInv
  <1> QED
    BY <1>1, <1>2, PTL DEF Spec

--------------------------------------------------------------------------------
(* The end of a run                                                        *)

(* No other message is a run_step.                                         *)
LEMMA MessagesDiffer ==
  ASSUME NEW s \in Step
  PROVE  /\ RunStep(s) # Advance /\ RunStep(s) \in Message /\ RunStep(s) \in Ready
         /\ \A t \in Step : RunStep(s) # AdvanceLater(t)
  BY DEF RunStep, Advance, AdvanceLater, Message, Ready

(* The queue and the batches hold no run_step, and nobody is about to      *)
(* write one.                                                              *)
NoneQueued  == \A s \in Step : outbox[RunStep(s)] = 0
NoneClaimed == \A w \in Worker, s \in Step : batch[w][RunStep(s)] = 0
NoneAdvances == \A w \in Worker : worker[w].pc \notin {"next", "list", "write"}

(* To be quiet is three things: no message, no claimed one, nobody         *)
(* advancing.                                                              *)
LEMMA QuietParts == Quiet <=> NoneQueued /\ NoneClaimed /\ NoneAdvances
  BY DEF Quiet, NoneQueued, NoneClaimed, NoneAdvances

(* Any other message may join the queue.                                   *)
LEMMA QueueStaysQuiet ==
  ASSUME TypeInv, NoneQueued,
         \/ outbox' = outbox \/ outbox' = NoMessages \/ Enqueue(Advance)
         \/ \E t \in Step : Enqueue(AdvanceLater(t))
  PROVE  NoneQueued'
  <1>1. outbox \in [Message -> Nat]
    BY DEF TypeInv, TypeOK
  <1> SUFFICES ASSUME NEW s \in Step PROVE outbox'[RunStep(s)] = 0
    BY DEF NoneQueued
  <1>2. outbox[RunStep(s)] = 0
    BY DEF NoneQueued
  <1> QED
    BY <1>1, <1>2, MessagesDiffer DEF Enqueue, NoMessages

(* Workers that do not advance the run leave it quiet.                     *)
LEMMA WorkersStayQuiet ==
  ASSUME TypeInv, NoneAdvances,
         \/ worker' = worker
         \/ \E w \in Worker, state \in WorkerState :
              state.pc \in {"idle", "exec", "record"} /\ Becomes(w, state)
  PROVE  NoneAdvances'
  <1>1. worker \in [Worker -> WorkerState]
    BY DEF TypeInv, TypeOK
  <1> SUFFICES ASSUME NEW v \in Worker PROVE worker'[v].pc \notin {"next", "list", "write"}
    BY DEF NoneAdvances
  <1> QED
    BY <1>1 DEF NoneAdvances, Becomes

(* Whatever is done to an ended run while nothing is under way, but for a  *)
(* resume, leaves it ended and nothing under way.                          *)
LEMMA QuietStep ==
  ASSUME TypeInv, [Next]_vars, ~ Restart, run.status \in TerminalRunStatus, Quiet
  PROVE  run'.status \in TerminalRunStatus /\ Quiet'
  <1> DEFINE Goal == run'.status \in TerminalRunStatus /\ Quiet'
  <1>0. /\ run \in RunRow /\ outbox \in [Message -> Nat] /\ TypeOK
        /\ batch \in [Worker -> [Message -> Nat]] /\ worker \in [Worker -> WorkerState]
        /\ NoneQueued /\ NoneClaimed /\ NoneAdvances
    BY QuietParts DEF TypeInv, TypeOK
  <1>q. Quiet' <=> NoneQueued' /\ NoneClaimed' /\ NoneAdvances'
    BY DEF Quiet, NoneQueued, NoneClaimed, NoneAdvances
  <1>1. ASSUME NEW w \in Worker, ClaimBatch(w) PROVE Goal
    <2>1. PICK b \in Batches :
            /\ \A m \in Ready : b[m] <= outbox[m]
            /\ outbox' = [m \in Message |-> IF m \in Ready THEN outbox[m] - b[m] ELSE outbox[m]]
            /\ batch' = [batch EXCEPT ![w] = [m \in Message |-> IF m \in Ready THEN b[m] ELSE 0]]
      BY <1>1 DEF ClaimBatch
    <2>2. \A s \in Step : b[RunStep(s)] = 0
      <3> SUFFICES ASSUME NEW s \in Step PROVE b[RunStep(s)] = 0
        OBVIOUS
      <3>1. b[RunStep(s)] \in Nat
        BY MessagesDiffer, CountsAssumption DEF Batches
      <3>2. b[RunStep(s)] <= 0
        BY <1>0, <2>1, MessagesDiffer DEF NoneQueued
      <3> QED
        BY <3>1, <3>2
    <2>3. NoneQueued'
      BY <1>0, <2>1, <2>2, MessagesDiffer DEF NoneQueued
    <2>4. NoneClaimed'
      BY <1>0, <2>1, <2>2, MessagesDiffer DEF NoneClaimed
    <2>5. NoneAdvances' /\ run' = run
      BY <1>0, <1>1, WorkersStayQuiet DEF ClaimBatch
    <2> QED
      BY <1>q, <2>3, <2>4, <2>5
  <1>2. ASSUME NEW w \in Worker, AdvanceRead(w) PROVE Goal
    <2>1. worker' = worker /\ run' = run /\ outbox' = outbox
      BY <1>2 DEF AdvanceRead, isTerminal
    <2>2. NoneClaimed'
      BY <1>0, <1>2, MessagesDiffer DEF AdvanceRead, Takes, NoneClaimed
    <2> QED
      BY <1>q, <1>0, <2>1, <2>2, QueueStaysQuiet, WorkersStayQuiet
  <1>3. ASSUME NEW w \in Worker, AdvanceNext(w) \/ AdvanceList(w) \/ AdvanceWrite(w) PROVE FALSE
    BY <1>0, <1>3 DEF AdvanceNext, AdvanceList, AdvanceWrite, NoneAdvances
  <1>4. ASSUME NEW w \in Worker, ClaimStep(w) PROVE FALSE
    BY <1>0, <1>4 DEF ClaimStep, Takes, NoneClaimed
  <1>5. ASSUME NEW w \in Worker, Execute(w) PROVE Goal
    <2>1. PICK result \in Results : Becomes(w, Records(w, result))
      BY <1>5 DEF Execute
    <2>2. Records(w, result) \in WorkerState /\ Records(w, result).pc = "record"
      BY <1>0, LocalsType, LocalsFields
    <2>3. NoneAdvances'
      BY <1>0, <2>1, <2>2, WorkersStayQuiet
    <2> QED
      BY <1>q, <1>0, <1>5, <2>3 DEF Execute, NoneQueued, NoneClaimed
  <1>6. ASSUME NEW w \in Worker, Record(w) PROVE Goal
    <2>1. run'.status = run.status
      BY <1>0, <1>6 DEF Record, RecordStale, RecordSuccess, RecordRetry, RecordPause, RecordFailed,
                        RunRow
    <2>2. Becomes(w, Idle) /\ batch' = batch
      BY <1>6 DEF Record, RecordStale, RecordSuccess, RecordRetry, RecordPause, RecordFailed
    <2>3. worker[w].pc = "record"
      BY <1>6 DEF Record, RecordStale, RecordSuccess, RecordRetry, RecordPause, RecordFailed
    <2>4. worker[w].target \in Step
      BY <2>3 DEF TypeInv, HasTarget, Working
    <2>5. outbox' = outbox \/ Enqueue(Advance) \/ Enqueue(AdvanceLater(worker[w].target))
      BY <1>6 DEF Record, RecordStale, RecordSuccess, RecordRetry, RecordPause, RecordFailed
    <2>6. NoneQueued'
      BY <1>0, <2>4, <2>5, QueueStaysQuiet
    <2>7. NoneAdvances'
      BY <1>0, <2>2, IdleType, LocalsFields, WorkersStayQuiet
    <2> QED
      BY <1>q, <1>0, <2>1, <2>2, <2>6, <2>7 DEF NoneClaimed
  <1>7. ASSUME NEW w \in Worker, Sweep(w) PROVE Goal
    <2>1. NoneQueued'
      BY <1>0, <1>7, QueueStaysQuiet DEF Sweep
    <2> QED
      BY <1>q, <1>0, <1>7, <2>1 DEF Sweep, NoneClaimed, NoneAdvances
  <1>8. ASSUME NEW w \in Worker, Crash(w) PROVE Goal
    <2>1. NoneAdvances'
      BY <1>0, <1>8, IdleType, LocalsFields, WorkersStayQuiet DEF Crash
    <2>2. NoneClaimed'
      BY <1>0, <1>8, MessagesDiffer DEF Crash, NoMessages, NoneClaimed
    <2> QED
      BY <1>q, <1>0, <1>8, <2>1, <2>2 DEF Crash, NoneQueued
  <1>9. ASSUME NEW s \in Step, RetryComesDue(s) PROVE Goal
    <2>1. NoneQueued'
      <3>1. \/ outbox' = outbox
            \/ outbox' = [m \in Message |-> CASE m = AdvanceLater(s) -> outbox[m] - 1
                                              [] m = Advance         -> outbox[m] + 1
                                              [] OTHER               -> outbox[m]]
        BY <1>9 DEF RetryComesDue
      <3>2. \A t \in Step : outbox'[RunStep(t)] = outbox[RunStep(t)]
        BY <3>1, MessagesDiffer
      <3> QED
        BY <1>0, <3>2 DEF NoneQueued
    <2> QED
      BY <1>q, <1>0, <1>9, <2>1 DEF RetryComesDue, NoneClaimed, NoneAdvances
  <1>10. ASSUME \/ \E s \in Step : LeaseLapses(s)
                \/ \E clock \in {"db", "node"} : DeadlinePasses(clock)
                \/ \E p \in Person : ResumeRead(p) \/ ReplayRead(p)
                \/ UNCHANGED vars
         PROVE  Goal
    <2>1. run' = run /\ outbox' = outbox /\ batch' = batch /\ worker' = worker
      BY <1>10 DEF LeaseLapses, DeadlinePasses, ResumeRead, ReplayRead, vars
    <2> QED
      BY <1>q, <1>0, <2>1 DEF NoneQueued, NoneClaimed, NoneAdvances
  <1>11. ASSUME RequestCancel PROVE FALSE
    BY <1>11 DEF RequestCancel, isTerminal
  <1>12. ASSUME LoseQueue PROVE Goal
    BY <1>q, <1>0, <1>12, QueueStaysQuiet DEF LoseQueue, NoneClaimed, NoneAdvances
  <1> QED
    BY <1>1, <1>2, <1>3, <1>4, <1>5, <1>6, <1>7, <1>8, <1>9, <1>10, <1>11, <1>12
       DEF Next, Process, Restart

(* Once a run has ended and no message or worker could still start a step  *)
(* of it, duplicates, retries that come due, lapsed leases, crashes and    *)
(* sweeps never start it moving again: only a resume does.                 *)
THEOREM EndStaysQuiet == Spec => EndIsQuiet
  <1>1. TypeInv /\ [Next]_vars =>
          [run.status \in TerminalRunStatus /\ Quiet =>
             Restart \/ (run'.status \in TerminalRunStatus /\ Quiet')]_vars
    BY QuietStep
  <1> QED
    BY <1>1, TypeInvAlways, PTL DEF Spec, EndIsQuiet

--------------------------------------------------------------------------------
(* Verdicts                                                                *)

(* What makes it right to say of the run that its status is this one.      *)
Justified(status) ==
  /\ status = "succeeded" => \A s \in Step : Finished(step[s])
  /\ status = "failed" => \E s \in Step : FailedForGood(step[s])
  /\ status = "waiting_confirmation" => \E s \in Step : Paused(step[s])

(* A verdict is still right when a worker that reached it from an earlier  *)
(* snapshot comes to write it.                                             *)
VerdictInv ==
  /\ TypeInv
  /\ VerdictJustified
  /\ \A w \in Worker : worker[w].pc = "write" => Justified(worker[w].plan)

(* Every justification outlives every step but a resume.                   *)
LEMMA JustifiedStays ==
  ASSUME TypeInv, [Next]_vars, ~ Restart, NEW status, Justified(status)
  PROVE  Justified(status)'
  <1>1. ASSUME NEW t \in Step
        PROVE  /\ Finished(step[t]) => Finished(step'[t])
               /\ FailedForGood(step[t]) => FailedForGood(step'[t])
               /\ Paused(step[t]) => Paused(step'[t])
    BY SettledRow DEF Settled, Finished, FailedForGood, Paused
  <1> QED
    BY <1>1 DEF Justified

(* Who is about to write was about to write before, or has just decided    *)
(* to dispatch, to cancel, to time out, or on a verdict.                   *)
LEMMA PlanMoves ==
  ASSUME TypeInv, [Next]_vars, NEW v \in Worker, worker'[v].pc = "write"
  PROVE  \/ worker'[v] = worker[v]
         \/ worker'[v].plan \in {"dispatch", "cancelled", "timed_out"}
         \/ Verdict(worker'[v].plan)
  <1> DEFINE Goal == \/ worker'[v] = worker[v]
                     \/ worker'[v].plan \in {"dispatch", "cancelled", "timed_out"}
                     \/ Verdict(worker'[v].plan)
  <1>0. TypeOK /\ worker \in [Worker -> WorkerState]
    BY DEF TypeInv, TypeOK
  <1>1. ASSUME NEW w \in Worker, NEW state, Becomes(w, state)
        PROVE  worker'[v] = worker[v] \/ worker'[v] = state
    BY <1>0, <1>1 DEF Becomes
  <1>2. \A w \in Worker : \A plan, s : Plans(w, plan, s).plan = plan
    BY <1>0 DEF Plans, WorkerState
  <1>3. ASSUME NEW w \in Worker, AdvanceRead(w) \/ AdvanceNext(w) \/ AdvanceList(w) PROVE Goal
    <2>1. \A u \in Worker : Seeks(u).pc # "write" /\ Lists(u).pc # "write"
      BY <1>0, LocalsFields
    <2>2. Idle.pc # "write"
      BY <1>0, LocalsFields
    <2> QED
      BY <1>1, <1>2, <1>3, <2>1, <2>2 DEF AdvanceRead, AdvanceNext, AdvanceList
  <1>4. ASSUME NEW w \in Worker, AdvanceWrite(w) \/ Record(w) \/ Crash(w) PROVE Goal
    <2>1. Becomes(w, Idle)
      BY <1>4 DEF AdvanceWrite, Record, RecordStale, RecordSuccess, RecordRetry, RecordPause,
                  RecordFailed, Crash
    <2> QED
      BY <1>0, <1>1, <2>1, LocalsFields
  <1>5. ASSUME NEW w \in Worker, ClaimStep(w) \/ Execute(w) PROVE Goal
    <2>1. \/ worker' = worker
          \/ \E s \in Step : Becomes(w, Executes(s))
          \/ \E result \in Results : Becomes(w, Records(w, result))
      BY <1>5 DEF ClaimStep, Execute
    <2> QED
      BY <1>0, <1>1, <2>1, LocalsFields
  <1>6. ASSUME NEW w \in Worker, ClaimBatch(w) \/ Sweep(w) PROVE Goal
    BY <1>6 DEF ClaimBatch, Sweep
  <1>7. ASSUME \/ \E s \in Step : LeaseLapses(s) \/ RetryComesDue(s)
               \/ \E clock \in {"db", "node"} : DeadlinePasses(clock)
               \/ \E p \in Person : ResumeRead(p) \/ ReplayRead(p) \/ ResumeWrite(p)
               \/ RequestCancel \/ LoseQueue \/ UNCHANGED vars
        PROVE  Goal
    BY <1>7 DEF LeaseLapses, RetryComesDue, DeadlinePasses, ResumeRead, ReplayRead, ResumeWrite,
                RequestCancel, LoseQueue, vars
  <1> QED
    BY <1>3, <1>4, <1>5, <1>6, <1>7 DEF Next, Process

(* The run row gets a status from a resume, or from a worker's plan.       *)
LEMMA StatusMoves ==
  ASSUME TypeInv, [Next]_vars, ~ Restart
  PROVE  \/ run'.status \in {run.status, "running"}
         \/ \E w \in Worker : worker[w].pc = "write" /\ run'.status = worker[w].plan
  <1>0. run \in RunRow
    BY DEF TypeInv, TypeOK
  <1>1. ASSUME NEW w \in Worker, AdvanceWrite(w)
        PROVE  \/ run'.status \in {run.status, "running"}
               \/ worker[w].pc = "write" /\ run'.status = worker[w].plan
    BY <1>0, <1>1 DEF AdvanceWrite, setRunStatus, RunRow
  <1>2. ASSUME NEW w \in Worker, Record(w) PROVE run'.status = run.status
    BY <1>0, <1>2 DEF Record, RecordStale, RecordSuccess, RecordRetry, RecordPause, RecordFailed,
                      RunRow
  <1>3. ASSUME NEW w \in Worker,
               \/ ClaimBatch(w) \/ AdvanceRead(w) \/ AdvanceNext(w) \/ AdvanceList(w)
               \/ ClaimStep(w) \/ Execute(w) \/ Sweep(w) \/ Crash(w)
        PROVE  run' = run
    BY <1>3 DEF ClaimBatch, AdvanceRead, AdvanceNext, AdvanceList, ClaimStep, Execute, Sweep, Crash
  <1>4. ASSUME \/ \E s \in Step : LeaseLapses(s) \/ RetryComesDue(s)
               \/ \E clock \in {"db", "node"} : DeadlinePasses(clock)
               \/ \E p \in Person : ResumeRead(p) \/ ReplayRead(p)
               \/ LoseQueue \/ UNCHANGED vars
        PROVE  run' = run
    BY <1>4 DEF LeaseLapses, RetryComesDue, DeadlinePasses, ResumeRead, ReplayRead, LoseQueue, vars
  <1>5. ASSUME RequestCancel PROVE run'.status = run.status
    BY <1>0, <1>5 DEF RequestCancel, RunRow
  <1> QED
    BY <1>1, <1>2, <1>3, <1>4, <1>5 DEF Next, Process, Restart

(* Every step but a restart keeps verdicts justified.                      *)
LEMMA VerdictNext ==
  ASSUME VerdictInv, [Next]_vars, ~ Restart
  PROVE  VerdictInv'
  <1>0. TypeInv /\ TypeInv'
    BY TypeNext, HasTargetNext DEF VerdictInv, TypeInv
  <1>1. Justified(run.status)
    BY DEF VerdictInv, VerdictJustified, Justified
  <1>2. Justified(run'.status)
    <2>1. Justified("running")
      BY DEF Justified
    <2> QED
      BY <1>0, <1>1, <2>1, StatusMoves DEF VerdictInv
  <1>3. VerdictJustified'
    <2>1. \A status \in RunStatus : Justified(status) => Justified(status)'
      BY <1>0, JustifiedStays
    <2>2. run'.status \in RunStatus
      BY <1>0 DEF TypeInv, TypeOK, RunRow
    <2> QED
      BY <1>2, <2>1, <2>2 DEF VerdictJustified, Justified
  <1>4. ASSUME NEW w \in Worker, worker'[w].pc = "write",
               NEW plan \in RunStatus \cup {"none", "dispatch"}, plan = worker'[w].plan
        PROVE  Justified(plan)'
    <2>1. Justified(plan)
      <3>1. \A status : Verdict(status) => Justified(status)
        BY DEF Verdict, Justified
      <3>2. \A status \in {"dispatch", "cancelled", "timed_out"} : Justified(status)
        BY DEF Justified
      <3>3. worker'[w] = worker[w] => Justified(plan)
        BY <1>4 DEF VerdictInv
      <3> QED
        BY <1>0, <1>4, <3>1, <3>2, <3>3, PlanMoves
    <2> QED
      BY <1>0, <2>1, JustifiedStays
  <1>5. \A w \in Worker : worker'[w].plan \in RunStatus \cup {"none", "dispatch"}
    BY <1>0 DEF TypeInv, TypeOK, WorkerState
  <1> QED
    BY <1>0, <1>3, <1>4, <1>5 DEF VerdictInv, Justified

(* Until the run is started again, a run that says it succeeded has        *)
(* finished every step, one that says it failed has lost one, and one that *)
(* waits has a step that waits, although workers write verdicts that rest  *)
(* on snapshots taken before, in any number and any order.                 *)
THEOREM VerdictsHold == Spec /\ [][~ Restart]_vars => []VerdictJustified
  <1>1. Init => VerdictInv
    BY TypeInvInit DEF Init, VerdictInv, VerdictJustified, Idle
  <1>2. VerdictInv /\ [Next]_vars /\ [~ Restart]_vars => VerdictInv'
    <2>1. ASSUME VerdictInv, UNCHANGED vars PROVE VerdictInv'
      BY <2>1, TypeNext, HasTargetNext
         DEF vars, VerdictInv, VerdictJustified, Justified, TypeInv
    <2> QED
      BY <2>1, VerdictNext
  <1>3. VerdictInv => VerdictJustified
    BY DEF VerdictInv
  <1> QED
    BY <1>1, <1>2, <1>3, PTL DEF Spec

--------------------------------------------------------------------------------
(* Dead letters                                                            *)

(* Two people who resume at once would write the same attempt group: the   *)
(* second one resets counters whose dead letters carry that group already. *)
OnePerson == \A p, q \in Person : p = q

Letters(t) == {d \in DOMAIN dlq : dlq[d].step = t /\ dlq[d].group = step[t].group}
Reasons(t) == {dlq[e].reason : e \in Letters(t)}

Tells(t) ==
  /\ step[t].consumed >= MaxAttempts <=> "attempts_exhausted" \in Reasons(t)
  /\ step[t].deferrals >= MaxDeferrals <=> "deferrals_exhausted" \in Reasons(t)

(* No row is ahead of the run, and a pending resume is ahead of every row. *)
GroupsPast ==
  /\ \A s \in Step : step[s].group <= run.attemptGroup
  /\ \A e \in DOMAIN dlq : dlq[e].group <= run.attemptGroup
  /\ \A p \in Person : person[p].pc = "write" => person[p].group = run.attemptGroup + 1

LettersInv == BudgetInv /\ DeadLettersTell /\ GroupsPast

(* The dead letters, said of one step.                                     *)
LEMMA TellsIsTells == DeadLettersTell <=> \A t \in Step : Tells(t)
  BY DEF DeadLettersTell, Tells, Reasons, Letters

(* An attempt that exhausts a budget exhausts one of the two; any other    *)
(* outcome leaves both (retry.ts:98-171).                                  *)
LEMMA OneBudgetGoes ==
  ASSUME NEW state \in [consumed : Nat, deferrals : Nat], NEW c, NEW idempotent,
         NEW maxAttempts \in Nat, NEW maxDeferrals \in Nat,
         state.consumed < maxAttempts, state.deferrals < maxDeferrals
  PROVE  LET outcome == onAttemptFailed(state, c, idempotent, maxAttempts, maxDeferrals) IN
         IF outcome.kind = "exhausted"
         THEN outcome.consumed >= maxAttempts <=> outcome.deferrals < maxDeferrals
         ELSE outcome.consumed < maxAttempts /\ outcome.deferrals < maxDeferrals
  <1> DEFINE decision == decideRetry(c, idempotent)
  <1>1. decision.retry \in BOOLEAN /\ decision.consumesAttempt \in BOOLEAN
    BY DEF decideRetry
  <1>2. decision.consumesAttempt => decision.retry
    BY DEF decideRetry, NotRetryable, Conditional, Consuming
  <1> HIDE DEF decision
  <1>3. CASE decision.consumesAttempt
    BY <1>2, <1>3 DEF onAttemptFailed, ConsumedAfter, DeferralsAfter, Exhausted, decision
  <1>4. CASE ~ decision.consumesAttempt /\ decision.retry
    BY <1>4 DEF onAttemptFailed, ConsumedAfter, DeferralsAfter, Exhausted, decision
  <1>5. CASE ~ decision.consumesAttempt /\ ~ decision.retry
    BY <1>5 DEF onAttemptFailed, ConsumedAfter, DeferralsAfter, Exhausted, decision
  <1> QED
    BY <1>1, <1>3, <1>4, <1>5

(* Without a resume the attempt groups stand still.                        *)
LEMMA SameGroup ==
  ASSUME TypeInv, [Next]_vars, ~ Restart
  PROVE  run'.attemptGroup = run.attemptGroup /\ \A t \in Step : step'[t].group = step[t].group
  <1>0. run \in RunRow /\ \A t \in Step : step[t] \in StepRow
    BY DEF TypeInv, TypeOK
  <1>1. ASSUME NEW t \in Step PROVE step'[t].group = step[t].group
    <2>1. IsClaimed(t) \/ IsSucceeded(t) \/ IsSkipped(t) => step'[t].group = step[t].group
      BY <1>0 DEF IsClaimed, IsSucceeded, IsSkipped, Claimed, recordSuccess, markSkipped, StepRow
    <2>2. IsRetried(t) \/ IsPaused(t) \/ IsFailed(t) => step'[t].group = step[t].group
      BY <1>0 DEF IsRetried, IsPaused, IsFailed, FailedRow, StepRow
    <2>3. IsLapsed(t) \/ IsDue(t) => step'[t].group = step[t].group
      BY <1>0 DEF IsLapsed, IsDue, StepRow
    <2> QED
      BY <2>1, <2>2, <2>3, RowsMove DEF RowMove
  <1>2. ASSUME NEW w \in Worker, AdvanceWrite(w) \/ Record(w)
        PROVE  run'.attemptGroup = run.attemptGroup
    BY <1>0, <1>2 DEF AdvanceWrite, setRunStatus, Record, RecordStale, RecordSuccess, RecordRetry,
                      RecordPause, RecordFailed, RunRow
  <1>3. ASSUME RequestCancel PROVE run'.attemptGroup = run.attemptGroup
    BY <1>0, <1>3 DEF RequestCancel, RunRow
  <1>4. ASSUME NEW w \in Worker,
               \/ ClaimBatch(w) \/ AdvanceRead(w) \/ AdvanceNext(w) \/ AdvanceList(w)
               \/ ClaimStep(w) \/ Execute(w) \/ Sweep(w) \/ Crash(w)
        PROVE  run' = run
    BY <1>4 DEF ClaimBatch, AdvanceRead, AdvanceNext, AdvanceList, ClaimStep, Execute, Sweep, Crash
  <1>5. ASSUME \/ \E s \in Step : LeaseLapses(s) \/ RetryComesDue(s)
               \/ \E clock \in {"db", "node"} : DeadlinePasses(clock)
               \/ \E p \in Person : ResumeRead(p) \/ ReplayRead(p)
               \/ LoseQueue \/ UNCHANGED vars
        PROVE  run' = run
    BY <1>5 DEF LeaseLapses, RetryComesDue, DeadlinePasses, ResumeRead, ReplayRead, LoseQueue, vars
  <1> QED
    BY <1>1, <1>2, <1>3, <1>4, <1>5 DEF Next, Process, Restart

(* A dead letter is written by whoever records a failure for good, or      *)
(* stamped by a resume.                                                    *)
Buries(w) == /\ RecordFailed(w)
             /\ \E reason \in DlqReasons(Outcome(w), worker[w].result) :
                  dlq' = Append(dlq, [step |-> worker[w].target,
                                      group |-> step[worker[w].target].group,
                                      reason |-> reason, replays |-> 0])

(* Without a restart, only a failure that is recorded adds a dead letter.  *)
LEMMA DlqMoves ==
  ASSUME [Next]_vars, ~ Restart
  PROVE  dlq' = dlq \/ \E w \in Worker : Buries(w)
  <1>1. ASSUME NEW w \in Worker, RecordFailed(w) PROVE dlq' = dlq \/ Buries(w)
    BY <1>1 DEF RecordFailed, Buries
  <1>2. ASSUME NEW w \in Worker,
               \/ ClaimBatch(w) \/ AdvanceRead(w) \/ AdvanceNext(w) \/ AdvanceList(w)
               \/ AdvanceWrite(w) \/ ClaimStep(w) \/ Execute(w) \/ RecordStale(w)
               \/ RecordSuccess(w) \/ RecordRetry(w) \/ RecordPause(w) \/ Sweep(w) \/ Crash(w)
        PROVE  dlq' = dlq
    BY <1>2 DEF ClaimBatch, AdvanceRead, AdvanceNext, AdvanceList, AdvanceWrite, ClaimStep, Execute,
                RecordStale, RecordSuccess, RecordRetry, RecordPause, Sweep, Crash
  <1>3. ASSUME \/ \E s \in Step : LeaseLapses(s) \/ RetryComesDue(s)
               \/ \E clock \in {"db", "node"} : DeadlinePasses(clock)
               \/ \E p \in Person : ResumeRead(p) \/ ReplayRead(p)
               \/ RequestCancel \/ LoseQueue \/ UNCHANGED vars
        PROVE  dlq' = dlq
    BY <1>3 DEF LeaseLapses, RetryComesDue, DeadlinePasses, ResumeRead, ReplayRead, RequestCancel,
                LoseQueue, vars
  <1> QED
    BY <1>1, <1>2, <1>3 DEF Next, Process, Record, Restart

(* What appending one letter does to the reasons of a step's group.        *)
LEMMA LetterAppended ==
  ASSUME dlq \in Seq(DlqRow), NEW letter, dlq' = Append(dlq, letter),
         NEW t \in Step, step'[t].group = step[t].group
  PROVE  /\ \A e \in DOMAIN dlq' : dlq'[e] = letter \/ (e \in DOMAIN dlq /\ dlq'[e] = dlq[e])
         /\ Reasons(t)' = Reasons(t) \cup
              (IF letter.step = t /\ letter.group = step[t].group THEN {letter.reason} ELSE {})
  <1>1. /\ DOMAIN dlq = 1 .. Len(dlq) /\ Len(dlq) \in Nat
        /\ DOMAIN dlq' = 1 .. Len(dlq) + 1
        /\ \A e \in 1 .. Len(dlq) : dlq'[e] = dlq[e]
        /\ dlq'[Len(dlq) + 1] = letter
    OBVIOUS
  <1>2. \A e \in DOMAIN dlq' : dlq'[e] = letter \/ (e \in DOMAIN dlq /\ dlq'[e] = dlq[e])
    BY <1>1
  <1>3. \A e \in DOMAIN dlq : e \in DOMAIN dlq' /\ dlq'[e] = dlq[e]
    BY <1>1
  <1>4. Len(dlq) + 1 \in DOMAIN dlq'
    BY <1>1
  <1> QED
    BY <1>1, <1>2, <1>3, <1>4 DEF Reasons, Letters

(* Whoever records has a step that had a budget left.                      *)
LEMMA RunningHasBudget ==
  ASSUME BudgetInv, NEW w \in Worker, worker[w].pc = "record", Holds(w)
  PROVE  LET outcome == Outcome(w) IN
         /\ step[worker[w].target].consumed < MaxAttempts
         /\ step[worker[w].target].deferrals < MaxDeferrals
         /\ IF outcome.kind = "exhausted"
            THEN outcome.consumed >= MaxAttempts <=> outcome.deferrals < MaxDeferrals
            ELSE outcome.consumed < MaxAttempts /\ outcome.deferrals < MaxDeferrals
  <1> DEFINE row == step[worker[w].target]
             state == [consumed |-> worker[w].consumed, deferrals |-> worker[w].deferrals]
  <1>1. /\ row.status = "running" /\ row.consumed \in Nat /\ row.deferrals \in Nat
        /\ worker[w].consumed = row.consumed /\ worker[w].deferrals = row.deferrals
    BY HolderKnows DEF BudgetInv
  <1>2. worker[w].target \in Step /\ ~ Settled(row)
    BY <1>1 DEF BudgetInv, FenceInv, TypeInv, HasTarget, Working, Settled, Finished, FailedForGood,
                Paused
  <1>3. row.consumed < MaxAttempts /\ row.deferrals < MaxDeferrals
    BY <1>2 DEF BudgetInv, BudgetLeft
  <1>4. state \in [consumed : Nat, deferrals : Nat]
    BY <1>1
  <1> QED
    BY <1>1, <1>3, <1>4, OneBudgetGoes, CountsAssumption DEF Outcome

(* The step whose failure is recorded for good.                            *)
LEMMA BuriedTells ==
  ASSUME LettersInv, NEW w \in Worker, RecordFailed(w), NEW t \in Step, t = worker[w].target
  PROVE  Tells(t)'
  <1> DEFINE letter(reason) == [step |-> t, group |-> step[t].group, reason |-> reason, replays |-> 0]
  <1>0. BudgetInv /\ TypeInv /\ dlq \in Seq(DlqRow)
    BY DEF LettersInv, BudgetInv, FenceInv, TypeInv, TypeOK
  <1>1. worker[w].pc = "record" /\ Holds(w) /\ Outcome(w).kind \in {"exhausted", "terminal"}
    BY DEF RecordFailed
  <1>2. t \in Step /\ step[t] \in StepRow /\ step \in [Step -> StepRow]
    BY <1>0, <1>1 DEF TypeInv, TypeOK, HasTarget, Working
  <1>3. /\ step[t].consumed < MaxAttempts /\ step[t].deferrals < MaxDeferrals
        /\ step[t].consumed \in Nat /\ step[t].deferrals \in Nat
    BY <1>0, <1>1, <1>2, RunningHasBudget DEF StepRow
  <1>4. "attempts_exhausted" \notin Reasons(t) /\ "deferrals_exhausted" \notin Reasons(t)
    BY <1>2, <1>3, TellsIsTells, CountsAssumption DEF LettersInv, Tells
  <1>5. /\ step'[t].consumed = Outcome(w).consumed /\ step'[t].deferrals = Outcome(w).deferrals
        /\ step'[t].group = step[t].group
    BY <1>2 DEF RecordFailed, FailedRow, StepRow
  <1>6. Outcome(w).consumed \in Nat /\ Outcome(w).deferrals \in Nat
    BY <1>0, WorkerOutcome DEF TypeInv
  <1>7. \/ \E reason \in DlqReasons(Outcome(w), worker[w].result) : dlq' = Append(dlq, letter(reason))
        \/ DlqReasons(Outcome(w), worker[w].result) = {} /\ dlq' = dlq
    BY DEF RecordFailed
  <1>8. CASE Outcome(w).kind = "exhausted"
    <2>1. PICK reason \in DlqReasons(Outcome(w), worker[w].result) : dlq' = Append(dlq, letter(reason))
      BY <1>7, <1>8 DEF DlqReasons
    <2>2. reason = IF Outcome(w).consumed >= MaxAttempts THEN "attempts_exhausted"
                                                         ELSE "deferrals_exhausted"
      BY <1>8, <2>1 DEF DlqReasons
    <2>3. Reasons(t)' = Reasons(t) \cup {reason}
      BY <1>0, <1>2, <1>5, <2>1, LetterAppended
    <2>4. Outcome(w).consumed >= MaxAttempts <=> Outcome(w).deferrals < MaxDeferrals
      BY <1>0, <1>1, <1>8, RunningHasBudget
    <2> QED
      BY <1>4, <1>5, <1>6, <2>2, <2>3, <2>4, CountsAssumption DEF Tells
  <1>9. CASE Outcome(w).kind # "exhausted"
    <2>1. DlqReasons(Outcome(w), worker[w].result) \subseteq {"poison"}
      BY <1>9 DEF DlqReasons
    <2>2. Reasons(t)' \subseteq Reasons(t) \cup {"poison"}
      <3>1. CASE dlq' = dlq
        BY <1>5, <3>1 DEF Reasons, Letters
      <3>2. CASE \E reason \in DlqReasons(Outcome(w), worker[w].result) :
                   dlq' = Append(dlq, letter(reason))
        <4>1. dlq' = Append(dlq, letter("poison"))
          BY <2>1, <3>2
        <4>2. Reasons(t)' = Reasons(t) \cup
                (IF letter("poison").step = t /\ letter("poison").group = step[t].group
                 THEN {letter("poison").reason} ELSE {})
          BY <1>0, <1>2, <1>5, <4>1, LetterAppended
        <4> QED
          BY <4>2
      <3> QED
        BY <1>7, <3>1, <3>2
    <2>3. Outcome(w).consumed < MaxAttempts /\ Outcome(w).deferrals < MaxDeferrals
      BY <1>0, <1>1, <1>9, RunningHasBudget
    <2> QED
      BY <1>4, <1>5, <1>6, <2>2, <2>3, CountsAssumption DEF Tells
  <1> QED
    BY <1>8, <1>9

(* Any other step, while nobody resumes.                                   *)
LEMMA OthersTell ==
  ASSUME LettersInv, [Next]_vars, ~ Restart, NEW t \in Step,
         \A w \in Worker : ~ (RecordFailed(w) /\ worker[w].target = t)
  PROVE  Tells(t)'
  <1>0. /\ BudgetInv /\ TypeInv /\ dlq \in Seq(DlqRow) /\ step[t] \in StepRow /\ Tells(t)
        /\ step'[t].group = step[t].group
    BY SameGroup, TellsIsTells DEF LettersInv, BudgetInv, FenceInv, TypeInv, TypeOK
  <1>1. Reasons(t)' = Reasons(t)
    <2>1. CASE dlq' = dlq
      BY <1>0, <2>1 DEF Reasons, Letters
    <2>2. ASSUME NEW w \in Worker, Buries(w) PROVE Reasons(t)' = Reasons(t)
      <3>1. worker[w].target # t
        BY <2>2 DEF Buries
      <3>2. PICK letter : dlq' = Append(dlq, letter) /\ letter.step = worker[w].target
        BY <2>2 DEF Buries
      <3>3. Reasons(t)' = Reasons(t) \cup
              (IF letter.step = t /\ letter.group = step[t].group THEN {letter.reason} ELSE {})
        BY <1>0, <3>2, LetterAppended
      <3> QED
        BY <3>1, <3>2, <3>3
    <2> QED
      BY <2>1, <2>2, DlqMoves
  <1>2. /\ step'[t].consumed >= MaxAttempts <=> step[t].consumed >= MaxAttempts
        /\ step'[t].deferrals >= MaxDeferrals <=> step[t].deferrals >= MaxDeferrals
    <2>1. CASE IsRetried(t) \/ IsPaused(t)
      <3>1. PICK w \in Worker :
              /\ RecordRetry(w) \/ RecordPause(w)
              /\ worker[w].target = t
              /\ \E status, retry : step'[t] = FailedRow(step[t], status, retry, Outcome(w))
        BY <2>1 DEF IsRetried, IsPaused
      <3>2. worker[w].pc = "record" /\ Holds(w) /\ Outcome(w).kind # "exhausted"
        BY <3>1 DEF RecordRetry, RecordPause
      <3>3. /\ step'[t].consumed = Outcome(w).consumed
            /\ step'[t].deferrals = Outcome(w).deferrals
        BY <1>0, <3>1 DEF FailedRow, StepRow
      <3>4. Outcome(w).consumed \in Nat /\ Outcome(w).deferrals \in Nat
        BY <1>0, WorkerOutcome DEF TypeInv
      <3> QED
        BY <1>0, <3>1, <3>2, <3>3, <3>4, RunningHasBudget, CountsAssumption DEF StepRow
    <2>2. CASE ~ (IsRetried(t) \/ IsPaused(t))
      <3>1. step'[t] = step[t] \/ IsClaimed(t) \/ IsSucceeded(t) \/ IsSkipped(t)
            \/ IsLapsed(t) \/ IsDue(t)
        BY <1>0, <2>2, RowsMove DEF RowMove, IsFailed
      <3>2. step'[t].consumed = step[t].consumed /\ step'[t].deferrals = step[t].deferrals
        BY <1>0, <3>1 DEF IsClaimed, IsSucceeded, IsSkipped, IsLapsed, IsDue, Claimed,
                          recordSuccess, markSkipped, StepRow
      <3> QED
        BY <3>2
    <2> QED
      BY <2>1, <2>2
  <1> QED
    BY <1>0, <1>1, <1>2 DEF Tells

(* A resume only stamps the letters: their steps, groups and reasons stay. *)
LEMMA LettersStamped ==
  ASSUME TypeInv, NEW p \in Person, ResumeWrite(p)
  PROVE  /\ DOMAIN dlq' = DOMAIN dlq
         /\ \A e \in DOMAIN dlq : /\ dlq'[e].step = dlq[e].step /\ dlq'[e].group = dlq[e].group
                                  /\ dlq'[e].reason = dlq[e].reason
  <1>1. \A e \in DOMAIN dlq : dlq[e] \in DlqRow
    BY DEF TypeInv, TypeOK
  <1> QED
    BY <1>1 DEF ResumeWrite, DlqRow

(* A restart leaves the dead letters telling the truth.                    *)
LEMMA ResumedTells ==
  ASSUME LimitsPositive, LettersInv, NEW p \in Person, ResumeWrite(p), NEW t \in Step
  PROVE  Tells(t)'
  <1>0. TypeInv /\ step[t] \in StepRow /\ dlq \in Seq(DlqRow) /\ Tells(t)
    BY TellsIsTells DEF LettersInv, BudgetInv, FenceInv, TypeInv, TypeOK
  <1>1. step'[t] = IF t < person[p].from THEN Kept(step[t]) ELSE resetStep(person[p].group)
    BY DEF ResumeWrite
  <1>2. CASE t < person[p].from
    <2>1. /\ step'[t].consumed = step[t].consumed /\ step'[t].deferrals = step[t].deferrals
          /\ step'[t].group = step[t].group
      BY <1>0, <1>1, <1>2 DEF Kept, StepRow
    <2>2. Letters(t)' = Letters(t)
      BY <1>0, <2>1, LettersStamped DEF Letters
    <2>3. Reasons(t)' = Reasons(t)
      BY <1>0, <2>2, LettersStamped DEF Reasons, Letters
    <2> QED
      BY <1>0, <2>1, <2>3 DEF Tells
  <1>3. CASE ~ (t < person[p].from)
    <2>1. step'[t].consumed = 0 /\ step'[t].deferrals = 0 /\ step'[t].group = person[p].group
      BY <1>1, <1>3 DEF resetStep
    <2>2. person[p].group = run.attemptGroup + 1 /\ run.attemptGroup \in Nat
      BY <1>0 DEF LettersInv, GroupsPast, ResumeWrite, TypeInv, TypeOK, RunRow
    <2>3. \A e \in DOMAIN dlq : dlq[e].group <= run.attemptGroup /\ dlq[e].group \in Nat
      <3>1. \A e \in DOMAIN dlq : dlq[e] \in DlqRow
        BY <1>0
      <3> QED
        BY <3>1 DEF LettersInv, GroupsPast, DlqRow
    <2>4. Letters(t)' = {}
      BY <1>0, <2>1, <2>2, <2>3, LettersStamped DEF Letters
    <2>5. Reasons(t)' = {}
      BY <2>4 DEF Reasons
    <2> QED
      BY <2>1, <2>5, CountsAssumption DEF Tells, LimitsPositive
  <1> QED
    BY <1>2, <1>3

(* Every step keeps dead letters in groups that have begun.                *)
LEMMA GroupsNext ==
  ASSUME OnePerson, LettersInv, [Next]_vars
  PROVE  GroupsPast'
  <1>0. /\ TypeInv /\ run \in RunRow /\ \A t \in Step : step[t] \in StepRow
        /\ dlq \in Seq(DlqRow) /\ person \in [Person -> PersonState] /\ GroupsPast
    BY DEF LettersInv, BudgetInv, FenceInv, TypeInv, TypeOK
  <1>1. ASSUME NEW p \in Person, ResumeWrite(p) PROVE GroupsPast'
    <2>1. /\ run'.attemptGroup = person[p].group
          /\ person[p].group = run.attemptGroup + 1 /\ run.attemptGroup \in Nat
      BY <1>0, <1>1 DEF ResumeWrite, ResumedRun, GroupsPast, RunRow
    <2>2. \A s \in Step : step'[s].group <= run'.attemptGroup
      <3> SUFFICES ASSUME NEW s \in Step PROVE step'[s].group <= run'.attemptGroup
        OBVIOUS
      <3>1. step'[s].group \in {step[s].group, person[p].group}
        BY <1>0, <1>1 DEF ResumeWrite, Kept, resetStep, StepRow
      <3>2. step[s].group \in Nat /\ step[s].group <= run.attemptGroup
        BY <1>0 DEF StepRow, GroupsPast
      <3> QED
        BY <2>1, <3>1, <3>2
    <2>3. \A e \in DOMAIN dlq' : dlq'[e].group <= run'.attemptGroup
      <3>1. \A e \in DOMAIN dlq : dlq[e] \in DlqRow
        BY <1>0
      <3> QED
        BY <1>0, <1>1, <2>1, <3>1, LettersStamped DEF GroupsPast, DlqRow
    <2>4. \A q \in Person : person'[q].pc # "write"
      BY <1>0, <1>1 DEF OnePerson, ResumeWrite, Away
    <2> QED
      BY <2>2, <2>3, <2>4 DEF GroupsPast
  <1>2. CASE ~ Restart
    <2>1. run'.attemptGroup = run.attemptGroup /\ \A t \in Step : step'[t].group = step[t].group
      BY <1>0, <1>2, SameGroup
    <2>2. \A e \in DOMAIN dlq' : dlq'[e].group <= run'.attemptGroup
      <3>1. CASE dlq' = dlq
        BY <1>0, <2>1, <3>1 DEF GroupsPast
      <3>2. ASSUME NEW w \in Worker, Buries(w)
            PROVE  \A e \in DOMAIN dlq' : dlq'[e].group <= run'.attemptGroup
        <4>1. PICK reason : dlq' = Append(dlq, [step |-> worker[w].target,
                                                group |-> step[worker[w].target].group,
                                                reason |-> reason, replays |-> 0])
          BY <3>2 DEF Buries
        <4>2. worker[w].target \in Step
          BY <1>0, <3>2 DEF Buries, RecordFailed, TypeInv, HasTarget, Working
        <4> QED
          BY <1>0, <2>1, <4>1, <4>2, LetterAppended DEF GroupsPast
      <3> QED
        BY <1>2, <3>1, <3>2, DlqMoves
    <2>3. \A p \in Person : person'[p].pc = "write" => person'[p].group = run'.attemptGroup + 1
      <3>1. ASSUME NEW q \in Person, ResumeRead(q) \/ ReplayRead(q)
            PROVE  \A p \in Person : person'[p].pc = "write" =>
                                       person'[p].group = run'.attemptGroup + 1
        <4>1. \E from, entry : person' = [person EXCEPT ![q] =
                [pc |-> "write", from |-> from, group |-> run.attemptGroup + 1, entry |-> entry]]
          BY <3>1 DEF ResumeRead, ReplayRead
        <4> QED
          BY <1>0, <2>1, <4>1 DEF GroupsPast
      <3>2. CASE person' = person
        BY <1>0, <2>1, <3>2 DEF GroupsPast
      <3>3. ASSUME NEW w \in Worker,
                   \/ ClaimBatch(w) \/ AdvanceRead(w) \/ AdvanceNext(w) \/ AdvanceList(w)
                   \/ AdvanceWrite(w) \/ ClaimStep(w) \/ Execute(w) \/ Record(w)
                   \/ Sweep(w) \/ Crash(w)
            PROVE  person' = person
        BY <3>3 DEF ClaimBatch, AdvanceRead, AdvanceNext, AdvanceList, AdvanceWrite, ClaimStep,
                    Execute, Record, RecordStale, RecordSuccess, RecordRetry, RecordPause,
                    RecordFailed, Sweep, Crash
      <3>4. ASSUME \/ \E s \in Step : LeaseLapses(s) \/ RetryComesDue(s)
                   \/ \E clock \in {"db", "node"} : DeadlinePasses(clock)
                   \/ RequestCancel \/ LoseQueue \/ UNCHANGED vars
            PROVE  person' = person
        BY <3>4 DEF LeaseLapses, RetryComesDue, DeadlinePasses, RequestCancel, LoseQueue, vars
      <3> QED
        BY <1>2, <3>1, <3>2, <3>3, <3>4 DEF Next, Process, Restart
    <2> QED
      BY <1>0, <2>1, <2>2, <2>3 DEF GroupsPast
  <1> QED
    BY <1>1, <1>2 DEF Restart

(* However attempts, retries, lapsed leases, resumes and replays follow    *)
(* each other, the dead letters of a step's attempt group name exactly the *)
(* budgets it has used up, provided that no two workers share an id and no *)
(* two people resume the run at once.                                      *)
THEOREM LettersHold ==
  ASSUME DistinctIds, LimitsPositive, OnePerson
  PROVE  Spec => []DeadLettersTell
  <1>1. Init => LettersInv
    <2> SUFFICES ASSUME Init PROVE LettersInv
      OBVIOUS
    <2>1. BudgetInv
      BY FenceInit, CountsAssumption DEF Init, BudgetInv, BudgetLeft, LimitsPositive
    <2>2. \A t \in Step : Tells(t)
      BY CountsAssumption DEF Init, Tells, Reasons, Letters, LimitsPositive
    <2>3. GroupsPast
      BY DEF Init, GroupsPast, Away
    <2> QED
      BY <2>1, <2>2, <2>3, TellsIsTells DEF LettersInv
  <1>2. LettersInv /\ [Next]_vars => LettersInv'
    <2> SUFFICES ASSUME LettersInv, [Next]_vars PROVE LettersInv'
      OBVIOUS
    <2>1. BudgetInv'
      BY FenceNext, BudgetNext DEF LettersInv, BudgetInv
    <2>2. ASSUME NEW t \in Step PROVE Tells(t)'
      BY BuriedTells, OthersTell, ResumedTells DEF Restart
    <2>3. DeadLettersTell'
      BY <2>2 DEF DeadLettersTell, Tells, Reasons, Letters
    <2> QED
      BY <2>1, <2>3, GroupsNext DEF LettersInv
  <1>3. LettersInv => DeadLettersTell
    BY DEF LettersInv
  <1> QED
    BY <1>1, <1>2, <1>3, PTL DEF Spec

--------------------------------------------------------------------------------
(* The order in which steps begin                                          *)

(* Worker w has chosen s and is about to write its run_step.               *)
Chooses(w, s) == worker[w].pc = "write" /\ worker[w].plan = "dispatch" /\ worker[w].target = s

(* A run_step of s is in the queue, or in the batch of a worker.           *)
Sent(s) == outbox[RunStep(s)] > 0 \/ \E w \in Worker : batch[w][RunStep(s)] > 0

(* Every earlier step has begun, or will not.                              *)
EarlierBegun(s) == \A t \in Step : t < s => step[t].status # "pending"

(* What is on its way to a worker has the chain before it begun. A resume  *)
(* ends this, and with it the first attempt group: whoever is about to     *)
(* resume has a later one in hand.                                         *)
OrderInv ==
  /\ TypeInv
  /\ \A p \in Person : person[p].pc = "write" => person[p].group > 0
  /\ run.attemptGroup = 0 =>
       \A s \in Step : Sent(s) \/ (\E w \in Worker : Chooses(w, s)) => EarlierBegun(s)

(* Only a resume makes a step pending again.                               *)
LEMMA EarlierStaysBegun ==
  ASSUME TypeInv, [Next]_vars, ~ Restart, NEW s \in Step, EarlierBegun(s)
  PROVE  EarlierBegun(s)'
  <1> SUFFICES ASSUME NEW t \in Step, step[t].status # "pending"
               PROVE  step'[t].status # "pending"
    BY DEF EarlierBegun
  <1>1. step[t] \in StepRow /\ RowMove(t)
    BY RowsMove DEF TypeInv, TypeOK
  <1> QED
    BY <1>1 DEF RowMove, IsClaimed, IsSucceeded, IsSkipped, IsRetried, IsPaused, IsFailed, IsLapsed,
                IsDue, Claimed, recordSuccess, FailedRow, StepRow

(* What nextRunnableStep returns has every earlier step begun: one that is *)
(* pending would come before it, and nothing blocks that one that does not *)
(* block this one too.                                                     *)
LEMMA NextHasEarlierBegun ==
  ASSUME NEW s \in Step, IsNextRunnable(s)
  PROVE  EarlierBegun(s)
  <1> SUFFICES ASSUME NEW t \in Step, t < s, step[t].status = "pending" PROVE FALSE
    BY DEF EarlierBegun
  <1>1. t \notin Candidates
    BY CountsAssumption DEF IsNextRunnable, Step
  <1>2. \A u \in Step : u < t => ~ Blocker(step[u])
    BY CountsAssumption DEF IsNextRunnable, Candidates, Step
  <1> QED
    BY <1>1, <1>2 DEF Candidates, Claimable

(* Only the write of who has chosen a step sends its run_step; a batch     *)
(* only moves it.                                                          *)
LEMMA SentWasChosen ==
  ASSUME TypeInv, [Next]_vars, ~ Restart, NEW s \in Step, Sent(s)'
  PROVE  Sent(s) \/ \E w \in Worker : Chooses(w, s)
  <1> DEFINE Goal == Sent(s) \/ \E w \in Worker : Chooses(w, s)
             m == RunStep(s)
  <1>0. /\ outbox \in [Message -> Nat] /\ batch \in [Worker -> [Message -> Nat]]
        /\ m \in Message /\ m \in Ready /\ m # Advance /\ \A t \in Step : m # AdvanceLater(t)
        /\ TypeOK /\ HasTarget /\ outbox[m] \in Nat
    BY MessagesDiffer DEF TypeInv, TypeOK
  <1>1. outbox'[m] > 0 \/ \E w \in Worker : batch'[w][m] > 0
    BY DEF Sent
  <1>2. ASSUME outbox'[m] = outbox[m], \A w \in Worker : batch'[w][m] = batch[w][m] PROVE Goal
    BY <1>1, <1>2 DEF Sent
  <1>3. ASSUME NEW w \in Worker, ClaimBatch(w) PROVE Goal
    <2>1. PICK b \in Batches :
            /\ b[m] <= outbox[m]
            /\ outbox'[m] = outbox[m] - b[m]
            /\ batch' = [batch EXCEPT ![w] = [n \in Message |-> IF n \in Ready THEN b[n] ELSE 0]]
      BY <1>0, <1>3 DEF ClaimBatch
    <2>2. b[m] \in Nat
      BY <1>0, CountsAssumption DEF Batches
    <2>3. batch'[w][m] = b[m] /\ \A v \in Worker : v # w => batch'[v] = batch[v]
      BY <1>0, <2>1
    <2>4. outbox[m] > 0 \/ \E v \in Worker : batch[v][m] > 0
      BY <1>0, <1>1, <2>1, <2>2, <2>3
    <2> QED
      BY <2>4 DEF Sent
  <1>4. ASSUME NEW w \in Worker, NEW n \in Message, Takes(w, n), outbox' = outbox PROVE Goal
    <2>1. batch' = [batch EXCEPT ![w][n] = @ - 1] /\ batch[w][n] > 0
      BY <1>4 DEF Takes
    <2>2. \A v \in Worker : batch'[v][m] <= batch[v][m] /\ batch[v][m] \in Nat /\ batch'[v][m] \in Int
      BY <1>0, <2>1
    <2>3. outbox[m] > 0 \/ \E v \in Worker : batch[v][m] > 0
      BY <1>1, <1>4, <2>2
    <2> QED
      BY <2>3 DEF Sent
  <1>5. ASSUME NEW w \in Worker, AdvanceRead(w) \/ ClaimStep(w) PROVE Goal
    <2>1. \E n \in Message : Takes(w, n) /\ outbox' = outbox
      BY <1>5, MessageType DEF AdvanceRead, ClaimStep
    <2> QED
      BY <1>4, <2>1
  <1>6. ASSUME NEW w \in Worker, AdvanceWrite(w) PROVE Goal
    <2>1. CASE worker[w].plan = "dispatch" /\ worker[w].target = s
      BY <1>6, <2>1 DEF AdvanceWrite, Chooses
    <2>2. CASE ~ (worker[w].plan = "dispatch" /\ worker[w].target = s)
      <3>1. batch' = batch /\ (outbox' = outbox \/ Enqueue(RunStep(worker[w].target)))
        BY <1>6 DEF AdvanceWrite
      <3>2. worker[w].plan = "dispatch" => RunStep(worker[w].target) # m
        BY <2>2 DEF RunStep
      <3>3. worker[w].plan # "dispatch" => outbox' = outbox
        BY <1>6 DEF AdvanceWrite
      <3>4. outbox'[m] = outbox[m]
        BY <1>0, <3>1, <3>2, <3>3 DEF Enqueue
      <3> QED
        BY <1>2, <3>1, <3>4
    <2> QED
      BY <2>1, <2>2
  <1>7. ASSUME batch' = batch,
               \/ outbox' = outbox \/ Enqueue(Advance) \/ \E t \in Step : Enqueue(AdvanceLater(t))
        PROVE  Goal
    <2>1. outbox'[m] = outbox[m]
      BY <1>0, <1>7 DEF Enqueue
    <2> QED
      BY <1>2, <1>7, <2>1
  <1>8. ASSUME NEW w \in Worker, Record(w) \/ Sweep(w) PROVE Goal
    <2>1. batch' = batch
      BY <1>8 DEF Record, RecordStale, RecordSuccess, RecordRetry, RecordPause, RecordFailed, Sweep
    <2>2. Sweep(w) \/ worker[w].target \in Step
      BY <1>0, <1>8 DEF Record, RecordStale, RecordSuccess, RecordRetry, RecordPause, RecordFailed,
                        HasTarget, Working
    <2>3. outbox' = outbox \/ Enqueue(Advance) \/ \E t \in Step : Enqueue(AdvanceLater(t))
      BY <1>8, <2>2 DEF Record, RecordStale, RecordSuccess, RecordRetry, RecordPause, RecordFailed,
                        Sweep
    <2> QED
      BY <1>7, <2>1, <2>3
  <1>9. ASSUME NEW w \in Worker, AdvanceNext(w) \/ AdvanceList(w) \/ Execute(w) PROVE Goal
    BY <1>7, <1>9 DEF AdvanceNext, AdvanceList, Execute
  <1>10. ASSUME NEW w \in Worker, Crash(w) PROVE Goal
    <2>1. outbox' = outbox /\ batch' = [batch EXCEPT ![w] = NoMessages]
      BY <1>10 DEF Crash
    <2>2. \A v \in Worker : batch'[v][m] > 0 => batch[v][m] > 0
      BY <1>0, <2>1 DEF NoMessages
    <2> QED
      BY <1>1, <2>1, <2>2 DEF Sent
  <1>11. ASSUME NEW t \in Step, RetryComesDue(t) PROVE Goal
    <2>1. batch' = batch /\ outbox'[m] = outbox[m]
      BY <1>0, <1>11 DEF RetryComesDue
    <2> QED
      BY <1>2, <2>1
  <1>12. ASSUME LoseQueue PROVE Goal
    BY <1>0, <1>1, <1>12 DEF LoseQueue, NoMessages, Sent
  <1>13. ASSUME \/ \E t \in Step : LeaseLapses(t)
                \/ \E p \in Person : ResumeRead(p) \/ ReplayRead(p)
                \/ \E clock \in {"db", "node"} : DeadlinePasses(clock)
                \/ RequestCancel \/ UNCHANGED vars
         PROVE  Goal
    BY <1>7, <1>13 DEF LeaseLapses, ResumeRead, ReplayRead, DeadlinePasses, RequestCancel, vars
  <1> QED
    BY <1>3, <1>5, <1>6, <1>8, <1>9, <1>10, <1>11, <1>12, <1>13 DEF Next, Process, Restart

(* Only nextRunnableStep chooses.                                          *)
LEMMA ChosenWasNext ==
  ASSUME TypeInv, [Next]_vars, ~ Restart, NEW v \in Worker, NEW s \in Step, Chooses(v, s)'
  PROVE  Chooses(v, s) \/ (worker[v].pc = "next" /\ IsNextRunnable(s))
  <1> DEFINE Goal == Chooses(v, s) \/ (worker[v].pc = "next" /\ IsNextRunnable(s))
  <1>0. TypeOK /\ worker \in [Worker -> WorkerState]
    BY DEF TypeInv, TypeOK
  <1>1. worker'[v].pc = "write" /\ worker'[v].plan = "dispatch" /\ worker'[v].target = s
    BY DEF Chooses
  <1>2. ASSUME worker'[v] = worker[v] PROVE Goal
    <2>1. worker[v].pc = "write" /\ worker[v].plan = "dispatch" /\ worker[v].target = s
      BY <1>1, <1>2, Zenon
    <2>2. Chooses(v, s)
      BY <2>1, Zenon DEF Chooses
    <2> QED
      BY <2>2
  <1>3. ASSUME NEW w \in Worker, NEW state, Becomes(w, state)
        PROVE  worker'[v] = worker[v] \/ (w = v /\ worker'[v] = state)
    BY <1>0, <1>3 DEF Becomes
  <1>4. \A w \in Worker : \A plan, t : Plans(w, plan, t).plan = plan /\ Plans(w, plan, t).target = t
    BY <1>0 DEF Plans, WorkerState
  <1>5. ASSUME NEW w \in Worker, AdvanceNext(w) PROVE Goal
    <2>1. \/ \E t \in Step : IsNextRunnable(t) /\ Becomes(w, Plans(w, "dispatch", t))
          \/ Becomes(w, Lists(w))
      BY <1>5 DEF AdvanceNext
    <2>2. worker[w].pc = "next" /\ Lists(w).pc # "write"
      BY <1>0, <1>5, LocalsFields DEF AdvanceNext
    <2> QED
      BY <1>1, <1>2, <1>3, <1>4, <2>1, <2>2
  <1>6. ASSUME NEW w \in Worker, AdvanceRead(w) \/ AdvanceList(w) PROVE Goal
    <2>1. \/ worker' = worker \/ Becomes(w, Seeks(w)) \/ Becomes(w, Idle)
          \/ \E plan \in RunStatus : Becomes(w, Plans(w, plan, NoStep))
      BY <1>6 DEF AdvanceRead, AdvanceList, RunStatus
    <2>2. Seeks(w).pc # "write" /\ Idle.pc # "write" /\ "dispatch" \notin RunStatus
      BY <1>0, LocalsFields DEF RunStatus
    <2> QED
      BY <1>1, <1>2, <1>3, <1>4, <2>1, <2>2
  <1>7. ASSUME NEW w \in Worker, \/ AdvanceWrite(w) \/ Record(w) \/ Crash(w)
                                 \/ ClaimStep(w) \/ Execute(w)
        PROVE  Goal
    <2>1. \/ worker' = worker \/ Becomes(w, Idle)
          \/ \E t \in Step : Becomes(w, Executes(t))
          \/ \E result \in Results : Becomes(w, Records(w, result))
      BY <1>7 DEF AdvanceWrite, Record, RecordStale, RecordSuccess, RecordRetry, RecordPause,
                  RecordFailed, Crash, ClaimStep, Execute
    <2> QED
      BY <1>0, <1>1, <1>2, <1>3, <2>1, LocalsFields
  <1>8. ASSUME \/ \E w \in Worker : ClaimBatch(w) \/ Sweep(w)
               \/ \E t \in Step : LeaseLapses(t) \/ RetryComesDue(t)
               \/ \E clock \in {"db", "node"} : DeadlinePasses(clock)
               \/ \E p \in Person : ResumeRead(p) \/ ReplayRead(p)
               \/ RequestCancel \/ LoseQueue \/ UNCHANGED vars
        PROVE  Goal
    BY <1>2, <1>8 DEF ClaimBatch, Sweep, LeaseLapses, RetryComesDue, DeadlinePasses, ResumeRead,
                      ReplayRead, RequestCancel, LoseQueue, vars
  <1> QED
    BY <1>5, <1>6, <1>7, <1>8 DEF Next, Process, Restart

(* Who reads for a resume takes the group after the run's.                 *)
LEMMA ResumesStayAhead ==
  ASSUME TypeInv, [Next]_vars, NEW p \in Person,
         person[p].pc = "write" => person[p].group > 0, person'[p].pc = "write"
  PROVE  person'[p].group > 0
  <1>0. person \in [Person -> PersonState] /\ run.attemptGroup \in Nat
    BY DEF TypeInv, TypeOK, RunRow
  <1>1. ASSUME NEW q \in Person, ResumeRead(q) \/ ReplayRead(q) PROVE person'[p].group > 0
    <2>1. \E from, entry : person' = [person EXCEPT ![q] =
            [pc |-> "write", from |-> from, group |-> run.attemptGroup + 1, entry |-> entry]]
      BY <1>1 DEF ResumeRead, ReplayRead
    <2> QED
      BY <1>0, <2>1
  <1>2. ASSUME NEW q \in Person, ResumeWrite(q) PROVE person'[p].group > 0
    BY <1>0, <1>2 DEF ResumeWrite, Away
  <1>3. ASSUME NEW w \in Worker,
               \/ ClaimBatch(w) \/ AdvanceRead(w) \/ AdvanceNext(w) \/ AdvanceList(w)
               \/ AdvanceWrite(w) \/ ClaimStep(w) \/ Execute(w) \/ Record(w)
               \/ Sweep(w) \/ Crash(w)
        PROVE  person' = person
    BY <1>3 DEF ClaimBatch, AdvanceRead, AdvanceNext, AdvanceList, AdvanceWrite, ClaimStep,
                Execute, Record, RecordStale, RecordSuccess, RecordRetry, RecordPause,
                RecordFailed, Sweep, Crash
  <1>4. ASSUME \/ \E s \in Step : LeaseLapses(s) \/ RetryComesDue(s)
               \/ \E clock \in {"db", "node"} : DeadlinePasses(clock)
               \/ RequestCancel \/ LoseQueue \/ UNCHANGED vars
        PROVE  person' = person
    BY <1>4 DEF LeaseLapses, RetryComesDue, DeadlinePasses, RequestCancel, LoseQueue, vars
  <1> QED
    BY <1>1, <1>2, <1>3, <1>4 DEF Next, Process

(* Every step keeps the order.                                             *)
LEMMA OrderNext ==
  ASSUME OrderInv, [Next]_vars
  PROVE  OrderInv'
  <1>0. TypeInv /\ TypeInv'
    BY TypeNext, HasTargetNext DEF OrderInv, TypeInv
  <1>1. \A p \in Person : person'[p].pc = "write" => person'[p].group > 0
    BY <1>0, ResumesStayAhead DEF OrderInv
  <1>2. ASSUME run'.attemptGroup = 0, NEW s \in Step,
               Sent(s)' \/ \E w \in Worker : Chooses(w, s)'
        PROVE  EarlierBegun(s)'
    <2>1. ~ Restart
      <3>1. ASSUME NEW p \in Person, ResumeWrite(p) PROVE FALSE
        <4>1. run'.attemptGroup = person[p].group /\ person[p].pc = "write"
          BY <3>1 DEF ResumeWrite, ResumedRun
        <4> QED
          BY <1>2, <4>1 DEF OrderInv
      <3> QED
        BY <3>1 DEF Restart
    <2>2. run.attemptGroup = 0
      BY <1>0, <1>2, <2>1, SameGroup
    <2>3. \/ Sent(s)
          \/ \E w \in Worker : Chooses(w, s) \/ IsNextRunnable(s)
      <3>1. Sent(s)' => Sent(s) \/ \E w \in Worker : Chooses(w, s)
        BY <1>0, <2>1, SentWasChosen
      <3>2. \A w \in Worker : Chooses(w, s)' => Chooses(w, s) \/ IsNextRunnable(s)
        BY <1>0, <2>1, ChosenWasNext
      <3> QED
        BY <1>2, <3>1, <3>2
    <2>4. EarlierBegun(s)
      BY <2>2, <2>3, NextHasEarlierBegun DEF OrderInv
    <2> QED
      BY <1>0, <2>1, <2>4, EarlierStaysBegun
  <1> QED
    BY <1>0, <1>1, <1>2 DEF OrderInv

(* A run that is new has sent nothing.                                     *)
LEMMA OrderInit == Init => OrderInv
  <1> SUFFICES ASSUME Init PROVE OrderInv
    OBVIOUS
  <1>1. TypeInv
    BY TypeInvInit
  <1>2. \A p \in Person : person[p].pc = "idle"
    BY DEF Init, Away
  <1>3. ASSUME NEW s \in Step PROVE ~ Sent(s)
    <2>1. outbox[RunStep(s)] = 0 /\ \A w \in Worker : batch[w][RunStep(s)] = 0
      BY MessagesDiffer DEF Init, NoMessages
    <2> QED
      BY <2>1 DEF Sent
  <1>4. ASSUME NEW s \in Step, NEW w \in Worker PROVE ~ Chooses(w, s)
    BY DEF Init, Idle, Chooses
  <1> QED
    BY <1>1, <1>2, <1>3, <1>4 DEF OrderInv

(* Until the run is first resumed, no step is begun while an earlier one   *)
(* has yet to begin, for any number of workers, with ids of their own or   *)
(* not, whatever crashes, lapses, is lost, repeated or swept up.           *)
THEOREM StepsStartInOrder == Spec => StartsInOrder
  <1>1. OrderInv /\ [Next]_vars =>
          [\A s \in Step : Claims(s) /\ run.attemptGroup = 0 =>
             \A t \in Step : t < s => step[t].status # "pending"]_vars
    <2> SUFFICES ASSUME OrderInv, [Next]_vars, NEW s \in Step, Claims(s), run.attemptGroup = 0
                 PROVE  \A t \in Step : t < s => step[t].status # "pending"
      OBVIOUS
    <2>1. TypeInv /\ TypeOK /\ epoch \in [Step -> Nat]
      BY DEF OrderInv, TypeInv, TypeOK
    <2>2. Sent(s)
      <3>1. PICK w \in Worker, t \in Step :
              ClaimStep(w) /\ epoch' = [epoch EXCEPT ![t] = epoch[t] + 1]
        BY <2>1, WorkersMove DEF Claims
      <3>2. s = t
        BY <2>1, <3>1 DEF Claims
      <3>3. PICK u \in Step : /\ batch[w][RunStep(u)] > 0
                              /\ \/ epoch' = [epoch EXCEPT ![u] = epoch[u] + 1]
                                 \/ epoch' = epoch
        BY <3>1 DEF ClaimStep, Takes
      <3>4. s = u
        BY <2>1, <3>3 DEF Claims
      <3> QED
        BY <3>3, <3>4 DEF Sent
    <2> QED
      BY <2>2 DEF OrderInv, EarlierBegun
  <1> QED
    BY <1>1, OrderInit, OrderNext, PTL DEF Spec, StartsInOrder
================================================================================
