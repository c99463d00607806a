------------------------------- MODULE DurableRun -------------------------------
(***************************************************************************)
(* The core of automa-durable-runner: one run, its step rows, the outbox   *)
(* and the workers that drain it, at the granularity of the SQL statements *)
(* and transactions of src/engine (READ COMMITTED: every statement reads   *)
(* its own snapshot, writes become visible at commit).                     *)
(*                                                                         *)
(* Runs never read each other's rows (the concurrency ceilings excepted,   *)
(* which are in Capacity), so one run is the whole story of a run;         *)
(* the messages of other runs in a worker's batch only make it slower.     *)
(*                                                                         *)
(* Time is abstracted to what the queries compare with now(): a lease is   *)
(* live or has lapsed, a retry is due later or is due, the deadline has    *)
(* passed or not.                                                          *)
(*                                                                         *)
(* An operator named ...Slip is not part of the model. It is the           *)
(* definition it is named after with a plausible mistake in it, kept to    *)
(* try out that the properties notice.                                     *)
(***************************************************************************)
EXTENDS RetryPolicy, Integers, Sequences, FiniteSets, Folds, Functions

CONSTANTS
  NumSteps,      \* steps of the flow, in topological order 1..NumSteps
  Worker,        \* the worker processes
  WorkerId,      \* the values ExecutorDeps.workerId may have
  IdOf,          \* worker -> its workerId
  NoWorker,      \* a NULL worker_id
  Person,        \* people who may resume the run or replay a dead letter
  Idempotent,    \* the steps whose node is declared idempotent
  Abandons,      \* step -> the sets of steps its success may mark skipped
  Failures,      \* the error classes a handler may report
  MaxAttempts,   \* max_attempts of a step
  MaxDeferrals,  \* max_deferrals of a step
  BatchSize,     \* drainQueue's batchSize
  HasDeadline,   \* was the run created with runTimeoutMs?
  Cancellable,   \* may someone call requestCancel?
  MaxGroup,      \* bound: how many times the run is resumed
  MaxLosses,     \* bound: worker crashes and queue losses
  MaxClaims,     \* bound: claims of a step after which no lease lapses early
  MaxMessages    \* bound: messages in the system above which no sweep adds one

Step == 1 .. NumSteps
NoStep == 0

ASSUME CountsAssumption ==
  /\ NumSteps \in Nat /\ MaxAttempts \in Nat /\ MaxDeferrals \in Nat
  /\ BatchSize \in Nat /\ MaxGroup \in Nat /\ MaxLosses \in Nat
  /\ MaxClaims \in Nat /\ MaxMessages \in Nat
  /\ HasDeadline \in BOOLEAN /\ Cancellable \in BOOLEAN

ASSUME WorkerAssumption ==
  /\ IdOf \in [Worker -> WorkerId]
  /\ NoWorker \notin WorkerId

ASSUME FlowAssumption ==
  /\ Idempotent \subseteq Step
  /\ Failures \subseteq ErrorClass
  (* compileFlow orders the nodes topologically: an arm follows its branch *)
  /\ Abandons \in [Step -> SUBSET SUBSET Step]
  /\ \A s \in Step : \A arm \in Abandons[s] : \A t \in arm : s < t

RunStatus == {"queued", "running", "waiting_confirmation",
              "succeeded", "failed", "cancelled", "timed_out"}
TerminalRunStatus == {"succeeded", "failed", "cancelled", "timed_out"}

StepStatus == {"pending", "dispatched", "running", "succeeded", "failed", "skipped",
               "skipped_resumed", "cancelled", "timed_out", "waiting_confirmation"}

(* The outbox messages of this run. AdvanceLater(s) is the advance_run     *)
(* that a retry of s schedules, held back until the retry is due; then it  *)
(* is an Advance like any other.                                           *)
Advance         == [topic |-> "advance_run", step |-> NoStep]
AdvanceLater(s) == [topic |-> "advance_run_later", step |-> s]
RunStep(s)      == [topic |-> "run_step", step |-> s]
Ready           == {Advance} \cup {RunStep(s) : s \in Step}
Message         == Ready \cup {AdvanceLater(s) : s \in Step}

NoMessages == [m \in Message |-> 0]
SizeOf(bag) == FoldFunction(+, 0, bag)
Batches == {b \in [Ready -> 0 .. BatchSize] : SizeOf(b) \in 1 .. BatchSize}

Results == {"ok"} \cup Failures

VARIABLES
  run,       \* the runs row
  overdue,   \* the clocks by which deadline_at has passed: "db", "node"
  step,      \* the step_executions rows
  outbox,    \* the outbox rows: how many of each message
  batch,     \* per worker: messages claimed and deleted, not yet processed
  worker,    \* per worker: where it is inside advanceRun or runStep
  person,    \* per person: the resume they have read for and not yet written
  dlq,       \* the dlq_entries rows, oldest first
  epoch,     \* history: per step, how often claimStep's UPDATE has matched
  losses     \* history: crashes and queue losses so far

vars == <<run, overdue, step, outbox, batch, worker, person, dlq, epoch, losses>>

--------------------------------------------------------------------------------
(* Types                                                                   *)

RunRow == [status : RunStatus, cancelRequested : BOOLEAN, attemptGroup : Nat,
           stepsSucceeded : Int, stepsFailed : Int]

(* lease: lease_expires_at is NULL, in the future, in the past.            *)
(* retry: next_attempt_at is NULL, in the future, due.                     *)
(* group: the attempt group hashed into idempotency_key.                   *)
StepRow == [status : StepStatus, owner : WorkerId \cup {NoWorker},
            lease : {"none", "live", "lapsed"}, retry : {"none", "later", "due"},
            consumed : Nat, deferrals : Nat, group : Nat]

(* A worker's locals. queued: the run row read was 'queued'. plan: what    *)
(* advanceRun is about to write. target: the step dispatched or executed.  *)
(* token: the epoch of its claim. consumed, deferrals: from the claimed    *)
(* row. result: how the handler ended.                                     *)
WorkerState == [pc : {"idle", "next", "list", "write", "exec", "record"},
                queued : BOOLEAN, plan : RunStatus \cup {"none", "dispatch"},
                target : Step \cup {NoStep}, token : Nat,
                consumed : Nat, deferrals : Nat, result : Results \cup {"none"}]

Idle == [pc |-> "idle", queued |-> FALSE, plan |-> "none", target |-> NoStep,
         token |-> 0, consumed |-> 0, deferrals |-> 0, result |-> "none"]

(* entry: the dead letter being replayed, 0 for a plain resume.            *)
PersonState == [pc : {"idle", "write"}, from : Step \cup {NoStep}, group : Nat, entry : Nat]

Away == [pc |-> "idle", from |-> NoStep, group |-> 0, entry |-> 0]

DlqReason == {"attempts_exhausted", "deferrals_exhausted", "poison"}

(* replays: how often it was replayed; replayed_at is NULL while it is 0.  *)
DlqRow == [step : Step, group : Nat, reason : DlqReason, replays : Nat]

TypeOK ==
  /\ run \in RunRow
  /\ overdue \in SUBSET {"db", "node"}
  /\ step \in [Step -> StepRow]
  /\ outbox \in [Message -> Nat]
  /\ batch \in [Worker -> [Message -> Nat]]
  /\ worker \in [Worker -> WorkerState]
  /\ person \in [Person -> PersonState]
  /\ dlq \in Seq(DlqRow)
  /\ epoch \in [Step -> Nat]
  /\ losses \in Nat

--------------------------------------------------------------------------------
(* createRun: the run, every step row and the first message, committed     *)
(* together.                                                               *)
Init ==
  /\ run = [status |-> "queued", cancelRequested |-> FALSE, attemptGroup |-> 0,
            stepsSucceeded |-> 0, stepsFailed |-> 0]
  /\ overdue = {}
  /\ step = [s \in Step |-> [status |-> "pending", owner |-> NoWorker, lease |-> "none",
                             retry |-> "none", consumed |-> 0, deferrals |-> 0, group |-> 0]]
  /\ outbox = [NoMessages EXCEPT ![Advance] = 1]
  /\ batch = [w \in Worker |-> NoMessages]
  /\ worker = [w \in Worker |-> Idle]
  /\ person = [p \in Person |-> Away]
  /\ dlq = << >>
  /\ epoch = [s \in Step |-> 0]
  /\ losses = 0

(* Slip: only the two ends somebody reads about count as ends.             *)
isTerminalSlip(status) == status \in {"succeeded", "cancelled"}

isTerminal(status) == status \in TerminalRunStatus

(* The condition of claimStep's UPDATE, and of nextRunnableStep's WHERE.   *)
Claimable(row) ==
  \/ row.status = "pending"
  \/ row.status = "failed" /\ row.retry = "due"
  \/ row.status = "running" /\ row.lease = "lapsed"

(* nextRunnableStep's NOT EXISTS: an earlier step that ended for good.     *)
Blocker(row) ==
  \/ row.status \in {"timed_out", "cancelled"}
  \/ row.status = "failed" /\ row.retry = "none"

Candidates == {s \in Step : /\ Claimable(step[s])
                            /\ \A t \in Step : t < s => ~ Blocker(step[t])}

(* Slip: no ORDER BY.                                                      *)
IsNextRunnableSlip(s) == s \in Candidates

IsNextRunnable(s) == s \in Candidates /\ \A t \in Candidates : s <= t

Finished(row) == row.status \in {"succeeded", "skipped", "skipped_resumed", "cancelled"}
FailedForGood(row) == row.status = "timed_out" \/ (row.status = "failed" /\ row.retry = "none")
Paused(row) == row.status = "waiting_confirmation"

(* Slip: a run with nothing left to start counts as succeeded.             *)
VerdictSlip(status) ==
  \/ status = "failed" /\ \E s \in Step : FailedForGood(step[s])
  \/ status = "succeeded" /\ \A s \in Step : step[s].status # "pending"

(* What finishOrWait writes as the run's status, if anything.              *)
Verdict(status) ==
  \/ /\ status = "failed"
     /\ \E s \in Step : FailedForGood(step[s])
  \/ /\ status = "waiting_confirmation"
     /\ \A s \in Step : ~ FailedForGood(step[s])
     /\ \E s \in Step : Paused(step[s])
  \/ /\ status = "succeeded"
     /\ \A s \in Step : Finished(step[s])

--------------------------------------------------------------------------------
(* drainQueue                                                              *)

(* One transaction claims a batch of due rows and deletes them. Rows that  *)
(* another relay has locked are skipped, so any due rows may be the batch. *)
ClaimBatch(w) ==
  /\ worker[w].pc = "idle" /\ batch[w] = NoMessages
  /\ \E b \in Batches :
       /\ \A m \in Ready : b[m] <= outbox[m]
       /\ outbox' = [m \in Message |-> IF m \in Ready THEN outbox[m] - b[m] ELSE outbox[m]]
       /\ batch' = [batch EXCEPT ![w] = [m \in Message |-> IF m \in Ready THEN b[m] ELSE 0]]
  /\ UNCHANGED <<run, overdue, step, worker, person, dlq, epoch, losses>>

(* Slip: a message is processed without being in the batch.                *)
TakesSlip(w, m) ==
  /\ worker[w].pc = "idle"
  /\ batch' = [batch EXCEPT ![w][m] = @ - 1]

(* A message of the batch reaches its handler.                             *)
Takes(w, m) ==
  /\ worker[w].pc = "idle" /\ batch[w][m] > 0
  /\ batch' = [batch EXCEPT ![w][m] = @ - 1]

(* Worker w's locals become those of state.                                *)
Becomes(w, state) == worker' = [worker EXCEPT ![w] = state]

Enqueue(m) == outbox' = [outbox EXCEPT ![m] = @ + 1]

--------------------------------------------------------------------------------
(* advanceRun: one transaction, whose statements each take a snapshot      *)

setRunStatus(status) == [run EXCEPT !.status = status]

Plans(w, plan, s) == [worker[w] EXCEPT !.pc = "write", !.plan = plan, !.target = s]
Seeks(w) == [worker[w] EXCEPT !.pc = "next", !.queued = (run.status = "queued")]
Lists(w) == [worker[w] EXCEPT !.pc = "list"]

(* getRun, and the exits that depend on it alone.                          *)
AdvanceRead(w) ==
  /\ Takes(w, Advance)
  /\ \/ /\ isTerminal(run.status)
        /\ UNCHANGED worker
     \/ /\ ~ isTerminal(run.status) /\ run.cancelRequested
        /\ Becomes(w, Plans(w, "cancelled", NoStep))
     \/ /\ ~ isTerminal(run.status) /\ ~ run.cancelRequested /\ "node" \in overdue
        /\ Becomes(w, Plans(w, "timed_out", NoStep))
     \/ /\ ~ isTerminal(run.status) /\ ~ run.cancelRequested /\ "node" \notin overdue
        /\ Becomes(w, Seeks(w))
  /\ UNCHANGED <<run, overdue, step, outbox, person, dlq, epoch, losses>>

(* nextRunnableStep                                                        *)
AdvanceNext(w) ==
  /\ worker[w].pc = "next"
  /\ \/ \E s \in Step : IsNextRunnable(s) /\ Becomes(w, Plans(w, "dispatch", s))
     \/ Candidates = {} /\ Becomes(w, Lists(w))
  /\ UNCHANGED <<run, overdue, step, outbox, batch, person, dlq, epoch, losses>>

(* finishOrWait's listSteps                                                *)
AdvanceList(w) ==
  /\ worker[w].pc = "list"
  /\ \/ \E status \in RunStatus :
          /\ Verdict(status)
          /\ Becomes(w, Plans(w, status, NoStep))
     \/ /\ \A status \in RunStatus : ~ Verdict(status)
        /\ Becomes(w, Idle)
  /\ UNCHANGED <<run, overdue, step, outbox, batch, person, dlq, epoch, losses>>

(* The writes and the commit. setRunStatus does not look at what the row   *)
(* has become since getRun.                                                *)
AdvanceWrite(w) ==
  /\ worker[w].pc = "write"
  /\ \/ /\ worker[w].plan = "dispatch"
        /\ run' = IF worker[w].queued THEN setRunStatus("running") ELSE run
        /\ Enqueue(RunStep(worker[w].target))
     \/ /\ worker[w].plan \in RunStatus
        /\ run' = setRunStatus(worker[w].plan)
        /\ UNCHANGED outbox
  /\ Becomes(w, Idle)
  /\ UNCHANGED <<overdue, step, batch, person, dlq, epoch, losses>>

--------------------------------------------------------------------------------
(* runStep                                                                 *)

(* Slip: the claim leaves a former owner's name on the row.                *)
ClaimedSlip(row, w) ==
  [row EXCEPT !.status = "running", !.lease = "live",
              !.owner = IF @ = NoWorker THEN IdOf[w] ELSE @]

Claimed(row, w) ==
  [row EXCEPT !.status = "running", !.owner = IdOf[w], !.lease = "live"]

Executes(s) ==
  [Idle EXCEPT !.pc = "exec", !.target = s, !.token = epoch[s] + 1,
               !.consumed = step[s].consumed, !.deferrals = step[s].deferrals]

(* The conditional UPDATE of claimStep. When it matches no row, someone    *)
(* else has the step and the message is dropped.                           *)
ClaimStep(w) ==
  /\ \E s \in Step :
       /\ Takes(w, RunStep(s))
       /\ \/ /\ Claimable(step[s])
             /\ step' = [step EXCEPT ![s] = Claimed(@, w)]
             /\ epoch' = [epoch EXCEPT ![s] = @ + 1]
             /\ Becomes(w, Executes(s))
          \/ /\ ~ Claimable(step[s])
             /\ UNCHANGED <<step, epoch, worker>>
  /\ UNCHANGED <<run, overdue, outbox, person, dlq, losses>>

Records(w, result) == [worker[w] EXCEPT !.pc = "record", !.result = result]

(* The handler runs outside any transaction and ends somehow.              *)
Execute(w) ==
  /\ worker[w].pc = "exec"
  /\ \E result \in Results : Becomes(w, Records(w, result))
  /\ UNCHANGED <<run, overdue, step, outbox, batch, person, dlq, epoch, losses>>

(* Slip: whether the UPDATE matched is not looked at.                      *)
HoldsSlip(w) == TRUE

(* Slip: the UPDATE does not name the worker.                              *)
HoldsUnnamedSlip(w) == step[worker[w].target].status = "running"

(* recordSuccess and recordFailure write WHERE worker_id = me AND status = *)
(* 'running'; otherwise the result is stale and nothing is written.        *)
Holds(w) == LET s == worker[w].target IN
            step[s].owner = IdOf[w] /\ step[s].status = "running"

Outcome(w) == onAttemptFailed([consumed |-> worker[w].consumed, deferrals |-> worker[w].deferrals],
                              worker[w].result, worker[w].target \in Idempotent,
                              MaxAttempts, MaxDeferrals)

RecordStale(w) ==
  /\ worker[w].pc = "record" /\ ~ Holds(w)
  /\ Becomes(w, Idle)
  /\ UNCHANGED <<run, overdue, step, outbox, batch, person, dlq, epoch, losses>>

recordSuccess(row) ==
  [row EXCEPT !.status = "succeeded", !.lease = "none", !.retry = "none"]

(* Only a pending step is skipped because a branch went the other way.     *)
markSkipped(row) ==
  IF row.status = "pending" THEN [row EXCEPT !.status = "skipped"] ELSE row

(* The step, the counter, the arm not taken and the next advance_run, in   *)
(* one transaction.                                                        *)
RecordSuccess(w) ==
  LET s == worker[w].target IN
  /\ worker[w].pc = "record" /\ Holds(w) /\ worker[w].result = "ok"
  /\ \E arm \in Abandons[s] : 
       step' = [t \in Step |-> IF t = s THEN recordSuccess(step[t])
                               ELSE IF t \in arm THEN markSkipped(step[t])
                               ELSE step[t]]
  /\ run' = [run EXCEPT !.stepsSucceeded = run.stepsSucceeded + 1]
  /\ Enqueue(Advance)
  /\ Becomes(w, Idle)
  /\ UNCHANGED <<overdue, batch, person, dlq, epoch, losses>>

(* recordFailure's UPDATE of the step row. Counters are absolute values    *)
(* computed from the claimed row.                                          *)
FailedRow(row, status, retry, outcome) ==
  [row EXCEPT !.status = status, !.lease = "none", !.retry = retry,
              !.consumed = outcome.consumed, !.deferrals = outcome.deferrals]

RecordRetry(w) ==
  LET s == worker[w].target IN
  /\ worker[w].pc = "record" /\ Holds(w) /\ worker[w].result \in ErrorClass
  /\ Outcome(w).kind = "retry"
  /\ step' = [step EXCEPT ![s] = FailedRow(@, "failed", "later", Outcome(w))]
  /\ Enqueue(AdvanceLater(s))
  /\ Becomes(w, Idle)
  /\ UNCHANGED <<run, overdue, batch, person, dlq, epoch, losses>>

RecordPause(w) ==
  LET s == worker[w].target IN
  /\ worker[w].pc = "record" /\ Holds(w) /\ worker[w].result \in ErrorClass
  /\ Outcome(w).kind = "pause"
  /\ step' = [step EXCEPT ![s] = FailedRow(@, "waiting_confirmation", "none", Outcome(w))]
  /\ Enqueue(Advance)
  /\ Becomes(w, Idle)
  /\ UNCHANGED <<run, overdue, batch, person, dlq, epoch, losses>>

(* Slip: one more than the limit.                                          *)
DlqReasonsSlip(outcome, class) ==
  IF outcome.kind = "exhausted"
  THEN {IF outcome.consumed > MaxAttempts THEN "attempts_exhausted" ELSE "deferrals_exhausted"}
  ELSE {class} \cap {"poison"}

(* The dlqReason of executor.ts, {} when the failure is not dead-lettered. *)
DlqReasons(outcome, class) ==
  IF outcome.kind = "exhausted"
  THEN {IF outcome.consumed >= MaxAttempts THEN "attempts_exhausted" ELSE "deferrals_exhausted"}
  ELSE {class} \cap {"poison"}

RecordFailed(w) ==
  LET s == worker[w].target IN
  /\ worker[w].pc = "record" /\ Holds(w) /\ worker[w].result \in ErrorClass
  /\ Outcome(w).kind \in {"exhausted", "terminal"}
  /\ step' = [step EXCEPT ![s] = FailedRow(@, "failed", "none", Outcome(w))]
  /\ run' = [run EXCEPT !.stepsFailed = run.stepsFailed + 1]
  /\ \/ \E reason \in DlqReasons(Outcome(w), worker[w].result) :
          dlq' = Append(dlq, [step |-> s, group |-> step[s].group, reason |-> reason,
                              replays |-> 0])
     \/ DlqReasons(Outcome(w), worker[w].result) = {} /\ UNCHANGED dlq
  /\ Enqueue(Advance)
  /\ Becomes(w, Idle)
  /\ UNCHANGED <<overdue, batch, person, epoch, losses>>

Record(w) == RecordStale(w) \/ RecordSuccess(w) \/ RecordRetry(w) \/ RecordPause(w) \/ RecordFailed(w)

--------------------------------------------------------------------------------
(* The janitor, run by a worker between two drains                         *)

LapsedLease  == \E s \in Step : step[s].status = "running" /\ step[s].lease = "lapsed"
OverdueRun   == run.status \in {"queued", "running"} /\ "db" \in overdue

(* Slip: a run that never got going is not looked for.                     *)
StrandedRunSlip == /\ run.status = "running"
                   /\ outbox = NoMessages
                   /\ \A s \in Step : ~ (step[s].status = "running" /\ step[s].lease = "live")

StrandedRun  == /\ run.status \in {"queued", "running"}
                /\ outbox = NoMessages
                /\ \A s \in Step : ~ (step[s].status = "running" /\ step[s].lease = "live")

InSystem == SizeOf(outbox) + FoldFunction(+, 0, [w \in Worker |-> SizeOf(batch[w])])

Sweep(w) ==
  /\ worker[w].pc = "idle" /\ batch[w] = NoMessages
  /\ LapsedLease \/ OverdueRun \/ StrandedRun
  /\ InSystem < MaxMessages
  /\ Enqueue(Advance)
  /\ UNCHANGED <<run, overdue, step, batch, worker, person, dlq, epoch, losses>>

--------------------------------------------------------------------------------
(* What people do                                                          *)

RequestCancel ==
  /\ Cancellable
  /\ ~ isTerminal(run.status) /\ ~ run.cancelRequested
  /\ run' = [run EXCEPT !.cancelRequested = TRUE]
  /\ UNCHANGED <<overdue, step, outbox, batch, worker, person, dlq, epoch, losses>>

(* resumeRun reads the run and checks that it has stopped; no row is       *)
(* locked by that, so what it then writes may meet a run that has moved on.*)
MayResume == /\ run.status \in {"failed", "cancelled", "timed_out", "waiting_confirmation"}
             /\ run.attemptGroup < MaxGroup

ResumeRead(p) ==
  /\ person[p] = Away /\ MayResume
  /\ \E s \in Step :
       person' = [person EXCEPT ![p] = [pc |-> "write", from |-> s,
                                        group |-> run.attemptGroup + 1, entry |-> 0]]
  /\ UNCHANGED <<run, overdue, step, outbox, batch, worker, dlq, epoch, losses>>

(* replayDlqEntry checks replayed_at, then is a resumeRun in the same      *)
(* transaction.                                                            *)
ReplayRead(p) ==
  /\ person[p] = Away /\ MayResume
  /\ \E e \in DOMAIN dlq :
       /\ dlq[e].replays = 0
       /\ person' = [person EXCEPT ![p] = [pc |-> "write", from |-> dlq[e].step,
                                           group |-> run.attemptGroup + 1, entry |-> e]]
  /\ UNCHANGED <<run, overdue, step, outbox, batch, worker, dlq, epoch, losses>>

(* Slip: the counters of the last attempt group are kept.                  *)
ResumedRunSlip(group) ==
  [run EXCEPT !.status = "queued", !.cancelRequested = FALSE, !.attemptGroup = group]

ResumedRun(group) ==
  [status |-> "queued", cancelRequested |-> FALSE, attemptGroup |-> group,
   stepsSucceeded |-> 0, stepsFailed |-> 0]

(* resume.ts has a markSkipped of its own, which looks at nothing.         *)
Kept(row) == [row EXCEPT !.status = "skipped_resumed", !.owner = NoWorker,
                         !.lease = "none", !.retry = "none"]

resetStep(group) ==
  [status |-> "pending", owner |-> NoWorker, lease |-> "none", retry |-> "none",
   consumed |-> 0, deferrals |-> 0, group |-> group]

(* Earlier steps keep their output and are skipped; the step itself and    *)
(* the later ones start again in a new attempt group.                      *)
ResumeWrite(p) ==
  LET from == person[p].from
      group == person[p].group IN
  /\ person[p].pc = "write"
  /\ run' = ResumedRun(group)
  /\ step' = [t \in Step |-> IF t < from THEN Kept(step[t]) ELSE resetStep(group)]
  /\ Enqueue(Advance)
  /\ dlq' = [e \in DOMAIN dlq |-> IF e = person[p].entry
                                  THEN [dlq[e] EXCEPT !.replays = @ + 1] ELSE dlq[e]]
  /\ person' = [person EXCEPT ![p] = Away]
  /\ UNCHANGED <<overdue, batch, worker, epoch, losses>>

--------------------------------------------------------------------------------
(* What time and failures do                                               *)

(* A lease lapses because its owner is gone or because the owner is slow.  *)
Owned(s) == \E w \in Worker : worker[w].pc \in {"exec", "record"} /\ worker[w].target = s
                              /\ worker[w].token = epoch[s]

LeaseLapses(s) ==
  /\ step[s].status = "running" /\ step[s].lease = "live"
  /\ Owned(s) => epoch[s] < MaxClaims
  /\ step' = [step EXCEPT ![s].lease = "lapsed"]
  /\ UNCHANGED <<run, overdue, outbox, batch, worker, person, dlq, epoch, losses>>

(* next_attempt_at and the advance_run's available_at are the same instant.*)
(* A resume may have cleared the first: the message still comes due.       *)
RetryComesDue(s) ==
  /\ step[s].retry = "later" \/ outbox[AdvanceLater(s)] > 0
  /\ IF outbox[AdvanceLater(s)] > 0
     THEN outbox' = [m \in Message |-> CASE m = AdvanceLater(s) -> outbox[m] - 1
                                          [] m = Advance         -> outbox[m] + 1
                                          [] OTHER               -> outbox[m]]
     ELSE UNCHANGED outbox
  /\ \/ /\ step[s].retry = "later"
        /\ step' = [step EXCEPT ![s].retry = "due"]
     \/ /\ step[s].retry # "later" \/ outbox[AdvanceLater(s)] > 1
        /\ UNCHANGED step
  /\ UNCHANGED <<run, overdue, batch, worker, person, dlq, epoch, losses>>

(* The deadline passes by the database's clock and by the workers' clocks, *)
(* in either order: advanceRun compares deadline_at with Date.now().       *)
DeadlinePasses(clock) ==
  /\ HasDeadline /\ clock \notin overdue
  /\ overdue' = overdue \cup {clock}
  /\ UNCHANGED <<run, step, outbox, batch, worker, person, dlq, epoch, losses>>

(* A worker dies, or a database error escapes into its loop: an open       *)
(* transaction rolls back and the rest of the batch, already deleted from  *)
(* the outbox, is gone. It comes back idle.                                *)
Crash(w) ==
  /\ losses < MaxLosses
  /\ worker[w] # Idle \/ batch[w] # NoMessages
  /\ Becomes(w, Idle)
  /\ batch' = [batch EXCEPT ![w] = NoMessages]
  /\ losses' = losses + 1
  /\ UNCHANGED <<run, overdue, step, outbox, person, dlq, epoch>>

(* The queue is wiped.                                                     *)
LoseQueue ==
  /\ losses < MaxLosses /\ outbox # NoMessages
  /\ outbox' = NoMessages
  /\ losses' = losses + 1
  /\ UNCHANGED <<run, overdue, step, batch, worker, person, dlq, epoch>>

--------------------------------------------------------------------------------

Process(w) == AdvanceRead(w) \/ AdvanceNext(w) \/ AdvanceList(w) \/ AdvanceWrite(w)
              \/ ClaimStep(w) \/ Execute(w) \/ Record(w)

Next ==
  \/ \E w \in Worker : ClaimBatch(w) \/ Process(w) \/ Sweep(w) \/ Crash(w)
  \/ \E s \in Step : LeaseLapses(s) \/ RetryComesDue(s)
  \/ \E clock \in {"db", "node"} : DeadlinePasses(clock)
  \/ \E p \in Person : ResumeRead(p) \/ ReplayRead(p) \/ ResumeWrite(p)
  \/ RequestCancel
  \/ LoseQueue

Spec == Init /\ [][Next]_vars

(* A live worker keeps processing what it has claimed, drains oldest rows  *)
(* first (ORDER BY id), so no due row waits for ever, and sweeps between   *)
(* drains. Time passes. Nobody is obliged to cancel, resume or crash.      *)
ClaimsMessage(w, m) == ClaimBatch(w) /\ batch'[w][m] > 0

Fairness ==
  /\ \A w \in Worker : WF_vars(Process(w)) /\ SF_vars(Sweep(w))
  /\ \A m \in Message : SF_vars(\E w \in Worker : ClaimsMessage(w, m))
  /\ \A s \in Step : WF_vars(LeaseLapses(s)) /\ WF_vars(RetryComesDue(s))
  /\ \A clock \in {"db", "node"} : WF_vars(DeadlinePasses(clock))

FairSpec == Spec /\ Fairness

================================================================================
