---------------------------- MODULE DurableRunProps ----------------------------
(***************************************************************************)
(* What is claimed of DurableRun. The first part holds; the second part    *)
(* states what a doc, a comment or a test says and the code does not do.   *)
(***************************************************************************)
EXTENDS DurableRun

(* Somebody starts the run again: the only thing that may undo a step.     *)
Restart == \E p \in Person : ResumeWrite(p)

Working(w) == worker[w].pc \in {"exec", "record"}

Settled(row) == Finished(row) \/ FailedForGood(row) \/ Paused(row)

--------------------------------------------------------------------------------
(* The lease guard implements fencing tokens (repository.ts:423-443). A    *)
(* retry that is owed is as open as a step nobody has started.             *)
PhaseOf(row) ==
  CASE row.status = "running" -> "held"
    [] Settled(row)           -> "shut"
    [] OTHER                  -> "open"

Fenced == INSTANCE FencedSteps WITH
            phase   <- [s \in Step |-> PhaseOf(step[s])],
            latest  <- epoch,
            tickets <- {<<worker[w].target, worker[w].token>> : w \in {v \in Worker : Working(v)}}

(* However claims, lapsed leases, crashes and late results interleave, a   *)
(* step is only ever changed by the newest claim of it, or by a resume.    *)
ImplementsFencing == Fenced!Spec

(* A worker whose id a running step carries is the newest claimant of that *)
(* step, and no two workers work on the same claim.                        *)
Fence ==
  /\ \A w \in Worker : Working(w) =>
       LET s == worker[w].target IN
       /\ s \in Step
       /\ worker[w].token <= epoch[s]
       /\ step[s].status = "running" /\ step[s].owner = IdOf[w]
            => worker[w].token = epoch[s]
  /\ \A v, w \in Worker :
       /\ Working(v) /\ Working(w) /\ v # w
       /\ worker[v].target = worker[w].target
       => worker[v].token # worker[w].token

(* The counters of the runs row agree with the step rows, although they    *)
(* are incremented by whoever records and never recomputed                 *)
(* (executor.ts:229-232 and 310-313, resume.ts:97-102).                    *)
CountersAgree ==
  /\ run.stepsSucceeded = Cardinality({s \in Step : step[s].status = "succeeded"})
  /\ run.stepsFailed = Cardinality({s \in Step : FailedForGood(step[s])})

(* Until the run is started again, no late writer takes back an attempt or *)
(* a deferral that another one has recorded, although recordFailure writes *)
(* absolute values computed before its transaction (executor.ts:254-270).  *)
NothingUnspent ==
  [][Restart \/ \A s \in Step : /\ step'[s].consumed >= step[s].consumed
                                /\ step'[s].deferrals >= step[s].deferrals]_vars

(* A step that may still be tried has budget left: no path of claims,      *)
(* lapsed leases and failures buys an attempt more than the limits allow   *)
(* (retry.ts:98-171).                                                      *)
BudgetLeft ==
  \A s \in Step : ~ Settled(step[s]) =>
    /\ step[s].consumed < MaxAttempts
    /\ step[s].deferrals < MaxDeferrals

(* A step that has ended stays as it ended until the run is started again: *)
(* no duplicate delivery, late result or branch decision touches it        *)
(* (repository.ts:646-653).                                                *)
EndedStaysEnded ==
  [][\A s \in Step : Settled(step[s]) => Restart \/ step'[s].status = step[s].status]_vars

(* The dead letters of an attempt group tell exactly which steps ran out   *)
(* of which budget (executor.ts:319-331).                                  *)
DeadLettersTell ==
  \A s \in Step :
    LET reasons == {dlq[e].reason : e \in {d \in DOMAIN dlq : /\ dlq[d].step = s
                                                              /\ dlq[d].group = step[s].group}}
    IN  /\ step[s].consumed >= MaxAttempts <=> "attempts_exhausted" \in reasons
        /\ step[s].deferrals >= MaxDeferrals <=> "deferrals_exhausted" \in reasons

(* A run that says how it ended is right about its steps, although the     *)
(* verdict is written in a later statement than the reads it rests on      *)
(* (orchestrator.ts:101-143). Only while nobody restarts the run.          *)
VerdictJustified ==
  /\ run.status = "succeeded" => \A s \in Step : Finished(step[s])
  /\ run.status = "failed" => \E s \in Step : FailedForGood(step[s])
  /\ run.status = "waiting_confirmation" => \E s \in Step : Paused(step[s])

(* Nothing that could still start a step is under way.                     *)
Quiet ==
  /\ \A w \in Worker : worker[w].pc \notin {"next", "list", "write"}
  /\ \A s \in Step : /\ outbox[RunStep(s)] = 0
                     /\ \A w \in Worker : batch[w][RunStep(s)] = 0

(* Once a run has ended and nothing is under way, no duplicate, no retry   *)
(* that comes due, no lapsed lease and no sweep starts it moving again:    *)
(* only a resume does (orchestrator.ts:38-39, janitor.ts:37-38).           *)
EndIsQuiet ==
  [][run.status \in TerminalRunStatus /\ Quiet =>
       Restart \/ (run'.status \in TerminalRunStatus /\ Quiet')]_vars

Claims(s) == epoch'[s] # epoch[s]

(* Until the run is first resumed, no step is begun while an earlier one   *)
(* has yet to begin: whatever message comes late, twice or out of turn,    *)
(* whatever is lost, swept up or claimed for the second time               *)
(* (orchestrator.ts:73-93, repository.ts:359-385). That the earlier ones   *)
(* have finished is more than the code does: see ChainInOrder.             *)
StartsInOrder ==
  [][\A s \in Step : Claims(s) /\ run.attemptGroup = 0 =>
       \A t \in Step : t < s => step[t].status # "pending"]_vars

--------------------------------------------------------------------------------
(* Liveness                                                                *)

Stopped == isTerminal(run.status) \/ run.status = "waiting_confirmation"

(* "flush the queue entirely, and every non-terminal run still finishes"   *)
(* (janitor.ts:14-15): whatever crashes and is lost, a run that is started *)
(* comes to an end, or to a question only a person can answer.             *)
AlwaysStops == []<>Stopped

--------------------------------------------------------------------------------
(* Claimed by the docs, and true only in part                              *)

(* "the orchestrator takes the lowest unfinished step" (types.ts:64): no   *)
(* step is started before every earlier one has finished. True while one   *)
(* worker does everything and nothing is ambiguous. A second advance_run   *)
(* breaks it, because a step that another worker is running, or whose      *)
(* retry is not due, is unfinished but not a blocker (repository.ts:359).  *)
ChainInOrder ==
  [][\A s \in Step : Claims(s) => \A t \in Step : t < s => Finished(step[t])]_vars

(* "Anything reachable only through the other arm never runs"              *)
(* (branching.ts:59-60): of two steps that a fork decides between, one at  *)
(* most is done. True while one worker does everything, nothing is lost    *)
(* and nobody resumes the run. A second advance_run, which the janitor     *)
(* makes for a message that is in a batch already, starts an arm while the *)
(* fork is still running. A resume that starts after the fork sets the     *)
(* untaken arm back to pending too (resume.ts:87-95). A fork that was dead *)
(* or never ran before a resume passed it over has decided nothing.        *)
HasDecided(s) ==
  /\ step[s].status \in {"succeeded", "skipped_resumed"} /\ epoch[s] > 0
  /\ \A e \in DOMAIN dlq : dlq[e].step # s

OneArmRuns ==
  \A s \in Step : \A a, b \in Abandons[s] : HasDecided(s) /\ a \cap b = {} =>
    ~ \E t \in a, u \in b : step[t].status = "succeeded" /\ step[u].status = "succeeded"

(* "After an ambiguous failure the run pauses and asks" (README.md:26): no *)
(* step is started while an earlier one waits for confirmation.            *)
QuestionHoldsTheChain ==
  [][\A s \in Step : Claims(s) => \A t \in Step : t < s => ~ Paused(step[t])]_vars

(* "a duplicate advance_run message must be a no-op, not a resurrection"   *)
(* (orchestrator.ts:38): a run that has ended stays ended until somebody   *)
(* resumes it.                                                             *)
EndedRunStaysEnded ==
  [][isTerminal(run.status) => Restart \/ run'.status = run.status]_vars

(* "The orchestrator checks cancel_requested_at at every transition"       *)
(* (autobuild-engineering-plan.md:410), "Terminal state is cancelled"      *)
(* (413): a run somebody has asked to cancel ends, or is started again.    *)
CancelEndsRun == run.cancelRequested ~> isTerminal(run.status) \/ ~ run.cancelRequested

================================================================================
