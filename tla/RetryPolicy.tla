------------------------------ MODULE RetryPolicy ------------------------------
(***************************************************************************)
(* The pure retry decision of automa-durable-runner: the error-class table *)
(* (src/error-classes.ts) and the state machine that turns one failed      *)
(* attempt into a retry, an exhaustion or a terminal failure (src/retry.ts)*)
(*                                                                         *)
(* Delays are left out: when a retry comes due is decided by the clock,    *)
(* which DurableRun models.                                                *)
(***************************************************************************)
EXTENDS Naturals

ErrorClass == {"transient_network", "rate_limited", "auth_expired", "auth_broken",
               "client_error", "server_error", "timeout", "unknown_outcome",
               "internal", "poison"}

(* retryable: 'no' and 'conditional'; every other class is retryable.      *)
NotRetryable == {"auth_broken", "client_error", "unknown_outcome", "poison"}
Conditional  == {"server_error", "timeout"}

(* consumesAttempt: TRUE                                                   *)
Consuming == {"transient_network", "server_error", "timeout", "internal"}

(* The decision for class c on a call that is, or is not, safe to repeat.  *)
(* A conditional class on a call that is not becomes unknown_outcome.      *)
decideRetry(c, idempotent) ==
  LET escalated == c \in Conditional /\ ~ idempotent IN
  [ retry           |-> c \notin NotRetryable /\ ~ escalated,
    consumesAttempt |-> c \in Consuming /\ ~ escalated,
    pauses          |-> c = "unknown_outcome" \/ escalated ]

(* The counters after a failure: a consuming class spends an attempt, a    *)
(* retryable class that does not consume is a deferral.                    *)
ConsumedAfter(consumed, decision) ==
  IF decision.consumesAttempt THEN consumed + 1 ELSE consumed

DeferralsAfter(deferrals, decision) ==
  IF decision.retry /\ ~ decision.consumesAttempt THEN deferrals + 1 ELSE deferrals

(* Slip: one attempt too many.                                             *)
ExhaustedSlip(consumed, deferrals, decision, maxAttempts, maxDeferrals) ==
  IF decision.consumesAttempt THEN consumed > maxAttempts
                              ELSE deferrals > maxDeferrals

(* Is the budget gone: no attempt remains for a consuming failure, or the  *)
(* ceiling on deferrals is reached for one that is not.                    *)
Exhausted(consumed, deferrals, decision, maxAttempts, maxDeferrals) ==
  IF decision.consumesAttempt THEN consumed >= maxAttempts
                              ELSE deferrals >= maxDeferrals

(* What happens after a failed attempt. kind is "retry", "exhausted",      *)
(* "pause" (terminal with action pause_for_confirmation) or "terminal".    *)
onAttemptFailed(state, c, idempotent, maxAttempts, maxDeferrals) ==
  LET decision  == decideRetry(c, idempotent)
      consumed  == ConsumedAfter(state.consumed, decision)
      deferrals == DeferralsAfter(state.deferrals, decision)
      kind      == IF decision.retry
                   THEN IF Exhausted(consumed, deferrals, decision,
                                     maxAttempts, maxDeferrals)
                        THEN "exhausted" ELSE "retry"
                   ELSE IF decision.pauses THEN "pause" ELSE "terminal"
  IN [kind |-> kind, consumed |-> consumed, deferrals |-> deferrals]

================================================================================
