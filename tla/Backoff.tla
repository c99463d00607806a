-------------------------------- MODULE Backoff --------------------------------
(***************************************************************************)
(* How long a failed attempt waits (automa-durable-runner/src/backoff.ts). *)
(* Delays are whole milliseconds; the random draw of Full Jitter is a      *)
(* parameter, any delay below the window.                                  *)
(***************************************************************************)
EXTENDS Naturals

CONSTANTS BaseMs, CapMs    \* BackoffPolicy

ASSUME PolicyAssumption == BaseMs \in Nat \ {0} /\ CapMs \in Nat /\ CapMs >= BaseMs

Least(m, n) == IF m <= n THEN m ELSE n

(* The window doubles with every failure up to the cap; the exponent has a *)
(* bound of its own.                                                       *)
backoffWindowMs(attempt) == Least(CapMs, BaseMs * 2 ^ Least(attempt - 1, 30))

(* The delays Full Jitter may draw.                                        *)
Jittered(attempt) == 0 .. backoffWindowMs(attempt) - 1

(* What the provider asked for wins when it is longer, up to the cap;      *)
(* asked is 0 when it asked for nothing.                                   *)
computeRetryDelay(jittered, asked) ==
  IF asked > CapMs THEN CapMs ELSE IF asked > jittered THEN asked ELSE jittered

(* The windows of the waits of a ladder of maxAttempts attempts, added up. *)
worstCaseLadderMs[n \in Nat] ==
  IF n <= 1 THEN 0 ELSE worstCaseLadderMs[n - 1] + backoffWindowMs(n - 1)

(* Slip: paced by the attempt that comes next.                             *)
LadderPositionSlip(consumes, consumed, deferrals) ==
  (IF consumes THEN consumed ELSE deferrals) + 1

(* Two ladders: a real failure is paced by the attempts consumed, a        *)
(* deferral by the deferrals.                                              *)
LadderPosition(consumes, consumed, deferrals) ==
  IF consumes THEN consumed ELSE deferrals

================================================================================
