----------------------------- MODULE StepAttempts -----------------------------
(***************************************************************************)
(* The attempts of one step that reaches outside: an http or an ai step    *)
(* over SafeFetch, or an email step over a mail relay.  Each attempt       *)
(* builds its request, makes its call, and is judged by the classifier and *)
(* the retry policy, until the step succeeds, fails, is exhausted or waits *)
(* for a person (engine/handlers.ts, app/src/steps, classify.ts, retry.ts).*)
(*                                                                         *)
(* That one attempt runs at a time is DurableRun's business.  The relay,   *)
(* the provider of the ai step and the person who removes the credential   *)
(* are the environment.                                                    *)
(***************************************************************************)
EXTENDS SafeFetch, StepRequests, RetryPolicy, Backoff

CONSTANTS Steps,            \* the steps to try, each a configuration
          MaxRedirects,     \* of a client they are given; their own has 0
          SmtpAllowed,      \* allowedRecipients
          Replies, Drops,   \* the relay's refusals, the codes of its failures
          AiAnswers,        \* what a model may answer: fields to values
          MaxAttempts, MaxDeferrals

ASSUME AttemptsAssumption ==
  /\ \A s \in Steps : /\ s.kind \in {"http", "ai", "email"}
                      /\ s.kind # "email" => s.url \in Locations
  /\ {MaxRedirects, MaxAttempts, MaxDeferrals} \subseteq Nat /\ Replies \subseteq Nat

VARIABLES step,             \* the configuration
          phase,            \* "ready", "calling", "mailing", "over"
          verdict,
          counters,         \* [consumed, deferrals]
          waited,           \* the delays so far, added up
          saved,            \* is the tenant's credential still there
          output,           \* of an ai step: what it kept of the answer
          past              \* of the calls that are over: was one "lost" on its
                            \* way back, "refused" in full, "postponed"

svars == <<step, phase, verdict, counters, waited, saved, output, past>>
vars  == <<fvars, svars>>

Verdicts == {None, "succeeded", "terminal", "exhausted", "pause"}
NoOutput == [values |-> <<>>, names |-> {}]

Init ==
  /\ step \in Steps /\ phase = "ready" /\ verdict = None
  /\ counters = [consumed |-> 0, deferrals |-> 0]
  /\ waited = 0 /\ saved = TRUE /\ output = NoOutput /\ past = {}
  /\ Idle /\ redirects \in {0, MaxRedirects}

(* onAttemptFailed, and the row it leads to: wait and try again, or end.   *)
Judge(facts) ==
  LET c     == classify(facts)
      safe  == isIdempotent(step)
      o     == onAttemptFailed(counters, c, safe, MaxAttempts, MaxDeferrals)
      place == LadderPosition(decideRetry(c, safe).consumesAttempt,
                              o.consumed, o.deferrals)
  IN /\ counters' = [consumed |-> o.consumed, deferrals |-> o.deferrals]
     /\ IF o.kind = "retry"
        THEN /\ phase' = "ready" /\ UNCHANGED verdict
             /\ \E d \in Jittered(place) :
                  waited' = waited + computeRetryDelay(d, 0)
        ELSE /\ phase' = "over" /\ verdict' = o.kind /\ UNCHANGED waited

(* What a call leaves behind once it is over.                              *)
Mark(cond, word) == IF cond THEN {word} ELSE {}

HangUp ==
  /\ past' = past \cup Mark(end = "response" /\ status >= 500, "refused")
                  \cup Mark(\E i \in 1 .. Len(wire) : /\ wire[i].reached
                                                     /\ wire[i].status = NoStatus, "lost")
  /\ Forget

(* canvasHttpHandler, aiHandler, emailHandler up to their call.            *)
Request == IF step.kind = "http" THEN normaliseRequest(step)
           ELSE [url |-> step.url, method |-> "POST", body |-> TRUE, cred |-> TRUE]

CanSend == CASE step.kind = "http"  -> Readable(step)
             [] step.kind = "ai"    -> Buildable(step, saved)
             [] step.kind = "email" -> Sendable(step, SmtpAllowed)

Attempt ==
  /\ phase = "ready"
  /\ UNCHANGED <<step, saved, output, past>>
  /\ \/ /\ ~ CanSend
        /\ Judge(Poison) /\ UNCHANGED fvars
     \/ /\ CanSend /\ step.kind = "email"
        /\ phase' = "mailing" /\ UNCHANGED <<fvars, verdict, counters, waited>>
     \/ /\ CanSend /\ step.kind # "email"
        /\ phase' = "calling"
        /\ Begin(Request.url, Request.method, Request.body, Request.cred)
        /\ UNCHANGED <<verdict, counters, waited>>

Call == phase = "calling" /\ FetchStep /\ UNCHANGED svars

(* The facts httpHandler and aiHandler make of the end of a call.  Only an *)
(* answer's headers set requestSent; the deadline, the redirect and the    *)
(* size errors have no code.                                               *)
FetchFacts ==
  CASE end = "response" -> ReplyFacts(status)
    [] end = "blocked"  -> [Unknown EXCEPT !.httpStatus = 400]
    [] end = "reset"    -> [Unknown EXCEPT !.code = "transient",
                                           !.requestSent = status # NoStatus]
    [] OTHER            -> [Unknown EXCEPT !.requestSent = status # NoStatus]

Answered2xx == end = "response" /\ status \in 200 .. 299

(* The call is over: an http step takes any 2xx, an ai step one with an    *)
(* answer it can use.                                                      *)
Keep(out) == /\ phase' = "over" /\ verdict' = "succeeded" /\ output' = out
             /\ UNCHANGED <<counters, waited>>

Use(answer) ==
  LET names == answer[categoryField(step).name].names
      sorts == step.task = "classify" IN
  IF ~ coerceFields(answer, Asked(step)) \/ (sorts /\ CategoryFails(names, step))
  THEN Judge(ReplyFacts(NoReply)) /\ UNCHANGED output
  ELSE Keep([values |-> answer,
             names |-> IF sorts THEN resolveCategory(names, step) ELSE {}])

Return ==
  /\ phase = "calling" /\ pc = "done"
  /\ HangUp
  /\ IF ~ Answered2xx THEN Judge(FetchFacts) /\ UNCHANGED output
     ELSE IF step.kind = "http" THEN Keep(NoOutput)
     ELSE \E answer \in AiAnswers : Use(answer)
  /\ UNCHANGED <<step, saved>>

(* The relay takes the message, refuses it, or is not heard from again.    *)
Mail ==
  /\ phase = "mailing"
  /\ \/ Keep(NoOutput) /\ UNCHANGED past
     \/ \E code \in Replies :
          /\ Judge(RefusalFacts(code)) /\ UNCHANGED output
          /\ past' = past \cup {IF code >= 500 THEN "refused" ELSE "postponed"}
     \/ \E code \in Drops, reached \in BOOLEAN :
          /\ Judge(DropFacts(code)) /\ UNCHANGED output
          /\ past' = past \cup Mark(reached, "lost")
  /\ UNCHANGED <<step, saved, fvars>>

(* CredentialStore.remove: a person deletes the credential the step names. *)
remove == step.kind = "ai" /\ step.key = "saved" /\ saved /\ saved' = FALSE
          /\ UNCHANGED <<fvars, step, phase, verdict, counters, waited, output,
                         past>>

Next == Attempt \/ Call \/ Return \/ Mail \/ remove

Spec == Init /\ [][Next]_vars

================================================================================
