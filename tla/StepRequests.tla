------------------------------ MODULE StepRequests ------------------------------
(***************************************************************************)
(* What the http, ai and email steps of the app make of their              *)
(* configuration, and what a failed attempt of one is classified as        *)
(* (app/src/steps/http.ts, ai.ts, ai-fields.ts, email.ts, app/src/flow.ts, *)
(* automa-durable-runner/src/classify.ts and engine/handlers.ts).          *)
(*                                                                         *)
(* A field of free text is reduced to what the code tells apart in it.     *)
(***************************************************************************)
EXTENDS Naturals, Sequences

NoReply == 0
None    == "none"

(* --- classify -----------------------------------------------------------*)

(* The facts of a failure.  The codes classify knows are one value.        *)
Facts == [httpStatus : Nat, code : {None, "transient", "other"},
          requestSent : BOOLEAN, responseReceived : BOOLEAN,
          deterministicallyBroken : BOOLEAN]

Unknown == [httpStatus |-> NoReply, code |-> None, requestSent |-> FALSE,
            responseReceived |-> FALSE, deterministicallyBroken |-> FALSE]
Poison  == [Unknown EXCEPT !.deterministicallyBroken = TRUE]

(* The request was answered with a status, or with one that is not the     *)
(* reason; or it was sent and not answered.                                *)
ReplyFacts(s) == [Unknown EXCEPT !.httpStatus = s, !.requestSent = TRUE,
                                 !.responseReceived = TRUE]

(* Slip: a 5xx is temporary, whatever was asked.                           *)
StatusClassSlip(s) ==
  CASE s = 429              -> "rate_limited"
    [] s \in {401, 403}     -> "auth_expired"
    [] s = 408              -> "timeout"
    [] s >= 500             -> "transient_network"
    [] s < 400              -> "internal"
    [] OTHER                -> "client_error"

StatusClass(s) ==
  CASE s = 429              -> "rate_limited"
    [] s \in {401, 403}     -> "auth_expired"
    [] s = 408              -> "timeout"
    [] s >= 500             -> "server_error"
    [] s < 400              -> "internal"
    [] OTHER                -> "client_error"

classify(f) ==
  IF f.deterministicallyBroken THEN "poison"
  ELSE IF f.httpStatus # NoReply THEN StatusClass(f.httpStatus)
  ELSE IF f.code # "transient" THEN "internal"
  ELSE IF f.requestSent /\ ~ f.responseReceived THEN "timeout"
  ELSE "transient_network"

(* --- the http step ------------------------------------------------------*)

BODYLESS == {"GET", "HEAD", "DELETE"}

(* A configured method is a method, "absent" or "blank".                   *)
MethodOf(m) == IF m \in {"absent", "blank"} THEN "GET" ELSE m

(* An http step is [kind, filled, url, method, headers, auth, payload,     *)
(* text]: filled says that no field it cannot do without is empty; headers *)
(* is None, "plain", "authorization" or "unreadable"; text, what the body  *)
(* field holds, is None, "json", "lines" or "prose".                       *)
SendsBody(step) == step.text # None /\ MethodOf(step.method) \notin BODYLESS

Readable(step) ==
  /\ step.filled
  /\ step.headers # "unreadable"
  /\ step.payload \in {None, "json", "form", "raw"}
  /\ SendsBody(step) =>
       CASE step.payload \in {None, "json"} -> step.text = "json"
         [] step.payload = "form"           -> step.text = "lines"
         [] step.payload = "raw"            -> TRUE

(* The request; a header written by hand wins over the auth field, and     *)
(* either is a credential.                                                 *)
normaliseRequest(step) ==
  [url |-> step.url, method |-> MethodOf(step.method), body |-> SendsBody(step),
   cred |-> step.headers = "authorization" \/ step.auth]

(* Only a GET or a HEAD is assumed repeatable, and GET is the default of a *)
(* method that is not there, not of one that is blank.                     *)
isIdempotent(step) ==
  step.kind = "http" /\ step.method \in {"absent", "GET", "HEAD"}

(* --- the ai step --------------------------------------------------------*)

(* The key of an ai step: a variable that has to be set, or a credential   *)
(* that must not have been deleted.                                        *)
resolveSecret(step) == step.key # "unset"
secret(step, saved) == step.key = "saved" => saved

(* An ai step is [kind, filled, url, key, task, categories, noMatch,       *)
(* multiple, fields]: key is None for the environment's, "unset" for a     *)
(* reference to nothing, or "saved" for a credential of the tenant's;      *)
(* fields is a set of [name, type, required].                              *)
Buildable(step, saved) ==
  /\ step.filled
  /\ resolveSecret(step) /\ secret(step, saved)
  /\ step.task = "classify" => step.categories # {}

categoryField(step) ==
  [name |-> IF step.multiple THEN "categories" ELSE "category",
   type |-> IF step.multiple THEN "list" ELSE "text", required |-> TRUE]

Asked(step) ==
  step.fields \cup (IF step.task = "classify" THEN {categoryField(step)} ELSE {})

(* A value of an answer is [is, names]: is "absent", "word", "digits",     *)
(* "yes", "number", "boolean", "prose", "array"; names are the categories  *)
(* it spells.  What coerce can make of a value.                            *)
Coerces(v, type) ==
  CASE type = "number"  -> v.is \in {"number", "digits"}
    [] type = "boolean" -> v.is \in {"boolean", "yes"}
    [] OTHER            -> TRUE

(* Slip: a null answers a required field.                                  *)
coerceFieldsSlip(answer, fields) ==
  \A f \in fields : answer[f.name].is = "absent" \/ Coerces(answer[f.name], f.type)

(* Every field that is there has its type, every required one is there.    *)
coerceFields(answer, fields) ==
  \A f \in fields :
    IF answer[f.name].is = "absent" THEN ~ f.required
                                    ELSE Coerces(answer[f.name], f.type)

(* The categories in an answer; names that are none of them fail the step, *)
(* or become "other" when nothing else is left.                            *)
CategoryFails(names, step) == step.noMatch = "fail" /\ ~ names \subseteq step.categories

resolveCategory(names, step) ==
  IF names # {} /\ names \cap step.categories = {} THEN {"other"}
  ELSE names \cap step.categories

(* --- the email step -----------------------------------------------------*)

(* An email step is [kind, filled, to]: to is a set of addresses, each a     *)
(* [valid, address, domain].                                               *)
isAllowedRecipient(a, allowed) ==
  allowed = {} \/ a.address \in allowed \/ a.domain \in allowed

Sendable(step, allowed) ==
  /\ step.filled /\ step.to # {}
  /\ \A a \in step.to : a.valid /\ isAllowedRecipient(a, allowed)

(* classifyFailure: a reply of the relay, or none.                         *)
RefusalFacts(code) ==
  [ReplyFacts(code) EXCEPT !.deterministicallyBroken = code >= 500]
DropFacts(code) ==
  [Unknown EXCEPT !.code = code, !.requestSent = TRUE]

================================================================================
