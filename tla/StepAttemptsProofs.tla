------------------------- MODULE StepAttemptsProofs -------------------------
(***************************************************************************)
(* Credentials stay with the origin they were meant for, nothing is asked  *)
(* more often than it may be and no server is waited for without a         *)
(* deadline: for every configuration of a step, whatever the name servers  *)
(* answer and wherever a server redirects to.                              *)
(*                                                                         *)
(* The induction rests on the hops: a call that is about to send has sent  *)
(* as often as it has been redirected (Hops), and it still carries its     *)
(* credential only if the URL it is at has the origin of the first (Home). *)
(* The waits are compared with two ladders, each of which grows by the     *)
(* window of a failure that is tried again (JudgePaces, LadderGrows).      *)
(*                                                                         *)
(* An address is a number written in bytes: to divide by a power of two is *)
(* to cut off bytes and bits (LeadingBits), so that the comparison of the  *)
(* code is that of the numbers (ContainsIsCovers).  What passed the check  *)
(* is what is sent to, since its text is read back as it (Pinned).         *)
(***************************************************************************)
EXTENDS StepAttemptsProps, SequenceTheorems, TLAPS

IsSeq(s) == \E S : s \in Seq(S)

CallTypes ==
  /\ IsSeq(wire) /\ pc \in PC /\ url \in Locations
  /\ cred \in BOOLEAN /\ body \in BOOLEAN /\ timer \in BOOLEAN
  /\ redirects \in Nat /\ hop \in Nat /\ left \in Int /\ status \in Nat

Hops ==
  /\ hop <= redirects
  /\ pc = "idle" => wire = <<>>
  /\ pc \in {"hop", "resolve", "send"} => Len(wire) = hop
  /\ pc # "idle" => Len(wire) <= hop + 1

Home ==
  pc # "idle" =>
    /\ cred => safeOrigin(url) = home
    /\ hop = 0 => safeOrigin(url) = home
    /\ pc \in {"resolve", "send", "body"} => url.parses
    /\ method = "GET" => ~ body

WireHome ==
  \A i \in 1 .. Len(wire) :
    /\ wire[i].url.parses
    /\ i = 1 => safeOrigin(wire[i].url) = home
    /\ wire[i].cred => safeOrigin(wire[i].url) = home
    /\ wire[i].method = "GET" => ~ wire[i].body

CallInv == CallTypes /\ Hops /\ Home /\ WireHome /\ AlwaysTimed

-----------------------------------------------------------------------------
(* One call                                                                *)

(* One more request on the wire.                                           *)
LEMMA OneMore ==
  ASSUME NEW s, IsSeq(s), NEW e
  PROVE  LET t == Append(s, e) IN
         /\ IsSeq(t) /\ Len(s) \in Nat /\ Len(t) = Len(s) + 1
         /\ \A i \in 1 .. Len(s) : t[i] = s[i]
         /\ t[Len(s) + 1] = e
<1>1. PICK S : s \in Seq(S)
  BY DEF IsSeq
<1> DEFINE T == S \cup {e}
<1>2. s \in Seq(T) /\ e \in T
  BY <1>1, SeqMonotonic
<1>3. /\ Append(s, e) \in Seq(T)
      /\ Len(Append(s, e)) = Len(s) + 1
      /\ \A i \in 1 .. Len(s) : Append(s, e)[i] = s[i]
      /\ Append(s, e)[Len(s) + 1] = e
  BY <1>2, AppendProperties
<1>4. Len(s) \in Nat
  BY <1>2, LenProperties
<1> QED BY <1>3, <1>4 DEF IsSeq

(* Nothing has been sent when no call has been made.                       *)
LEMMA EmptyWire == IsSeq(<<>>) /\ Len(<<>>) = 0
  BY EmptySeq DEF IsSeq

(* Before there is a call, and again when one is over.                     *)
LEMMA NoCall ==
  ASSUME pc = "idle", url \in Locations, wire = <<>>, redirects \in Nat, hop = 0,
         cred = FALSE, body = FALSE, timer = FALSE, left = Timeout,
         status = NoStatus
  PROVE  CallInv
<1>1. CallTypes
  <2>1. Timeout \in Int
    BY FetchAssumption DEF FetchAssumption
  <2>2. IsSeq(wire) /\ pc \in PC /\ status \in Nat /\ hop \in Nat
    BY EmptyWire DEF PC, NoStatus
  <2> QED BY <2>1, <2>2 DEF CallTypes
<1>2. Hops /\ WireHome
  BY EmptyWire DEF Hops, WireHome
<1>3. Home /\ AlwaysTimed
  BY DEF Home, AlwaysTimed
<1> QED BY <1>1, <1>2, <1>3 DEF CallInv

(* A call begins with its origin as its home.                              *)
LEMMA BeginKeeps ==
  ASSUME CallInv, wire = <<>>, NEW u \in Locations, NEW m, NEW b \in BOOLEAN,
         NEW c \in BOOLEAN, m = "GET" => ~ b, Begin(u, m, b, c)
  PROVE  CallInv' /\ pc' = "hop"
<1>1. CallTypes'
  <2>1. Timeout \in Int
    BY FetchAssumption DEF FetchAssumption
  <2> QED BY <2>1 DEF CallInv, CallTypes, Begin, PC, NoStatus
<1>2. Hops' /\ WireHome'
  BY EmptyWire DEF CallInv, CallTypes, Hops, WireHome, Begin
<1>3. Home' /\ AlwaysTimed'
  BY DEF Home, AlwaysTimed, Begin
<1> QED BY <1>1, <1>2, <1>3 DEF CallInv, Begin

(* The call ends, where it is: nothing is sent, nothing is followed.       *)
LEMMA EndKeeps ==
  ASSUME CallInv, pc # "idle", NEW how, Finish(how), UNCHANGED <<call, hop, wire>>,
         left' \in Int, status' \in Nat
  PROVE  CallInv' /\ pc' = "done"
<1>1. CallTypes'
  BY DEF CallInv, CallTypes, Finish, PC, call
<1>2. Hops' /\ WireHome'
  BY DEF CallInv, Hops, WireHome, Finish, call, safeOrigin
<1>3. Home' /\ AlwaysTimed'
  BY DEF CallInv, Home, AlwaysTimed, Finish, call, safeOrigin
<1> QED BY <1>1, <1>2, <1>3 DEF CallInv, Finish

(* Each request is that of the URL the call is at.                         *)
LEMMA WireGrows ==
  ASSUME CallInv, pc = "send", NEW a, NEW r, NEW t,
         wire' = Append(wire, Sent(a, r, t)), home' = home
  PROVE  /\ IsSeq(wire') /\ Len(wire') = hop + 1 /\ hop \in Nat
         /\ WireHome'
<1>1. /\ IsSeq(wire') /\ Len(wire) = hop /\ Len(wire') = hop + 1 /\ hop \in Nat
      /\ \A i \in 1 .. hop : wire'[i] = wire[i]
      /\ wire'[hop + 1] = Sent(a, r, t)
  BY OneMore DEF CallInv, CallTypes, Hops
<1>2. /\ url.parses /\ (cred => safeOrigin(url) = home)
      /\ hop = 0 => safeOrigin(url) = home
      /\ method = "GET" => ~ body
  BY DEF CallInv, Home
<1>3. /\ Sent(a, r, t).url = url /\ Sent(a, r, t).cred = cred
      /\ Sent(a, r, t).method = method /\ Sent(a, r, t).body = body
  BY DEF Sent
<1>4. WireHome'
  <2> SUFFICES ASSUME NEW i \in 1 .. hop + 1
               PROVE  /\ wire'[i].url.parses
                      /\ i = 1 => safeOrigin(wire'[i].url) = home
                      /\ wire'[i].cred => safeOrigin(wire'[i].url) = home
                      /\ wire'[i].method = "GET" => ~ wire'[i].body
    BY <1>1 DEF WireHome, safeOrigin
  <2>1. CASE i = hop + 1
    BY <1>1, <1>2, <1>3, <2>1
  <2>2. CASE i # hop + 1
    <3>1. i \in 1 .. Len(wire) /\ wire'[i] = wire[i]
      BY <1>1, <2>2
    <3> QED BY <3>1 DEF CallInv, WireHome
  <2> QED BY <2>1, <2>2
<1> QED BY <1>1, <1>4

(* A request goes out from where the call is, and the call goes on from    *)
(* the same place or is over.                                              *)
LEMMA SendKeeps ==
  ASSUME CallInv, pc = "send", NEW a, NEW r, NEW t,
         wire' = Append(wire, Sent(a, r, t)), UNCHANGED <<call, hop>>,
         pc' \in {"body", "done"}, pc' = "body" => timer' = timer /\ left' = left,
         timer' \in BOOLEAN, left' \in Int, status' \in Nat
  PROVE  CallInv'
<1>1. IsSeq(wire') /\ Len(wire') = hop + 1 /\ hop \in Nat /\ WireHome'
  BY WireGrows DEF call
<1>2. CallTypes'
  BY <1>1 DEF CallInv, CallTypes, PC, call
<1>3. Hops'
  BY <1>1 DEF CallInv, Hops, call
<1>4. Home' /\ AlwaysTimed'
  BY DEF CallInv, Home, AlwaysTimed, call, safeOrigin
<1> QED BY <1>1, <1>2, <1>3, <1>4 DEF CallInv

(* A redirect sends the call on, without its credential if the origin is   *)
(* another than the first.                                                 *)
LEMMA FollowKeeps ==
  ASSUME CallInv, pc = "send", NEW a, NEW r, NEW s, NEW next \in Locations \cup {url},
         wire' = Append(wire, Sent(a, r, s)), Follow(s, next), UNCHANGED <<left, status>>
  PROVE  CallInv' /\ pc' # "idle"
<1>1. CASE TooFar(hop + 1)
  <2>1. Finish("redirects") /\ UNCHANGED <<call, hop>>
    BY <1>1 DEF Follow, call
  <2> QED BY <2>1, SendKeeps DEF Finish, CallInv, CallTypes
<1>2. CASE ~ TooFar(hop + 1)
  <2>1. /\ pc' = "hop" /\ hop' = hop + 1 /\ url' = next /\ timer' = FALSE
        /\ method' = IF TurnsIntoGet(s) THEN "GET" ELSE method
        /\ UNCHANGED <<end, home, redirects>>
    BY <1>2 DEF Follow
  <2>2. /\ cred' = (cred /\ safeOrigin(next) = home)
        /\ body' = (body /\ ~ TurnsIntoGet(s))
    BY <1>2 DEF Follow
  <2>3. /\ cred' \in BOOLEAN /\ (cred' => safeOrigin(next) = home)
        /\ body' \in BOOLEAN /\ (body' => body /\ ~ TurnsIntoGet(s))
    BY <2>2
  <2>4. IsSeq(wire') /\ Len(wire') = hop + 1 /\ hop \in Nat /\ WireHome'
    BY <2>1, WireGrows
  <2>5. next \in Locations
    BY DEF CallInv, CallTypes
  <2>6. CallTypes'
    <3>1. timer' \in BOOLEAN /\ pc' \in PC /\ url' \in Locations
      BY <2>1, <2>5 DEF PC
    <3>2. redirects' \in Nat /\ hop' \in Nat
      BY <2>1, <2>4 DEF CallInv, CallTypes
    <3>3. left' \in Int /\ status' \in Nat
      BY DEF CallInv, CallTypes
    <3> QED BY <2>3, <2>4, <3>1, <3>2, <3>3 DEF CallTypes
  <2>7. Hops'
    BY <1>2, <2>1, <2>4 DEF CallInv, CallTypes, Hops, TooFar
  <2>8. method = "GET" => ~ body
    BY DEF CallInv, Home
  <2>9. Home'
    <3>1. cred' => safeOrigin(url') = home'
      BY <2>1, <2>3
    <3>2. hop' # 0 /\ pc' \notin {"resolve", "send", "body"}
      BY <2>1, <2>4
    <3>3. method' = "GET" => ~ body'
      BY <2>1, <2>3, <2>8
    <3> QED BY <3>1, <3>2, <3>3 DEF Home, safeOrigin
  <2>10. AlwaysTimed'
    BY <2>1 DEF AlwaysTimed
  <2> QED BY <2>1, <2>4, <2>6, <2>7, <2>9, <2>10 DEF CallInv
<1> QED BY <1>1, <1>2

(* A step of the call that sends nothing and leaves it where it is.        *)
LEMMA StayKeeps ==
  ASSUME CallInv, pc # "idle", UNCHANGED <<call, hop, wire>>,
         pc' \in {"hop", "resolve", "send", "body"},
         pc' = pc \/ (pc \in {"hop", "resolve"} /\ pc' \in {"resolve", "send"}),
         pc' \in {"resolve", "send", "body"} => url.parses,
         timer' \in BOOLEAN, left' \in Int, status' \in Nat,
         AlwaysTimed'
  PROVE  CallInv' /\ pc' # "idle"
<1>1. CallTypes'
  <2>1. pc' \in PC
    BY DEF PC
  <2> QED BY <2>1 DEF CallInv, CallTypes, call
<1>2. Hops'
  BY DEF CallInv, Hops, call
<1>3. Home' /\ WireHome'
  BY DEF CallInv, Home, WireHome, call, safeOrigin
<1> QED BY <1>1, <1>2, <1>3 DEF CallInv

(* Every step of a call.                                                   *)
LEMMA FetchKeeps ==
  ASSUME CallInv, FetchStep
  PROVE  CallInv' /\ pc # "idle" /\ pc' # "idle"
<1> USE DEF call
<1>0. /\ left \in Int /\ status \in Nat /\ timer \in BOOLEAN /\ Timeout \in Int
      /\ AlwaysTimed
  BY FetchAssumption DEF FetchAssumption, CallInv, CallTypes
<1>1. ASSUME Hop
      PROVE  CallInv' /\ pc # "idle" /\ pc' # "idle"
  <2>0. pc = "hop" /\ UNCHANGED <<call, hop, left, status, wire>>
    BY <1>1 DEF Hop
  <2>1. CASE Refusal # NoEnd /\ Finish(Refusal)
    BY <1>0, <2>0, <2>1, EndKeeps
  <2>2. CASE /\ Refusal = NoEnd
             /\ pc' = IF url.literal THEN "send" ELSE "resolve"
             /\ timer' = url.literal
    <3>1. validateUrl(url) /\ ~ (left <= 0)
      BY <2>2 DEF Refusal, NoEnd
    <3>2. url.parses
      BY <3>1 DEF validateUrl
    <3>3. url.literal \in BOOLEAN
      BY FetchAssumption DEF FetchAssumption, CallInv, CallTypes
    <3>4. AlwaysTimed'
      BY <1>0, <2>0, <2>2, <3>1, <3>3 DEF AlwaysTimed
    <3>5. pc' \in {"resolve", "send"} /\ timer' \in BOOLEAN
      BY <2>2, <3>3
    <3> QED BY <1>0, <2>0, <3>2, <3>4, <3>5, StayKeeps
  <2> QED BY <1>1, <2>1, <2>2 DEF Hop
<1>2. ASSUME NEW answer, Resolve(answer)
      PROVE  CallInv' /\ pc # "idle" /\ pc' # "idle"
  <2>0. pc = "resolve" /\ UNCHANGED <<call, hop, status, wire>>
    BY <1>2 DEF Resolve
  <2>1. CASE Finish("blocked") /\ UNCHANGED left
    BY <1>0, <2>0, <2>1, EndKeeps
  <2>2. CASE pc' = "send" /\ timer' = TRUE /\ left' = IF left < 1 THEN 1 ELSE left
    <3>1. left' \in Int /\ AlwaysTimed'
      BY <1>0, <2>2 DEF AlwaysTimed
    <3>2. url.parses
      BY <2>0 DEF CallInv, Home
    <3> QED BY <1>0, <2>0, <2>2, <3>1, <3>2, StayKeeps
  <2> QED BY <1>2, <2>1, <2>2 DEF Resolve
<1>3. ASSUME NEW a \in addrs, NEW s \in Statuses, Respond(s, a)
      PROVE  CallInv' /\ pc # "idle" /\ pc' # "idle"
  <2>0. pc = "send" /\ wire' = Append(wire, Sent(a, TRUE, s)) /\ s \in Nat
    BY <1>3, FetchAssumption DEF Respond, FetchAssumption
  <2>1. CASE \E next \in Locations \cup {url} :
               Follow(s, next) /\ UNCHANGED <<left, status>>
    BY <2>0, <2>1, FollowKeeps
  <2>2. CASE UNCHANGED <<call, hop, left>> /\ status' \in {status, s}
             /\ pc' \in {"done", "body"} /\ (pc' = "done" => timer' = FALSE)
             /\ (pc' = "body" => timer' = timer)
    <3>1. status' \in Nat /\ left' \in Int /\ timer' \in BOOLEAN
      BY <1>0, <2>0, <2>2
    <3> QED BY <2>0, <2>2, <3>1, SendKeeps
  <2> QED BY <1>3, <2>0, <2>1, <2>2 DEF Respond, Finish, TimerInBody
<1>4. ASSUME NEW a \in addrs, NEW how, RequestFails(how, a)
      PROVE  CallInv' /\ pc # "idle" /\ pc' # "idle"
  <2>0. /\ pc = "send" /\ UNCHANGED <<call, hop, left, status>>
        /\ pc' = "done" /\ timer' = FALSE
    BY <1>4 DEF RequestFails, Finish
  <2>1. PICK reached \in BOOLEAN : wire' = Append(wire, Sent(a, reached, NoStatus))
    BY <1>4 DEF RequestFails
  <2> QED BY <1>0, <2>0, <2>1, SendKeeps
<1>5. ASSUME Chunk
      PROVE  CallInv' /\ pc # "idle" /\ pc' # "idle"
  <2>0. pc = "body" /\ UNCHANGED <<call, hop, left, status, wire>>
    BY <1>5 DEF Chunk
  <2>1. CASE Finish("too_large")
    BY <1>0, <2>0, <2>1, EndKeeps
  <2>2. CASE UNCHANGED <<pc, end, timer>>
    <3>1. AlwaysTimed' /\ url.parses
      BY <1>0, <2>0, <2>2 DEF AlwaysTimed, CallInv, Home
    <3> QED BY <1>0, <2>0, <2>2, <3>1, StayKeeps
  <2> QED BY <1>5, <2>1, <2>2 DEF Chunk
<1>6. ASSUME NEW how, BodyEnds(how)
      PROVE  CallInv' /\ pc # "idle" /\ pc' # "idle"
  <2>0. pc = "body" /\ Finish(how) /\ UNCHANGED <<call, hop, left, status, wire>>
    BY <1>6 DEF BodyEnds
  <2> QED BY <1>0, <2>0, EndKeeps
<1>7. ASSUME Tick
      PROVE  CallInv' /\ pc # "idle" /\ pc' # "idle"
  <2>0. /\ pc \in {"resolve", "send", "body"} /\ ~ (timer /\ left = 0)
        /\ left' = left - 1 /\ UNCHANGED <<pc, call, hop, timer, status, wire>>
    BY <1>7 DEF Tick
  <2>1. AlwaysTimed' /\ left' \in Int
    BY <1>0, <2>0 DEF AlwaysTimed
  <2>2. url.parses
    BY <2>0 DEF CallInv, Home
  <2> QED BY <1>0, <2>0, <2>1, <2>2, StayKeeps
<1> QED BY <1>1, <1>2, <1>3, <1>4, <1>5, <1>6, <1>7 DEF FetchStep

(* The call is over and forgotten.                                         *)
LEMMA ForgetKeeps ==
  ASSUME CallInv, Forget
  PROVE  CallInv' /\ pc' = "idle" /\ wire' = <<>>
<1>1. /\ pc' = "idle" /\ wire' = <<>> /\ hop' = 0 /\ cred' = FALSE /\ body' = FALSE
      /\ timer' = FALSE /\ left' = Timeout /\ status' = NoStatus
      /\ redirects' = redirects /\ redirects \in Nat
  BY DEF Forget, CallInv, CallTypes
<1>2. url' \in Locations
  BY FetchAssumption DEF FetchAssumption, Forget
<1>3. CallTypes'
  <2>1. Timeout \in Int
    BY FetchAssumption DEF FetchAssumption
  <2>2. IsSeq(wire') /\ pc' \in PC /\ status' \in Nat /\ hop' \in Nat
    BY <1>1, EmptyWire DEF PC, NoStatus
  <2> QED BY <1>1, <1>2, <2>1, <2>2 DEF CallTypes
<1>4. Hops' /\ WireHome'
  BY <1>1, EmptyWire DEF Hops, WireHome
<1>5. Home' /\ AlwaysTimed'
  BY <1>1 DEF Home, AlwaysTimed
<1> QED BY <1>1, <1>3, <1>4, <1>5 DEF CallInv

-----------------------------------------------------------------------------
(* The attempts of a step                                                  *)

Phases ==
  /\ phase = "calling" => pc # "idle"
  /\ phase # "calling" => pc = "idle" /\ wire = <<>>

RefusedEnds == ~ Repeatable(step) /\ "refused" \in past => phase = "over"

IInv == step \in Steps /\ CallInv /\ Phases /\ RefusedEnds

(* What may not be repeated is not tried again after a full refusal.       *)
LEMMA RefusalIsFinal ==
  ASSUME NEW f, classify(f) \in {"server_error", "poison"},
         ~ Repeatable(step), Judge(f)
  PROVE  phase' = "over"
<1>1. isIdempotent(step) = FALSE
  BY DEF Repeatable, isIdempotent, MethodOf
<1>2. decideRetry(classify(f), isIdempotent(step)).retry = FALSE
  BY <1>1 DEF decideRetry, NotRetryable, Conditional
<1>3. onAttemptFailed(counters, classify(f), isIdempotent(step), MaxAttempts,
                      MaxDeferrals).kind # "retry"
  BY <1>2 DEF onAttemptFailed
<1> QED BY <1>3 DEF Judge

(* A failed attempt is tried again or is the last.                         *)
LEMMA JudgeLeads ==
  ASSUME NEW f, Judge(f)
  PROVE  phase' \in {"ready", "over"}
  BY DEF Judge

(* A full refusal is classified as one, whatever the step.                 *)
LEMMA RefusalClass ==
  ASSUME NEW s \in Nat, s >= 500
  PROVE  /\ classify(ReplyFacts(s)) = "server_error"
         /\ classify(RefusalFacts(s)) = "poison"
<1>1. /\ ReplyFacts(s).httpStatus = s /\ ~ ReplyFacts(s).deterministicallyBroken
      /\ RefusalFacts(s).deterministicallyBroken
  BY DEF ReplyFacts, RefusalFacts, Unknown
<1>2. StatusClass(s) = "server_error" /\ s # NoReply
  BY DEF StatusClass, NoReply
<1> QED BY <1>1, <1>2 DEF classify

(* At first nothing has been asked.                                        *)
LEMMA Start == ASSUME Init PROVE IInv
<1>1. url \in Locations /\ redirects \in Nat
  BY FetchAssumption, AttemptsAssumption
  DEF FetchAssumption, AttemptsAssumption, Init, Idle
<1>2. CallInv
  BY <1>1, NoCall DEF Init, Idle
<1>3. step \in Steps /\ Phases /\ RefusedEnds
  BY DEF Init, Idle, Phases, RefusedEnds
<1> QED BY <1>2, <1>3 DEF IInv

(* A step that calls a server has the URL of one.                          *)
LEMMA StepUrl ==
  ASSUME NEW s \in Steps, s.kind # "email"
  PROVE  s.kind \in {"http", "ai"} /\ s.url \in Locations
  BY AttemptsAssumption DEF AttemptsAssumption

(* The request an attempt begins with.                                     *)
LEMMA AttemptKeeps == ASSUME IInv, Attempt PROVE IInv'
<1>1. /\ step' = step /\ past' = past /\ step \in Steps /\ CallInv
      /\ pc = "idle" /\ wire = <<>> /\ RefusedEnds /\ phase = "ready"
  BY DEF Attempt, IInv, Phases
<1>2. ~ (~ Repeatable(step) /\ "refused" \in past)
  BY <1>1 DEF RefusedEnds
<1>3. RefusedEnds' /\ step' \in Steps
  BY <1>1, <1>2 DEF RefusedEnds, Repeatable, MethodOf
<1>4. CASE phase' \in {"ready", "over", "mailing"} /\ UNCHANGED fvars
  <2>1. CallInv'
    BY <1>1, <1>4 DEF fvars, CallInv, CallTypes, Hops, Home, WireHome, AlwaysTimed,
       safeOrigin
  <2>2. Phases'
    BY <1>1, <1>4 DEF Phases, fvars
  <2> QED BY <1>3, <2>1, <2>2 DEF IInv
<1>5. CASE /\ step.kind # "email" /\ phase' = "calling"
           /\ Begin(Request.url, Request.method, Request.body, Request.cred)
  <2>1. /\ Request.url \in Locations /\ Request.body \in BOOLEAN
        /\ Request.cred \in BOOLEAN /\ (Request.method = "GET" => ~ Request.body)
    <3>0. step.kind \in {"http", "ai"} /\ step.url \in Locations
      BY <1>1, <1>5, StepUrl
    <3>1. CASE step.kind = "http"
      BY <3>0, <3>1 DEF Request, normaliseRequest, SendsBody, BODYLESS
    <3>2. CASE step.kind # "http"
      BY <3>0, <3>2 DEF Request
    <3> QED BY <3>1, <3>2
  <2>2. CallInv' /\ pc' = "hop"
    BY <1>1, <1>5, <2>1, BeginKeeps
  <2>3. Phases'
    BY <1>5, <2>2 DEF Phases
  <2> QED BY <1>3, <2>2, <2>3 DEF IInv
<1> QED BY <1>4, <1>5, JudgeLeads DEF Attempt

(* What a call that is over was, its step is not asked twice for.          *)
LEMMA ReturnKeeps == ASSUME IInv, Return PROVE IInv'
<1>1. /\ step' = step /\ step \in Steps /\ CallInv /\ RefusedEnds /\ phase = "calling"
      /\ HangUp /\ status \in Nat
  BY DEF Return, IInv, CallInv, CallTypes
<1>2. CallInv' /\ pc' = "idle" /\ wire' = <<>>
  BY <1>1, ForgetKeeps DEF HangUp
<1>3. phase' \in {"ready", "over"}
  BY JudgeLeads DEF Return, Use, Keep
<1>4. ASSUME ~ Repeatable(step), "refused" \in past'
      PROVE  phase' = "over"
  <2>1. "refused" \notin past
    BY <1>1, <1>4 DEF RefusedEnds
  <2>2. end = "response" /\ status >= 500
    BY <1>1, <1>4, <2>1 DEF HangUp, Mark
  <2>3. Judge(FetchFacts) /\ FetchFacts = ReplyFacts(status)
    BY <1>1, <2>2 DEF Return, Answered2xx, FetchFacts
  <2>4. classify(ReplyFacts(status)) = "server_error"
    BY <1>1, <2>2, RefusalClass
  <2> QED BY <1>4, <2>3, <2>4, RefusalIsFinal
<1>5. RefusedEnds'
  BY <1>1, <1>4 DEF RefusedEnds, Repeatable, MethodOf
<1>6. Phases'
  BY <1>2, <1>3 DEF Phases
<1> QED BY <1>1, <1>2, <1>5, <1>6 DEF IInv

(* Nor is a relay that has refused a message in full.                      *)
LEMMA MailKeeps == ASSUME IInv, Mail PROVE IInv'
<1>1. /\ step' = step /\ step \in Steps /\ CallInv /\ RefusedEnds
      /\ phase = "mailing" /\ pc = "idle" /\ wire = <<>> /\ UNCHANGED fvars
  BY DEF Mail, IInv, Phases
<1>2. CallInv'
  BY <1>1 DEF fvars, CallInv, CallTypes, Hops, Home, WireHome, AlwaysTimed, safeOrigin
<1>3. phase' \in {"ready", "over"}
  BY JudgeLeads DEF Mail, Keep
<1>4. ASSUME ~ Repeatable(step), "refused" \in past'
      PROVE  phase' = "over"
  <2>1. "refused" \notin past
    BY <1>1, <1>4 DEF RefusedEnds
  <2>2. PICK code \in Replies : code >= 500 /\ Judge(RefusalFacts(code))
    BY <1>4, <2>1 DEF Mail, Mark
  <2>3. classify(RefusalFacts(code)) = "poison"
    BY <2>2, RefusalClass, AttemptsAssumption DEF AttemptsAssumption
  <2> QED BY <1>4, <2>2, <2>3, RefusalIsFinal
<1>5. RefusedEnds'
  BY <1>1, <1>4 DEF RefusedEnds, Repeatable, MethodOf
<1>6. Phases'
  BY <1>1, <1>3 DEF Phases, fvars
<1> QED BY <1>1, <1>2, <1>5, <1>6 DEF IInv

(* Every step keeps the invariant.                                         *)
LEMMA StepKeeps == ASSUME IInv, [Next]_vars PROVE IInv'
<1>1. CASE Call
  <2>1. /\ CallInv /\ FetchStep /\ phase' = phase /\ step' = step /\ past' = past
        /\ phase = "calling" /\ step \in Steps /\ RefusedEnds
    BY <1>1 DEF Call, IInv, svars
  <2>2. CallInv' /\ pc' # "idle"
    BY <2>1, FetchKeeps
  <2>3. Phases' /\ RefusedEnds'
    BY <2>1, <2>2 DEF Phases, RefusedEnds, Repeatable, MethodOf
  <2> QED BY <2>1, <2>2, <2>3 DEF IInv
<1>2. CASE remove \/ UNCHANGED vars
  <2>1. UNCHANGED fvars /\ phase' = phase /\ step' = step /\ past' = past
    BY <1>2 DEF remove, vars, svars
  <2>2. CallInv'
    BY <2>1 DEF IInv, fvars, CallInv, CallTypes, Hops, Home, WireHome, AlwaysTimed,
       safeOrigin
  <2>3. step' \in Steps /\ Phases' /\ RefusedEnds'
    BY <2>1 DEF IInv, fvars, Phases, RefusedEnds, Repeatable, MethodOf
  <2> QED BY <2>2, <2>3 DEF IInv
<1> QED BY <1>1, <1>2, AttemptKeeps, ReturnKeeps, MailKeeps DEF Next

-----------------------------------------------------------------------------

(* The invariant keeps every credential at home.                           *)
LEMMA HomeKept == ASSUME CallInv PROVE SecretsStayHome
<1>1. DOMAIN wire = 1 .. Len(wire) /\ Len(wire) \in Nat
  <2>1. PICK S : wire \in Seq(S)
    BY DEF CallInv, CallTypes, IsSeq
  <2> QED BY <2>1, LenProperties
<1>2. SUFFICES ASSUME NEW i \in 1 .. Len(wire), wire[i].cred
               PROVE  Origin(wire[i].url) = Origin(wire[1].url)
  BY <1>1 DEF SecretsStayHome, CallInv, WireHome
<1>3. 1 \in 1 .. Len(wire)
  BY <1>1
<1>4. /\ safeOrigin(wire[i].url) = safeOrigin(wire[1].url)
      /\ wire[i].url.parses /\ wire[1].url.parses
  BY <1>2, <1>3 DEF CallInv, WireHome
<1> QED BY <1>4 DEF safeOrigin, Origin

(* The invariant bounds what is asked.                                     *)
LEMMA AskedFew == ASSUME IInv PROVE AskedOnce
<1>1. Len(wire) <= redirects + 1
  <2>1. redirects \in Nat /\ hop \in Nat /\ hop <= redirects /\ Len(wire) \in Nat
    <3>1. PICK S : wire \in Seq(S)
      BY DEF IInv, CallInv, CallTypes, IsSeq
    <3> QED BY <3>1, LenProperties DEF IInv, CallInv, CallTypes, Hops
  <2>2. CASE pc = "idle"
    BY <2>1, <2>2, EmptyWire DEF IInv, CallInv, Hops
  <2>3. CASE pc # "idle"
    BY <2>1, <2>3 DEF IInv, CallInv, Hops
  <2> QED BY <2>2, <2>3
<1>2. ~ Repeatable(step) => ~ (Asking /\ "refused" \in past)
  BY DEF IInv, RefusedEnds, Asking, Phases
<1> QED BY <1>1, <1>2 DEF AskedOnce

(* For every list of URLs, every answer of the name servers and every      *)
(* status: a credential leaves for no origin but the first, and what was   *)
(* turned into a GET carries no body (safe-fetch.ts:194-204).              *)
THEOREM SecretsAlwaysStayHome == Spec => []SecretsStayHome
<1>1. IInv => SecretsStayHome
  BY HomeKept DEF IInv
<1> QED BY <1>1, Start, StepKeeps, PTL DEF Spec

(* For every budget of redirects and attempts: no attempt makes more calls *)
(* than redirects allow, and a call that must not be repeated is not made  *)
(* again after a full refusal (classify.ts:6-7, error-classes.ts:108-115). *)
THEOREM AlwaysAskedOnce == Spec => []AskedOnce
<1>1. IInv => AskedOnce
  BY AskedFew
<1> QED BY <1>1, Start, StepKeeps, PTL DEF Spec

(* For every deadline: no server is waited for without it, and it is never *)
(* overrun by the clock (safe-fetch.ts:390-392).                           *)
THEOREM WaitsAlwaysTimed == Spec => []AlwaysTimed
<1>1. IInv => AlwaysTimed
  BY DEF IInv, CallInv
<1> QED BY <1>1, Start, StepKeeps, PTL DEF Spec

-----------------------------------------------------------------------------
(* What the waits add up to                                                *)

LOCAL INSTANCE FlowGraphsProofs

(* The window after an attempt is a number of milliseconds.                *)
LEMMA WindowIsNumber ==
  ASSUME NEW n \in Nat \ {0}
  PROVE  backoffWindowMs(n) \in Int
<1>1. BaseMs \in Nat /\ CapMs \in Nat
  BY PolicyAssumption DEF PolicyAssumption
<1>2. Least(n - 1, 30) \in Nat
  BY DEF Least
<1>3. 2 ^ Least(n - 1, 30) \in Int
  BY <1>2
<1>4. BaseMs * 2 ^ Least(n - 1, 30) \in Int
  BY <1>1, <1>3
<1> QED BY <1>1, <1>4 DEF backoffWindowMs, Least

(* The sums of a ladder's windows are those its recursion says, and each   *)
(* is the one before it and one more window.                               *)
LEMMA LadderGrows ==
  /\ \A n \in Nat : worstCaseLadderMs[n] \in Int
  /\ worstCaseLadderMs[1] = 0
  /\ \A n \in Nat \ {0} :
       worstCaseLadderMs[n + 1] = worstCaseLadderMs[n] + backoffWindowMs(n)
<1> DEFINE op == [p \in Nat \X Int |->
                    IF p[1] <= 1 THEN 0 ELSE p[2] + backoffWindowMs(p[1] - 1)]
           grow(g) == [n \in Nat |->
                         IF n <= 1 THEN 0 ELSE g[n - 1] + backoffWindowMs(n - 1)]
<1>1. PICK h : Recurs(h, 0, op)
  <2> HIDE DEF op
  <2> QED BY RecursionWorks
<1> DEFINE f == [n \in Nat |-> h[n]]
<1>2. f[0] = 0
  BY <1>1 DEF Recurs
<1>3. ASSUME NEW n \in Nat, f[n] \in Int
      PROVE  /\ f[n + 1] \in Int
             /\ f[n + 1] = IF n = 0 THEN 0 ELSE f[n] + backoffWindowMs(n)
  <2>1. f[n + 1] = op[<<n + 1, f[n]>>]
    BY <1>1 DEF Recurs
  <2>2. n + 1 \in Nat /\ (n + 1) - 1 = n
    OBVIOUS
  <2>3. n # 0 => backoffWindowMs(n) \in Int
    BY WindowIsNumber
  <2> HIDE DEF f
  <2>4. op[<<n + 1, f[n]>>] =
          IF n + 1 <= 1 THEN 0 ELSE f[n] + backoffWindowMs((n + 1) - 1)
    BY <1>3, <2>2
  <2> QED BY <1>3, <2>1, <2>2, <2>3, <2>4
<1>4. \A n \in Nat : f[n] \in Int
  <2> DEFINE S == {n \in Nat : f[n] \in Int}
  <2> HIDE DEF f
  <2>1. 0 \in S /\ \A n \in Nat : n \in S => n + 1 \in S
    BY <1>2, <1>3
  <2> HIDE DEF S
  <2>2. \A n \in Nat : n \in S
    BY <2>1, SetInduction
  <2> QED BY <2>2 DEF S
<1>5. f = grow(f)
  <2> SUFFICES ASSUME NEW n \in Nat
               PROVE  f[n] = IF n <= 1 THEN 0 ELSE f[n - 1] + backoffWindowMs(n - 1)
    OBVIOUS
  <2> HIDE DEF f
  <2>1. CASE n = 0
    BY <1>2, <2>1
  <2>2. CASE n # 0
    <3>1. n - 1 \in Nat /\ (n - 1) + 1 = n
      BY <2>2
    <3> QED BY <1>3, <1>4, <3>1
  <2> QED BY <2>1, <2>2
<1> DEFINE W == CHOOSE g : g = grow(g)
<1>6. W = grow(W)
  <2> HIDE DEF f, grow
  <2> QED BY <1>5
<1>7. W = worstCaseLadderMs
  BY DEF worstCaseLadderMs
<1>8. \A n \in Nat : worstCaseLadderMs[n] =
        IF n <= 1 THEN 0 ELSE worstCaseLadderMs[n - 1] + backoffWindowMs(n - 1)
  <2> HIDE DEF W
  <2> QED BY <1>6, <1>7
<1> HIDE DEF f, W, op
<1>9. worstCaseLadderMs[0] = 0 /\ worstCaseLadderMs[1] = 0
  BY <1>8
<1>10. \A n \in Nat \ {0} :
         worstCaseLadderMs[n + 1] = worstCaseLadderMs[n] + backoffWindowMs(n)
  <2> SUFFICES ASSUME NEW n \in Nat \ {0}
               PROVE  worstCaseLadderMs[n + 1] = worstCaseLadderMs[n] + backoffWindowMs(n)
    OBVIOUS
  <2>1. n + 1 \in Nat /\ ~ (n + 1 <= 1) /\ (n + 1) - 1 = n
    OBVIOUS
  <2> QED BY <1>8, <2>1
<1>11. \A n \in Nat : worstCaseLadderMs[n] \in Int
  <2> DEFINE S == {n \in Nat : worstCaseLadderMs[n] \in Int}
  <2>1. \A n \in Nat : n \in S => n + 1 \in S
    <3> SUFFICES ASSUME NEW n \in Nat, worstCaseLadderMs[n] \in Int
                 PROVE  worstCaseLadderMs[n + 1] \in Int
      OBVIOUS
    <3>1. n # 0 => backoffWindowMs(n) \in Int
      BY WindowIsNumber
    <3> QED BY <1>9, <1>10, <3>1
  <2>2. 0 \in S
    BY <1>9
  <2> HIDE DEF S
  <2>3. \A n \in Nat : n \in S
    BY <2>1, <2>2, SetInduction
  <2> QED BY <2>3 DEF S
<1> QED BY <1>9, <1>10, <1>11

(* How an attempt stands, and what it waited so far.                       *)
Attempts ==
  /\ phase \in {"ready", "calling", "mailing", "over"} /\ verdict \in Verdicts
  /\ phase = "over" <=> verdict # None
  /\ phase = "mailing" => step.kind = "email"
  /\ phase = "calling" => step.kind # "email"
  /\ counters \in [consumed : Nat, deferrals : Nat] /\ waited \in Nat
  /\ saved \in BOOLEAN /\ past \subseteq {"lost", "refused", "postponed"}

(* While there is an attempt to come, so is the last window of each ladder.*)
Ladders ==
  LET c == counters.consumed
      d == counters.deferrals IN
  phase # "over" =>
    waited + c + d <= worstCaseLadderMs[c + 1] + worstCaseLadderMs[d + 1]

(* A failed attempt is paced by its ladder, and no other failure ends in a *)
(* success.                                                                *)
LEMMA JudgePaces ==
  ASSUME Attempts, Ladders, phase # "over", NEW f, Judge(f)
  PROVE  /\ phase' \in {"ready", "over"}
         /\ verdict' \in {None, "terminal", "exhausted", "pause"}
         /\ phase' = "over" <=> verdict' # None
         /\ counters' \in [consumed : Nat, deferrals : Nat] /\ waited' \in Nat
         /\ Ladders'
<1> DEFINE class == classify(f)
           safe == isIdempotent(step)
           o == onAttemptFailed(counters, class, safe, MaxAttempts, MaxDeferrals)
           dec == decideRetry(class, safe)
           c == counters.consumed
           d == counters.deferrals
<1>1. /\ c \in Nat /\ d \in Nat /\ waited \in Nat /\ verdict = None
      /\ waited + c + d <= worstCaseLadderMs[c + 1] + worstCaseLadderMs[d + 1]
  BY DEF Attempts, Ladders
<1>2. /\ o.consumed = ConsumedAfter(c, dec) /\ o.deferrals = DeferralsAfter(d, dec)
      /\ o.kind \in {"retry", "exhausted", "pause", "terminal"}
      /\ o.kind = "retry" => dec.retry
  BY DEF onAttemptFailed
<1> HIDE DEF dec
<1>3. /\ dec.consumesAttempt => o.consumed = c + 1 /\ o.deferrals = d
      /\ ~ dec.consumesAttempt => o.consumed = c /\ o.deferrals \in {d, d + 1}
      /\ ~ dec.consumesAttempt /\ dec.retry => o.deferrals = d + 1
      /\ o.consumed \in Nat /\ o.deferrals \in Nat
  BY <1>1, <1>2 DEF ConsumedAfter, DeferralsAfter
<1> DEFINE place == LadderPosition(dec.consumesAttempt, o.consumed, o.deferrals)
<1>4. /\ counters' = [consumed |-> o.consumed, deferrals |-> o.deferrals]
      /\ IF o.kind = "retry"
         THEN /\ phase' = "ready" /\ UNCHANGED verdict
              /\ \E x \in Jittered(place) : waited' = waited + computeRetryDelay(x, 0)
         ELSE phase' = "over" /\ verdict' = o.kind /\ UNCHANGED waited
  BY DEF Judge, dec
<1> HIDE DEF o
<1>5. counters' \in [consumed : Nat, deferrals : Nat]
  BY <1>3, <1>4
<1>6. CASE o.kind # "retry"
  BY <1>1, <1>2, <1>4, <1>5, <1>6 DEF Ladders, None
<1>7. CASE o.kind = "retry"
  <2>1. PICK x \in Jittered(place) : waited' = waited + computeRetryDelay(x, 0)
    BY <1>4, <1>7
  <2>2. place \in Nat \ {0}
        /\ place = IF dec.consumesAttempt THEN c + 1 ELSE d + 1
    BY <1>1, <1>2, <1>3, <1>7 DEF LadderPosition
  <2> HIDE DEF place
  <2>3. backoffWindowMs(place) \in Int
    BY <2>2, WindowIsNumber
  <2>4. x \in Nat /\ x + 1 <= backoffWindowMs(place)
    BY <2>3 DEF Jittered
  <2>5. computeRetryDelay(x, 0) = x
    BY <2>4, PolicyAssumption DEF computeRetryDelay, PolicyAssumption
  <2>6. worstCaseLadderMs[place + 1] = worstCaseLadderMs[place] + backoffWindowMs(place)
    BY <2>2, LadderGrows
  <2>7. /\ worstCaseLadderMs[c + 1] \in Int /\ worstCaseLadderMs[d + 1] \in Int
        /\ worstCaseLadderMs[place] \in Int
    BY <1>1, <2>2, LadderGrows
  <2>8. counters'.consumed = o.consumed /\ counters'.deferrals = o.deferrals
    BY <1>4
  <2>9. waited' = waited + x
    BY <2>1, <2>5
  <2>10. waited' + o.consumed + o.deferrals
           <= worstCaseLadderMs[o.consumed + 1] + worstCaseLadderMs[o.deferrals + 1]
    <3>1. CASE dec.consumesAttempt
      BY <1>1, <1>3, <2>2, <2>3, <2>4, <2>6, <2>7, <2>9, <3>1
    <3>2. CASE ~ dec.consumesAttempt
      <4>1. o.consumed = c /\ o.deferrals = d + 1
        BY <1>2, <1>3, <1>7, <3>2
      <4> QED BY <1>1, <2>2, <2>3, <2>4, <2>6, <2>7, <2>9, <3>2, <4>1
    <3> QED BY <3>1, <3>2
  <2>11. Ladders'
    BY <2>8, <2>10 DEF Ladders
  <2> QED BY <1>1, <1>4, <1>5, <1>7, <2>4, <2>9, <2>11 DEF None
<1> QED BY <1>6, <1>7

(* How attempts stand, what they waited and how the last one was answered. *)
Told == step \in Steps /\ Attempts /\ Ladders /\ AnswerFits

(* Nothing is asked of an answer before a step has succeeded.              *)
LEMMA NoAnswerYet ==
  ASSUME verdict' # "succeeded"
  PROVE  AnswerFits'
  BY DEF AnswerFits

(* An answer of a model is used, or is a failure like another.             *)
LEMMA UseKeeps ==
  ASSUME Told, phase # "over", NEW answer, Use(answer), step' = step, saved' \in BOOLEAN,
         past' \subseteq {"lost", "refused", "postponed"}
  PROVE  Told'
<1> DEFINE names == answer[categoryField(step).name].names
           sorts == step.task = "classify"
<1>1. CASE /\ ~ (~ coerceFields(answer, Asked(step)) \/ (sorts /\ CategoryFails(names, step)))
           /\ Keep([values |-> answer,
                    names |-> IF sorts THEN resolveCategory(names, step) ELSE {}])
  <2>1. /\ phase' = "over" /\ verdict' = "succeeded" /\ UNCHANGED <<counters, waited>>
        /\ output'.values = answer
        /\ output'.names = IF sorts THEN resolveCategory(names, step) ELSE {}
    BY <1>1 DEF Keep
  <2>2. output'.names \subseteq step.categories \cup {"other"}
    BY <2>1 DEF resolveCategory
  <2>3. \A f \in Asked(step) :
           IF answer[f.name].is = "absent" THEN ~ f.required
                                           ELSE Coerces(answer[f.name], f.type)
    BY <1>1 DEF coerceFields
  <2>4. AnswerFits'
    BY <2>1, <2>2, <2>3 DEF AnswerFits, Asked, categoryField
  <2>5. Attempts' /\ Ladders'
    BY <2>1 DEF Told, Attempts, Ladders, Verdicts, None
  <2> QED BY <2>4, <2>5 DEF Told
<1>2. CASE Judge(ReplyFacts(NoReply))
  <2>1. Attempts' /\ Ladders' /\ verdict' # "succeeded"
    BY <1>2, JudgePaces DEF Told, Attempts, Verdicts, None
  <2> QED BY <2>1, NoAnswerYet DEF Told
<1> QED BY <1>1, <1>2 DEF Use

(* Every step keeps them.                                                  *)
LEMMA ToldKept == ASSUME Told, [Next]_vars PROVE Told'
<1>0. /\ step \in Steps /\ Attempts /\ Ladders /\ AnswerFits
      /\ phase # "over" => verdict = None
  BY DEF Told, Attempts
<1>1. ASSUME NEW f, Judge(f), phase # "over", step' = step, saved' = saved,
             past' \subseteq {"lost", "refused", "postponed"}
      PROVE  Told'
  <2>1. Attempts' /\ Ladders' /\ verdict' # "succeeded"
    BY <1>0, <1>1, JudgePaces DEF Attempts, Verdicts, None
  <2> QED BY <1>0, <1>1, <2>1, NoAnswerYet DEF Told
<1>2. ASSUME Keep(NoOutput), step.kind # "ai", phase # "over", step' = step, saved' = saved,
             past' \subseteq {"lost", "refused", "postponed"}
      PROVE  Told'
  <2>1. Attempts' /\ Ladders'
    BY <1>0, <1>2 DEF Keep, Attempts, Ladders, Verdicts, None
  <2>2. AnswerFits'
    BY <1>2 DEF AnswerFits
  <2> QED BY <1>0, <1>2, <2>1, <2>2 DEF Told
<1>3. ASSUME phase' = phase \/ (phase = "ready" /\ phase' = "mailing" /\ step.kind = "email")
               \/ (phase = "ready" /\ phase' = "calling" /\ step.kind # "email"),
             UNCHANGED <<step, verdict, counters, waited, output, past>>, saved' \in BOOLEAN
      PROVE  Told'
  <2>1. Attempts' /\ Ladders'
    BY <1>0, <1>3 DEF Attempts, Ladders
  <2>2. AnswerFits'
    BY <1>0, <1>3 DEF AnswerFits, Asked, categoryField
  <2> QED BY <1>0, <1>3, <2>1, <2>2 DEF Told
<1>4. CASE Attempt
  BY <1>0, <1>1, <1>3, <1>4 DEF Attempt, Attempts
<1>5. CASE Call \/ remove \/ UNCHANGED vars
  BY <1>0, <1>3, <1>5 DEF Call, remove, vars, svars, Attempts
<1>6. CASE Return
  <2>1. /\ phase = "calling" /\ step.kind # "email" /\ step' = step /\ saved' = saved
        /\ saved \in BOOLEAN
        /\ step.kind # "http" => step.kind = "ai"
    BY <1>0, <1>6, StepUrl DEF Return, Attempts
  <2>2. past' \subseteq {"lost", "refused", "postponed"}
    BY <1>0, <1>6 DEF Return, HangUp, Mark, Attempts
  <2>3. CASE Judge(FetchFacts)
    BY <1>1, <2>1, <2>2, <2>3
  <2>4. CASE step.kind = "http" /\ Keep(NoOutput)
    BY <1>2, <2>1, <2>2, <2>4
  <2>5. CASE \E answer \in AiAnswers : Use(answer)
    <3>1. PICK answer : Use(answer)
      BY <2>5
    <3>2. phase # "over" /\ saved' \in BOOLEAN
      BY <2>1
    <3> QED BY <2>1, <2>2, <3>1, <3>2, UseKeeps
  <2> QED BY <1>6, <2>3, <2>4, <2>5 DEF Return
<1>7. CASE Mail
  <2>1. /\ phase = "mailing" /\ step.kind = "email" /\ step' = step /\ saved' = saved
    BY <1>0, <1>7 DEF Mail, Attempts
  <2>2. past' \subseteq {"lost", "refused", "postponed"}
    BY <1>0, <1>7 DEF Mail, Mark, Attempts
  <2>3. Keep(NoOutput) \/ \E f : Judge(f)
    BY <1>7 DEF Mail
  <2> QED BY <1>1, <1>2, <2>1, <2>2, <2>3
<1> QED BY <1>4, <1>5, <1>6, <1>7 DEF Next

(* They hold before the first attempt.                                     *)
LEMMA ToldFirst == ASSUME Init PROVE Told
<1>1. /\ step \in Steps /\ phase = "ready" /\ verdict = None /\ waited = 0 /\ saved = TRUE
      /\ counters = [consumed |-> 0, deferrals |-> 0] /\ past = {}
  BY DEF Init
<1>2. Attempts
  BY <1>1 DEF Attempts, Verdicts
<1>3. Ladders
  BY <1>1, LadderGrows DEF Ladders
<1>4. AnswerFits
  BY <1>1 DEF AnswerFits, None
<1> QED BY <1>1, <1>2, <1>3, <1>4 DEF Told

(* For every policy and every draw of the jitter: the waits of a step stay *)
(* below the worst case of the attempts and of the deferrals it has spent  *)
(* (retry.ts:142-162, backoff.ts:109-114).                                 *)
THEOREM WaitsAlwaysBounded == Spec => []WaitsBounded
<1>1. Told => WaitsBounded
  BY DEF Told, Ladders, WaitsBounded
<1> QED BY <1>1, ToldFirst, ToldKept, PTL DEF Spec

(* Whatever a model answers, whenever it is asked again and whatever a     *)
(* failed answer left behind: an ai step that succeeded has its required   *)
(* fields and only the categories it was given or "other" (ai-fields.ts).  *)
THEOREM AnswersAlwaysFit == Spec => []AnswerFits
<1>1. Told => AnswerFits
  BY DEF Told
<1> QED BY <1>1, ToldFirst, ToldKept, PTL DEF Spec

-----------------------------------------------------------------------------
(* The types                                                               *)

(* A call within its bounds: a deadline that has room once a server is     *)
(* asked, and one chunk over the cap at the most.                          *)
CallBounds ==
  /\ left \in -1 .. Timeout /\ got \in 0 .. MaxBytes + 1 /\ method \in CallMethods
  /\ pc \in {"resolve", "send", "body"} => Timeout >= 1
  /\ pc = "body" => got <= MaxBytes
  /\ pc = "done" => end \in Ends

(* The limits that assertPolicyValid admits (backoff.ts:123-130).          *)
LimitsPositive == MaxAttempts >= 1 /\ MaxDeferrals >= 1

(* Before the last attempt neither limit is reached.                       *)
Spent ==
  /\ counters \in [consumed : 0 .. MaxAttempts, deferrals : 0 .. MaxDeferrals]
  /\ phase # "over" => /\ counters.consumed < MaxAttempts
                       /\ counters.deferrals < MaxDeferrals

(* A failure spends one attempt or one deferral, and the step is over with *)
(* the last of either.                                                     *)
LEMMA JudgeSpends ==
  ASSUME Spent, phase # "over", NEW f, Judge(f)
  PROVE  Spent'
<1> DEFINE class == classify(f)
           safe == isIdempotent(step)
           o == onAttemptFailed(counters, class, safe, MaxAttempts, MaxDeferrals)
           dec == decideRetry(class, safe)
           c == counters.consumed
           d == counters.deferrals
<1>1. /\ MaxAttempts \in Nat /\ MaxDeferrals \in Nat
      /\ c \in Nat /\ d \in Nat /\ c < MaxAttempts /\ d < MaxDeferrals
  BY AttemptsAssumption DEF AttemptsAssumption, Spent
<1>2. /\ o.consumed = ConsumedAfter(c, dec) /\ o.deferrals = DeferralsAfter(d, dec)
      /\ o.kind = "retry" =>
           dec.retry /\ ~ Exhausted(o.consumed, o.deferrals, dec, MaxAttempts, MaxDeferrals)
  BY DEF onAttemptFailed
<1>3. /\ counters' = [consumed |-> o.consumed, deferrals |-> o.deferrals]
      /\ phase' # "over" => o.kind = "retry"
  BY DEF Judge
<1> HIDE DEF dec, o
<1>4. /\ o.consumed \in 0 .. MaxAttempts /\ o.deferrals \in 0 .. MaxDeferrals
      /\ o.kind = "retry" => o.consumed < MaxAttempts /\ o.deferrals < MaxDeferrals
  BY <1>1, <1>2 DEF ConsumedAfter, DeferralsAfter, Exhausted
<1> QED BY <1>3, <1>4 DEF Spent

(* Every step spends no more than there is.                                *)
LEMMA SpentKept == ASSUME Attempts, Spent, [Next]_vars PROVE Spent'
<1>1. ASSUME NEW f, Judge(f), phase # "over" PROVE Spent'
  BY <1>1, JudgeSpends
<1>2. ASSUME counters' = counters, phase' = "over" \/ phase # "over" \/ phase' = phase
      PROVE  Spent'
  BY <1>2 DEF Spent
<1>3. CASE Attempt
  BY <1>1, <1>2, <1>3 DEF Attempt
<1>4. CASE Call \/ remove \/ UNCHANGED vars
  BY <1>2, <1>4 DEF Call, remove, vars, svars
<1>5. CASE Return
  BY <1>1, <1>2, <1>5 DEF Return, Use, Keep
<1>6. CASE Mail
  BY <1>1, <1>2, <1>6 DEF Mail, Keep
<1> QED BY <1>3, <1>4, <1>5, <1>6 DEF Next

(* A call that goes on, or ends, where it is.                              *)
LEMMA BoundsStay ==
  ASSUME CallBounds, method' \in CallMethods, got' = got, left' = left,
         pc' \in {"resolve", "send", "body"} => Timeout >= 1,
         pc' = "body" => got <= MaxBytes, pc' = "done" => end' \in Ends
  PROVE  CallBounds'
  BY DEF CallBounds

(* Every step of a call stays within them.                                 *)
LEMMA FetchBounds ==
  ASSUME CallInv, CallBounds, FetchStep
  PROVE  CallBounds'
<1> USE DEF call
<1>0. /\ Timeout \in Nat /\ MaxBytes \in Nat /\ left \in -1 .. Timeout
      /\ got \in 0 .. MaxBytes + 1 /\ method \in CallMethods
      /\ pc \in {"resolve", "send", "body"} => Timeout >= 1
  BY FetchAssumption DEF FetchAssumption, CallBounds
<1>1. CASE Hop
  <2>1. UNCHANGED <<method, got, left>>
    BY <1>1 DEF Hop
  <2>2. CASE Refusal # NoEnd /\ Finish(Refusal)
    <3>1. Refusal \in Ends
      BY <2>2 DEF Refusal, NoEnd, Ends
    <3> QED BY <1>0, <2>1, <2>2, <3>1, BoundsStay DEF Finish
  <2>3. CASE Refusal = NoEnd /\ pc' = IF url.literal THEN "send" ELSE "resolve"
    <3>1. ~ (left <= 0)
      BY <2>3 DEF Refusal, NoEnd
    <3> QED BY <1>0, <2>1, <2>3, <3>1, BoundsStay
  <2> QED BY <1>1, <2>2, <2>3 DEF Hop
<1>2. ASSUME NEW answer, Resolve(answer) PROVE CallBounds'
  <2>1. pc = "resolve" /\ UNCHANGED <<method, got>>
    BY <1>2 DEF Resolve
  <2>2. CASE Finish("blocked") /\ UNCHANGED left
    BY <1>0, <2>1, <2>2, BoundsStay DEF Finish, Ends
  <2>3. CASE pc' = "send" /\ left' = IF left < 1 THEN 1 ELSE left
    BY <1>0, <2>1, <2>3 DEF CallBounds
  <2> QED BY <1>2, <2>2, <2>3 DEF Resolve
<1>3. ASSUME NEW a, NEW s, Respond(s, a) PROVE CallBounds'
  <2>1. pc = "send" /\ left' = left
    BY <1>3 DEF Respond
  <2>2. ASSUME NEW next, Follow(s, next), got' = got PROVE CallBounds'
    <3>1. method' \in CallMethods
      BY <1>0, <2>2 DEF Follow, CallMethods
    <3> QED BY <1>0, <2>1, <2>2, <3>1, BoundsStay DEF Follow, Finish, Ends
  <2>3. CASE method' = method /\ got' = got /\ (Finish("too_large") \/ Finish("response"))
    BY <1>0, <2>1, <2>3, BoundsStay DEF Finish, Ends
  <2>4. CASE method' = method /\ pc' = "body" /\ got' = 0
    BY <1>0, <2>1, <2>4 DEF CallBounds
  <2> QED BY <1>3, <2>2, <2>3, <2>4 DEF Respond
<1>4. ASSUME NEW a, NEW how \in {"timeout", "reset", "broken"}, RequestFails(how, a)
      PROVE  CallBounds'
  BY <1>0, <1>4, BoundsStay DEF RequestFails, Finish, Ends
<1>5. CASE Chunk
  <2>1. /\ pc = "body" /\ got' = got + 1 /\ got <= MaxBytes
        /\ UNCHANGED <<method, left>>
    BY <1>5 DEF Chunk, CallBounds
  <2> QED BY <1>0, <1>5, <2>1 DEF Chunk, CallBounds, Finish, Ends
<1>6. ASSUME NEW how \in {"response", "timeout", "reset", "broken"}, BodyEnds(how)
      PROVE  CallBounds'
  BY <1>0, <1>6, BoundsStay DEF BodyEnds, Finish, Ends
<1>7. CASE Tick
  BY <1>0, <1>7 DEF Tick, CallBounds
<1> QED BY <1>1, <1>2, <1>3, <1>4, <1>5, <1>6, <1>7 DEF FetchStep

(* Between the calls there is nothing to bound.                            *)
LEMMA NoCallBounds ==
  /\ Idle => CallBounds
  /\ Forget => CallBounds'
<1>1. Timeout \in Nat /\ MaxBytes \in Nat
  BY FetchAssumption DEF FetchAssumption
<1>2. "GET" \in CallMethods
  BY DEF CallMethods
<1> QED BY <1>1, <1>2 DEF Idle, Forget, CallBounds

(* Every step of the attempts stays within them.                           *)
LEMMA BoundsKept ==
  ASSUME IInv, CallBounds, [Next]_vars
  PROVE  CallBounds'
<1>1. CASE UNCHANGED fvars
  BY <1>1 DEF CallBounds, fvars
<1>2. CASE Call
  BY <1>2, FetchBounds DEF Call, IInv
<1>3. CASE Return
  BY <1>3, NoCallBounds DEF Return, HangUp
<1>4. ASSUME step.kind # "email",
             Begin(Request.url, Request.method, Request.body, Request.cred)
      PROVE  CallBounds'
  <2>1. step \in Steps /\ step.kind \in {"http", "ai"}
    BY <1>4, StepUrl DEF IInv
  <2>2. Request.method \in CallMethods
    <3>1. CASE step.kind = "http"
      BY <2>1, <3>1 DEF Request, normaliseRequest, CallMethods
    <3>2. CASE step.kind # "http"
      BY <3>2 DEF Request, CallMethods
    <3> QED BY <3>1, <3>2
  <2>3. Timeout \in Nat /\ MaxBytes \in Nat
    BY FetchAssumption DEF FetchAssumption
  <2>4. pc' = "hop" /\ left' = Timeout /\ got' = 0 /\ method' = Request.method
    BY <1>4 DEF Begin
  <2> QED BY <2>2, <2>3, <2>4 DEF CallBounds, CallMethods
<1>5. CASE Attempt
  BY <1>1, <1>4, <1>5 DEF Attempt
<1> QED BY <1>1, <1>2, <1>3, <1>5 DEF Next, Mail, remove, vars

(* For every list of steps, every server and every model, under limits     *)
(* that assertPolicyValid admits: a call stays within its deadline and its *)
(* cap, the counters within their limits, and a step that is over says why *)
(* (safe-fetch.ts, retry.ts).                                              *)
THEOREM TypesHold ==
  ASSUME LimitsPositive
  PROVE  Spec => []TypeOK
<1> DEFINE All == IInv /\ Told /\ Spent /\ CallBounds
<1>1. ASSUME Init PROVE All
  <2>1. Spent
    BY <1>1, AttemptsAssumption DEF AttemptsAssumption, Init, Spent, LimitsPositive
  <2>2. CallBounds
    BY <1>1, NoCallBounds DEF Init
  <2> QED BY <1>1, <2>1, <2>2, Start, ToldFirst
<1>2. ASSUME All, [Next]_vars PROVE All'
  BY <1>2, StepKeeps, ToldKept, SpentKept, BoundsKept DEF Told
<1>3. ASSUME All PROVE TypeOK
  <2>1. hop \in 0 .. redirects
    BY <1>3 DEF IInv, CallInv, CallTypes, Hops
  <2> QED BY <1>3, <2>1 DEF IInv, CallInv, CallTypes, Told, Attempts, Spent, CallBounds, TypeOK
<1> HIDE DEF All
<1>4. Init => All
  BY <1>1
<1>5. All /\ [Next]_vars => All'
  BY <1>2
<1>6. All => TypeOK
  BY <1>3
<1> QED BY <1>4, <1>5, <1>6, PTL DEF Spec

-----------------------------------------------------------------------------
(* Addresses as numbers                                                    *)

(* Each power of two is twice the one before it.                           *)
LEMMA TwoToGrows ==
  /\ TwoTo[0] = 1
  /\ \A n \in Nat : TwoTo[n] \in Nat \ {0} /\ TwoTo[n + 1] = 2 * TwoTo[n]
<1> DEFINE op == [p \in Nat \X Int |-> 2 * p[2]]
           grow(g) == [n \in Nat |-> IF n = 0 THEN 1 ELSE 2 * g[n - 1]]
<1>1. PICK h : Recurs(h, 1, op)
  <2> HIDE DEF op
  <2> QED BY RecursionWorks
<1> DEFINE f == [n \in Nat |-> h[n]]
<1>2. f[0] = 1
  BY <1>1 DEF Recurs
<1>3. ASSUME NEW n \in Nat, f[n] \in Int
      PROVE  f[n + 1] = 2 * f[n]
  <2>1. f[n + 1] = op[<<n + 1, f[n]>>]
    BY <1>1 DEF Recurs
  <2> HIDE DEF f
  <2> QED BY <1>3, <2>1
<1>4. \A n \in Nat : f[n] \in Nat \ {0}
  <2> DEFINE S == {n \in Nat : f[n] \in Nat \ {0}}
  <2> HIDE DEF f
  <2>1. 0 \in S
    BY <1>2
  <2>2. \A n \in Nat : n \in S => n + 1 \in S
    <3> SUFFICES ASSUME NEW n \in Nat, f[n] \in Nat \ {0}
                 PROVE  f[n + 1] \in Nat \ {0}
      OBVIOUS
    <3> QED BY <1>3
  <2> HIDE DEF S
  <2>3. \A n \in Nat : n \in S
    BY <2>1, <2>2, SetInduction
  <2> QED BY <2>3 DEF S
<1>5. f = grow(f)
  <2> SUFFICES ASSUME NEW n \in Nat
               PROVE  f[n] = IF n = 0 THEN 1 ELSE 2 * f[n - 1]
    OBVIOUS
  <2> HIDE DEF f
  <2>1. CASE n = 0
    BY <1>2, <2>1
  <2>2. CASE n # 0
    <3>1. n - 1 \in Nat /\ (n - 1) + 1 = n
      BY <2>2
    <3> QED BY <1>3, <1>4, <2>2, <3>1
  <2> QED BY <2>1, <2>2
<1> DEFINE T == CHOOSE g : g = grow(g)
<1>6. T = grow(T)
  <2> HIDE DEF f, grow
  <2> QED BY <1>5
<1>7. T = TwoTo
  BY DEF TwoTo
<1>8. \A n \in Nat : TwoTo[n] = IF n = 0 THEN 1 ELSE 2 * TwoTo[n - 1]
  <2> HIDE DEF T
  <2> QED BY <1>6, <1>7
<1> HIDE DEF f, T, op
<1>9. TwoTo[0] = 1
  BY <1>8
<1>10. \A n \in Nat : TwoTo[n + 1] = 2 * TwoTo[n]
  <2> SUFFICES ASSUME NEW n \in Nat PROVE TwoTo[n + 1] = 2 * TwoTo[n]
    OBVIOUS
  <2>1. n + 1 \in Nat /\ n + 1 # 0 /\ (n + 1) - 1 = n
    OBVIOUS
  <2> QED BY <1>8, <2>1
<1>11. \A n \in Nat : TwoTo[n] \in Nat \ {0}
  <2> DEFINE S == {n \in Nat : TwoTo[n] \in Nat \ {0}}
  <2>1. 0 \in S
    BY <1>9
  <2>2. \A n \in Nat : n \in S => n + 1 \in S
    <3> SUFFICES ASSUME NEW n \in Nat, TwoTo[n] \in Nat \ {0}
                 PROVE  TwoTo[n + 1] \in Nat \ {0}
      OBVIOUS
    <3> QED BY <1>10
  <2> HIDE DEF S
  <2>3. \A n \in Nat : n \in S
    BY <2>1, <2>2, SetInduction
  <2> QED BY <2>3 DEF S
<1> QED BY <1>9, <1>10, <1>11

(* The powers of two multiply as their exponents add up.                   *)
LEMMA TwoToAdds ==
  ASSUME NEW m \in Nat, NEW n \in Nat
  PROVE  TwoTo[m + n] = TwoTo[m] * TwoTo[n]
<1> DEFINE S == {k \in Nat : TwoTo[m + k] = TwoTo[m] * TwoTo[k]}
<1>1. 0 \in S
  BY TwoToGrows
<1>2. \A k \in Nat : k \in S => k + 1 \in S
  <2> SUFFICES ASSUME NEW k \in Nat, TwoTo[m + k] = TwoTo[m] * TwoTo[k]
               PROVE  TwoTo[m + (k + 1)] = TwoTo[m] * TwoTo[k + 1]
    OBVIOUS
  <2>1. /\ TwoTo[k + 1] = 2 * TwoTo[k] /\ TwoTo[(m + k) + 1] = 2 * TwoTo[m + k]
        /\ TwoTo[m] \in Nat /\ TwoTo[k] \in Nat
    BY TwoToGrows
  <2>2. m + (k + 1) = (m + k) + 1
    OBVIOUS
  <2>3. 2 * (TwoTo[m] * TwoTo[k]) = TwoTo[m] * (2 * TwoTo[k])
    BY <2>1
  <2> QED BY <2>1, <2>2, <2>3
<1> HIDE DEF S
<1>3. n \in S
  BY <1>1, <1>2, SetInduction
<1> QED BY <1>3 DEF S

(* A number put together from a quotient and a remainder.                  *)
LEMMA Quotient ==
  ASSUME NEW m \in Nat \ {0}, NEW h \in Nat, NEW u \in 0 .. m - 1
  PROVE  (h * m + u) \div m = h
  OBVIOUS

(* Every number is.                                                        *)
LEMMA Parts ==
  ASSUME NEW m \in Nat \ {0}, NEW b \in Nat
  PROVE  /\ b \div m \in Nat
         /\ \E u \in 0 .. m - 1 : b = (b \div m) * m + u
<1>1. b = m * (b \div m) + (b % m) /\ b % m \in 0 .. m - 1
  OBVIOUS
<1>2. b \div m \in Nat
  OBVIOUS
<1> QED BY <1>1, <1>2

(* To divide twice is to divide by the product.                            *)
LEMMA DivideTwice ==
  ASSUME NEW m \in Nat \ {0}, NEW n \in Nat \ {0}, NEW b \in Nat
  PROVE  (b \div m) \div n = b \div (m * n)
<1>1. PICK q \in Nat, u \in 0 .. m - 1 : q = b \div m /\ b = q * m + u
  BY Parts
<1>2. PICK p \in Nat, v \in 0 .. n - 1 : p = q \div n /\ q = p * n + v
  BY Parts
<1>3. b = p * (m * n) + (v * m + u)
  <2>1. (p * n + v) * m = p * (m * n) + v * m
    OBVIOUS
  <2>2. q * m = p * (m * n) + v * m
    BY <1>2, <2>1
  <2>3. p * (m * n) \in Int /\ v * m \in Int
    OBVIOUS
  <2> QED BY <1>1, <2>2, <2>3
<1>4. v * m + u \in 0 .. m * n - 1
  <2>1. v * m <= (n - 1) * m /\ v * m \in Nat /\ (n - 1) * m = m * n - m
    OBVIOUS
  <2>2. m * n \in Nat
    OBVIOUS
  <2> QED BY <2>1, <2>2
<1>5. m * n \in Nat \ {0}
  OBVIOUS
<1>6. b \div (m * n) = p
  <2> DEFINE r == m * n
             w == v * m + u
  <2>1. r \in Nat \ {0} /\ w \in 0 .. r - 1 /\ b = p * r + w
    BY <1>3, <1>4, <1>5
  <2> HIDE DEF r, w
  <2>2. b \div r = p
    BY <2>1, Quotient
  <2> QED BY <2>2 DEF r
<1> QED BY <1>1, <1>2, <1>6

(* Two numbers with the same base and digits below it.                     *)
LEMMA SameDigits ==
  ASSUME NEW m \in Nat \ {0}, NEW x \in Nat, NEW y \in Nat,
         NEW u \in 0 .. m - 1, NEW v \in 0 .. m - 1
  PROVE  x * m + u = y * m + v <=> x = y /\ u = v
<1>1. (x * m + u) \div m = x /\ (y * m + v) \div m = y
  BY Quotient
<1>2. x * m \in Int /\ y * m \in Int
  OBVIOUS
<1> QED BY <1>1, <1>2

(* The high bits of a number are those of its last digit, after the others.*)
LEMMA HighPart ==
  ASSUME NEW r \in Nat \ {0}, NEW t \in Nat \ {0}, NEW b \in Nat, b = r * t
  PROVE  \A x \in Nat : \A d \in 0 .. b - 1 :
           /\ (x * b + d) \div t = x * r + d \div t
           /\ d \div t \in 0 .. r - 1
<1> SUFFICES ASSUME NEW x \in Nat, NEW d \in 0 .. b - 1
             PROVE  /\ (x * b + d) \div t = x * r + d \div t
                    /\ d \div t \in 0 .. r - 1
  OBVIOUS
<1>0. d \in Nat
  OBVIOUS
<1>1. PICK q \in Nat, u \in 0 .. t - 1 : q = d \div t /\ d = q * t + u
  BY <1>0, Parts
<1>2. q < r
  <2>1. CASE q >= r
    <3>1. q * t >= r * t /\ q * t \in Int /\ r * t \in Int
      BY <2>1
    <3> QED BY <1>1, <3>1
  <2> QED BY <2>1
<1>3. x * b + d = (x * r + q) * t + u
  <2>1. x * b + q * t = (x * r + q) * t /\ x * b \in Int /\ q * t \in Int
    OBVIOUS
  <2> QED BY <1>1, <2>1
<1>4. x * r + q \in Nat
  OBVIOUS
<1> QED BY <1>1, <1>2, <1>3, <1>4, Quotient

(* What a byte counts to.                                                  *)
Base == TwoTo[ByteBits]

(* The base is at least two and a byte a digit.                            *)
LEMMA BaseFacts == Base \in Nat \ {0} /\ Byte = 0 .. Base - 1 /\ ByteBits \in Nat \ {0}
  BY SizesAssumption, TwoToGrows DEF SizesAssumption, Base, Byte

(* The numbers of the first bytes: each is the one before it and a digit.  *)
LEMMA LeadingGrows ==
  ASSUME NEW a \in Seq(Byte)
  PROVE  /\ Leading(a)[0] = 0
         /\ \A k \in 0 .. Len(a) : Leading(a)[k] \in Nat
         /\ \A k \in 0 .. Len(a) - 1 : Leading(a)[k + 1] = Leading(a)[k] * Base + a[k + 1]
<1> DEFINE op == [p \in Nat \X Int |-> p[2] * Base + a[p[1]]]
           L == 0 .. Len(a)
           grow(g) == [k \in 0 .. Len(a) |-> IF k = 0 THEN 0 ELSE g[k - 1] * TwoTo[ByteBits] + a[k]]
<1>0. /\ Len(a) \in Nat /\ Base \in Nat \ {0}
      /\ \A k \in 1 .. Len(a) : a[k] \in Nat
  BY BaseFacts
<1>1. PICK h : Recurs(h, 0, op)
  <2> HIDE DEF op
  <2> QED BY RecursionWorks
<1> DEFINE f == [k \in L |-> h[k]]
<1>2. f[0] = 0
  BY <1>0, <1>1 DEF Recurs
<1>3. ASSUME NEW k \in 0 .. Len(a) - 1, f[k] \in Nat
      PROVE  f[k + 1] = f[k] * Base + a[k + 1]
  <2>0. k \in Nat /\ k \in L /\ k + 1 \in L /\ k + 1 \in Nat
    BY <1>0
  <2>1. f[k + 1] = op[<<k + 1, f[k]>>]
    <3> HIDE DEF op, L
    <3>1. f[k + 1] = h[k + 1] /\ f[k] = h[k]
      BY <2>0
    <3> HIDE DEF f
    <3> QED BY <1>1, <2>0, <3>1 DEF Recurs
  <2> HIDE DEF f
  <2> QED BY <1>3, <2>0, <2>1
<1>4. \A k \in L : f[k] \in Nat
  <2> DEFINE S == {k \in Nat : k <= Len(a) => f[k] \in Nat}
  <2> HIDE DEF f
  <2>1. 0 \in S
    BY <1>2
  <2>2. \A k \in Nat : k \in S => k + 1 \in S
    <3> SUFFICES ASSUME NEW k \in Nat, k + 1 <= Len(a), k <= Len(a) => f[k] \in Nat
                 PROVE  f[k + 1] \in Nat
      OBVIOUS
    <3>1. k \in 0 .. Len(a) - 1 /\ f[k] \in Nat /\ a[k + 1] \in Nat
      BY <1>0
    <3>2. f[k] * Base \in Nat
      BY <1>0, <3>1
    <3> QED BY <1>3, <3>1, <3>2
  <2> HIDE DEF S
  <2>3. \A k \in Nat : k \in S
    BY <2>1, <2>2, SetInduction
  <2> QED BY <1>0, <2>3 DEF S
<1>5. f = grow(f)
  <2> SUFFICES ASSUME NEW k \in L
               PROVE  f[k] = IF k = 0 THEN 0 ELSE f[k - 1] * TwoTo[ByteBits] + a[k]
    OBVIOUS
  <2> HIDE DEF f
  <2>1. CASE k = 0
    BY <1>2, <2>1
  <2>2. CASE k # 0
    <3>1. k - 1 \in 0 .. Len(a) - 1 /\ k - 1 \in L /\ (k - 1) + 1 = k
      BY <1>0, <2>2
    <3> QED BY <1>3, <1>4, <2>2, <3>1 DEF Base
  <2> QED BY <2>1, <2>2
<1> DEFINE N == CHOOSE g : g = grow(g)
<1>6. N = grow(N)
  <2> HIDE DEF f, grow
  <2> QED BY <1>5
<1>7. N = Leading(a)
  BY DEF Leading
<1>8. \A k \in L : Leading(a)[k] = IF k = 0 THEN 0 ELSE Leading(a)[k - 1] * Base + a[k]
  <2> HIDE DEF N
  <2> QED BY <1>6, <1>7 DEF Base
<1> HIDE DEF f, N, op
<1>9. Leading(a)[0] = 0
  BY <1>0, <1>8
<1>10. ASSUME NEW k \in 0 .. Len(a) - 1
       PROVE  Leading(a)[k + 1] = Leading(a)[k] * Base + a[k + 1]
  <2>1. k + 1 \in L /\ k + 1 # 0 /\ (k + 1) - 1 = k
    BY <1>0
  <2> QED BY <1>8, <2>1
<1>11. \A k \in L : Leading(a)[k] \in Nat
  <2> DEFINE S == {k \in Nat : k <= Len(a) => Leading(a)[k] \in Nat}
  <2>1. 0 \in S
    BY <1>9
  <2>2. \A k \in Nat : k \in S => k + 1 \in S
    <3> SUFFICES ASSUME NEW k \in Nat, k + 1 <= Len(a), k <= Len(a) => Leading(a)[k] \in Nat
                 PROVE  Leading(a)[k + 1] \in Nat
      OBVIOUS
    <3>1. k \in 0 .. Len(a) - 1 /\ Leading(a)[k] \in Nat /\ a[k + 1] \in Nat
      BY <1>0
    <3>2. Leading(a)[k] * Base \in Nat
      BY <1>0, <3>1
    <3> QED BY <1>10, <3>1, <3>2
  <2> HIDE DEF S
  <2>3. \A k \in Nat : k \in S
    BY <2>1, <2>2, SetInduction
  <2> QED BY <1>0, <2>3 DEF S
<1> QED BY <1>9, <1>10, <1>11

(* The last bytes of an address are what is cut off by a division.         *)
LEMMA LeadingCut ==
  ASSUME NEW a \in Seq(Byte), NEW k \in 0 .. Len(a), NEW j \in Nat, k + j <= Len(a)
  PROVE  Leading(a)[k + j] \div TwoTo[ByteBits * j] = Leading(a)[k]
<1>0. /\ Len(a) \in Nat /\ Base \in Nat \ {0} /\ ByteBits \in Nat
      /\ \A i \in 1 .. Len(a) : a[i] \in 0 .. Base - 1
  BY BaseFacts
<1> DEFINE S == {i \in Nat : k + i <= Len(a) =>
                    Leading(a)[k + i] \div TwoTo[ByteBits * i] = Leading(a)[k]}
<1>1. 0 \in S
  <2>1. ByteBits * 0 = 0 /\ k + 0 = k
    BY <1>0
  <2>2. Leading(a)[k] \in Nat /\ TwoTo[ByteBits * 0] = 1
    BY <2>1, LeadingGrows, TwoToGrows
  <2>3. Leading(a)[k + 0] \div 1 = Leading(a)[k]
    BY <2>1, <2>2
  <2> QED BY <2>2, <2>3
<1>2. \A i \in Nat : i \in S => i + 1 \in S
  <2> SUFFICES ASSUME NEW i \in Nat, k + (i + 1) <= Len(a),
                      Leading(a)[k + i] \div TwoTo[ByteBits * i] = Leading(a)[k]
               PROVE  Leading(a)[k + (i + 1)] \div TwoTo[ByteBits * (i + 1)] = Leading(a)[k]
    BY <1>0
  <2> DEFINE p == TwoTo[ByteBits * i]
             h == Leading(a)[k + i]
             b == Leading(a)[k + (i + 1)]
             d == a[k + (i + 1)]
  <2>1. k + i \in 0 .. Len(a) - 1 /\ k + (i + 1) = (k + i) + 1 /\ k + (i + 1) \in 0 .. Len(a)
    BY <1>0
  <2>2. h \in Nat /\ b \in Nat /\ b = h * Base + d /\ d \in 0 .. Base - 1
    BY <1>0, <2>1, LeadingGrows
  <2>3. b \div Base = h
    <3> HIDE DEF b, h, d
    <3> QED BY <1>0, <2>2, Quotient
  <2>4. ByteBits * (i + 1) = ByteBits + ByteBits * i /\ ByteBits * i \in Nat
    BY <1>0
  <2>5. TwoTo[ByteBits * (i + 1)] = Base * p /\ p \in Nat \ {0}
    BY <1>0, <2>4, TwoToAdds, TwoToGrows DEF Base
  <2>6. b \div (Base * p) = (b \div Base) \div p
    <3> HIDE DEF b, p
    <3> QED BY <1>0, <2>2, <2>5, DivideTwice
  <2> QED BY <2>3, <2>5, <2>6
<1> HIDE DEF S
<1>3. j \in S
  BY <1>1, <1>2, SetInduction
<1> QED BY <1>3 DEF S

(* Two addresses begin with the same number if and only if they begin with *)
(* the same bytes.                                                         *)
LEMMA SameLeading ==
  ASSUME NEW a \in Seq(Byte), NEW b \in Seq(Byte), NEW k \in Nat,
         k <= Len(a), k <= Len(b)
  PROVE  Leading(a)[k] = Leading(b)[k] <=> \A i \in 1 .. k : a[i] = b[i]
<1>0. /\ Len(a) \in Nat /\ Len(b) \in Nat /\ Base \in Nat \ {0}
      /\ \A i \in 1 .. Len(a) : a[i] \in 0 .. Base - 1
      /\ \A i \in 1 .. Len(b) : b[i] \in 0 .. Base - 1
  BY BaseFacts
<1> DEFINE S == {n \in Nat : n <= Len(a) /\ n <= Len(b) =>
                    (Leading(a)[n] = Leading(b)[n] <=> \A i \in 1 .. n : a[i] = b[i])}
<1>1. 0 \in S
  BY LeadingGrows
<1>2. \A n \in Nat : n \in S => n + 1 \in S
  <2> SUFFICES ASSUME NEW n \in Nat, n + 1 <= Len(a), n + 1 <= Len(b),
                      Leading(a)[n] = Leading(b)[n] <=> \A i \in 1 .. n : a[i] = b[i]
               PROVE  Leading(a)[n + 1] = Leading(b)[n + 1] <=> \A i \in 1 .. n + 1 : a[i] = b[i]
    BY <1>0
  <2> DEFINE x == Leading(a)[n]
             y == Leading(b)[n]
             u == a[n + 1]
             v == b[n + 1]
  <2>1. /\ n \in 0 .. Len(a) - 1 /\ n \in 0 .. Len(b) - 1
        /\ x \in Nat /\ y \in Nat /\ u \in 0 .. Base - 1 /\ v \in 0 .. Base - 1
        /\ Leading(a)[n + 1] = x * Base + u /\ Leading(b)[n + 1] = y * Base + v
    BY <1>0, LeadingGrows
  <2>2. x * Base + u = y * Base + v <=> x = y /\ u = v
    <3> HIDE DEF x, y, u, v
    <3>1. (x * Base + u) \div Base = x /\ (y * Base + v) \div Base = y
      BY <1>0, <2>1, Quotient
    <3>2. x * Base \in Int /\ y * Base \in Int
      BY <1>0, <2>1
    <3> QED BY <2>1, <3>1, <3>2
  <2>3. (\A i \in 1 .. n + 1 : a[i] = b[i]) <=> (\A i \in 1 .. n : a[i] = b[i]) /\ u = v
    OBVIOUS
  <2> QED BY <2>1, <2>2, <2>3
<1> HIDE DEF S
<1>3. k \in S
  BY <1>1, <1>2, SetInduction
<1> QED BY <1>3 DEF S

(* A prefix is some whole bytes and some bits of the next.                 *)
LEMMA PrefixSplits ==
  ASSUME NEW m \in Nat \ {0}, NEW n \in Nat, NEW p \in Nat, p <= m * n
  PROVE  \E w \in 0 .. n, r \in 0 .. m - 1 :
           /\ w = p \div m /\ r = p % m /\ p = m * w + r
           /\ r # 0 => w < n
<1> DEFINE w == p \div m
           r == p % m
<1>0. m * n \in Nat
  OBVIOUS
<1>1. p = m * w + r /\ w \in Nat /\ r \in 0 .. m - 1
  BY <1>0
<1> HIDE DEF w, r
<1>2. w <= n
  <2>1. CASE w >= n + 1
    <3>1. m * w >= m * (n + 1) /\ m * (n + 1) = m * n + m
      BY <1>1, <2>1
    <3>2. m * w \in Int /\ m * (n + 1) \in Int
      BY <1>1
    <3> QED BY <1>0, <1>1, <3>1, <3>2
  <2> QED BY <1>1, <2>1
<1>3. r # 0 => w # n
  <2> SUFFICES ASSUME w = n PROVE r = 0
    OBVIOUS
  <2>1. p = m * n + r
    BY <1>1
  <2> QED BY <1>0, <1>1, <2>1
<1>4. w \in 0 .. n /\ (r # 0 => w < n)
  BY <1>1, <1>2, <1>3
<1> QED BY <1>1, <1>4 DEF w, r

(* The number of the first w bytes and r bits of an address of n bytes.    *)
BitsSplit(a, n, w, r) ==
  LET z == Leading(a)[n] \div TwoTo[ByteBits * n - (ByteBits * w + r)]
      d == HighBits(a[w + 1], r)
  IN /\ Leading(a)[w] \in Nat /\ TwoTo[r] \in Nat \ {0}
     /\ r = 0 => z = Leading(a)[w]
     /\ r # 0 => d \in 0 .. TwoTo[r] - 1 /\ z = Leading(a)[w] * TwoTo[r] + d

(* It is that of the bytes, followed by the bits.                          *)
LEMMA LeadingBits ==
  ASSUME NEW a \in Seq(Byte), NEW n, n = Len(a), NEW w \in 0 .. n, NEW r \in 0 .. ByteBits - 1,
         r # 0 => w < n
  PROVE  BitsSplit(a, n, w, r)
<1>0. /\ ByteBits \in Nat \ {0} /\ Base \in Nat \ {0} /\ n \in Nat
      /\ w \in Nat /\ r \in Nat /\ w \in 0 .. Len(a)
      /\ \A i \in 1 .. n : a[i] \in 0 .. Base - 1
  BY BaseFacts
<1>1. Leading(a)[w] \in Nat /\ TwoTo[r] \in Nat \ {0}
  BY <1>0, LeadingGrows, TwoToGrows
<1>2. CASE r = 0
  <2>1. ByteBits * n - (ByteBits * w + r) = ByteBits * (n - w)
    BY <1>0, <1>2
  <2>2. n - w \in Nat /\ w + (n - w) = n
    BY <1>0
  <2>3. w + (n - w) <= Len(a)
    BY <1>0, <2>2
  <2>4. Leading(a)[w + (n - w)] \div TwoTo[ByteBits * (n - w)] = Leading(a)[w]
    BY <1>0, <2>2, <2>3, LeadingCut
  <2> QED BY <1>1, <1>2, <2>1, <2>2, <2>4 DEF BitsSplit
<1>3. CASE r # 0
  <2> DEFINE j == n - (w + 1)
             q == ByteBits - r
             T == TwoTo[q]
             U == TwoTo[ByteBits * j]
             R == TwoTo[r]
             x == Leading(a)[w]
             d == a[w + 1]
             y == Leading(a)[w + 1]
             z == Leading(a)[n]
  <2>1. /\ w \in 0 .. Len(a) - 1 /\ w + 1 \in 0 .. Len(a) /\ n \in 0 .. Len(a)
        /\ w + 1 \in 1 .. n
        /\ j \in Nat /\ (w + 1) + j = n /\ q \in Nat /\ r + q = ByteBits
    BY <1>0, <1>3
  <2>2. ByteBits * n - (ByteBits * w + r) = ByteBits * j + q /\ ByteBits * j \in Nat
    <3> HIDE DEF j
    <3>1. ByteBits * ((w + 1) + j) = ByteBits * w + ByteBits + ByteBits * j
      BY <1>0, <2>1
    <3>2. ByteBits * w \in Int /\ ByteBits * j \in Nat
      BY <1>0, <2>1
    <3> QED BY <1>0, <2>1, <3>1, <3>2
  <2>3. x \in Nat /\ y \in Nat /\ z \in Nat /\ y = x * Base + d
    BY <2>1, LeadingGrows
  <2>4. d \in 0 .. Base - 1
    BY <1>0, <2>1
  <2> HIDE DEF j
  <2>5. z \div U = y
    <3>1. (w + 1) + j <= Len(a)
      BY <1>0, <2>1
    <3>2. Leading(a)[(w + 1) + j] \div U = y
      BY <2>1, <3>1, LeadingCut
    <3> QED BY <2>1, <3>2
  <2> HIDE DEF q
  <2>6. TwoTo[ByteBits * j + q] = U * T /\ Base = R * T
    <3>1. TwoTo[ByteBits * j + q] = U * T
      BY <2>1, <2>2, TwoToAdds
    <3>2. TwoTo[r + q] = R * T
      BY <1>0, <2>1, TwoToAdds
    <3> QED BY <2>1, <3>1, <3>2 DEF Base
  <2>7. U \in Nat \ {0} /\ T \in Nat \ {0} /\ R \in Nat \ {0}
    BY <1>0, <2>1, <2>2, TwoToGrows
  <2>8. HighBits(d, r) = d \div T
    BY DEF HighBits, q
  <2> HIDE DEF x, d, y, z, U, T, R
  <2>9. z \div (U * T) = y \div T
    BY <2>3, <2>5, <2>7, DivideTwice
  <2>10. (x * Base + d) \div T = x * R + d \div T /\ d \div T \in 0 .. R - 1
    <3>1. /\ x \in Nat /\ d \in 0 .. Base - 1 /\ Base = R * T /\ Base \in Nat
          /\ T \in Nat \ {0} /\ R \in Nat \ {0}
      BY <1>0, <2>3, <2>4, <2>6, <2>7
    <3>2. \A i \in Nat : \A k \in 0 .. Base - 1 :
            (i * Base + k) \div T = i * R + k \div T /\ k \div T \in 0 .. R - 1
      BY <3>1, HighPart
    <3> QED BY <3>1, <3>2, Zenon
  <2>11. z \div TwoTo[ByteBits * n - (ByteBits * w + r)] = x * R + d \div T
    BY <2>2, <2>3, <2>6, <2>9, <2>10
  <2> QED BY <1>1, <1>3, <2>8, <2>10, <2>11 DEF x, d, z, R, BitsSplit
<1> QED BY <1>2, <1>3

(* The comparison byte by byte, and of the high bits of the next byte, is  *)
(* that of the numbers.                                                    *)
LEMMA ContainsIsCovers ==
  ASSUME NEW c, IsCidr(c), NEW a, IsAddress(a)
  PROVE  cidrContains(c, a) <=> Covers(c, a)
<1>1. CASE Len(c.bytes) # Len(a)
  BY <1>1 DEF cidrContains, Covers
<1>2. CASE Len(c.bytes) = Len(a)
  <2>0. PICK b \in Seq(Byte), n \in Nat, p \in Nat :
           /\ b = c.bytes /\ n = Len(a) /\ Len(b) = n
           /\ p = c.prefix /\ p \in 0 .. ByteBits * n
    BY <1>2 DEF IsCidr, IsAddress
  <2>1. a \in Seq(Byte) /\ ByteBits \in Nat \ {0}
    BY BaseFacts DEF IsAddress
  <2>2. PICK w \in 0 .. n, r \in 0 .. ByteBits - 1 :
           /\ w = p \div ByteBits /\ r = p % ByteBits /\ p = ByteBits * w + r
           /\ r # 0 => w < n
    <3>1. p <= ByteBits * n
      BY <2>0, <2>1
    <3> QED BY <2>0, <2>1, <3>1, PrefixSplits
  <2> DEFINE same == \A i \in 1 .. w : b[i] = a[i]
             last == HighBits(b[w + 1], r) = HighBits(a[w + 1], r)
             unit == TwoTo[ByteBits * n - (ByteBits * w + r)]
  <2>3. cidrContains(c, a) <=> same /\ (r = 0 \/ last)
    BY <1>2, <2>0, <2>2, Zenon DEF cidrContains
  <2>4. Covers(c, a) <=> Leading(b)[n] \div unit = Leading(a)[n] \div unit
    BY <1>2, <2>0, <2>2, Zenon DEF Covers, Num
  <2>5. Leading(b)[w] = Leading(a)[w] <=> same
    <3>1. w \in Nat /\ w <= Len(a) /\ w <= Len(b)
      BY <2>0
    <3> QED BY <2>1, <3>1, SameLeading
  <2>6. BitsSplit(a, n, w, r) /\ BitsSplit(b, n, w, r)
    <3>1. n = Len(a) /\ n = Len(b)
      BY <2>0
    <3> QED BY <2>1, <2>2, <3>1, LeadingBits
  <2>7. r # 0 => (Leading(b)[n] \div unit = Leading(a)[n] \div unit
                    <=> Leading(b)[w] = Leading(a)[w] /\ last)
    <3> SUFFICES ASSUME r # 0
                 PROVE  Leading(b)[n] \div unit = Leading(a)[n] \div unit
                          <=> Leading(b)[w] = Leading(a)[w] /\ last
      OBVIOUS
    <3> DEFINE R == TwoTo[r]
               x == Leading(b)[w]
               y == Leading(a)[w]
               u == HighBits(b[w + 1], r)
               v == HighBits(a[w + 1], r)
    <3>1. /\ x \in Nat /\ y \in Nat /\ R \in Nat \ {0} /\ u \in 0 .. R - 1 /\ v \in 0 .. R - 1
          /\ Leading(b)[n] \div unit = x * R + u /\ Leading(a)[n] \div unit = y * R + v
      BY <2>6 DEF BitsSplit
    <3>2. x * R + u = y * R + v <=> x = y /\ u = v
      <4> HIDE DEF R, x, y, u, v
      <4> QED BY <3>1, SameDigits
    <3> QED BY <3>1, <3>2
  <2>8. r = 0 => (Leading(b)[n] \div unit = Leading(a)[n] \div unit
                    <=> Leading(b)[w] = Leading(a)[w])
    BY <2>6 DEF BitsSplit
  <2> HIDE DEF same, last, unit
  <2> QED BY <2>3, <2>4, <2>5, <2>7, <2>8
<1> QED BY <1>1, <1>2

-----------------------------------------------------------------------------
(* Addresses as texts, and in disguise                                     *)

(* One sequence and then another, by their lengths.                        *)
LEMMA Joined ==
  ASSUME NEW S, NEW s \in Seq(S), NEW t \in Seq(S), NEW m, NEW n,
         m = Len(s), n = m + Len(t)
  PROVE  /\ s \o t \in Seq(S) /\ Len(s \o t) = n
         /\ \A k \in 1 .. n : (s \o t)[k] = IF k <= m THEN s[k] ELSE t[k - m]
  BY ConcatProperties

(* A run of zeros is longer than another, or as long and not after it.     *)
Better(r, q) == LET d == (r[2] - r[1]) - (q[2] - q[1])
                IN d > 0 \/ (d = 0 /\ r[1] <= q[1])

(* Of the runs of zeros, if there is one, one is the longest.              *)
LEMMA LongestIsRun ==
  ASSUME NEW a, Len(a) \in Nat, ZeroRuns(a) # {}
  PROVE  Longest(ZeroRuns(a)) \in ZeroRuns(a)
<1> DEFINE runs == ZeroRuns(a)
           n == Len(a)
           Short(r) == n - (r[2] - r[1])
           Ends1 == {Short(r) : r \in runs}
<1>0. \A r \in runs : r[1] \in Nat /\ r[2] \in Nat /\ r[2] - r[1] \in 0 .. n /\ Short(r) \in Nat
  BY DEF ZeroRuns
<1>8. \A r \in runs : r[1] \in Int /\ r[2] \in Int
  BY DEF ZeroRuns
<1> HIDE DEF runs
<1>1. PICK s \in Ends1 : \A y \in Ends1 : s <= y
  <2>1. Ends1 \subseteq Nat /\ Ends1 # {}
    BY <1>0 DEF runs
  <2> HIDE DEF Ends1
  <2> QED BY <2>1, MinIsLeast
<1> DEFINE Firsts == {r[1] : r \in {q \in runs : Short(q) = s}}
<1>2. PICK f \in Firsts : \A y \in Firsts : f <= y
  <2>1. Firsts \subseteq Nat /\ Firsts # {}
    BY <1>0, <1>1
  <2> HIDE DEF Firsts
  <2> QED BY <2>1, MinIsLeast
<1>3. PICK r \in runs : Short(r) = s /\ r[1] = f
  BY <1>2
<1>4. \A q \in runs : Better(r, q)
  <2> SUFFICES ASSUME NEW q \in runs PROVE Better(r, q)
    OBVIOUS
  <2>1. Short(r) <= Short(q) /\ (Short(q) = Short(r) => r[1] <= q[1])
    BY <1>1, <1>2, <1>3
  <2>2. /\ r[1] \in Int /\ r[2] \in Int /\ q[1] \in Int /\ q[2] \in Int
    BY <1>3, <1>8
  <2> QED BY <2>1, <2>2 DEF Better
<1>5. Longest(runs) = CHOOSE x \in runs : \A q \in runs : Better(x, q)
  BY DEF Longest, Better
<1>6. \E x \in runs : \A q \in runs : Better(x, q)
  BY <1>4
<1>7. (CHOOSE x \in runs : \A q \in runs : Better(x, q)) \in runs
  BY <1>6, Zenon
<1> QED BY <1>5, <1>7 DEF runs

(* The text of an address is read back as that address: the gap stands for *)
(* as many zeros as there were.                                            *)
LEMMA TextKeepsAddress ==
  ASSUME NEW a, IsAddress(a)
  PROVE  parseIp(ipToString(a)) = a
<1>0. a \in Seq(Byte) /\ Len(a) \in Nat /\ Len(a) \in {V4Bytes, V6Bytes}
  BY DEF IsAddress
<1>1. CASE Len(a) = V4Bytes \/ ZeroRuns(a) = {}
  BY <1>1 DEF ipToString, parseIp
<1>2. CASE ~ (Len(a) = V4Bytes \/ ZeroRuns(a) = {})
  <2> DEFINE r == Longest(ZeroRuns(a))
             i == r[1]
             j == r[2]
             n == Len(a)
             head == SubSeq(a, 1, i - 1)
             tail == SubSeq(a, j + 1, n)
             zeros == [k \in 1 .. V6Bytes - Len(head) - Len(tail) |-> 0]
  <2>1. r \in ZeroRuns(a) /\ n = V6Bytes
    BY <1>0, <1>2, LongestIsRun
  <2>2. parseIp(ipToString(a)) = head \o zeros \o tail
    BY <1>2 DEF ipToString, parseIp
  <2>3. /\ i \in 1 .. n /\ j \in 1 .. n /\ i < j /\ n \in Nat
        /\ \A k \in i .. j : a[k] = 0
    BY <1>0, <2>1 DEF ZeroRuns
  <2> HIDE DEF i, j, n
  <2>4. /\ head \in Seq(Byte) /\ Len(head) = i - 1 /\ \A k \in 1 .. i - 1 : head[k] = a[k]
        /\ tail \in Seq(Byte) /\ Len(tail) = n - j /\ \A k \in 1 .. n - j : tail[k] = a[j + k]
    BY <1>0, <2>3, SubSeqProperties DEF n
  <2> HIDE DEF head, tail
  <2>5. zeros \in Seq(Byte) /\ Len(zeros) = j - i + 1 /\ \A k \in 1 .. j - i + 1 : zeros[k] = 0
    <3>1. V6Bytes - Len(head) - Len(tail) = j - i + 1 /\ j - i + 1 \in Nat
      BY <2>1, <2>3, <2>4 DEF n
    <3>2. zeros = [k \in 1 .. j - i + 1 |-> 0]
      BY <3>1
    <3>3. 0 \in Byte
      BY BaseFacts
    <3> HIDE DEF zeros
    <3> QED BY <3>1, <3>2, <3>3
  <2> HIDE DEF zeros
  <2> DEFINE lead == head \o zeros
             whole == lead \o tail
  <2>7. /\ lead \in Seq(Byte) /\ Len(lead) = j
        /\ \A k \in 1 .. j : lead[k] = IF k <= i - 1 THEN head[k] ELSE zeros[k - (i - 1)]
    <3>1. i - 1 = Len(head) /\ j = (i - 1) + Len(zeros)
      BY <2>3, <2>4, <2>5
    <3>2. head \in Seq(Byte) /\ zeros \in Seq(Byte)
      BY <2>4, <2>5
    <3> QED BY <3>1, <3>2, Joined
  <2>8. \A k \in 1 .. j : lead[k] = a[k]
    <3> SUFFICES ASSUME NEW k \in 1 .. j PROVE lead[k] = a[k]
      OBVIOUS
    <3> HIDE DEF lead
    <3>1. CASE k <= i - 1
      <4>1. k \in 1 .. i - 1
        BY <2>3, <3>1
      <4> QED BY <2>4, <2>7, <3>1, <4>1
    <3>2. CASE ~ (k <= i - 1)
      <4>1. k - (i - 1) \in 1 .. j - i + 1 /\ k \in i .. j
        BY <2>3, <3>2
      <4> QED BY <2>3, <2>5, <2>7, <3>2, <4>1
    <3> QED BY <3>1, <3>2
  <2> HIDE DEF lead
  <2>9. /\ whole \in Seq(Byte) /\ Len(whole) = n
        /\ \A k \in 1 .. n : whole[k] = IF k <= j THEN lead[k] ELSE tail[k - j]
    <3>1. j = Len(lead) /\ n = j + Len(tail)
      BY <2>3, <2>4, <2>7
    <3>2. lead \in Seq(Byte) /\ tail \in Seq(Byte)
      BY <2>4, <2>7
    <3> QED BY <3>1, <3>2, Joined
  <2>10. ASSUME NEW k \in 1 .. n PROVE whole[k] = a[k]
    <3> HIDE DEF whole
    <3>1. CASE k <= j
      BY <2>3, <2>8, <2>9, <3>1
    <3>2. CASE ~ (k <= j)
      <4>1. k - j \in 1 .. n - j /\ j + (k - j) = k
        BY <2>3, <3>2
      <4> QED BY <2>4, <2>9, <3>2, <4>1
    <3> QED BY <3>1, <3>2
  <2>11. whole = a
    <3> HIDE DEF whole
    <3>1. Len(a) = n
      BY DEF n
    <3> QED BY <1>0, <2>9, <2>10, <3>1, SeqEqual
  <2> QED BY <2>2, <2>11 DEF lead, zeros
<1> QED BY <1>1, <1>2

(* An address is an IPv4 address in disguise if and only if one makes it.  *)
LEMMA MappedIsMade ==
  ASSUME NEW a, IsAddress(a)
  PROVE  /\ isIpv4Mapped(a) => /\ unwrapIpv4Mapped(a) \in Embedded
                              /\ a = MappedOf(unwrapIpv4Mapped(a))
                              /\ IsAddress(unwrapIpv4Mapped(a))
         /\ \A v \in Embedded : a = MappedOf(v) => isIpv4Mapped(a)
<1> DEFINE z == ZeroBytes
           o == OnesBytes
           f == V4Bytes
           full == TwoTo[ByteBits] - 1
           zeros == [i \in 1 .. z |-> 0]
           ones == [i \in 1 .. o |-> full]
<1>0. /\ z \in Nat \ {0} /\ o \in Nat \ {0} /\ f \in Nat \ {0}
      /\ V6Bytes = z + o + f
  BY SizesAssumption DEF SizesAssumption, V6Bytes
<1>1. full \in Byte /\ 0 \in Byte /\ Byte \subseteq Nat
  BY SizesAssumption, TwoToGrows DEF SizesAssumption, Byte
<1>2. a \in Seq(Byte) /\ Len(a) \in Nat
  BY DEF IsAddress
<1> HIDE DEF full
<1>3. /\ zeros \in Seq(Byte) /\ Len(zeros) = z /\ \A i \in 1 .. z : zeros[i] = 0
      /\ ones \in Seq(Byte) /\ Len(ones) = o /\ \A i \in 1 .. o : ones[i] = full
  BY <1>0, <1>1
<1> HIDE DEF zeros, ones
<1>4. ASSUME NEW v \in Embedded
      PROVE  /\ MappedOf(v) \in Seq(Byte) /\ Len(MappedOf(v)) = z + o + f
             /\ \A i \in 1 .. z + o + f : MappedOf(v)[i] =
                  IF i <= z THEN 0 ELSE IF i <= z + o THEN full ELSE v[i - (z + o)]
  <2>1. v \in Seq(Byte) /\ Len(v) = f
    BY <1>0 DEF Embedded
  <2> DEFINE lead == zeros \o ones
             whole == lead \o v
  <2>2. /\ lead \in Seq(Byte) /\ Len(lead) = z + o
        /\ \A i \in 1 .. z + o : lead[i] = IF i <= z THEN zeros[i] ELSE ones[i - z]
    <3>1. z = Len(zeros) /\ z + o = z + Len(ones)
      BY <1>0, <1>3
    <3> QED BY <1>3, <3>1, Joined
  <2>3. \A i \in 1 .. z + o : lead[i] = IF i <= z THEN 0 ELSE full
    <3> SUFFICES ASSUME NEW i \in 1 .. z + o PROVE lead[i] = IF i <= z THEN 0 ELSE full
      OBVIOUS
    <3> HIDE DEF lead
    <3>1. i > z => i - z \in 1 .. o
      BY <1>0
    <3> QED BY <1>0, <1>3, <2>2, <3>1
  <2> HIDE DEF lead
  <2>4. /\ whole \in Seq(Byte) /\ Len(whole) = z + o + f
        /\ \A i \in 1 .. z + o + f : whole[i] = IF i <= z + o THEN lead[i] ELSE v[i - (z + o)]
    <3>1. z + o = Len(lead) /\ z + o + f = (z + o) + Len(v)
      BY <1>0, <2>1, <2>2
    <3> QED BY <2>1, <2>2, <3>1, Joined
  <2>5. MappedOf(v) = whole
    BY DEF MappedOf, lead, zeros, ones, full
  <2> HIDE DEF whole
  <2>6. \A i \in 1 .. z + o + f : whole[i] =
                  IF i <= z THEN 0 ELSE IF i <= z + o THEN full ELSE v[i - (z + o)]
    <3> SUFFICES ASSUME NEW i \in 1 .. z + o + f
                 PROVE  whole[i] = IF i <= z THEN 0 ELSE IF i <= z + o THEN full ELSE v[i - (z + o)]
      OBVIOUS
    <3>1. i <= z => i <= z + o
      BY <1>0
    <3>2. i <= z + o => i \in 1 .. z + o
      BY <1>0
    <3> QED BY <2>3, <2>4, <3>1, <3>2
  <2> QED BY <2>4, <2>5, <2>6
<1>5. ASSUME isIpv4Mapped(a)
      PROVE  /\ unwrapIpv4Mapped(a) \in Embedded /\ a = MappedOf(unwrapIpv4Mapped(a))
             /\ IsAddress(unwrapIpv4Mapped(a))
  <2> DEFINE v == unwrapIpv4Mapped(a)
  <2>1. /\ Len(a) = z + o + f /\ \A i \in 1 .. z : a[i] = 0
        /\ \A i \in z + 1 .. z + o : a[i] = full
    BY <1>0, <1>5 DEF isIpv4Mapped, full
  <2>2. v \in Seq(Byte) /\ Len(v) = f /\ \A i \in 1 .. f : v[i] = a[z + o + i]
    <3>1. \A i \in z + o + 1 .. z + o + f : a[i] \in Byte
      BY <1>0, <1>2, <2>1
    <3>2. v = SubSeq(a, z + o + 1, z + o + f)
      BY <1>0 DEF unwrapIpv4Mapped
    <3> HIDE DEF v
    <3> QED BY <1>0, <3>1, <3>2, SubSeqProperties
  <2> HIDE DEF v
  <2>3. v \in Embedded
    BY <2>2 DEF Embedded
  <2>4. \A i \in 1 .. z + o + f : MappedOf(v)[i] = a[i]
    <3> SUFFICES ASSUME NEW i \in 1 .. z + o + f PROVE MappedOf(v)[i] = a[i]
      OBVIOUS
    <3>1. CASE i <= z
      BY <1>0, <1>4, <2>1, <2>3, <3>1
    <3>2. CASE i > z /\ i <= z + o
      <4>1. i \in z + 1 .. z + o /\ ~ (i <= z)
        BY <1>0, <3>2
      <4> QED BY <1>4, <2>1, <2>3, <3>2, <4>1
    <3>3. CASE i > z + o
      <4>1. i - (z + o) \in 1 .. f /\ z + o + (i - (z + o)) = i /\ ~ (i <= z) /\ ~ (i <= z + o)
        BY <1>0, <3>3
      <4> QED BY <1>4, <2>2, <2>3, <4>1
    <3> QED BY <1>0, <3>1, <3>2, <3>3
  <2>5. MappedOf(v) = a
    BY <1>2, <1>4, <2>1, <2>3, <2>4, SeqEqual
  <2> QED BY <2>2, <2>3, <2>5 DEF v, IsAddress
<1>6. ASSUME NEW v \in Embedded, a = MappedOf(v)
      PROVE  isIpv4Mapped(a)
  <2>1. Len(a) = V6Bytes
    BY <1>0, <1>4, <1>6
  <2>2. \A i \in 1 .. z : a[i] = 0
    BY <1>0, <1>4, <1>6
  <2>3. \A i \in z + 1 .. z + o : a[i] = full
    <3> SUFFICES ASSUME NEW i \in z + 1 .. z + o PROVE a[i] = full
      OBVIOUS
    <3>1. i \in 1 .. z + o + f /\ ~ (i <= z) /\ i <= z + o
      BY <1>0
    <3> QED BY <1>4, <1>6, <3>1
  <2> QED BY <2>1, <2>2, <2>3 DEF isIpv4Mapped, full
<1> QED BY <1>5, <1>6

-----------------------------------------------------------------------------
(* Where a request may go                                                  *)

(* The check of an address lets only those pass that may be asked.         *)
LEMMA ValidatedIsPermitted ==
  ASSUME NEW a, IsAddress(a), validateAddress(a)
  PROVE  Permitted(a)
<1>0. \A c \in Blocked \cup Allowed : IsCidr(c)
  BY ListsAssumption DEF ListsAssumption
<1>1. \A c \in Blocked \cup Allowed : cidrContains(c, a) <=> Covers(c, a)
  BY <1>0, ContainsIsCovers
<1>2. CASE InRange(a, Allowed)
  BY <1>1, <1>2 DEF InRange, Permitted
<1>3. CASE ~ InRange(a, Allowed)
  <2>1. ipToString(a) \notin MetadataTexts
    BY <1>3 DEF validateAddress
  <2>2. a \notin {parseIp(t) : t \in MetadataTexts}
    BY <2>1, ListsAssumption DEF ListsAssumption
  <2>3. CASE isIpv4Mapped(a)
    <3> DEFINE v == unwrapIpv4Mapped(a)
    <3>1. InRange(v, Allowed)
      BY <1>3, <2>3 DEF validateAddress
    <3>2. v \in Embedded /\ a = MappedOf(v) /\ IsAddress(v)
      BY <2>3, MappedIsMade
    <3> HIDE DEF v
    <3>3. PICK c \in Allowed : cidrContains(c, v)
      BY <3>1 DEF InRange
    <3>4. Covers(c, v)
      BY <1>0, <3>2, <3>3, ContainsIsCovers
    <3> QED BY <3>2, <3>3, <3>4 DEF Permitted
  <2>4. CASE ~ isIpv4Mapped(a)
    <3>1. \A c \in Blocked : ~ Covers(c, a)
      BY <1>1, <1>3, <2>4 DEF validateAddress, InRange
    <3>2. \A v \in Embedded : a # MappedOf(v)
      BY <2>4, MappedIsMade
    <3> QED BY <2>2, <3>1, <3>2 DEF Permitted
  <2> QED BY <2>3, <2>4
<1> QED BY <1>2, <1>3

(* The addresses a call could be told of, and those of them that passed.   *)
Known == (UNION Answers) \cup {u.addr : u \in Locations}
Passed == {a \in Known : IsAddress(a) /\ validateAddress(a)}

(* What passed may be asked, and the socket is opened to it and no other.  *)
LEMMA PassedIsPermitted ==
  ASSUME NEW a \in Passed, NEW reached, NEW s
  PROVE  Sent(a, reached, s).addr \in PermittedAddrs
<1>1. Sent(a, reached, s).addr = parseIp(ipToString(a))
  BY DEF Sent
<1>2. parseIp(ipToString(a)) = a
  BY TextKeepsAddress DEF Passed
<1>3. Permitted(a)
  BY ValidatedIsPermitted DEF Passed
<1> QED BY <1>1, <1>2, <1>3 DEF PermittedAddrs, Passed, Known

(* A call that is about to send has validated every address it may send to;*)
(* so had it for what it sent before.                                      *)
Pinned ==
  /\ pc = "send" => addrs \subseteq Passed
  /\ \A i \in 1 .. Len(wire) : wire[i].addr \in PermittedAddrs

(* Every step of a call keeps that.                                        *)
LEMMA PinnedFetch ==
  ASSUME CallInv, Pinned, FetchStep
  PROVE  Pinned'
<1>0. PermittedAddrs' = PermittedAddrs /\ Passed' = Passed
  BY DEF PermittedAddrs, Permitted, Covers, Num, Leading, Passed, Known
<1>1. ASSUME UNCHANGED wire, pc' = "send" => addrs' \subseteq Passed
      PROVE  Pinned'
  BY <1>0, <1>1 DEF Pinned
<1>2. ASSUME NEW a \in addrs, NEW reached, NEW s, pc = "send", pc' # "send",
             wire' = Append(wire, Sent(a, reached, s))
      PROVE  Pinned'
  <2>1. /\ Len(wire) \in Nat /\ Len(wire') = Len(wire) + 1
        /\ \A i \in 1 .. Len(wire) : wire'[i] = wire[i]
        /\ wire'[Len(wire) + 1] = Sent(a, reached, s)
    BY <1>2, OneMore DEF CallInv, CallTypes
  <2>2. Sent(a, reached, s).addr \in PermittedAddrs
    BY <1>2, PassedIsPermitted DEF Pinned
  <2>3. \A i \in 1 .. Len(wire) + 1 : wire'[i].addr \in PermittedAddrs
    BY <2>1, <2>2 DEF Pinned
  <2> QED BY <1>0, <1>2, <2>1, <2>3 DEF Pinned
<1>3. CASE Hop
  <2>1. url \in Locations
    BY DEF CallInv, CallTypes
  <2>2. pc' = "send" => addrs' \subseteq Passed
    <3> SUFFICES ASSUME pc' = "send" PROVE addrs' \subseteq Passed
      OBVIOUS
    <3>1. Refusal = NoEnd /\ url.literal /\ addrs' = {url.addr}
      BY <1>3 DEF Hop, Finish
    <3>2. validateUrl(url)
      BY <3>1 DEF Refusal, NoEnd
    <3>3. validateAddress(url.addr)
      BY <3>1, <3>2 DEF validateUrl
    <3>4. IsAddress(url.addr)
      BY <2>1, <3>1, FetchAssumption DEF FetchAssumption
    <3>5. url.addr \in Known
      BY <2>1 DEF Known
    <3> QED BY <3>1, <3>3, <3>4, <3>5 DEF Passed
  <2> QED BY <1>1, <1>3, <2>2 DEF Hop
<1>4. ASSUME NEW answer \in Answers, Resolve(answer) PROVE Pinned'
  <2>1. pc' = "send" => addrs' = answer /\ AllPermitted(answer)
    BY <1>4 DEF Resolve, Finish
  <2>2. AllPermitted(answer) => answer \subseteq Passed
    BY FetchAssumption DEF FetchAssumption, AllPermitted, Passed, Known
  <2> QED BY <1>1, <1>4, <2>1, <2>2 DEF Resolve
<1>5. ASSUME NEW a \in addrs, NEW s, Respond(s, a) PROVE Pinned'
  <2>1. pc' # "send"
    BY <1>5 DEF Respond, Follow, Finish
  <2> QED BY <1>2, <1>5, <2>1 DEF Respond
<1>6. ASSUME NEW a \in addrs, NEW how, RequestFails(how, a) PROVE Pinned'
  BY <1>2, <1>6 DEF RequestFails, Finish
<1>7. CASE Chunk
  BY <1>1, <1>7 DEF Chunk, Finish
<1>8. ASSUME NEW how, BodyEnds(how) PROVE Pinned'
  BY <1>1, <1>8 DEF BodyEnds, Finish
<1>9. CASE Tick
  BY <1>1, <1>9 DEF Tick, Pinned
<1> QED BY <1>3, <1>4, <1>5, <1>6, <1>7, <1>8, <1>9 DEF FetchStep

(* So does every step of the attempts.                                     *)
LEMMA PinnedKept ==
  ASSUME IInv, Pinned, [Next]_vars
  PROVE  Pinned'
<1>0. PermittedAddrs' = PermittedAddrs /\ Passed' = Passed
  BY DEF PermittedAddrs, Permitted, Covers, Num, Leading, Passed, Known
<1>1. CASE UNCHANGED fvars
  BY <1>0, <1>1 DEF Pinned, fvars
<1>2. CASE Call
  BY <1>2, PinnedFetch DEF Call, IInv
<1>3. CASE Return
  BY <1>3, EmptyWire DEF Return, HangUp, Forget, Pinned
<1>4. ASSUME NEW u, NEW m, NEW b, NEW c, Begin(u, m, b, c) PROVE Pinned'
  BY <1>0, <1>4 DEF Begin, Pinned
<1>5. CASE Attempt
  BY <1>1, <1>4, <1>5 DEF Attempt
<1> QED BY <1>1, <1>2, <1>3, <1>5 DEF Next, Mail, remove, vars

(* For every size of an address, every blocklist, whatever the name        *)
(* servers answer and wherever a server redirects to: nothing is sent to   *)
(* an address that is not permitted, or to another than the one that was   *)
(* checked (safe-fetch.ts, resolve.ts, ip.ts, blocklist.ts).               *)
THEOREM OnlyPermittedAsked == Spec => []PinnedIsPermitted
<1>1. Init => Pinned
  BY EmptyWire DEF Init, Idle, Pinned
<1>2. IInv /\ Pinned => PinnedIsPermitted
  <2> SUFFICES ASSUME IInv, Pinned PROVE PinnedIsPermitted
    OBVIOUS
  <2>1. PICK S : wire \in Seq(S)
    BY DEF IInv, CallInv, CallTypes, IsSeq
  <2>2. DOMAIN wire = 1 .. Len(wire)
    BY <2>1, LenProperties
  <2> QED BY <2>2 DEF Pinned, PinnedIsPermitted
<1>3. IInv /\ Pinned /\ [Next]_vars => Pinned'
  BY PinnedKept
<1> QED BY <1>1, <1>2, <1>3, Start, StepKeeps, PTL DEF Spec

=============================================================================
