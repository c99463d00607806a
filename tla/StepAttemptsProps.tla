--------------------------- MODULE StepAttemptsProps ---------------------------
(***************************************************************************)
(* What the attempts of one outside step promise.                          *)
(***************************************************************************)
EXTENDS StepAttempts

(* The methods a call may have: one that a step is configured with, the    *)
(* POST of an ai step, the GET of a redirect.                              *)
CallMethods ==
  {"GET", "POST"} \cup {MethodOf(s.method) : s \in {t \in Steps : t.kind = "http"}}

TypeOK ==
  /\ step \in Steps /\ phase \in {"ready", "calling", "mailing", "over"}
  /\ verdict \in Verdicts /\ (phase = "over" <=> verdict # None)
  /\ counters \in [consumed : 0 .. MaxAttempts, deferrals : 0 .. MaxDeferrals]
  /\ pc \in PC /\ url \in Locations /\ redirects \in Nat
  /\ method \in CallMethods /\ {body, cred, timer, saved} \subseteq BOOLEAN
  /\ hop \in 0 .. redirects /\ left \in -1 .. Timeout
  /\ got \in 0 .. MaxBytes + 1
  /\ (pc = "done" => end \in Ends)
  /\ past \subseteq {"lost", "refused", "postponed"}

(* The numbers that the first bytes of an address are.                     *)
Leading(a) ==
  LET n[k \in 0 .. Len(a)] == IF k = 0 THEN 0 ELSE n[k - 1] * TwoTo[ByteBits] + a[k]
  IN n

(* The number an address is, and the range of numbers a CIDR is.           *)
Num(a) == Leading(a)[Len(a)]

Covers(c, a) ==
  LET unit == TwoTo[ByteBits * Len(a) - c.prefix] IN
  Len(c.bytes) = Len(a) /\ Num(c.bytes) \div unit = Num(a) \div unit

Embedded == [1 .. V4Bytes -> Byte]
MappedOf(a) == [i \in 1 .. ZeroBytes |-> 0]
               \o [i \in 1 .. OnesBytes |-> TwoTo[ByteBits] - 1] \o a

(* Where a request may go, said with numbers: into an allowed range, or    *)
(* an address that is neither the metadata service's, nor an IPv4 address  *)
(* in disguise, nor in a blocked range.                                    *)
Permitted(a) ==
  \/ \E c \in Allowed : Covers(c, a)
  \/ \E v \in Embedded : a = MappedOf(v) /\ \E c \in Allowed : Covers(c, v)
  \/ /\ a \notin {parseIp(t) : t \in MetadataTexts}
     /\ \A v \in Embedded : a # MappedOf(v)
     /\ \A c \in Blocked : ~ Covers(c, a)

PermittedAddrs ==
  {a \in (UNION Answers) \cup {u.addr : u \in Locations} : Permitted(a)}

(* Whatever the name servers answer and wherever a server redirects to,    *)
(* nothing is sent to an address that is not permitted: the check of every *)
(* resolved address, the pinning and the text the socket is opened with    *)
(* agree (safe-fetch.ts, resolve.ts, ip.ts).                               *)
PinnedIsPermitted ==
  \A i \in DOMAIN wire : wire[i].addr \in PermittedAddrs

Origin(u) == [scheme |-> u.scheme, name |-> u.name, addr |-> u.addr,
              port |-> u.port]

(* A credential goes to the origin the call began with and to no other,    *)
(* however often the server redirects; a request that was turned into a    *)
(* GET carries no body (safe-fetch.ts:194-204).                            *)
SecretsStayHome ==
  \A i \in DOMAIN wire :
    /\ wire[i].cred => Origin(wire[i].url) = Origin(wire[1].url)
    /\ wire[i].method = "GET" => ~ wire[i].body

(* Something is being, or has been, asked in this attempt.                 *)
Asking == phase = "mailing" \/ wire # <<>>

(* What may be asked again whatever has become of it.                      *)
Repeatable(s) == s.kind = "http" /\ MethodOf(s.method) \in {"GET", "HEAD"}

(* An attempt makes no more calls than redirects allow, and a call that    *)
(* must not be repeated is not made again once a server has failed over it *)
(* and said so in full (classify.ts:6-7, error-classes.ts:108-115).        *)
AskedOnce ==
  /\ Len(wire) <= redirects + 1
  /\ ~ Repeatable(step) => ~ (Asking /\ "refused" \in past)

(* The waits of a step so far are each short of the window of its place in *)
(* its ladder, the failures' or the deferrals', so that they never add up  *)
(* to the worst case (retry.ts:142-162, backoff.ts:109-114).               *)
WaitsBounded ==
  LET c == counters.consumed
      d == counters.deferrals IN
  phase = "ready" =>
    waited + c + d <= worstCaseLadderMs[c + 1] + worstCaseLadderMs[d + 1]

(* An ai step that succeeded has every required field, each of its type,   *)
(* and answers with the categories it was given or with "other"            *)
(* (ai-fields.ts).                                                         *)
AnswerFits ==
  step.kind = "ai" /\ verdict = "succeeded" =>
    /\ \A f \in Asked(step) :
         LET v == output.values[f.name]
         IN IF v.is = "absent" THEN ~ f.required ELSE Coerces(v, f.type)
    /\ output.names \subseteq step.categories \cup {"other"}

(* Whenever a call waits for a server its deadline is armed and still to   *)
(* come, also while the body trickles in (safe-fetch.ts:390-392); only the *)
(* name servers are waited for without it.                                 *)
AlwaysTimed == pc \in {"send", "body"} => timer /\ left >= 0

(* A call that must not be repeated and whose answer was lost is not made  *)
(* a second time.                                                          *)
NoBlindRepeat ==
  ~ isIdempotent(step) /\ Asking => "lost" \notin past

(* A relay that asks for another try later gets one.                       *)
TemporaryRefusalIsRetried ==
  step.kind = "email" /\ verdict = "terminal" => "postponed" \notin past

================================================================================
