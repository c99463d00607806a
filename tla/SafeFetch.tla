------------------------------- MODULE SafeFetch -------------------------------
(***************************************************************************)
(* One call of safeFetch (automa-safe-fetch/src/safe-fetch.ts): the loop   *)
(* over redirects, the resolution of a name, the request to the pinned     *)
(* address, the deadline and the body with its cap.                        *)
(*                                                                         *)
(* The name servers, the server asked and the clock are the environment.   *)
(* left is what remains of the deadline, in ticks; a timer that is due     *)
(* fires before more time passes.  wire records what was sent where.       *)
(***************************************************************************)
EXTENDS AddressPolicy, FiniteSets

CONSTANTS Locations,     \* the URLs a call may start at and a server may name
          Answers,       \* what a name server may answer: sets of addresses
          Statuses,      \* the statuses a server may answer with
          Timeout,       \* timeoutMs, in ticks
          MaxBytes       \* maxResponseBytes, in chunks

ASSUME FetchAssumption ==
  /\ Locations # {}
  /\ \A u \in Locations : u.literal \in BOOLEAN /\ (u.literal => IsAddress(u.addr))
  /\ \A a \in UNION Answers : IsAddress(a)
  /\ Statuses \subseteq Nat /\ Timeout \in Nat /\ MaxBytes \in Nat

VARIABLES pc,            \* "idle", "hop", "resolve", "send", "body", "done"
          end,           \* how the call ended, NoEnd until it has
          url,           \* currentUrl
          home,          \* origin: that of the first URL
          redirects,     \* maxRedirects
          method, body,  \* the method, and whether a body is sent
          cred,          \* is one of the sensitive headers still there
          hop,
          addrs,         \* the addresses resolved and validated in this hop
          left,          \* ticks to the deadline
          timer,         \* is the deadline's timer armed
          status, got,   \* of the answer: its status, the chunks received
          wire           \* every request that went out, in order

call == <<url, home, redirects, method, body, cred>>
fvars == <<pc, end, url, home, redirects, method, body, cred, hop, addrs,
           left, timer, status, got, wire>>

NoEnd == "none"
NoStatus == 0
Redirects == {301, 302, 303, 307, 308}
Bodyless == {204, 205, 304}
PC == {"idle", "hop", "resolve", "send", "body", "done"}
Ends == {"response", "blocked", "redirects", "timeout", "too_large", "reset", "broken"}

(* Slip: the port is left out of the origin.                               *)
safeOriginSlip(u) == IF u.parses THEN <<u.scheme, u.name, u.addr, 0>> ELSE <<>>

(* The origin, or a value that is no URL's.                                *)
safeOrigin(u) == IF u.parses THEN <<u.scheme, u.name, u.addr, u.port>> ELSE <<>>

(* No call yet.                                                            *)
Idle ==
  /\ pc = "idle" /\ url = CHOOSE u \in Locations : TRUE
  /\ home = <<>> /\ method = "GET" /\ body = FALSE /\ cred = FALSE
  /\ hop = 0 /\ addrs = {} /\ left = Timeout /\ timer = FALSE
  /\ status = NoStatus /\ got = 0 /\ end = NoEnd /\ wire = <<>>

(* The call is over and its variables are gone.                            *)
Forget ==
  /\ pc' = "idle" /\ url' = CHOOSE u \in Locations : TRUE
  /\ home' = <<>> /\ method' = "GET" /\ body' = FALSE /\ cred' = FALSE
  /\ hop' = 0 /\ addrs' = {} /\ left' = Timeout /\ timer' = FALSE
  /\ status' = NoStatus /\ got' = 0 /\ end' = NoEnd /\ wire' = <<>>
  /\ UNCHANGED redirects

(* safeFetch is called; how many redirects it follows is the client's.     *)
Begin(u, m, b, c) ==
  /\ pc' = "hop" /\ url' = u /\ home' = safeOrigin(u)
  /\ method' = m /\ body' = b /\ cred' = c
  /\ hop' = 0 /\ addrs' = {} /\ left' = Timeout /\ timer' = FALSE
  /\ status' = NoStatus /\ got' = 0 /\ end' = NoEnd
  /\ UNCHANGED <<redirects, wire>>

(* Slip: one hop too many.                                                 *)
TooFarSlip(n) == n > redirects + 1

TooFar(n) == n > redirects

Finish(how) == pc' = "done" /\ end' = how /\ timer' = FALSE

(* The head of the loop: too many hops, a deadline already past, a URL     *)
(* that is refused; else a literal address is pinned and a name resolved.  *)
Refusal ==
  IF TooFar(hop) THEN "redirects"
  ELSE IF left <= 0 THEN "timeout"
  ELSE IF ~ validateUrl(url) THEN "blocked"
  ELSE NoEnd

Hop ==
  /\ pc = "hop"
  /\ \/ Refusal # NoEnd /\ Finish(Refusal) /\ UNCHANGED addrs
     \/ /\ Refusal = NoEnd
        /\ pc' = IF url.literal THEN "send" ELSE "resolve"
        /\ addrs' = IF url.literal THEN {url.addr} ELSE {}
        /\ timer' = url.literal
        /\ UNCHANGED end
  /\ UNCHANGED <<call, hop, left, status, got, wire>>

(* Slip: any address of the answer that is permitted will do.              *)
AllPermittedSlip(answer) == \E a \in answer : validateAddress(a)

(* Every address of the answer, not only the one to be used.               *)
AllPermitted(answer) == \A a \in answer : validateAddress(a)

(* resolveAndValidate: no answer at all, an empty one and one that holds a *)
(* refused address all end the call.  The deadline does not bound the name *)
(* server; the request that follows still gets a tick.                     *)
Resolve(answer) ==
  /\ pc = "resolve"
  /\ IF answer # {} /\ AllPermitted(answer)
     THEN /\ pc' = "send" /\ addrs' = answer /\ timer' = TRUE
          /\ left' = IF left < 1 THEN 1 ELSE left
          /\ UNCHANGED end
     ELSE Finish("blocked") /\ UNCHANGED <<addrs, left>>
  /\ UNCHANGED <<call, hop, status, got, wire>>

(* What goes out over the pinned socket, to whatever the text of the       *)
(* address says.                                                           *)
Sent(a, reached, s) ==
  [url |-> url, addr |-> parseIp(ipToString(a)), method |-> method, body |-> body, cred |-> cred,
   reached |-> reached, status |-> s, hop |-> hop]

(* A 303, or a 301 or 302 to a POST, turns into a GET without a body.      *)
TurnsIntoGet(s) == s = 303 \/ (s \in {301, 302} /\ method = "POST")

(* A redirect is a new URL chosen by the server: start over.  A credential *)
(* dropped on the way is not put back.                                     *)
Follow(s, next) ==
  IF TooFar(hop + 1)
  THEN /\ Finish("redirects")
       /\ UNCHANGED <<url, home, redirects, method, body, cred, hop>>
  ELSE /\ pc' = "hop" /\ hop' = hop + 1 /\ url' = next /\ timer' = FALSE
       /\ cred' = (cred /\ safeOrigin(next) = home)
       /\ method' = IF TurnsIntoGet(s) THEN "GET" ELSE method
       /\ body' = (body /\ ~ TurnsIntoGet(s))
       /\ UNCHANGED <<end, home, redirects>>

(* Slip: the timer is cleared once the headers have arrived.               *)
TimerInBodySlip == FALSE

(* The deadline runs on while the body is read.                            *)
TimerInBody == timer

(* The server answers: a redirect with a Location is followed, an answer   *)
(* whose announced length is over the cap is refused, any other is handed  *)
(* to the caller.  A relative Location has the origin of the current URL.  *)
Respond(s, a) ==
  /\ pc = "send" /\ a \in addrs
  /\ wire' = Append(wire, Sent(a, TRUE, s))
  /\ \/ /\ s \in Redirects
        /\ \E next \in Locations \cup {url} : Follow(s, next)
        /\ addrs' = {} /\ UNCHANGED <<left, status, got>>
     \/ /\ Finish("too_large")
        /\ UNCHANGED <<call, hop, addrs, left, status, got>>
     \/ /\ s \in Bodyless
        /\ Finish("response") /\ status' = s
        /\ UNCHANGED <<call, hop, addrs, left, got>>
     \/ /\ s \notin Bodyless
        /\ pc' = "body" /\ status' = s /\ got' = 0 /\ timer' = TimerInBody
        /\ UNCHANGED <<call, end, hop, addrs, left>>

(* The socket fails with a code the classifier knows ("reset") or another   *)
(* ("broken"), or the deadline or the caller's signal, set to the same      *)
(* time, destroys the request; it may have reached the server by then.     *)
RequestFails(how, a) ==
  /\ pc = "send" /\ a \in addrs
  /\ how = "timeout" => timer /\ left = 0
  /\ \E reached \in BOOLEAN : wire' = Append(wire, Sent(a, reached, NoStatus))
  /\ Finish(how)
  /\ UNCHANGED <<call, hop, addrs, left, status, got>>

(* A chunk arrives; one too many and the stream errors.                    *)
Chunk ==
  /\ pc = "body"
  /\ got' = got + 1
  /\ IF got + 1 > MaxBytes THEN Finish("too_large") ELSE UNCHANGED <<pc, end, timer>>
  /\ UNCHANGED <<call, hop, addrs, left, status, wire>>

(* The body ends, or the stream breaks for the reason AbortState recorded. *)
BodyEnds(how) ==
  /\ pc = "body"
  /\ how = "timeout" => timer /\ left = 0
  /\ Finish(how)
  /\ UNCHANGED <<call, hop, addrs, left, status, got, wire>>

(* Time passes while the call waits, but never past an armed timer.        *)
Tick ==
  /\ pc \in {"resolve", "send", "body"}
  /\ left > -1 /\ ~ (timer /\ left = 0)
  /\ left' = left - 1
  /\ UNCHANGED <<pc, end, call, hop, addrs, timer, status, got, wire>>

FetchStep ==
  \/ Hop
  \/ \E answer \in Answers : Resolve(answer)
  \/ \E a \in addrs, s \in Statuses : Respond(s, a)
  \/ \E a \in addrs, how \in {"timeout", "reset", "broken"} : RequestFails(how, a)
  \/ Chunk
  \/ \E how \in {"response", "timeout", "reset", "broken"} : BodyEnds(how)
  \/ Tick

================================================================================
