------------------------------ MODULE FencedSteps ------------------------------
(***************************************************************************)
(* What the lease guard of automa-durable-runner promises, without leases, *)
(* workers, messages or clocks: every claim of a step takes a new ticket,  *)
(* and a step changes only through the newest ticket, or when somebody     *)
(* starts the run again. A ticket that is not the newest can only be       *)
(* thrown away. (src/engine/repository.ts: claimStep, recordSuccess,       *)
(* recordFailure.)                                                         *)
(***************************************************************************)
EXTENDS Naturals

CONSTANT Step

VARIABLES
  phase,     \* step -> "open": may be claimed afresh, "held", "shut": settled
  latest,    \* step -> the number of its newest ticket
  tickets    \* the tickets in circulation: <<step, number>>

vars == <<phase, latest, tickets>>

Phase == {"open", "held", "shut"}

TypeOK ==
  /\ phase \in [Step -> Phase]
  /\ latest \in [Step -> Nat]
  /\ tickets \in SUBSET (Step \X Nat)

Init ==
  /\ phase = [s \in Step |-> "open"]
  /\ latest = [s \in Step |-> 0]
  /\ tickets = {}

(* A claim: of an open step, or of a held one whose holder seems gone.     *)
Grant(s) ==
  /\ phase[s] # "shut"
  /\ phase' = [phase EXCEPT ![s] = "held"]
  /\ latest' = [latest EXCEPT ![s] = @ + 1]
  /\ tickets' = tickets \cup {<<s, latest[s] + 1>>}

(* The newest ticket of a held step settles it, or opens it for a retry;   *)
(* settling it may shut open steps that it makes unnecessary.              *)
Settle(s) ==
  /\ phase[s] = "held" /\ <<s, latest[s]>> \in tickets
  /\ \/ phase' = [phase EXCEPT ![s] = "open"]
     \/ \E unneeded \in SUBSET {t \in Step : phase[t] = "open"} :
          phase' = [t \in Step |-> IF t = s \/ t \in unneeded THEN "shut" ELSE phase[t]]
  /\ tickets' = tickets \ {<<s, latest[s]>>}
  /\ UNCHANGED latest

(* A result that comes too late, or a holder that dies.                    *)
Discard(ticket) ==
  /\ ticket \in tickets
  /\ tickets' = tickets \ {ticket}
  /\ UNCHANGED <<phase, latest>>

(* The run is started again: what is kept is shut, the rest is open.       *)
Reopen(kept) ==
  /\ phase' = [s \in Step |-> IF s \in kept THEN "shut" ELSE "open"]
  /\ UNCHANGED <<latest, tickets>>

Next ==
  \/ \E s \in Step : Grant(s) \/ Settle(s)
  \/ \E ticket \in tickets : Discard(ticket)
  \/ \E kept \in SUBSET Step : Reopen(kept)

Spec == Init /\ [][Next]_vars

================================================================================
