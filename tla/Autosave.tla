------------------------------ MODULE Autosave ------------------------------
(***************************************************************************)
(* The debounced autosave of core/patch.ts, as a record and what each call *)
(* makes of it: the last graph known to be stored, the one still to be     *)
(* stored, whether the debounce timer is armed, the saves under way with   *)
(* the oldest first (every save takes the same time), and what the editor  *)
(* shows.  `inFlight` is the field of that name, a promise or null: a      *)
(* save the timer started never sets it back.                              *)
(*                                                                         *)
(* `received` is no field of the code's.  It is the graph whoever stores   *)
(* the saves has been sent last, or the one that was loaded.               *)
(***************************************************************************)
EXTENDS FlowGraphs, Sequences

NoGraph == [nodes |-> <<>>, edges |-> {}, home |-> "none"]
SaveStates == {"saved", "saving", "unsaved"}

created == [acknowledged |-> NoGraph, pending |-> {}, timer |-> FALSE,
            inFlight |-> FALSE, state |-> "saved", sending |-> <<>>,
            received |-> NoGraph]

unchanged(g, h) == diffGraph(g, h) = {}

(* Slip: the base advances when a save is sent, not when it is answered    *)
sendSlip(a, flush) ==
  IF a.pending = {} THEN a
  ELSE LET target == CHOOSE g \in a.pending : TRUE
       IN  IF unchanged(a.acknowledged, target)
           THEN [a EXCEPT !.pending = {}, !.state = "saved"]
           ELSE [a EXCEPT !.pending = {}, !.state = "saving",
                   !.acknowledged = target,
                   !.sending =
                      Append(@, [target |-> target, flush |-> flush])]

(* `pending` is a set with at most the one graph that is still to be sent  *)
send(a, flush) ==
  IF a.pending = {} THEN a
  ELSE LET target == CHOOSE g \in a.pending : TRUE
       IN  IF unchanged(a.acknowledged, target)
           THEN [a EXCEPT !.pending = {}, !.state = "saved"]
           ELSE [a EXCEPT !.pending = {}, !.state = "saving",
                   !.sending =
                      Append(@, [target |-> target, flush |-> flush])]

schedule(a, g) ==
  IF unchanged(a.acknowledged, g)
  THEN [a EXCEPT !.pending = {g},
          !.state = IF a.inFlight THEN "saving" ELSE "saved"]
  ELSE [a EXCEPT !.pending = {g}, !.state = "unsaved", !.timer = TRUE]

timerFires(a) ==
  [send([a EXCEPT !.timer = FALSE], FALSE) EXCEPT !.inFlight = TRUE]

(* Slip: the timer is left armed                                           *)
flushSlip(a) ==
  LET sent == send(a, TRUE)
  IN  [sent EXCEPT !.inFlight = sent.sending # a.sending]

(* a flush with nothing to send is over at once                            *)
flush(a) ==
  LET sent == send([a EXCEPT !.timer = FALSE], TRUE)
  IN  [sent EXCEPT !.inFlight = sent.sending # a.sending]

saveResolves(a) ==
  LET first == Head(a.sending)
  IN  [a EXCEPT !.sending = Tail(@), !.acknowledged = first.target,
         !.received = first.target,
         !.state = IF a.pending = {} THEN "saved" ELSE "unsaved",
         !.inFlight = @ /\ ~first.flush]

(* the graph is pending again unless a later one already is                *)
saveFails(a) ==
  LET first == Head(a.sending)
  IN  [a EXCEPT !.sending = Tail(@), !.state = "unsaved",
         !.pending = IF @ = {} THEN {first.target} ELSE @]

(* Slip: what was armed for one document outlives it                       *)
cancelSlip(a) == [a EXCEPT !.state = "saved"]
cancel(a) == [a EXCEPT !.timer = FALSE, !.pending = {}, !.state = "saved"]

reset(a, g) == [a EXCEPT !.acknowledged = g, !.pending = {}, !.state = "saved",
                         !.received = g]

=============================================================================
