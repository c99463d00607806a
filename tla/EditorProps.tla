----------------------------- MODULE EditorProps ----------------------------
(***************************************************************************)
(* What the editor promises whoever draws a flow in it.                    *)
(***************************************************************************)
EXTENDS Editor

TypeOK ==
  /\ flowId \in Flows \cup {None} /\ flowRef \in Flows \cup {None}
  /\ flowId # None => flowId = flowRef
  /\ {coalescing, viewing, loading, listing} \subseteq BOOLEAN
  /\ Len(past) <= Limit + 1
  /\ auto.state \in SaveStates
  /\ auto.timer => auto.pending # {}
  /\ loading => flowId # None /\ published = {}
  /\ Ids(canvas) \subseteq StepIds

Sound(g) ==
  /\ danglingEdges(g) = {} /\ topologicallyOrdered(g)
  /\ \A d, e \in g.edges : d.target = e.target => d = e

(* The graphs the canvas can hold, each drawn for a flow or for none; the  *)
(* draft from an earlier day is one of Default's.                          *)
Steps ==
  [kind : Kinds \cup {"trigger"}, at : {0, 1},
   reads : {{}} \cup {form.reads : form \in Forms},
   fields : {"set", "unset"} \cup {form.fields : form \in Forms}]
Edges == [source : StepIds, target : StepIds, handle : Arms \cup {NoHandle}]
Nodes == UNION {[S -> Steps] : S \in SUBSET StepIds}
Graphs == [home : Flows \cup {None}, nodes : Nodes, edges : SUBSET Edges]
Drawings == {g \in Graphs : Sound(g)}
DrawnFor(f) == {g \in Drawings : g.home = f}

LeftIsDrawn == IsFiniteSet(StepIds) /\ Left \subseteq DrawnFor(Default)
ASSUME LeftIsDrawn

(* However steps are added, joined, deleted, undone, restored and loaded,  *)
(* the graph on the canvas has no loop, no edge to a step that is gone and *)
(* no step with two inputs (canConnect, removeNode; validation and the     *)
(* engine count on it).                                                    *)
GraphsSound == Sound(canvas)

(* While the editor says that the draft is saved, nothing is left to send: *)
(* the graph that was sent last is the one on the canvas (createAutosave:  *)
(* the base advances with the answer, a failed save is still pending).     *)
SavedIsReceived ==
  /\ flowId # None /\ ~viewing /\ ~loading /\ canvas.home = flowId
  /\ auto.state = "saved" /\ auto.sending = <<>>
  => unchanged(canvas, auto.received)

(* The draft under a flow's key was drawn for that flow (draftKeyFor, and  *)
(* the hand-over of the autosave when another flow is opened).             *)
DraftsStayHome == \A f \in Flows : \A g \in drafts[f] : g.home = f

(* What the editor shows beside a flow is that flow's: what is published   *)
(* of it was drawn for it, what the canvas is compared with is published   *)
(* of it, and a step is mapped from no other flow's run, whichever was     *)
(* being viewed before; the sample may stand in for its own (publish, the  *)
(* open effect, pickRun, mappingOutputs).                                  *)
ShowsItsOwn ==
  /\ \A f \in Flows : \A g \in server[f].graph : g.home = f
  /\ flowId # None => /\ \A p \in published : p.graph.home = flowId
                     /\ mappingOutputs \subseteq {flowId, None}
=============================================================================
