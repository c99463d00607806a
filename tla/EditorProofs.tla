---------------------------- MODULE EditorProofs ----------------------------
(***************************************************************************)
(* On every number of flows, steps and edits: the canvas stays sound, and  *)
(* drafts go astray in three ways only, whatever the user does; what says  *)
(* saved is saved, to a user who waits for what is under way.              *)
(***************************************************************************)
EXTENDS EditorProps, FlowGraphsProofs, SequenceTheorems

(* The user of EditorProps' promises: she lets a load, a save and an       *)
(* answer come to their end before she goes on.                            *)
WaitsForAll == Waits = {"load", "save", "answer"}

-----------------------------------------------------------------------------
(* Drawings                                                                *)

(* The steps of a graph are some of the ids, finitely many with them.      *)
LEMMA GraphIds ==
  ASSUME NEW g \in Graphs
  PROVE  /\ Ids(g) \subseteq StepIds /\ IsFiniteSet(Ids(g))
         /\ g.nodes \in [Ids(g) -> Steps] /\ g.edges \subseteq Edges
<1>1. g.nodes \in Nodes /\ g.edges \subseteq Edges
  BY DEF Graphs
<1>2. PICK S \in SUBSET StepIds : g.nodes \in [S -> Steps]
  BY <1>1 DEF Nodes
<1>3. Ids(g) = S
  BY <1>2 DEF Ids
<1>4. IsFiniteSet(S)
  BY LeftIsDrawn, FS_Subset DEF LeftIsDrawn
<1> QED BY <1>1, <1>2, <1>3, <1>4

(* A drawing is tidy.                                                      *)
LEMMA DrawnIsTidy ==
  ASSUME NEW g \in Drawings
  PROVE  Tidy(g) /\ g \in Graphs /\ topologicallyOrdered(g)
BY GraphIds DEF Drawings, Sound, Tidy

(* With keeps the flow a graph was drawn for.                              *)
LEMMA WithFields ==
  ASSUME NEW g \in Graphs, NEW S \in SUBSET StepIds,
         NEW nodes \in [S -> Steps], NEW edges \in SUBSET Edges
  PROVE  LET h == With(g, nodes, edges) IN
         /\ h \in Graphs /\ h.home = g.home
         /\ h.nodes = nodes /\ h.edges = edges /\ Ids(h) = S
<1> DEFINE h == With(g, nodes, edges)
<1>1. h.home = g.home /\ h.nodes = nodes /\ h.edges = edges
  BY DEF With, Graphs
<1>2. nodes \in Nodes
  BY DEF Nodes
<1>3. h \in Graphs
  BY <1>2 DEF With, Graphs
<1>4. Ids(h) = S
  BY <1>1 DEF Ids
<1> QED BY <1>1, <1>3, <1>4

(* A drawing stays one whatever is done to its steps, as long as no edge   *)
(* is added and none is left hanging (addNode, moveNode, updateNodeData,   *)
(* removeNode, removeEdge).                                                *)
LEMMA RedrawnIsSound ==
  ASSUME NEW g \in Drawings, NEW S \in SUBSET StepIds,
         NEW nodes \in [S -> Steps], NEW edges \in SUBSET g.edges,
         \A e \in edges : e.source \in S /\ e.target \in S
  PROVE  With(g, nodes, edges) \in DrawnFor(g.home)
<1> DEFINE h == With(g, nodes, edges)
<1>1. /\ h \in Graphs /\ h.home = g.home
      /\ h.nodes = nodes /\ h.edges = edges /\ Ids(h) = S
  <2>1. edges \in SUBSET Edges
    BY DrawnIsTidy, GraphIds
  <2> QED BY <2>1, DrawnIsTidy, WithFields
<1> HIDE DEF h
<1>2. Tidy(h)
  BY <1>1, GraphIds DEF Tidy, danglingEdges
<1>3. topologicallyOrdered(h)
  BY <1>1, <1>2, DrawnIsTidy, FewerEdgesNoLoop
<1>4. \A d, e \in h.edges : d.target = e.target => d = e
  BY <1>1 DEF Drawings, Sound
<1>5. h \in DrawnFor(g.home)
  BY <1>1, <1>2, <1>3, <1>4 DEF DrawnFor, Drawings, Sound, Tidy
<1> QED BY <1>5 DEF h

(* A drawing stays one when canConnect lets an edge through (connect).     *)
LEMMA ConnectedIsSound ==
  ASSUME NEW g \in Drawings, NEW e \in Edges, canConnect(g, e)
  PROVE  With(g, g.nodes, g.edges \cup {e}) \in DrawnFor(g.home)
<1> DEFINE h == With(g, g.nodes, g.edges \cup {e})
<1>1. /\ h \in Graphs /\ h.home = g.home
      /\ h.nodes = g.nodes /\ h.edges = g.edges \cup {e} /\ Ids(h) = Ids(g)
  BY DrawnIsTidy, GraphIds, WithFields
<1> HIDE DEF h
<1>2. Tidy(h)
  <2>1. e.source \in Ids(g) /\ e.target \in Ids(g)
    BY DEF canConnect
  <2>2. \A d \in g.edges : d.source \in Ids(g) /\ d.target \in Ids(g)
    BY DrawnIsTidy, EndsAreSteps
  <2> QED BY <1>1, <2>1, <2>2, GraphIds DEF Tidy, danglingEdges
<1>3. topologicallyOrdered(h)
  BY <1>1, <1>2, DrawnIsTidy, ConnectedNoLoop
<1>4. \A c, d \in h.edges : c.target = d.target => c = d
  BY <1>1 DEF Drawings, Sound, canConnect
<1>5. h \in DrawnFor(g.home)
  BY <1>1, <1>2, <1>3, <1>4 DEF DrawnFor, Drawings, Sound, Tidy
<1> QED BY <1>5 DEF h

(* A new flow, and the sample, is a drawing.                               *)
LEMMA EmptyIsSound ==
  ASSUME NEW f \in Flows \cup {None}
  PROVE  EmptyFlow(f) \in DrawnFor(f)
<1> DEFINE h == EmptyFlow(f)
<1>1. /\ h.home = f /\ h.edges = {} /\ Ids(h) = {Trigger} /\ h \in Graphs
  <2>1. NewStep("trigger", 0) \in Steps
    BY DEF NewStep, Steps
  <2>2. Trigger \in StepIds
    BY EditorAssumption DEF EditorAssumption
  <2>3. h.nodes \in [{Trigger} -> Steps]
    BY <2>1 DEF EmptyFlow
  <2>4. h.nodes \in Nodes
    BY <2>2, <2>3 DEF Nodes
  <2>5. h = [home |-> f, edges |-> {}, nodes |-> h.nodes]
    BY DEF EmptyFlow
  <2> QED BY <2>3, <2>4, <2>5 DEF Graphs, Ids
<1> HIDE DEF h
<1>2. Tidy(h)
  BY <1>1, GraphIds DEF Tidy, danglingEdges
<1>3. topologicallyOrdered(h)
  <2>1. ASSUME NEW x \in Ids(h) PROVE descendants(h, x) \subseteq {}
    <3>1. NoEdgeLeaves(h, {})
      BY <1>1 DEF NoEdgeLeaves
    <3> QED BY <1>1, <1>2, <2>1, <3>1, DescendantsAreLeast
  <2> QED BY <1>1, <2>1 DEF topologicallyOrdered
<1>4. h \in DrawnFor(f)
  BY <1>1, <1>2, <1>3 DEF DrawnFor, Drawings, Sound, Tidy
<1> QED BY <1>4 DEF h

-----------------------------------------------------------------------------
(* What the editing actions draw                                           *)

(* The canvas, if it is a drawing, has steps and edges of the right kind.  *)
LEMMA CanvasFields ==
  ASSUME canvas \in Drawings
  PROVE  /\ canvas \in Graphs /\ Ids(canvas) \subseteq StepIds
         /\ canvas.nodes \in [Ids(canvas) -> Steps]
         /\ canvas.edges \subseteq Edges
         /\ \A e \in canvas.edges : e.source \in Ids(canvas) /\ e.target \in Ids(canvas)
BY DrawnIsTidy, EndsAreSteps, GraphIds

(* A step that is added makes a drawing (addNode).                         *)
LEMMA AddedIsDrawn ==
  ASSUME canvas \in Drawings,
         NEW x \in StepIds, NEW kind \in Kinds, NEW at \in {0, 1}
  PROVE  Added(x, kind, at) \in DrawnFor(canvas.home)
<1> DEFINE S == Ids(canvas) \cup {x}
           nodes == [y \in S |-> IF y = x THEN NewStep(kind, at)
                                 ELSE canvas.nodes[y]]
<1>1. NewStep(kind, at) \in Steps
  BY DEF NewStep, Steps
<1>2. S \in SUBSET StepIds /\ nodes \in [S -> Steps]
  BY <1>1, CanvasFields
<1>3. Added(x, kind, at) = With(canvas, nodes, canvas.edges)
  BY DEF Added
<1> HIDE DEF nodes
<1>4. With(canvas, nodes, canvas.edges) \in DrawnFor(canvas.home)
  BY <1>2, CanvasFields, RedrawnIsSound
<1> QED BY <1>3, <1>4

(* An edge between two steps is one of the edges.                          *)
LEMMA EdgeIsEdge ==
  ASSUME NEW x \in StepIds, NEW y \in StepIds, NEW h \in Arms \cup {NoHandle}
  PROVE  Edge(x, y, h) \in Edges
BY DEF Edge, Edges

(* Every change that the store records as it comes is a drawing for the    *)
(* flow the canvas was drawn for.                                          *)
LEMMA RecordedIsDrawn ==
  ASSUME canvas \in Drawings,
         \/ \E x \in StepIds :
              \/ \E k \in Kinds : AddStep(x, k)
              \/ \E y \in StepIds : Connect(x, y)
              \/ \E form \in Forms : UpdateNodeData(x, form)
              \/ RemoveNode(x)
         \/ \E e \in canvas.edges : RemoveEdge(e)
  PROVE  \E c \in DrawnFor(canvas.home) : Record(c, FALSE)
<1> DEFINE Drawn == \E c \in DrawnFor(canvas.home) : Record(c, FALSE)
<1>1. ASSUME NEW x \in StepIds, NEW k \in Kinds, AddStep(x, k) PROVE Drawn
  <2>1. Record(Added(x, k, 1), FALSE)
    BY <1>1 DEF AddStep
  <2> QED BY <2>1, AddedIsDrawn
<1>2. ASSUME NEW x \in StepIds, NEW y \in StepIds, Connect(x, y) PROVE Drawn
  <2>1. PICK h \in handles(x) :
          /\ canConnect(canvas, Edge(x, y, h))
          /\ Record(With(canvas, canvas.nodes, canvas.edges \cup {Edge(x, y, h)}), FALSE)
    BY <1>2 DEF Connect
  <2>2. Edge(x, y, h) \in Edges
    BY EdgeIsEdge DEF handles
  <2>3. With(canvas, canvas.nodes, canvas.edges \cup {Edge(x, y, h)}) \in DrawnFor(canvas.home)
    BY <2>1, <2>2, ConnectedIsSound
  <2> QED BY <2>1, <2>3
<1>3. ASSUME NEW x \in StepIds, NEW form \in Forms, UpdateNodeData(x, form)
      PROVE  Drawn
  <2> DEFINE n == [canvas.nodes[x] EXCEPT !.fields = form.fields,
                                          !.reads = form.reads]
             nodes == [canvas.nodes EXCEPT ![x] = n]
  <2>1. x \in Ids(canvas) /\ canvas.nodes[x] \in Steps
    BY <1>3, CanvasFields DEF UpdateNodeData
  <2>2. n \in Steps
    <3>1. /\ form.fields \in {"set", "unset"} \cup {f.fields : f \in Forms}
          /\ form.reads \in {{}} \cup {f.reads : f \in Forms}
      OBVIOUS
    <3> QED BY <2>1, <3>1 DEF Steps
  <2> HIDE DEF n
  <2>3. nodes \in [Ids(canvas) -> Steps]
    BY <2>1, <2>2, CanvasFields
  <2>4. Record(With(canvas, nodes, canvas.edges), FALSE)
    BY <1>3 DEF UpdateNodeData, n
  <2> HIDE DEF nodes
  <2>5. With(canvas, nodes, canvas.edges) \in DrawnFor(canvas.home)
    BY <2>3, CanvasFields, RedrawnIsSound
  <2> QED BY <2>4, <2>5
<1>4. ASSUME NEW x \in StepIds, RemoveNode(x) PROVE Drawn
  <2> DEFINE S == Ids(canvas) \ {x}
             nodes == [y \in S |-> canvas.nodes[y]]
             edges == {e \in canvas.edges : x \notin {e.source, e.target}}
  <2>1. Record(With(canvas, nodes, edges), FALSE)
    BY <1>4 DEF RemoveNode, Without
  <2>2. S \in SUBSET StepIds /\ nodes \in [S -> Steps]
    BY CanvasFields
  <2>3. edges \in SUBSET canvas.edges /\ \A e \in edges : e.source \in S /\ e.target \in S
    BY CanvasFields
  <2> HIDE DEF nodes, edges, S
  <2>4. With(canvas, nodes, edges) \in DrawnFor(canvas.home)
    BY <2>2, <2>3, RedrawnIsSound
  <2> QED BY <2>1, <2>4
<1>5. ASSUME NEW e \in canvas.edges, RemoveEdge(e) PROVE Drawn
  <2> DEFINE edges == canvas.edges \ {e}
  <2>1. Record(With(canvas, canvas.nodes, edges), FALSE)
    BY <1>5 DEF RemoveEdge
  <2>2. edges \in SUBSET canvas.edges
    OBVIOUS
  <2>3. \A d \in edges : d.source \in Ids(canvas) /\ d.target \in Ids(canvas)
    BY CanvasFields
  <2> HIDE DEF edges
  <2>4. With(canvas, canvas.nodes, edges) \in DrawnFor(canvas.home)
    BY <2>2, <2>3, CanvasFields, RedrawnIsSound
  <2> QED BY <2>1, <2>4
<1> QED BY <1>1, <1>2, <1>3, <1>4, <1>5

(* So is the canvas after a move of the pointer (moveNode).                *)
LEMMA MovedIsDrawn ==
  ASSUME canvas \in Drawings, NEW x \in StepIds, MoveNode(x)
  PROVE  \E c \in DrawnFor(canvas.home) :
           \/ canvas' = c /\ auto' = schedule(auto, c) /\ UNCHANGED <<past, future, coalescing>>
           \/ Record(c, TRUE)
<1> DEFINE nodes == [canvas.nodes EXCEPT ![x].at = 1 - @]
           c == With(canvas, nodes, canvas.edges)
<1>1. nodes \in [Ids(canvas) -> Steps]
  <2>1. x \in Ids(canvas) /\ canvas.nodes[x] \in Steps
    BY CanvasFields DEF MoveNode
  <2> DEFINE n == [canvas.nodes[x] EXCEPT !.at = 1 - @]
  <2>2. n \in Steps
    BY <2>1 DEF Steps
  <2>3. nodes = [canvas.nodes EXCEPT ![x] = n]
    BY <2>1, CanvasFields
  <2> HIDE DEF n
  <2> QED BY <2>1, <2>2, <2>3, CanvasFields
<1>2. \/ canvas' = c /\ auto' = schedule(auto, c) /\ UNCHANGED <<past, future, coalescing>>
      \/ Record(c, TRUE)
  BY DEF MoveNode
<1> HIDE DEF nodes
<1>3. c \in DrawnFor(canvas.home)
  BY <1>1, CanvasFields, RedrawnIsSound
<1> HIDE DEF c
<1> QED BY <1>2, <1>3

(* A step dropped on the end of the chain is a drawing, joined to it or    *)
(* not, and what the history keeps meanwhile is one.                       *)
LEMMA AppendedIsDrawn ==
  ASSUME canvas \in Drawings, NEW x \in StepIds, NEW k \in Kinds, AppendStep(x, k)
  PROVE  LET kept == Latest(Append(past, canvas)) IN
         /\ canvas' \in DrawnFor(canvas.home)
         /\ past' = kept \/ \E added \in DrawnFor(canvas.home) :
                               past' = Latest(Append(kept, added))
         /\ future' = <<>> /\ coalescing' = FALSE /\ auto' = schedule(auto, canvas')
<1> DEFINE added == Added(x, k, 0)
           kept == Latest(Append(past, canvas))
<1>1. PICK tail : LET e == Edge(tail, x, NoHandle) IN
        /\ canvas' = IF canConnect(added, e)
                     THEN With(added, added.nodes, added.edges \cup {e})
                     ELSE added
        /\ past' = IF canConnect(added, e) THEN Latest(Append(kept, added))
                   ELSE kept
        /\ future' = <<>> /\ coalescing' = FALSE
        /\ auto' = schedule(auto, canvas')
  BY DEF AppendStep
<1> DEFINE e == Edge(tail, x, NoHandle)
<1>2. added \in DrawnFor(canvas.home)
  BY AddedIsDrawn
<1> HIDE DEF added, kept
<1>3. CASE canConnect(added, e)
  <2>1. added \in Drawings /\ added.home = canvas.home
    BY <1>2 DEF DrawnFor
  <2>2. e \in Edges
    <3>1. e.source \in Ids(added) /\ e.source = tail
      BY <1>3 DEF canConnect, Edge
    <3>2. Ids(added) \subseteq StepIds
      BY <2>1, DrawnIsTidy, GraphIds
    <3> QED BY <3>1, <3>2, EdgeIsEdge
  <2>3. canvas' \in DrawnFor(canvas.home)
    <3> HIDE DEF e
    <3>1. With(added, added.nodes, added.edges \cup {e}) \in DrawnFor(canvas.home)
      BY <1>3, <2>1, <2>2, ConnectedIsSound
    <3> QED BY <1>1, <1>3, <3>1 DEF e
  <2>4. past' = Latest(Append(kept, added))
    BY <1>1, <1>3
  <2> QED BY <1>1, <1>2, <2>3, <2>4 DEF kept
<1>4. CASE ~canConnect(added, e)
  BY <1>1, <1>2, <1>4 DEF kept
<1> QED BY <1>3, <1>4

-----------------------------------------------------------------------------
(* The autosave                                                            *)

Sends == [target : Drawings, flush : BOOLEAN]
Autosaves ==
  [acknowledged : Drawings, received : Drawings, pending : SUBSET Drawings,
   timer : BOOLEAN, inFlight : BOOLEAN, state : SaveStates,
   sending : Seq(Sends)]

(* To be unchanged is to have the same steps and edges.                    *)
LEMMA UnchangedIsSame ==
  ASSUME NEW g, NEW h
  PROVE  unchanged(g, h) <=> /\ Ids(g) = Ids(h) /\ g.edges = h.edges
                             /\ \A x \in Ids(g) : g.nodes[x] = h.nodes[x]
<1> DEFINE same == /\ Ids(g) = Ids(h) /\ g.edges = h.edges
                   /\ \A x \in Ids(g) : g.nodes[x] = h.nodes[x]
<1>1. ASSUME diffGraph(g, h) = {} PROVE same
  BY <1>1 DEF diffGraph
<1>2. ASSUME same PROVE diffGraph(g, h) = {}
  <2>1. /\ Ids(h) \ Ids(g) = {} /\ Ids(g) \ Ids(h) = {}
        /\ {y \in Ids(h) \cap Ids(g) : h.nodes[y] # g.nodes[y]} = {}
        /\ h.edges \ g.edges = {} /\ g.edges \ h.edges = {}
    BY <1>2
  <2> QED BY <2>1 DEF diffGraph
<1> QED BY <1>1, <1>2 DEF unchanged

(* What is unchanged is so either way round.                               *)
LEMMA UnchangedIsSymmetric ==
  ASSUME NEW g, NEW h, unchanged(g, h)
  PROVE  unchanged(h, g)
BY UnchangedIsSame

(* A graph is unchanged from itself.                                       *)
LEMMA UnchangedIsReflexive ==
  ASSUME NEW g
  PROVE  unchanged(g, g)
BY UnchangedIsSame

(* A change that is scheduled is pending; the timer is armed unless it is  *)
(* what is stored already (schedule, core/patch.ts).                       *)
LEMMA ScheduleFields ==
  ASSUME NEW a \in Autosaves, NEW g \in Drawings
  PROVE  LET b == schedule(a, g) IN
         /\ b \in Autosaves /\ b.pending = {g}
         /\ b.acknowledged = a.acknowledged /\ b.received = a.received
         /\ b.sending = a.sending
         /\ b.timer => a.timer \/ ~unchanged(a.acknowledged, g)
         /\ b.state = "saved" => unchanged(a.acknowledged, g)
<1>1. CASE unchanged(a.acknowledged, g)
  BY <1>1 DEF schedule, Autosaves, SaveStates
<1>2. CASE ~unchanged(a.acknowledged, g)
  BY <1>2 DEF schedule, Autosaves, SaveStates
<1> QED BY <1>1, <1>2

(* What is pending is sent, or dropped because it is stored already.       *)
LEMMA SendFields ==
  ASSUME NEW a \in Autosaves, NEW b \in BOOLEAN, a.pending # {}
  PROVE  LET c == send(a, b) IN
         /\ c \in Autosaves /\ c.pending = {} /\ c.timer = a.timer
         /\ c.acknowledged = a.acknowledged /\ c.received = a.received
         /\ \E target \in a.pending :
              \/ /\ unchanged(a.acknowledged, target)
                 /\ c.sending = a.sending
              \/ /\ ~unchanged(a.acknowledged, target)
                 /\ c.sending = Append(a.sending, [target |-> target, flush |-> b])
                 /\ c.state = "saving"
<1> DEFINE target == CHOOSE g \in a.pending : TRUE
<1>1. target \in a.pending /\ target \in Drawings
  BY DEF Autosaves
<1> HIDE DEF target
<1>2. CASE unchanged(a.acknowledged, target)
  <2> DEFINE c == [a EXCEPT !.pending = {}, !.state = "saved"]
  <2>1. send(a, b) = c
    BY <1>2 DEF send, target
  <2>2. /\ c \in Autosaves /\ c.pending = {} /\ c.timer = a.timer
        /\ c.acknowledged = a.acknowledged /\ c.received = a.received
        /\ c.sending = a.sending
    BY DEF Autosaves, SaveStates
  <2> HIDE DEF c
  <2> QED BY <1>1, <1>2, <2>1, <2>2
<1>3. CASE ~unchanged(a.acknowledged, target)
  <2> DEFINE sent == [target |-> target, flush |-> b]
             c == [a EXCEPT !.pending = {}, !.state = "saving",
                     !.sending = Append(@, sent)]
  <2>1. send(a, b) = c
    BY <1>3 DEF send, target
  <2>2. sent \in Sends /\ a.sending \in Seq(Sends)
    BY <1>1 DEF Sends, Autosaves
  <2>3. Append(a.sending, sent) \in Seq(Sends)
    <3> HIDE DEF sent
    <3> QED BY <2>2
  <2>4. /\ c \in Autosaves /\ c.pending = {} /\ c.timer = a.timer
        /\ c.acknowledged = a.acknowledged /\ c.received = a.received
        /\ c.sending = Append(a.sending, sent) /\ c.state = "saving"
    <3> HIDE DEF sent
    <3> QED BY <2>3 DEF Autosaves, SaveStates
  <2> HIDE DEF c
  <2> QED BY <1>1, <1>3, <2>1, <2>4
<1> QED BY <1>2, <1>3

(* The timer and a blur send what is pending, and disarm the timer         *)
(* (the timer's callback and flush, core/patch.ts).                        *)
Dispatched(a, b) ==
  /\ b \in Autosaves /\ b.pending = {} /\ ~b.timer
  /\ b.acknowledged = a.acknowledged /\ b.received = a.received
  /\ \E target \in a.pending :
       \/ unchanged(a.acknowledged, target) /\ b.sending = <<>>
       \/ /\ ~unchanged(a.acknowledged, target)
          /\ Len(b.sending) = 1 /\ b.sending[1].target = target
          /\ b.state = "saving"

(* Both the timer and a flush do that.                                     *)
LEMMA BothDispatch ==
  ASSUME NEW a \in Autosaves, a.pending # {}, a.sending = <<>>
  PROVE  Dispatched(a, timerFires(a)) /\ Dispatched(a, flush(a))
<1> DEFINE disarmed == [a EXCEPT !.timer = FALSE]
<1>1. /\ disarmed \in Autosaves /\ disarmed.pending = a.pending
      /\ disarmed.acknowledged = a.acknowledged
      /\ disarmed.received = a.received /\ disarmed.sending = <<>>
      /\ disarmed.timer = FALSE
  BY DEF Autosaves
<1> HIDE DEF disarmed
<1>2. ASSUME NEW b \in BOOLEAN, NEW busy \in BOOLEAN
      PROVE  Dispatched(a, [send(disarmed, b) EXCEPT !.inFlight = busy])
  <2> DEFINE c == send(disarmed, b)
             d == [c EXCEPT !.inFlight = busy]
  <2>1. /\ c \in Autosaves /\ c.pending = {} /\ c.timer = FALSE
        /\ c.acknowledged = a.acknowledged /\ c.received = a.received
        /\ \E target \in a.pending :
             \/ /\ unchanged(a.acknowledged, target)
                /\ c.sending = <<>>
             \/ /\ ~unchanged(a.acknowledged, target)
                /\ c.sending = Append(<<>>, [target |-> target, flush |-> b])
                /\ c.state = "saving"
    <3>1. /\ c \in Autosaves /\ c.pending = {} /\ c.timer = disarmed.timer
          /\ c.acknowledged = disarmed.acknowledged
          /\ c.received = disarmed.received
          /\ \E target \in disarmed.pending :
               \/ /\ unchanged(disarmed.acknowledged, target)
                  /\ c.sending = disarmed.sending
               \/ /\ ~unchanged(disarmed.acknowledged, target)
                  /\ c.sending = Append(disarmed.sending,
                                        [target |-> target, flush |-> b])
                  /\ c.state = "saving"
      BY <1>1, SendFields
    <3> HIDE DEF c
    <3> QED BY <1>1, <3>1
  <2> HIDE DEF c
  <2>2. /\ d \in Autosaves /\ d.pending = {} /\ d.timer = FALSE
        /\ d.acknowledged = a.acknowledged /\ d.received = a.received
        /\ d.sending = c.sending /\ d.state = c.state
    BY <2>1 DEF Autosaves
  <2> HIDE DEF d
  <2>3. PICK target \in a.pending :
             \/ /\ unchanged(a.acknowledged, target)
                /\ c.sending = <<>>
             \/ /\ ~unchanged(a.acknowledged, target)
                /\ c.sending = Append(<<>>, [target |-> target, flush |-> b])
                /\ c.state = "saving"
    BY <2>1
  <2>4. Dispatched(a, d)
    <3>1. CASE c.sending = <<>> /\ unchanged(a.acknowledged, target)
      BY <2>2, <2>3, <3>1 DEF Dispatched
    <3>2. CASE /\ ~unchanged(a.acknowledged, target)
               /\ c.sending = Append(<<>>, [target |-> target, flush |-> b])
               /\ c.state = "saving"
      <4>1. Len(c.sending) = 1 /\ c.sending[1].target = target
        BY <3>2
      <4> QED BY <2>2, <2>3, <3>2, <4>1 DEF Dispatched
    <3> QED BY <2>3, <3>1, <3>2
  <2> QED BY <2>4 DEF d, c
<1>3. timerFires(a) = [send(disarmed, FALSE) EXCEPT !.inFlight = TRUE]
  BY DEF timerFires, disarmed
<1>4. flush(a) = [send(disarmed, TRUE) EXCEPT !.inFlight =
                    send(disarmed, TRUE).sending # a.sending]
  BY DEF flush, disarmed
<1> QED BY <1>2, <1>3, <1>4

(* The head and the tail of a sequence of one.                             *)
LEMMA SingletonParts ==
  ASSUME NEW X, NEW s \in Seq(X), Len(s) = 1
  PROVE  Head(s) = s[1] /\ Head(s) \in X /\ Tail(s) = <<>>
<1>1. Head(s) = s[1] /\ s[1] \in X
  OBVIOUS
<1>2. Tail(s) \in Seq(X) /\ Len(Tail(s)) = 0
  BY HeadTailProperties, EmptySeq
<1>3. Tail(s) = <<>>
  BY <1>2, EmptySeq
<1> QED BY <1>1, <1>3

(* The answer to the save that was sent makes its graph what is stored;    *)
(* a save that fails is pending again.                                     *)
LEMMA SaveEnds ==
  ASSUME NEW a \in Autosaves, Len(a.sending) = 1, a.pending = {}
  PROVE  LET b == saveResolves(a)
             c == saveFails(a)
             target == a.sending[1].target
         IN  /\ target \in Drawings
             /\ b \in Autosaves /\ b.sending = <<>> /\ b.pending = {}
             /\ b.acknowledged = target /\ b.received = target
             /\ b.timer = a.timer
             /\ c \in Autosaves /\ c.sending = <<>> /\ c.pending = {target}
             /\ c.acknowledged = a.acknowledged /\ c.received = a.received
             /\ c.timer = a.timer /\ c.state = "unsaved"
<1> DEFINE first == Head(a.sending)
<1>1. a.sending \in Seq(Sends)
  BY DEF Autosaves
<1>2. first = a.sending[1] /\ first \in Sends /\ Tail(a.sending) = <<>>
  BY <1>1, SingletonParts
<1>3. first.target \in Drawings /\ first.flush \in BOOLEAN
  BY <1>2 DEF Sends
<1> DEFINE b == saveResolves(a)
           c == saveFails(a)
<1> DEFINE busy == a.inFlight /\ ~first.flush
<1>4. b = [a EXCEPT !.sending = <<>>, !.acknowledged = first.target,
             !.received = first.target, !.state = "saved",
             !.inFlight = busy]
  BY <1>2 DEF saveResolves
<1>5. c = [a EXCEPT !.sending = <<>>, !.state = "unsaved",
                    !.pending = {first.target}]
  BY <1>2 DEF saveFails
<1>b. busy \in BOOLEAN /\ <<>> \in Seq(Sends)
  OBVIOUS
<1> HIDE DEF first, b, c, busy
<1>6. /\ b \in Autosaves /\ b.sending = <<>> /\ b.pending = {}
      /\ b.acknowledged = first.target /\ b.received = first.target
      /\ b.timer = a.timer
  BY <1>b, <1>3, <1>4 DEF Autosaves, SaveStates
<1>7. /\ c \in Autosaves /\ c.sending = <<>> /\ c.pending = {first.target}
      /\ c.acknowledged = a.acknowledged /\ c.received = a.received
      /\ c.timer = a.timer /\ c.state = "unsaved"
  BY <1>b, <1>3, <1>5 DEF Autosaves, SaveStates
<1> QED BY <1>2, <1>3, <1>6, <1>7 DEF b, c

(* What is loaded is what is stored, and nothing is left of what was       *)
(* armed for another document (cancel and reset, core/patch.ts).           *)
LEMMA LoadFields ==
  ASSUME NEW a \in Autosaves, NEW g \in Drawings
  PROVE  LET b == cancel(a)
             c == reset(a, g)
             d == reset(cancel(a), g)
         IN  /\ b \in Autosaves /\ b.pending = {} /\ ~b.timer
             /\ b.acknowledged = a.acknowledged /\ b.received = a.received
             /\ b.sending = a.sending
             /\ c \in Autosaves /\ c.pending = {} /\ c.timer = a.timer
             /\ c.acknowledged = g /\ c.received = g /\ c.sending = a.sending
             /\ d \in Autosaves /\ d.pending = {} /\ ~d.timer
             /\ d.acknowledged = g /\ d.received = g /\ d.sending = a.sending
<1>1. LET b == cancel(a) IN
      /\ b \in Autosaves /\ b.pending = {} /\ ~b.timer
      /\ b.acknowledged = a.acknowledged /\ b.received = a.received
      /\ b.sending = a.sending
  BY DEF cancel, Autosaves, SaveStates
<1>2. ASSUME NEW b \in Autosaves
      PROVE  LET c == reset(b, g) IN
             /\ c \in Autosaves /\ c.pending = {} /\ c.timer = b.timer
             /\ c.acknowledged = g /\ c.received = g /\ c.sending = b.sending
  BY DEF reset, Autosaves, SaveStates
<1> QED BY <1>1, <1>2

-----------------------------------------------------------------------------
(* The inductive invariant                                                 *)

Types ==
  /\ flowId \in Flows \cup {None} /\ flowRef \in Flows \cup {None}
  /\ flowList \subseteq Flows
  /\ coalescing \in BOOLEAN /\ viewing \in BOOLEAN
  /\ loading \in BOOLEAN /\ listing \in BOOLEAN
  /\ canvas \in Drawings /\ past \in Seq(Drawings) /\ future \in Seq(Drawings)
  /\ auto \in Autosaves

(* the undo history and the redo history share one limit                   *)
HistoryFits == Len(past) + Len(future) <= Limit

Stored ==
  /\ drafts \in [Flows -> SUBSET Drawings]
  /\ \A f \in Flows : drafts[f] \subseteq DrawnFor(f)
  /\ server \in [Flows -> [state : {"absent", "live", "archived"},
                           version : Nat, graph : SUBSET Drawings]]
  /\ \A f \in Flows : server[f].graph \subseteq DrawnFor(f)

(* a flow is open, and the canvas is no longer that of the one before      *)
IsOpen == flowId # None /\ (loading => drafts[flowId] # {})

OwnCanvas == /\ canvas \in DrawnFor(flowRef)
             /\ past \in Seq(DrawnFor(flowRef))
             /\ future \in Seq(DrawnFor(flowRef))

(* whatever may still be written for the flow of flowRef was drawn for it  *)
Homes == IsOpen \/ auto.sending # <<>> \/ auto.pending # {} => OwnCanvas

Posts == [flow : Flows, graph : Drawings, version : Nat,
          answer : {"open", "created", "refused"}]
Screens ==
  /\ published \subseteq [version : Nat, graph : Drawings]
  /\ post \subseteq Posts
  /\ \A p \in post : /\ p.graph \in DrawnFor(p.flow)
                     /\ flowId # None => flowId = p.flow
  /\ flowId # None => /\ flowId = flowRef
                      /\ \A p \in published : p.graph \in DrawnFor(flowId)
  /\ loading => flowId # None /\ published = {} /\ post = {}

(* at most one save is under way; what is pending or sent is the canvas,   *)
(* and there is no sign of saved while the canvas is another               *)
AutosaveRight ==
  /\ auto.acknowledged = auto.received
  /\ auto.timer => auto.pending # {}
  /\ auto.sending # <<>> => /\ Len(auto.sending) = 1 /\ auto.pending = {}
                            /\ ~auto.timer /\ ~loading
  /\ loading => ~auto.timer /\ auto.pending \subseteq {auto.acknowledged}
  /\ IsOpen /\ ~viewing =>
       /\ auto.pending \subseteq {canvas}
       /\ auto.sending # <<>> => auto.sending[1].target = canvas
       /\ auto.state = "saved" /\ auto.sending = <<>>
            => unchanged(canvas, auto.received)

EditorInv == Types /\ HistoryFits /\ Stored /\ Homes /\ Screens /\ AutosaveRight

(* A drawing for a flow is a drawing, and so for sequences of them.        *)
LEMMA DrawnForIsDrawn ==
  \A f : DrawnFor(f) \subseteq Drawings /\ Seq(DrawnFor(f)) \subseteq Seq(Drawings)
<1>1. \A f : DrawnFor(f) \subseteq Drawings
  BY DEF DrawnFor
<1>2. ASSUME NEW f, NEW s \in Seq(DrawnFor(f)) PROVE s \in Seq(Drawings)
  BY <1>1, SeqMonotonic
<1> QED BY <1>1, <1>2

(* It holds when the tab has shown its list of flows.                      *)
LEMMA EditorStarts ==
  Init => EditorInv
<1> SUFFICES ASSUME Init PROVE EditorInv
  OBVIOUS
<1> USE DEF Init
<1>1. canvas \in DrawnFor(None) /\ \A f \in Flows : EmptyFlow(f) \in DrawnFor(f)
  BY EmptyIsSound
<1>2. /\ auto \in Autosaves /\ auto.sending = <<>> /\ auto.pending = {}
      /\ auto.acknowledged = auto.received /\ auto.timer = FALSE
  <2>1. auto = [acknowledged |-> canvas, pending |-> {}, timer |-> FALSE,
                inFlight |-> TRUE, state |-> "saved", sending |-> <<>>,
                received |-> canvas]
    BY DEF reset, created
  <2>2. canvas \in Drawings /\ <<>> \in Seq(Sends)
    BY <1>1, DrawnForIsDrawn, EmptySeq
  <2> HIDE DEF Init
  <2> QED BY <2>1, <2>2 DEF Autosaves, SaveStates
<1>3. Types
  <2>1. Default \in Flows
    BY EditorAssumption DEF EditorAssumption
  <2> QED BY <1>1, <1>2, <2>1, DrawnForIsDrawn, EmptySeq DEF Types
<1>4. HistoryFits
  <2>1. Len(past) = 0 /\ Len(future) = 0 /\ Limit \in Nat
    BY EmptySeq, EditorAssumption DEF EditorAssumption
  <2> QED BY <2>1 DEF HistoryFits
<1>5. Stored
  <2>1. \A f \in Flows : drafts[f] \subseteq DrawnFor(f)
    BY LeftIsDrawn DEF LeftIsDrawn
  <2>2. \A f \in Flows :
          /\ server[f] \in [state : {"absent", "live", "archived"},
                            version : Nat, graph : SUBSET Drawings]
          /\ server[f].graph \subseteq DrawnFor(f)
    BY <1>1, DrawnForIsDrawn DEF Live, Absent
  <2>3. drafts \in [Flows -> SUBSET Drawings]
    BY <2>1, DrawnForIsDrawn
  <2>4. server = [f \in Flows |-> server[f]]
    OBVIOUS
  <2>5. server \in [Flows -> [state : {"absent", "live", "archived"},
                              version : Nat, graph : SUBSET Drawings]]
    BY <2>2, <2>4
  <2> QED BY <2>1, <2>2, <2>3, <2>5 DEF Stored
<1>6. Homes /\ Screens /\ AutosaveRight
  BY <1>2 DEF Homes, Screens, AutosaveRight, IsOpen
<1> QED BY <1>3, <1>4, <1>5, <1>6 DEF EditorInv

(* Settled means that the flow that is open is there, and nothing under    *)
(* way.                                                                    *)
LEMMA SettledMeans ==
  ASSUME EditorInv, WaitsForAll, Settled
  PROVE  /\ flowId # None /\ ~loading /\ auto.sending = <<>>
         /\ IsOpen /\ OwnCanvas /\ flowId = flowRef
BY DEF EditorInv, WaitsForAll, Settled, Quiet, Homes, IsOpen, Screens

(* Every change of the canvas keeps the invariant, if it is a drawing for  *)
(* the flow that is open, the histories are too and fit, and the autosave  *)
(* is told unless a run is being viewed (the effect on nodes and edges).   *)
LEMMA CanvasChanges ==
  ASSUME EditorInv, WaitsForAll, Settled,
         UNCHANGED <<runVars, netVars, flowId, flowRef, viewing, drafts>>,
         canvas' \in DrawnFor(flowRef), past' \in Seq(DrawnFor(flowRef)),
         future' \in Seq(DrawnFor(flowRef)), Len(past') + Len(future') <= Limit,
         coalescing' \in BOOLEAN, auto' = Scheduled(auto, canvas')
  PROVE  EditorInv'
<1> USE DEF runVars, netVars
<1>1. /\ flowId # None /\ ~loading /\ auto.sending = <<>>
      /\ IsOpen /\ OwnCanvas /\ flowId = flowRef
  BY SettledMeans
<1>2. canvas' \in Drawings /\ auto \in Autosaves
  BY DrawnForIsDrawn DEF EditorInv, Types
<1>3. /\ auto' \in Autosaves /\ auto'.sending = <<>>
      /\ auto'.acknowledged = auto'.received
      /\ auto'.timer => auto'.pending # {}
      /\ ~viewing => /\ auto'.pending = {canvas'}
                     /\ auto'.state = "saved" => unchanged(canvas', auto'.received)
  <2>1. auto.acknowledged = auto.received /\ (auto.timer => auto.pending # {})
    BY DEF EditorInv, AutosaveRight
  <2>2. CASE viewing
    BY <1>1, <1>2, <2>1, <2>2 DEF Scheduled
  <2>3. CASE ~viewing
    <3>1. auto' = schedule(auto, canvas')
      BY <2>3 DEF Scheduled
    <3>2. /\ auto' \in Autosaves /\ auto'.pending = {canvas'}
          /\ auto'.acknowledged = auto.acknowledged /\ auto'.received = auto.received
          /\ auto'.sending = auto.sending
          /\ auto'.state = "saved" => unchanged(auto.acknowledged, canvas')
      BY <1>2, <3>1, ScheduleFields
    <3>3. auto'.state = "saved" => unchanged(canvas', auto'.received)
      BY <2>1, <3>2, UnchangedIsSymmetric
    <3> QED BY <1>1, <2>1, <3>2, <3>3
  <2> QED BY <2>2, <2>3 DEF EditorInv, Types
<1>4. Types'
  BY <1>2, <1>3, DrawnForIsDrawn DEF EditorInv, Types
<1>5. HistoryFits' /\ Stored' /\ Homes' /\ Screens'
  BY <1>1 DEF EditorInv, HistoryFits, Stored, Homes, OwnCanvas, Screens
<1>6. AutosaveRight'
  BY <1>1, <1>3 DEF AutosaveRight
<1> QED BY <1>4, <1>5, <1>6 DEF EditorInv

-----------------------------------------------------------------------------
(* Editing                                                                 *)

(* The undo history forgets its oldest entry when it is full.              *)
LEMMA LatestFits ==
  ASSUME NEW X, NEW s \in Seq(X), NEW x \in X
  PROVE  LET t == Latest(Append(s, x)) IN
         t \in Seq(X) /\ (Len(s) <= Limit => Len(t) <= Limit)
<1> DEFINE t == Append(s, x)
<1>1. /\ t \in Seq(X) /\ Len(t) = Len(s) + 1 /\ t # <<>>
      /\ Len(s) \in Nat /\ Limit \in Nat
  BY AppendProperties, LenProperties, EditorAssumption DEF EditorAssumption
<1>2. Tail(t) \in Seq(X) /\ Len(Tail(t)) = Len(t) - 1
  BY <1>1, HeadTailProperties
<1> HIDE DEF t
<1> QED BY <1>1, <1>2 DEF Latest, t

(* What a Record does to the canvas, the histories and the autosave keeps  *)
(* the invariant.                                                          *)
LEMMA RecordKeeps ==
  ASSUME EditorInv, WaitsForAll, Settled, OnlyGraph,
         NEW c \in DrawnFor(flowRef), NEW again \in BOOLEAN, Record(c, again)
  PROVE  EditorInv'
<1>1. OwnCanvas /\ Len(past) <= Limit
  <2>1. Len(past) \in Nat /\ Len(future) \in Nat
    BY LenProperties DEF EditorInv, Types
  <2>2. Limit \in Nat
    BY EditorAssumption DEF EditorAssumption
  <2> QED BY <2>1, <2>2, SettledMeans DEF EditorInv, HistoryFits
<1>2. /\ past' \in Seq(DrawnFor(flowRef)) /\ Len(past') <= Limit
      /\ future' = <<>> /\ canvas' = c /\ coalescing' = again
      /\ auto' = Scheduled(auto, canvas')
  BY <1>1, LatestFits DEF Record, OwnCanvas
<1>3. Len(past') + Len(future') <= Limit
  <2>1. Len(past') \in Nat /\ Len(future') = 0
    BY <1>2, LenProperties, EmptySeq
  <2> QED BY <1>2, <2>1
<1>4. future' \in Seq(DrawnFor(flowRef))
  BY <1>2, EmptySeq
<1> QED BY <1>2, <1>3, <1>4, CanvasChanges DEF OnlyGraph

(* Every edit keeps the invariant.                                         *)
LEMMA EditKeeps ==
  ASSUME EditorInv, WaitsForAll,
         \/ \E x \in StepIds :
              \/ \E k \in Kinds : AddStep(x, k) \/ AppendStep(x, k)
              \/ \E y \in StepIds : Connect(x, y)
              \/ \E form \in Forms : UpdateNodeData(x, form)
              \/ MoveNode(x) \/ RemoveNode(x)
         \/ \E e \in canvas.edges : RemoveEdge(e)
         \/ Undo \/ Redo \/ Discard
  PROVE  EditorInv'
<1>c. Settled => canvas \in Drawings /\ canvas.home = flowRef
  BY SettledMeans DEF OwnCanvas, DrawnFor
<1>1. ASSUME \/ \E x \in StepIds :
                  \/ \E k \in Kinds : AddStep(x, k)
                  \/ \E y \in StepIds : Connect(x, y)
                  \/ \E form \in Forms : UpdateNodeData(x, form)
                  \/ RemoveNode(x)
             \/ \E e \in canvas.edges : RemoveEdge(e)
      PROVE  EditorInv'
  <2>1. Settled /\ OnlyGraph
    BY <1>1 DEF AddStep, Connect, UpdateNodeData, RemoveNode, RemoveEdge, Building, MayEdit
  <2>2. PICK c \in DrawnFor(flowRef) : Record(c, FALSE)
    BY <1>1, <1>c, <2>1, RecordedIsDrawn
  <2> QED BY <2>1, <2>2, RecordKeeps
<1>2. ASSUME NEW x \in StepIds, NEW k \in Kinds, AppendStep(x, k) PROVE EditorInv'
  <2> DEFINE kept == Latest(Append(past, canvas))
  <2>1. Settled /\ OnlyGraph /\ ~viewing
    BY <1>2 DEF AppendStep, Building, MayEdit
  <2>2. /\ canvas' \in DrawnFor(flowRef)
        /\ past' = kept \/ \E added \in DrawnFor(flowRef) : past' = Latest(Append(kept, added))
        /\ future' = <<>> /\ coalescing' = FALSE /\ auto' = schedule(auto, canvas')
    BY <1>2, <1>c, <2>1, AppendedIsDrawn
  <2>3. kept \in Seq(DrawnFor(flowRef)) /\ Len(kept) <= Limit
    <3>1. OwnCanvas /\ Len(past) <= Limit
      <4>1. Len(past) \in Nat /\ Len(future) \in Nat
        BY LenProperties DEF EditorInv, Types
      <4>2. Limit \in Nat
        BY EditorAssumption DEF EditorAssumption
      <4> QED BY <2>1, <4>1, <4>2, SettledMeans DEF EditorInv, HistoryFits
    <3> QED BY <3>1, LatestFits DEF OwnCanvas
  <2> HIDE DEF kept
  <2>4. past' \in Seq(DrawnFor(flowRef)) /\ Len(past') <= Limit
    BY <2>2, <2>3, LatestFits
  <2>5. future' \in Seq(DrawnFor(flowRef)) /\ Len(past') + Len(future') <= Limit
    <3>1. Len(past') \in Nat /\ Len(future') = 0
      BY <2>2, <2>4, LenProperties, EmptySeq
    <3> QED BY <2>2, <2>4, <3>1, EmptySeq
  <2>6. coalescing' \in BOOLEAN /\ auto' = Scheduled(auto, canvas')
    BY <2>1, <2>2 DEF Scheduled
  <2> QED BY <2>1, <2>2, <2>4, <2>5, <2>6, CanvasChanges DEF OnlyGraph
<1>3. ASSUME NEW x \in StepIds, MoveNode(x) PROVE EditorInv'
  <2>1. Settled /\ OnlyGraph /\ ~viewing
    BY <1>3 DEF MoveNode, Building, MayEdit
  <2>2. PICK c \in DrawnFor(flowRef) :
          \/ canvas' = c /\ auto' = schedule(auto, c) /\ UNCHANGED <<past, future, coalescing>>
          \/ Record(c, TRUE)
    BY <1>3, <1>c, <2>1, MovedIsDrawn
  <2>3. CASE canvas' = c /\ auto' = schedule(auto, c) /\ UNCHANGED <<past, future, coalescing>>
    <3>1. OwnCanvas /\ HistoryFits /\ coalescing \in BOOLEAN
      BY <2>1, SettledMeans DEF EditorInv, Types
    <3>2. auto' = Scheduled(auto, canvas')
      BY <2>1, <2>3 DEF Scheduled
    <3> QED BY <2>1, <2>3, <3>1, <3>2, CanvasChanges DEF OnlyGraph, OwnCanvas, HistoryFits
  <2>4. CASE Record(c, TRUE)
    BY <2>1, <2>4, RecordKeeps
  <2> QED BY <2>2, <2>3, <2>4
<1>4. ASSUME Undo PROVE EditorInv'
  <2>1. /\ Settled /\ OnlyGraph /\ past # <<>> /\ coalescing' = coalescing
        /\ canvas' = past[Len(past)] /\ past' = SubSeq(past, 1, Len(past) - 1)
        /\ future' = Append(future, canvas) /\ auto' = Scheduled(auto, canvas')
    BY <1>4 DEF Undo, MayEdit
  <2>2. /\ OwnCanvas /\ HistoryFits /\ coalescing \in BOOLEAN
        /\ Len(past) \in Nat \ {0} /\ Len(future) \in Nat
    BY <2>1, SettledMeans, LenProperties, EmptySeq DEF EditorInv, Types
  <2>3. /\ canvas' \in DrawnFor(flowRef)
        /\ past' \in Seq(DrawnFor(flowRef)) /\ Len(past') = Len(past) - 1
    <3>1. \A i \in 1 .. Len(past) : past[i] \in DrawnFor(flowRef)
      BY <2>2, ElementOfSeq DEF OwnCanvas
    <3>2. Len(past) - 1 \in Int /\ 1 \in Int /\ Len(past) \in 1 .. Len(past)
          /\ \A i \in 1 .. Len(past) - 1 : i \in 1 .. Len(past)
      BY <2>2
    <3>3. /\ past' \in Seq(DrawnFor(flowRef))
          /\ Len(past') = IF 1 <= Len(past) - 1 THEN Len(past) - 1 - 1 + 1 ELSE 0
      BY <2>1, <3>1, <3>2, SubSeqProperties
    <3>4. Len(past') = Len(past) - 1
      <4>1. \A m \in Nat \ {0} : (IF 1 <= m - 1 THEN m - 1 - 1 + 1 ELSE 0) = m - 1
        OBVIOUS
      <4> QED BY <2>2, <3>3, <4>1, Zenon
    <3>5. canvas' \in DrawnFor(flowRef)
      BY <2>1, <3>1, <3>2
    <3> QED BY <3>3, <3>4, <3>5
  <2>4. future' \in Seq(DrawnFor(flowRef)) /\ Len(future') = Len(future) + 1
    BY <2>1, <2>2, AppendProperties DEF OwnCanvas
  <2>5. Len(past') + Len(future') <= Limit
    <3>1. Limit \in Nat
      BY EditorAssumption DEF EditorAssumption
    <3> QED BY <2>2, <2>3, <2>4, <3>1 DEF HistoryFits
  <2> QED BY <2>1, <2>2, <2>3, <2>4, <2>5, CanvasChanges DEF OnlyGraph
<1>5. ASSUME Redo PROVE EditorInv'
  <2>1. /\ Settled /\ OnlyGraph /\ future # <<>> /\ coalescing' = coalescing
        /\ canvas' = future[Len(future)] /\ future' = SubSeq(future, 1, Len(future) - 1)
        /\ past' = Append(past, canvas) /\ auto' = Scheduled(auto, canvas')
    BY <1>5 DEF Redo
  <2>2. /\ OwnCanvas /\ HistoryFits /\ coalescing \in BOOLEAN
        /\ Len(future) \in Nat \ {0} /\ Len(past) \in Nat
    BY <2>1, SettledMeans, LenProperties, EmptySeq DEF EditorInv, Types
  <2>3. /\ canvas' \in DrawnFor(flowRef)
        /\ future' \in Seq(DrawnFor(flowRef)) /\ Len(future') = Len(future) - 1
    <3>1. \A i \in 1 .. Len(future) : future[i] \in DrawnFor(flowRef)
      BY <2>2, ElementOfSeq DEF OwnCanvas
    <3>2. Len(future) - 1 \in Int /\ 1 \in Int /\ Len(future) \in 1 .. Len(future)
          /\ \A i \in 1 .. Len(future) - 1 : i \in 1 .. Len(future)
      BY <2>2
    <3>3. /\ future' \in Seq(DrawnFor(flowRef))
          /\ Len(future') = IF 1 <= Len(future) - 1 THEN Len(future) - 1 - 1 + 1 ELSE 0
      BY <2>1, <3>1, <3>2, SubSeqProperties
    <3>4. Len(future') = Len(future) - 1
      <4>1. \A m \in Nat \ {0} : (IF 1 <= m - 1 THEN m - 1 - 1 + 1 ELSE 0) = m - 1
        OBVIOUS
      <4> QED BY <2>2, <3>3, <4>1, Zenon
    <3>5. canvas' \in DrawnFor(flowRef)
      BY <2>1, <3>1, <3>2
    <3> QED BY <3>3, <3>4, <3>5
  <2>4. past' \in Seq(DrawnFor(flowRef)) /\ Len(past') = Len(past) + 1
    BY <2>1, <2>2, AppendProperties DEF OwnCanvas
  <2>5. Len(past') + Len(future') <= Limit
    <3>1. Limit \in Nat
      BY EditorAssumption DEF EditorAssumption
    <3> QED BY <2>2, <2>3, <2>4, <3>1 DEF HistoryFits
  <2> QED BY <2>1, <2>2, <2>3, <2>4, <2>5, CanvasChanges DEF OnlyGraph
<1>6. ASSUME Discard PROVE EditorInv'
  <2>1. Settled /\ OnlyGraph /\ \E p \in published : Record(p.graph, FALSE)
    BY <1>6 DEF Discard, Building, MayEdit
  <2>2. PICK p \in published : Record(p.graph, FALSE)
    BY <2>1
  <2>3. p.graph \in DrawnFor(flowRef)
    BY <2>1, SettledMeans DEF EditorInv, Screens
  <2> QED BY <2>1, <2>2, <2>3, RecordKeeps
<1> QED BY <1>1, <1>2, <1>3, <1>4, <1>5, <1>6

-----------------------------------------------------------------------------
(* Saving                                                                  *)

(* What the timer or a blur sends is the canvas, and while a flow is still *)
(* loading there is nothing to be sent.                                    *)
LEMMA DispatchKeeps ==
  ASSUME EditorInv, Dispatched(auto, auto'), auto.pending # {},
         auto.sending = <<>>, OnlySave, UNCHANGED drafts
  PROVE  EditorInv'
<1> USE DEF OnlySave, graphVars, runVars, netVars
<1>1. PICK target \in auto.pending :
        \/ unchanged(auto.acknowledged, target) /\ auto'.sending = <<>>
        \/ /\ ~unchanged(auto.acknowledged, target)
           /\ Len(auto'.sending) = 1 /\ auto'.sending[1].target = target
           /\ auto'.state = "saving"
  BY DEF Dispatched
<1>2. /\ auto' \in Autosaves /\ auto'.pending = {} /\ ~auto'.timer
      /\ auto'.acknowledged = auto.acknowledged /\ auto'.received = auto.received
  BY DEF Dispatched
<1>3. loading => auto'.sending = <<>>
  BY <1>1, UnchangedIsReflexive DEF EditorInv, AutosaveRight
<1>4. auto'.sending # <<>> => Len(auto'.sending) = 1
  BY <1>1
<1>5. IsOpen /\ ~viewing =>
        /\ auto'.sending # <<>> => auto'.sending[1].target = canvas
        /\ auto'.state = "saved" /\ auto'.sending = <<>>
             => unchanged(canvas, auto'.received)
  <2> SUFFICES ASSUME IsOpen, ~viewing
               PROVE  /\ auto'.sending # <<>> => auto'.sending[1].target = canvas
                      /\ auto'.state = "saved" /\ auto'.sending = <<>>
                           => unchanged(canvas, auto'.received)
    OBVIOUS
  <2>1. target = canvas /\ auto.acknowledged = auto.received
    BY DEF EditorInv, AutosaveRight
  <2>2. auto'.sending # <<>> => auto'.sending[1].target = canvas
    BY <1>1, <2>1
  <2>3. auto'.state = "saved" => unchanged(auto.acknowledged, target)
    BY <1>1
  <2> QED BY <1>2, <2>1, <2>2, <2>3, UnchangedIsSymmetric
<1>6. Types' /\ HistoryFits' /\ Stored' /\ Homes' /\ Screens'
  BY <1>2 DEF EditorInv, Types, HistoryFits, Stored, Homes, OwnCanvas, IsOpen, Screens
<1>7. AutosaveRight'
  BY <1>2, <1>3, <1>4, <1>5 DEF EditorInv, AutosaveRight, IsOpen
<1> QED BY <1>6, <1>7 DEF EditorInv

(* Every step of the autosave keeps the invariant: what a save writes, for *)
(* the flow that flowRef names by then, is that flow's.                    *)
LEMMA SaveKeeps ==
  ASSUME EditorInv, Fire \/ Blur \/ Saved \/ SaveFailed
  PROVE  EditorInv'
<1> USE DEF OnlySave, graphVars, runVars, netVars
<1>a. auto \in Autosaves
  BY DEF EditorInv, Types
<1>1. ASSUME Fire \/ Blur, auto.pending # {} PROVE EditorInv'
  <2>1. auto.sending = <<>>
    BY <1>1 DEF EditorInv, AutosaveRight
  <2>2. Dispatched(auto, auto')
    BY <1>1, <1>a, <2>1, BothDispatch DEF Fire, Blur
  <2> QED BY <1>1, <2>1, <2>2, DispatchKeeps DEF Fire, Blur
<1>0. ASSUME Fire \/ Blur, auto.pending = {} PROVE EditorInv'
  <2>1. Blur /\ ~auto.timer
    BY <1>0 DEF Fire, EditorInv, AutosaveRight
  <2>2. auto' = [auto EXCEPT !.timer = FALSE, !.inFlight = FALSE]
    BY <1>a, <1>0, <2>1 DEF Blur, flush, send, Autosaves
  <2>3. /\ auto' \in Autosaves /\ auto'.pending = {} /\ ~auto'.timer
        /\ auto'.acknowledged = auto.acknowledged /\ auto'.received = auto.received
        /\ auto'.sending = auto.sending /\ auto'.state = auto.state
    BY <1>a, <1>0, <2>2 DEF Autosaves
  <2>4. UNCHANGED <<graphVars, runVars, netVars, flowId, flowRef, viewing, drafts>>
    BY <2>1 DEF Blur
  <2> QED BY <1>0, <2>1, <2>3, <2>4
          DEF EditorInv, Types, HistoryFits, Stored, Homes, OwnCanvas, IsOpen, Screens,
              AutosaveRight
<1>2. ASSUME Saved \/ SaveFailed PROVE EditorInv'
  <2>1. /\ auto.sending # <<>> /\ Len(auto.sending) = 1 /\ auto.pending = {}
        /\ ~auto.timer /\ ~loading
    BY <1>2 DEF Saved, SaveFailed, EditorInv, AutosaveRight
  <2>2. OwnCanvas
    BY <2>1 DEF EditorInv, Homes
  <2>3. IsOpen /\ ~viewing => auto.sending[1].target = canvas
    BY <2>1 DEF EditorInv, AutosaveRight
  <2>4. /\ auto' \in Autosaves /\ auto'.sending = <<>> /\ ~auto'.timer
        /\ auto'.acknowledged = auto'.received
        /\ \/ auto'.pending = {} /\ auto'.received = auto.sending[1].target
           \/ auto'.pending = {auto.sending[1].target} /\ auto'.state = "unsaved"
    <3>1. auto.acknowledged = auto.received
      BY DEF EditorInv, AutosaveRight
    <3>2. CASE Saved
      BY <1>a, <2>1, <3>2, SaveEnds DEF Saved
    <3>3. CASE SaveFailed
      BY <1>a, <2>1, <3>1, <3>3, SaveEnds DEF SaveFailed
    <3> QED BY <1>2, <3>2, <3>3
  <2>5. drafts' \in [Flows -> SUBSET Drawings]
        /\ \A f \in Flows : drafts'[f] \subseteq DrawnFor(f)
    <3>1. canvas \in DrawnFor(flowRef) /\ canvas \in Drawings
      BY <2>2 DEF OwnCanvas, DrawnFor
    <3> QED BY <1>2, <3>1 DEF Saved, SaveFailed, EditorInv, Stored
  <2>6. IsOpen' <=> IsOpen
    BY <1>2, <2>1 DEF IsOpen, Saved, SaveFailed
  <2>7. Types' /\ HistoryFits'
    BY <1>2, <2>4 DEF Saved, SaveFailed, EditorInv, Types, HistoryFits
  <2>8. Stored'
    BY <1>2, <2>5 DEF Saved, SaveFailed, EditorInv, Stored
  <2>9. Homes' /\ Screens'
    BY <1>2, <2>2 DEF Saved, SaveFailed, EditorInv, Homes, OwnCanvas, Screens
  <2>10. AutosaveRight'
    <3>1. /\ canvas' = canvas /\ viewing' = viewing /\ loading' = loading
      BY <1>2 DEF Saved, SaveFailed
    <3> QED BY <2>1, <2>3, <2>4, <2>6, <3>1, UnchangedIsReflexive DEF AutosaveRight
  <2> QED BY <2>7, <2>8, <2>9, <2>10 DEF EditorInv
<1> QED BY <1>0, <1>1, <1>2

-----------------------------------------------------------------------------
(* Opening and leaving                                                     *)

(* Opening a flow keeps the invariant: what was armed for the flow before  *)
(* is cancelled, and a draft is loaded for its own flow (the effects of a  *)
(* changed flowId).                                                        *)
LEMMA SetFlowKeeps ==
  ASSUME EditorInv, WaitsForAll, MayLeave, NEW f \in Flows, SetFlow(f),
         UNCHANGED <<server, post, archiving, picking, viewing, drafts>>,
         flowList' \subseteq Flows
  PROVE  EditorInv'
<1>1. /\ ~loading /\ auto.sending = <<>> /\ post = {}
      /\ f # None /\ auto \in Autosaves
  BY EditorAssumption
     DEF MayLeave, Quiet, WaitsForAll, EditorInv, Types, EditorAssumption
<1>2. /\ flowId' = f /\ flowRef' = f /\ published' = {} /\ loading' = TRUE
      /\ listing' = TRUE
  BY DEF SetFlow
<1>3. Stored' /\ Screens'
  BY <1>1, <1>2 DEF EditorInv, Stored, Screens
<1>4. CASE drafts[f] = {}
  <2>1. auto' = cancel(auto) /\ UNCHANGED graphVars
    BY <1>4 DEF SetFlow
  <2>2. /\ auto' \in Autosaves /\ auto'.pending = {} /\ ~auto'.timer
        /\ auto'.sending = <<>> /\ auto'.acknowledged = auto'.received
    <3>1. auto.acknowledged = auto.received /\ canvas \in Drawings
      BY DEF EditorInv, AutosaveRight, Types
    <3> QED BY <1>1, <2>1, <3>1, LoadFields
  <2>3. ~IsOpen'
    BY <1>2, <1>4 DEF IsOpen
  <2>4. Types' /\ HistoryFits'
    BY <1>2, <2>1, <2>2 DEF EditorInv, Types, HistoryFits, graphVars
  <2>5. Homes' /\ AutosaveRight'
    BY <2>2, <2>3 DEF Homes, AutosaveRight
  <2> QED BY <1>3, <2>4, <2>5 DEF EditorInv
<1>5. CASE drafts[f] # {}
  <2>1. PICK g \in drafts[f] : Load(g) /\ auto' = Scheduled(reset(cancel(auto), g), g)
    BY <1>5 DEF SetFlow
  <2>2. g \in DrawnFor(f) /\ g \in Drawings
    BY DEF EditorInv, Stored, DrawnFor
  <2> DEFINE loaded == reset(cancel(auto), g)
  <2>3. /\ loaded \in Autosaves /\ loaded.pending = {} /\ ~loaded.timer
        /\ loaded.acknowledged = g /\ loaded.received = g
        /\ loaded.sending = <<>>
    BY <1>1, <2>2, LoadFields
  <2> HIDE DEF loaded
  <2>4. /\ auto' \in Autosaves /\ auto'.pending \subseteq {g} /\ ~auto'.timer
        /\ auto'.acknowledged = g /\ auto'.received = g /\ auto'.sending = <<>>
    <3>1. auto' = Scheduled(loaded, g)
      BY <2>1 DEF loaded
    <3>2. unchanged(g, g)
      BY UnchangedIsReflexive
    <3> QED BY <2>2, <2>3, <3>1, <3>2, ScheduleFields DEF Scheduled
  <2>5. /\ canvas' = g /\ past' = <<>> /\ future' = <<>> /\ coalescing' = FALSE
    BY <2>1 DEF Load
  <2>6. Types'
    BY <1>2, <2>2, <2>4, <2>5, EmptySeq DEF EditorInv, Types
  <2>7. HistoryFits'
    <3>1. Limit \in Nat /\ Len(past') = 0 /\ Len(future') = 0
      BY <2>5, EmptySeq, EditorAssumption DEF EditorAssumption
    <3> QED BY <3>1 DEF HistoryFits
  <2>8. Homes'
    BY <1>2, <2>2, <2>5, EmptySeq DEF Homes, OwnCanvas
  <2>9. AutosaveRight'
    BY <2>4, <2>5, UnchangedIsReflexive DEF AutosaveRight
  <2> QED BY <1>3, <2>6, <2>7, <2>8, <2>9 DEF EditorInv
<1> QED BY <1>4, <1>5

(* Leaving a flow keeps the invariant: the canvas, the autosave and the    *)
(* flow it writes for are left together.                                   *)
LEMMA LeaveKeeps ==
  ASSUME EditorInv,
         \/ ExitFlow /\ WaitsForAll
         \/ flowId' = None /\ loading' = FALSE /\ listing' = FALSE
            /\ flowList' \subseteq Flows
            /\ drafts' \in [Flows -> SUBSET Drawings]
            /\ (\A f \in Flows : drafts'[f] \subseteq DrawnFor(f))
            /\ UNCHANGED <<graphVars, server, published, post, flowRef, viewing, auto>>
  PROVE  EditorInv'
<1> USE DEF graphVars, runVars, netVars
<1>1. CASE ExitFlow /\ WaitsForAll
  <2>1. flowId # None /\ ~loading /\ auto.sending = <<>> /\ IsOpen /\ OwnCanvas
    BY <1>1 DEF ExitFlow, MayLeave, Quiet, WaitsForAll, IsOpen, EditorInv, Homes
  <2>2. /\ auto \in Autosaves /\ canvas \in Drawings
        /\ auto.acknowledged = auto.received /\ (auto.timer => auto.pending # {})
    BY DEF EditorInv, Types, AutosaveRight
  <2>3. /\ auto' \in Autosaves /\ auto'.sending = <<>>
        /\ auto'.acknowledged = auto'.received
        /\ auto'.timer => auto'.pending # {}
    <3>1. CASE viewing
      BY <1>1, <2>1, <2>2, <3>1, ScheduleFields DEF ExitFlow
    <3>2. CASE ~viewing
      BY <1>1, <2>1, <2>2, <3>2 DEF ExitFlow
    <3> QED BY <3>1, <3>2
  <2>4. Types' /\ HistoryFits' /\ Stored'
    BY <1>1, <2>3 DEF ExitFlow, EditorInv, Types, HistoryFits, Stored
  <2>5. Homes' /\ Screens'
    BY <1>1, <2>1 DEF ExitFlow, EditorInv, Homes, OwnCanvas, Screens
  <2>6. AutosaveRight'
    BY <1>1, <2>3 DEF ExitFlow, AutosaveRight, IsOpen
  <2> QED BY <2>4, <2>5, <2>6 DEF EditorInv
<1>2. CASE /\ flowId' = None /\ loading' = FALSE /\ listing' = FALSE
           /\ flowList' \subseteq Flows
           /\ drafts' \in [Flows -> SUBSET Drawings]
           /\ \A f \in Flows : drafts'[f] \subseteq DrawnFor(f)
           /\ UNCHANGED <<graphVars, server, published, post, flowRef, viewing, auto>>
  <2>1. Types' /\ HistoryFits' /\ Stored'
    BY <1>2 DEF EditorInv, Types, HistoryFits, Stored
  <2>2. Homes' /\ Screens'
    BY <1>2 DEF EditorInv, Homes, OwnCanvas, Screens, IsOpen
  <2>3. AutosaveRight'
    BY <1>2 DEF EditorInv, AutosaveRight, IsOpen
  <2> QED BY <2>1, <2>2, <2>3 DEF EditorInv
<1> QED BY <1>1, <1>2

(* A step that leaves the tab as it is, but for the list of flows, the     *)
(* runs and the flows of the server, keeps the invariant.                  *)
LEMMA ElsewhereKeeps ==
  ASSUME EditorInv, flowList' \subseteq Flows, listing' \in BOOLEAN,
         coalescing' \in BOOLEAN,
         server' \in [Flows -> [state : {"absent", "live", "archived"},
                                version : Nat, graph : SUBSET Drawings]],
         \A f \in Flows : server'[f].graph \subseteq DrawnFor(f),
         UNCHANGED <<canvas, past, future, loading, published, post, flowId,
                     flowRef, viewing, drafts, auto>>
  PROVE  EditorInv'
<1>1. Types' /\ HistoryFits' /\ Stored'
  BY DEF EditorInv, Types, HistoryFits, Stored
<1>2. Homes' /\ Screens' /\ AutosaveRight'
  BY DEF EditorInv, Homes, OwnCanvas, Screens, AutosaveRight, IsOpen
<1> QED BY <1>1, <1>2 DEF EditorInv

(* What is live is loaded for the flow that is open, if it has no draft    *)
(* (the answer to the published graph).                                    *)
LEMMA ArrivalKeeps ==
  ASSUME EditorInv, PublishedArrives
  PROVE  EditorInv'
<1> USE DEF graphVars, runVars
<1> DEFINE g == IF liveGraph(flowId) = {} THEN EmptyFlow(flowId)
                ELSE CHOOSE h \in liveGraph(flowId) : TRUE
<1>1. /\ loading /\ flowId \in Flows /\ flowId = flowRef /\ flowId # None
      /\ published = {} /\ post = {}
      /\ auto.sending = <<>> /\ ~auto.timer /\ auto.acknowledged = auto.received
      /\ auto \in Autosaves
  BY DEF PublishedArrives, EditorInv, Types, Screens, AutosaveRight
<1>2. g \in DrawnFor(flowId) /\ g \in Drawings
  <2>1. liveGraph(flowId) \subseteq DrawnFor(flowId)
    BY <1>1 DEF liveGraph, scopeOf, EditorInv, Stored
  <2>2. EmptyFlow(flowId) \in DrawnFor(flowId)
    BY <1>1, EmptyIsSound
  <2> QED BY <2>1, <2>2, DrawnForIsDrawn
<1>3. /\ published' \subseteq {[version |-> server[flowId].version, graph |-> g]}
      /\ loading' = FALSE
      /\ IF drafts[flowId] = {} THEN Load(g) /\ auto' = Scheduled(reset(auto, g), g)
         ELSE UNCHANGED <<graphVars, auto>>
      /\ UNCHANGED <<runVars, server, flowList, post, flowId, flowRef, viewing, drafts>>
  BY <1>1 DEF PublishedArrives
<1> HIDE DEF g
<1>4. Stored' /\ Screens'
  <2>1. Stored'
    BY <1>3 DEF EditorInv, Stored
  <2>2. server[flowId].version \in Nat
    BY <1>1 DEF EditorInv, Stored
  <2>3. \A p \in published' : /\ p \in [version : Nat, graph : Drawings]
                              /\ p.graph \in DrawnFor(flowId)
    BY <1>2, <1>3, <2>2
  <2> QED BY <1>1, <1>3, <2>1, <2>3 DEF EditorInv, Screens
<1>5. CASE drafts[flowId] = {}
  <2> DEFINE loaded == reset(auto, g)
  <2>1. /\ loaded \in Autosaves /\ loaded.pending = {} /\ ~loaded.timer
        /\ loaded.acknowledged = g /\ loaded.received = g /\ loaded.sending = <<>>
    BY <1>1, <1>2, LoadFields
  <2>2. auto' = Scheduled(loaded, g) /\ Load(g)
    BY <1>3, <1>5
  <2> HIDE DEF loaded
  <2>3. /\ auto' \in Autosaves /\ auto'.pending \subseteq {g} /\ ~auto'.timer
        /\ auto'.acknowledged = g /\ auto'.received = g /\ auto'.sending = <<>>
    BY <1>2, <2>1, <2>2, ScheduleFields, UnchangedIsReflexive DEF Scheduled
  <2>4. canvas' = g /\ past' = <<>> /\ future' = <<>> /\ coalescing' = FALSE
    BY <2>2 DEF Load
  <2>5. Types'
    BY <1>2, <1>3, <2>3, <2>4, EmptySeq DEF EditorInv, Types
  <2>6. HistoryFits'
    <3>1. Limit \in Nat /\ Len(past') = 0 /\ Len(future') = 0
      BY <2>4, EmptySeq, EditorAssumption DEF EditorAssumption
    <3> QED BY <3>1 DEF HistoryFits
  <2>7. Homes' /\ AutosaveRight'
    BY <1>1, <1>2, <1>3, <2>3, <2>4, EmptySeq, UnchangedIsReflexive
       DEF Homes, OwnCanvas, AutosaveRight
  <2> QED BY <1>4, <2>5, <2>6, <2>7 DEF EditorInv
<1>6. CASE drafts[flowId] # {}
  <2>1. IsOpen /\ UNCHANGED <<graphVars, auto>>
    BY <1>1, <1>3, <1>6 DEF IsOpen
  <2>2. Types' /\ HistoryFits' /\ Homes'
    BY <1>3, <2>1 DEF EditorInv, Types, HistoryFits, Homes, OwnCanvas
  <2>3. AutosaveRight'
    BY <1>1, <1>3, <2>1 DEF EditorInv, AutosaveRight
  <2> QED BY <1>4, <2>2, <2>3 DEF EditorInv
<1> QED BY <1>5, <1>6

(* Every step that opens, leaves, makes or archives a flow keeps the       *)
(* invariant.                                                              *)
LEMMA FlowKeeps ==
  ASSUME EditorInv, WaitsForAll,
         \/ \E f \in Flows : OpenFlow(f) \/ CreateFlow(f) \/ FlowCreated(f)
                               \/ ArchiveFlow(f)
         \/ FlowArchived \/ ExitFlow \/ LoadFlows \/ PublishedArrives
  PROVE  EditorInv'
<1> USE DEF graphVars, runVars, netVars
<1>l. list \subseteq Flows
  BY DEF list
<1>1. ASSUME NEW f \in Flows, OpenFlow(f) \/ FlowCreated(f) PROVE EditorInv'
  <2>1. flowList' \subseteq Flows
    BY <1>1, <1>l DEF OpenFlow, FlowCreated, EditorInv, Types
  <2> QED BY <1>1, <2>1, SetFlowKeeps DEF OpenFlow, FlowCreated
<1>2. ASSUME NEW f \in Flows, CreateFlow(f) \/ ArchiveFlow(f) PROVE EditorInv'
  <2>1. /\ server' \in [Flows -> [state : {"absent", "live", "archived"},
                                  version : Nat, graph : SUBSET Drawings]]
        /\ \A x \in Flows : server'[x].graph \subseteq DrawnFor(x)
    <3>1. CASE CreateFlow(f)
      <4> DEFINE new == [Absent EXCEPT !.state = "live"]
      <4>1. new \in [state : {"absent", "live", "archived"},
                     version : Nat, graph : SUBSET Drawings] /\ new.graph = {}
        BY DEF Absent
      <4>2. server' = [server EXCEPT ![f] = new]
        BY <3>1 DEF CreateFlow
      <4> HIDE DEF new
      <4> QED BY <4>1, <4>2 DEF EditorInv, Stored
    <3>2. CASE ArchiveFlow(f)
      <4> DEFINE new == [server[f] EXCEPT !.state = "archived"]
      <4>1. /\ new \in [state : {"absent", "live", "archived"},
                        version : Nat, graph : SUBSET Drawings]
            /\ new.graph = server[f].graph
        BY DEF EditorInv, Stored
      <4>2. server' = [server EXCEPT ![f] = new]
        BY <3>2 DEF ArchiveFlow
      <4> HIDE DEF new
      <4> QED BY <4>1, <4>2 DEF EditorInv, Stored
    <3> QED BY <1>2, <3>1, <3>2
  <2>2. UNCHANGED <<graphVars, runVars, flowList, loading, published, post,
                    flowId, flowRef, viewing, drafts, auto>>
    BY <1>2 DEF CreateFlow, ArchiveFlow
  <2> QED BY <2>1, <2>2, ElsewhereKeeps DEF EditorInv, Types, Screens
<1>3. ASSUME FlowArchived PROVE EditorInv'
  <2>1. drafts' \in [Flows -> SUBSET Drawings]
        /\ \A f \in Flows : drafts'[f] \subseteq DrawnFor(f)
    BY <1>3 DEF FlowArchived, EditorInv, Stored
  <2> QED BY <1>3, <2>1, LeaveKeeps DEF FlowArchived, EditorInv, Types
<1>4. ASSUME LoadFlows PROVE EditorInv'
  <2>1. CASE flowId \in list \cup {None}
    <3>1. UNCHANGED <<graphVars, runVars, server, loading, published, post,
                      flowId, flowRef, viewing, drafts, auto>>
      BY <1>4, <2>1 DEF LoadFlows
    <3>2. flowList' \subseteq Flows
      BY <1>4, <1>l DEF LoadFlows
    <3> QED BY <3>1, <3>2, ElsewhereKeeps DEF EditorInv, Types, Screens, Stored
  <2>2. CASE flowId \notin list \cup {None}
    BY <1>4, <1>l, <2>2, LeaveKeeps DEF LoadFlows, EditorInv, Stored
  <2> QED BY <2>1, <2>2
<1> QED BY <1>1, <1>2, <1>3, <1>4, LeaveKeeps, ArrivalKeeps

-----------------------------------------------------------------------------
(* Publishing, and looking at runs                                         *)

(* Every step of publishing keeps the invariant: the answer is for the     *)
(* flow that is still open.                                                *)
LEMMA PublishKeeps ==
  ASSUME EditorInv, WaitsForAll, Publish \/ ServePublish \/ PublishAnswered
  PROVE  EditorInv'
<1> USE DEF graphVars, runVars
<1>1. UNCHANGED <<graphVars, runVars, flowList, loading, flowId, flowRef,
                  viewing, drafts, auto>>
  BY DEF Publish, ServePublish, PublishAnswered
<1>2. Types' /\ HistoryFits' /\ Homes' /\ AutosaveRight'
  BY <1>1 DEF EditorInv, Types, HistoryFits, Homes, OwnCanvas, AutosaveRight, IsOpen
<1>3. Stored' /\ Screens'
  <2>1. CASE Publish
    <3> DEFINE p == [flow |-> scope, graph |-> canvas, answer |-> "open",
                     version |-> 0]
    <3>1. post' = {p} /\ UNCHANGED <<server, published>> /\ Settled
      BY <2>1 DEF Publish
    <3>2. ~loading /\ flowId = flowRef /\ flowId \in Flows /\ canvas \in DrawnFor(flowId)
          /\ canvas \in Drawings
      BY <3>1, SettledMeans DEF OwnCanvas, EditorInv, Types
    <3>3. p \in Posts /\ p.graph \in DrawnFor(p.flow) /\ p.flow = flowId
      BY <3>2 DEF Posts, scope
    <3> HIDE DEF p
    <3> QED BY <1>1, <3>1, <3>2, <3>3 DEF EditorInv, Stored, Screens
  <2>2. CASE ServePublish
    <3>1. PICK p \in post :
            /\ p.answer = "open" /\ UNCHANGED published
            /\ IF scopeOf(p.flow) # {} /\ compiles(p.graph)
               THEN LET s == server[p.flow]
                        v == s.version + 1
                    IN  /\ server' = [server EXCEPT ![p.flow] =
                                [s EXCEPT !.version = v, !.graph = {p.graph}]]
                        /\ post' = {[p EXCEPT !.answer = "created", !.version = v]}
               ELSE server' = server /\ post' = {[p EXCEPT !.answer = "refused"]}
      BY <2>2 DEF ServePublish
    <3>2. /\ p \in Posts /\ p.graph \in DrawnFor(p.flow) /\ p.flow \in Flows
          /\ (flowId # None => flowId = p.flow) /\ ~loading /\ p.graph \in Drawings
      BY DEF EditorInv, Screens, Posts
    <3>3. CASE scopeOf(p.flow) # {} /\ compiles(p.graph)
      <4> DEFINE v == server[p.flow].version + 1
                 new == [server[p.flow] EXCEPT !.version = v, !.graph = {p.graph}]
                 q == [p EXCEPT !.answer = "created", !.version = v]
      <4>1. server' = [server EXCEPT ![p.flow] = new] /\ post' = {q}
        BY <3>1, <3>3
      <4>2. v \in Nat
        BY <3>2 DEF EditorInv, Stored
      <4> HIDE DEF v
      <4>3. /\ new \in [state : {"absent", "live", "archived"},
                        version : Nat, graph : SUBSET Drawings]
            /\ new.graph = {p.graph}
        BY <3>2, <4>2 DEF EditorInv, Stored
      <4>4. q \in Posts /\ q.graph = p.graph /\ q.flow = p.flow
        BY <3>2, <4>2 DEF Posts
      <4> HIDE DEF new, q
      <4>5. Stored'
        BY <1>1, <3>2, <4>1, <4>3 DEF EditorInv, Stored
      <4>6. Screens'
        BY <1>1, <3>1, <3>2, <4>1, <4>4 DEF EditorInv, Screens
      <4> QED BY <4>5, <4>6
    <3>4. CASE ~(scopeOf(p.flow) # {} /\ compiles(p.graph))
      <4> DEFINE q == [p EXCEPT !.answer = "refused"]
      <4>1. server' = server /\ post' = {q}
        BY <3>1, <3>4
      <4>2. q \in Posts /\ q.graph = p.graph /\ q.flow = p.flow
        BY <3>2 DEF Posts
      <4> HIDE DEF q
      <4> QED BY <1>1, <3>1, <3>2, <4>1, <4>2 DEF EditorInv, Stored, Screens
    <3> QED BY <3>3, <3>4
  <2>3. CASE PublishAnswered
    <3>1. PICK p \in post :
            /\ post' = {} /\ UNCHANGED server
            /\ \/ published' = published
               \/ published' = {[version |-> p.version, graph |-> p.graph]}
      BY <2>3 DEF PublishAnswered
    <3>2. /\ p \in Posts /\ p.graph \in DrawnFor(p.flow)
          /\ (flowId # None => flowId = p.flow) /\ ~loading
          /\ [version |-> p.version, graph |-> p.graph] \in [version : Nat, graph : Drawings]
      BY DEF EditorInv, Screens, Posts
    <3> QED BY <1>1, <3>1, <3>2 DEF EditorInv, Stored, Screens
  <2> QED BY <2>1, <2>2, <2>3
<1> QED BY <1>2, <1>3 DEF EditorInv

(* Every step that shows runs keeps the invariant: on the way back the     *)
(* canvas is scheduled.                                                    *)
LEMMA RunKeeps ==
  ASSUME EditorInv, WaitsForAll,
         \/ \E run \in BOOLEAN : SetMode(run)
         \/ RunsArrive \/ PickRun \/ RunPicked
  PROVE  EditorInv'
<1> USE DEF graphVars, runVars, netVars, OnlyRuns
<1>1. ASSUME NEW run \in BOOLEAN, SetMode(run) PROVE EditorInv'
  <2>1. /\ viewing' = run /\ auto' = (IF run THEN auto ELSE schedule(auto, canvas))
        /\ Settled /\ UNCHANGED <<graphVars, runVars>> /\ OnlyRuns
    BY <1>1 DEF SetMode
  <2>2. /\ flowId # None /\ ~loading /\ auto.sending = <<>>
        /\ IsOpen /\ OwnCanvas /\ flowId = flowRef
    BY <2>1, SettledMeans
  <2>3. auto \in Autosaves /\ canvas \in Drawings
        /\ auto.acknowledged = auto.received /\ (auto.timer => auto.pending # {})
    BY DEF EditorInv, Types, AutosaveRight
  <2>4. /\ auto' \in Autosaves /\ auto'.sending = <<>>
        /\ auto'.acknowledged = auto'.received
        /\ auto'.timer => auto'.pending # {}
        /\ ~run => /\ auto'.pending = {canvas}
                   /\ auto'.state = "saved" => unchanged(canvas, auto'.received)
    <3>1. CASE run
      BY <2>1, <2>2, <2>3, <3>1
    <3>2. CASE ~run
      BY <2>1, <2>2, <2>3, <3>2, ScheduleFields, UnchangedIsSymmetric
    <3> QED BY <3>1, <3>2
  <2>5. Types' /\ HistoryFits' /\ Stored' /\ Screens'
    BY <2>1, <2>4 DEF EditorInv, Types, HistoryFits, Stored, Screens
  <2>6. Homes'
    BY <2>1, <2>2 DEF Homes, OwnCanvas
  <2>7. AutosaveRight'
    BY <2>1, <2>2, <2>4 DEF AutosaveRight
  <2> QED BY <2>5, <2>6, <2>7 DEF EditorInv
<1>2. ASSUME RunsArrive \/ PickRun \/ RunPicked PROVE EditorInv'
  <2>1. listing' \in BOOLEAN
    BY <1>2 DEF RunsArrive, PickRun, RunPicked, EditorInv, Types
  <2>2. UNCHANGED <<graphVars, netVars, flowId, flowRef, viewing, drafts, auto>>
    BY <1>2 DEF RunsArrive, PickRun, RunPicked
  <2> QED BY <2>1, <2>2, ElsewhereKeeps DEF EditorInv, Types, Stored
<1> QED BY <1>1, <1>2

(* The invariant is inductive for a user who waits.                        *)
LEMMA EditorStep ==
  ASSUME EditorInv, WaitsForAll, [Next]_vars
  PROVE  EditorInv'
<1>1. CASE UNCHANGED vars
  BY <1>1, ElsewhereKeeps
     DEF vars, graphVars, runVars, netVars, EditorInv, Types, Stored, Screens
<1>2. CASE EndGesture
  BY <1>2, ElsewhereKeeps
     DEF EndGesture, OnlyGraph, runVars, netVars, EditorInv, Types, Stored, Screens
<1> QED BY <1>1, <1>2, EditKeeps, SaveKeeps, FlowKeeps, PublishKeeps, RunKeeps DEF Next

(* The invariant holds in every state.                                     *)
LEMMA EditorAlways ==
  ASSUME WaitsForAll
  PROVE  Spec => []EditorInv
<1>1. EditorInv /\ [Next]_vars => EditorInv'
  BY EditorStep
<1> QED BY <1>1, EditorStarts, PTL DEF Spec

-----------------------------------------------------------------------------
(* A user who does not wait                                                *)

(* Wherever the canvas may take a graph from, there is a drawing, whoever  *)
(* it was drawn for: the histories, the drafts, what is published, what is *)
(* on its way to be, and what is taken for the live version.               *)
Versions == [state : {"absent", "live", "archived"}, version : Nat,
             graph : SUBSET Drawings]
AllDrawn ==
  /\ canvas \in Drawings /\ past \in Seq(Drawings) /\ future \in Seq(Drawings)
  /\ drafts \in [Flows -> SUBSET Drawings] /\ server \in [Flows -> Versions]
  /\ post \subseteq Posts /\ published \subseteq [version : Nat, graph : Drawings]
  /\ flowId \in Flows \cup {None} /\ (loading => flowId # None)

(* Every edit draws, in its time or not: what is added, moved or joined    *)
(* starts from the canvas, whatever that shows by then, and what is undone *)
(* or taken back was there before.  So whatever graphs the canvas, the     *)
(* histories and the live version are among, all drawings or those for one *)
(* flow, they stay among them, and the canvas is all that is scheduled.    *)
LEMMA EditsStayWithin ==
  ASSUME NEW X \in SUBSET Drawings, \A g \in X : DrawnFor(g.home) \subseteq X,
         canvas \in X, past \in Seq(X), future \in Seq(X),
         \A p \in published : p.graph \in X,
         \/ \E x \in StepIds :
              \/ \E k \in Kinds : AddStep(x, k) \/ AppendStep(x, k)
              \/ \E y \in StepIds : Connect(x, y)
              \/ \E form \in Forms : UpdateNodeData(x, form)
              \/ MoveNode(x) \/ RemoveNode(x)
         \/ \E e \in canvas.edges : RemoveEdge(e)
         \/ EndGesture \/ Undo \/ Redo \/ Discard
  PROVE  /\ OnlyGraph
         /\ canvas' \in X /\ past' \in Seq(X) /\ future' \in Seq(X)
         /\ auto' \in {auto, schedule(auto, canvas')}
<1> USE DEF runVars, netVars
<1>0. OnlyGraph
  BY DEF AddStep, AppendStep, Connect, UpdateNodeData, MoveNode, RemoveNode,
         RemoveEdge, EndGesture, Undo, Redo, Discard, Building
<1>c. canvas \in Drawings /\ DrawnFor(canvas.home) \subseteq X
  OBVIOUS
<1> DEFINE Kept == /\ canvas' \in X /\ past' \in Seq(X) /\ future' \in Seq(X)
                   /\ auto' \in {auto, schedule(auto, canvas')}
<1>1. ASSUME NEW c \in X, NEW again, Record(c, again) PROVE Kept
  <2>1. past' \in Seq(X)
    BY <1>1, LatestFits DEF Record
  <2>2. future' = <<>> /\ canvas' = c /\ auto' \in {auto, schedule(auto, canvas')}
    BY <1>1 DEF Record, Scheduled
  <2> QED BY <2>1, <2>2, EmptySeq
<1>2. ASSUME \/ \E x \in StepIds :
                  \/ \E k \in Kinds : AddStep(x, k)
                  \/ \E y \in StepIds : Connect(x, y)
                  \/ \E form \in Forms : UpdateNodeData(x, form)
                  \/ RemoveNode(x)
             \/ \E e \in canvas.edges : RemoveEdge(e)
      PROVE  Kept
  <2>1. PICK c \in DrawnFor(canvas.home) : Record(c, FALSE)
    BY <1>2, <1>c, RecordedIsDrawn
  <2> QED BY <1>1, <1>c, <2>1
<1>3. ASSUME NEW x \in StepIds, NEW k \in Kinds, AppendStep(x, k) PROVE Kept
  <2> DEFINE kept == Latest(Append(past, canvas))
  <2>1. /\ canvas' \in X /\ future' = <<>> /\ auto' = schedule(auto, canvas')
        /\ past' = kept \/ \E added \in X : past' = Latest(Append(kept, added))
    BY <1>3, <1>c, AppendedIsDrawn
  <2>2. kept \in Seq(X)
    BY LatestFits
  <2> HIDE DEF kept
  <2>3. past' \in Seq(X)
    BY <2>1, <2>2, LatestFits
  <2> QED BY <2>1, <2>3, EmptySeq
<1>4. ASSUME NEW x \in StepIds, MoveNode(x) PROVE Kept
  <2>1. PICK c \in DrawnFor(canvas.home) :
          \/ canvas' = c /\ auto' = schedule(auto, c) /\ UNCHANGED <<past, future, coalescing>>
          \/ Record(c, TRUE)
    BY <1>4, <1>c, MovedIsDrawn
  <2>2. c \in X
    BY <1>c
  <2> QED BY <1>1, <2>1, <2>2
<1>5. CASE EndGesture
  BY <1>5 DEF EndGesture
<1>6. ASSUME NEW s \in Seq(X), s # <<>>
      PROVE  s[Len(s)] \in X /\ SubSeq(s, 1, Len(s) - 1) \in Seq(X)
  <2>1. /\ Len(s) \in Nat \ {0} /\ Len(s) - 1 \in Int /\ 1 \in Int
        /\ \A i \in 1 .. Len(s) : s[i] \in X
    BY <1>6, LenProperties, EmptySeq, ElementOfSeq
  <2>2. Len(s) \in 1 .. Len(s) /\ \A i \in 1 .. Len(s) - 1 : i \in 1 .. Len(s)
    BY <2>1
  <2> QED BY <2>1, <2>2, SubSeqProperties
<1>7. CASE Undo
  BY <1>6, <1>7, AppendProperties DEF Undo, Scheduled
<1>8. CASE Redo
  BY <1>6, <1>8, AppendProperties DEF Redo, Scheduled
<1>9. CASE Discard
  <2>1. PICK c \in X : Record(c, FALSE)
    <3>1. PICK p \in published : Record(p.graph, FALSE)
      BY <1>9 DEF Discard
    <3> QED BY <3>1
  <2> QED BY <1>0, <1>1, <2>1
<1> QED BY <1>0, <1>2, <1>3, <1>4, <1>5, <1>7, <1>8, <1>9

(* So every edit leaves drawings.                                          *)
LEMMA EditDraws ==
  ASSUME AllDrawn,
         \/ \E x \in StepIds :
              \/ \E k \in Kinds : AddStep(x, k) \/ AppendStep(x, k)
              \/ \E y \in StepIds : Connect(x, y)
              \/ \E form \in Forms : UpdateNodeData(x, form)
              \/ MoveNode(x) \/ RemoveNode(x)
         \/ \E e \in canvas.edges : RemoveEdge(e)
         \/ EndGesture \/ Undo \/ Redo \/ Discard
  PROVE  AllDrawn'
<1> USE DEF runVars, netVars
<1>1. \A g \in Drawings : DrawnFor(g.home) \subseteq Drawings
  BY DrawnForIsDrawn
<1>2. /\ canvas \in Drawings /\ past \in Seq(Drawings) /\ future \in Seq(Drawings)
      /\ \A p \in published : p.graph \in Drawings
  BY DEF AllDrawn
<1>3. /\ OnlyGraph /\ canvas' \in Drawings
      /\ past' \in Seq(Drawings) /\ future' \in Seq(Drawings)
  BY <1>1, <1>2, EditsStayWithin
<1> QED BY <1>3 DEF OnlyGraph, AllDrawn

(* What is saved is the canvas; what is loaded is a draft, what is         *)
(* published, or a new flow.                                               *)
LEMMA LoadDraws ==
  ASSUME AllDrawn,
         \/ Fire \/ Blur \/ Saved \/ SaveFailed
         \/ \E f \in Flows : OpenFlow(f) \/ CreateFlow(f) \/ FlowCreated(f)
                               \/ ArchiveFlow(f)
         \/ FlowArchived \/ ExitFlow \/ LoadFlows \/ PublishedArrives
  PROVE  AllDrawn'
<1> USE DEF graphVars, runVars, netVars
<1>1. CASE Fire \/ Blur \/ Saved \/ SaveFailed
  <2>1. OnlySave /\ drafts' \in [Flows -> SUBSET Drawings]
    BY <1>1 DEF Fire, Blur, Saved, SaveFailed, AllDrawn
  <2> QED BY <2>1 DEF OnlySave, AllDrawn
<1>2. ASSUME NEW g \in Drawings, Load(g)
      PROVE  /\ canvas' \in Drawings
             /\ past' \in Seq(Drawings) /\ future' \in Seq(Drawings)
  BY <1>2, EmptySeq DEF Load
<1>3. ASSUME NEW f \in Flows, OpenFlow(f) \/ FlowCreated(f) PROVE AllDrawn'
  <2>1. SetFlow(f) /\ UNCHANGED <<server, post, drafts>>
    BY <1>3 DEF OpenFlow, FlowCreated
  <2>2. /\ canvas' \in Drawings
        /\ past' \in Seq(Drawings) /\ future' \in Seq(Drawings)
    BY <1>2, <2>1 DEF SetFlow, AllDrawn
  <2>3. flowId' = f /\ f # None /\ published' = {}
    BY <2>1, EditorAssumption DEF SetFlow, EditorAssumption
  <2> QED BY <2>1, <2>2, <2>3 DEF AllDrawn
<1>4. ASSUME NEW f \in Flows, CreateFlow(f) PROVE AllDrawn'
  <2> DEFINE new == [Absent EXCEPT !.state = "live"]
  <2>1. new \in Versions
    BY DEF Absent, Versions
  <2>2. server' = [server EXCEPT ![f] = new]
    BY <1>4 DEF CreateFlow
  <2> HIDE DEF new
  <2> QED BY <1>4, <2>1, <2>2 DEF CreateFlow, AllDrawn
<1>5. ASSUME NEW f \in Flows, ArchiveFlow(f) PROVE AllDrawn'
  <2> DEFINE new == [server[f] EXCEPT !.state = "archived"]
  <2>1. new \in Versions
    BY DEF AllDrawn, Versions
  <2>2. server' = [server EXCEPT ![f] = new]
    BY <1>5 DEF ArchiveFlow
  <2> HIDE DEF new
  <2> QED BY <1>5, <2>1, <2>2 DEF ArchiveFlow, AllDrawn
<1>6. CASE FlowArchived \/ ExitFlow \/ LoadFlows
  BY <1>6 DEF FlowArchived, ExitFlow, LoadFlows, AllDrawn
<1>7. CASE PublishedArrives
  <2> DEFINE g == IF liveGraph(flowId) = {} THEN EmptyFlow(flowId)
                  ELSE CHOOSE h \in liveGraph(flowId) : TRUE
  <2>1. flowId \in Flows
    BY <1>7 DEF PublishedArrives, AllDrawn
  <2>2. g \in Drawings
    <3>1. liveGraph(flowId) \subseteq Drawings
      BY <2>1 DEF liveGraph, scopeOf, AllDrawn, Versions
    <3>2. EmptyFlow(flowId) \in Drawings
      BY <2>1, EmptyIsSound, DrawnForIsDrawn
    <3> QED BY <3>1, <3>2
  <2>3. /\ published' \subseteq published \cup {[version |-> server[flowId].version, graph |-> g]}
        /\ loading' = FALSE /\ (Load(g) \/ UNCHANGED graphVars)
        /\ UNCHANGED <<server, post, flowId, drafts>>
    BY <1>7 DEF PublishedArrives
  <2>4. server[flowId].version \in Nat
    BY <2>1 DEF AllDrawn, Versions
  <2> HIDE DEF g
  <2>5. /\ canvas' \in Drawings
        /\ past' \in Seq(Drawings) /\ future' \in Seq(Drawings)
    BY <1>2, <2>2, <2>3 DEF AllDrawn
  <2>6. published' \subseteq [version : Nat, graph : Drawings]
    BY <2>2, <2>3, <2>4 DEF AllDrawn
  <2> QED BY <2>3, <2>5, <2>6 DEF AllDrawn
<1> QED BY <1>1, <1>3, <1>4, <1>5, <1>6, <1>7

(* What is published was on the canvas, and so was what is taken for the   *)
(* live version; looking at runs changes no graph.                         *)
LEMMA PublishDraws ==
  ASSUME AllDrawn,
         \/ Publish \/ ServePublish \/ PublishAnswered
         \/ \E run \in BOOLEAN : SetMode(run)
         \/ RunsArrive \/ PickRun \/ RunPicked
  PROVE  AllDrawn'
<1> USE DEF graphVars, runVars, netVars
<1>1. CASE Publish
  <2> DEFINE p == [flow |-> scope, graph |-> canvas, answer |-> "open",
                   version |-> 0]
  <2>1. post' = {p} /\ flowId \in Flows
    BY <1>1 DEF Publish, AllDrawn
  <2>2. p \in Posts
    BY <2>1 DEF Posts, scope, AllDrawn
  <2> HIDE DEF p
  <2> QED BY <1>1, <2>1, <2>2 DEF Publish, AllDrawn
<1>2. CASE ServePublish
  <2>1. PICK p \in post :
          /\ IF scopeOf(p.flow) # {} /\ compiles(p.graph)
             THEN LET s == server[p.flow]
                      v == s.version + 1
                  IN  /\ server' = [server EXCEPT ![p.flow] =
                              [s EXCEPT !.version = v, !.graph = {p.graph}]]
                      /\ post' = {[p EXCEPT !.answer = "created", !.version = v]}
             ELSE server' = server /\ post' = {[p EXCEPT !.answer = "refused"]}
    BY <1>2 DEF ServePublish
  <2>2. p \in Posts /\ server[p.flow] \in Versions /\ server \in [Flows -> Versions]
    BY DEF AllDrawn, Posts
  <2>3. server' \in [Flows -> Versions] /\ post' \subseteq Posts
    <3>1. CASE scopeOf(p.flow) # {} /\ compiles(p.graph)
      <4> DEFINE v == server[p.flow].version + 1
                 new == [server[p.flow] EXCEPT !.version = v, !.graph = {p.graph}]
                 q == [p EXCEPT !.answer = "created", !.version = v]
      <4>1. server' = [server EXCEPT ![p.flow] = new] /\ post' = {q}
        BY <2>1, <3>1
      <4>2. v \in Nat
        BY <2>2 DEF Versions
      <4> HIDE DEF v
      <4>3. new \in Versions /\ q \in Posts
        BY <2>2, <4>2 DEF Versions, Posts
      <4> HIDE DEF new, q
      <4> QED BY <2>2, <4>1, <4>3
    <3>2. CASE ~(scopeOf(p.flow) # {} /\ compiles(p.graph))
      <4>1. [p EXCEPT !.answer = "refused"] \in Posts
        BY <2>2 DEF Posts
      <4> QED BY <2>1, <2>2, <3>2, <4>1
    <3> QED BY <3>1, <3>2
  <2>4. UNCHANGED <<graphVars, loading, published, flowId, drafts>>
    BY <1>2 DEF ServePublish
  <2> QED BY <2>3, <2>4 DEF AllDrawn
<1>3. CASE PublishAnswered
  <2>1. PICK p \in post :
          /\ post' = {}
          /\ \/ published' = published
             \/ published' = {[version |-> p.version, graph |-> p.graph]}
    BY <1>3 DEF PublishAnswered
  <2>2. [version |-> p.version, graph |-> p.graph] \in [version : Nat, graph : Drawings]
    BY DEF AllDrawn, Posts
  <2>3. UNCHANGED <<graphVars, server, loading, flowId, drafts>>
    BY <1>3 DEF PublishAnswered
  <2> QED BY <2>1, <2>2, <2>3 DEF AllDrawn
<1>4. CASE (\E run \in BOOLEAN : SetMode(run)) \/ RunsArrive \/ PickRun \/ RunPicked
  BY <1>4 DEF SetMode, RunsArrive, PickRun, RunPicked, OnlyRuns, AllDrawn
<1> QED BY <1>1, <1>2, <1>3, <1>4

(* The graph on the canvas has no loop, no edge to a step that is gone and *)
(* no step with two inputs, whatever is edited, undone, restored, loaded   *)
(* or published, however many steps there are, and however little the user *)
(* waits: another flow's drawing is a drawing (EditorProps).               *)
THEOREM CanvasStaysSound ==
  Spec => []GraphsSound
<1>1. Init => AllDrawn
  BY EditorStarts DEF Init, EditorInv, Types, Stored, AllDrawn, Versions
<1>2. AllDrawn /\ [Next]_vars => AllDrawn'
  <2> SUFFICES ASSUME AllDrawn, [Next]_vars PROVE AllDrawn'
    OBVIOUS
  <2>1. CASE UNCHANGED vars
    BY <2>1 DEF vars, graphVars, runVars, netVars, AllDrawn
  <2> QED BY <2>1, EditDraws, LoadDraws, PublishDraws DEF Next
<1>3. AllDrawn => GraphsSound
  BY DEF AllDrawn, Drawings, GraphsSound
<1> QED BY <1>1, <1>2, <1>3, PTL DEF Spec

-----------------------------------------------------------------------------
(* What the editor promises                                                *)

(* The editor's variables stay within their types (EditorProps.TypeOK).    *)
THEOREM TypesHold ==
  ASSUME WaitsForAll
  PROVE  Spec => []TypeOK
<1>1. EditorInv => TypeOK
  <2> SUFFICES ASSUME EditorInv PROVE TypeOK
    OBVIOUS
  <2>1. Len(past) <= Limit + 1
    <3>1. Len(past) \in Nat /\ Len(future) \in Nat
      BY LenProperties DEF EditorInv, Types
    <3>2. Limit \in Nat
      BY EditorAssumption DEF EditorAssumption
    <3> QED BY <3>1, <3>2 DEF EditorInv, HistoryFits
  <2>2. Ids(canvas) \subseteq StepIds
    BY DrawnIsTidy, GraphIds DEF EditorInv, Types
  <2>3. auto.state \in SaveStates
    BY DEF EditorInv, Types, Autosaves
  <2> QED BY <2>1, <2>2, <2>3 DEF EditorInv, Types, Screens, AutosaveRight, TypeOK
<1> QED BY <1>1, EditorAlways, PTL

(* While the editor says saved, nothing is left to send (EditorProps).     *)
THEOREM SavedTellsTheTruth ==
  ASSUME WaitsForAll
  PROVE  Spec => []SavedIsReceived
<1>1. EditorInv => SavedIsReceived
  BY DEF EditorInv, AutosaveRight, SavedIsReceived, IsOpen
<1> QED BY <1>1, EditorAlways, PTL

-----------------------------------------------------------------------------
(* Where drafts go                                                         *)

(* Nothing makes a user wait.  There are three things that she, or a late  *)
(* answer, may do and that lead a draft astray.  A flow without a draft is *)
(* opened while a save is under way, which then writes the canvas of the   *)
(* flow before under its key.                                              *)
OpensOverSave ==
  \E f \in Flows : /\ OpenFlow(f) \/ FlowCreated(f)
                   /\ drafts[f] = {} /\ auto.sending # <<>>

(* The canvas is drawn on, published or taken back from History before the *)
(* flow that has been opened is there.                                     *)
DrawsTooEarly ==
  /\ flowId = None \/ loading
  /\ MayEdit \/ Redo \/ Publish \/ (viewing /\ ExitFlow) \/ SetMode(FALSE)

(* A publishing is answered when another flow is open, and what the editor *)
(* takes for live there is what a discard goes back to.                    *)
AnsweredElsewhere ==
  /\ PublishAnswered /\ published' # published
  /\ \E p \in post : flowId \notin {None, p.flow}

GoesAstray == OpensOverSave \/ DrawsTooEarly \/ AnsweredElsewhere

(* The canvas is that of the flow of flowRef while that flow is open and   *)
(* there, and as long as anything may still be saved; what is published is *)
(* the flow's it was published for.                                        *)
AllHome ==
  /\ AllDrawn /\ auto \in Autosaves /\ Homes
  /\ flowRef \in Flows \cup {None} /\ (flowId # None => flowId = flowRef)
  /\ \A f \in Flows : /\ drafts[f] \subseteq DrawnFor(f)
                      /\ server[f].graph \subseteq DrawnFor(f)
  /\ \A p \in post : p.graph \in DrawnFor(p.flow)
  /\ flowId # None => \A p \in published : p.graph \in DrawnFor(flowId)

(* Neither the timer nor a blur has anything to send that was not pending. *)
LEMMA DispatchAdds ==
  ASSUME NEW a \in Autosaves
  PROVE  \A b \in {timerFires(a), flush(a)} :
           /\ b \in Autosaves /\ b.pending = {}
           /\ b.sending # <<>> => a.sending # <<>> \/ a.pending # {}
<1> DEFINE disarmed == [a EXCEPT !.timer = FALSE]
<1>1. disarmed \in Autosaves /\ disarmed.pending = a.pending /\ disarmed.sending = a.sending
  BY DEF Autosaves
<1> HIDE DEF disarmed
<1>2. ASSUME NEW b \in BOOLEAN
      PROVE  LET c == send(disarmed, b) IN
             /\ c \in Autosaves /\ c.pending = {}
             /\ c.sending # <<>> => a.sending # <<>> \/ a.pending # {}
  <2>1. CASE a.pending = {}
    BY <1>1, <2>1 DEF send
  <2>2. CASE a.pending # {}
    BY <1>1, <2>2, SendFields
  <2> QED BY <2>1, <2>2
<1>3. ASSUME NEW c \in Autosaves, NEW busy \in BOOLEAN
      PROVE  LET d == [c EXCEPT !.inFlight = busy] IN
             d \in Autosaves /\ d.pending = c.pending /\ d.sending = c.sending
  BY DEF Autosaves
<1>4. timerFires(a) = [send(disarmed, FALSE) EXCEPT !.inFlight = TRUE]
  BY DEF timerFires, disarmed
<1>5. flush(a) = [send(disarmed, TRUE) EXCEPT !.inFlight =
                    send(disarmed, TRUE).sending # a.sending]
  BY DEF flush, disarmed
<1>6. ASSUME NEW b \in BOOLEAN, NEW busy \in BOOLEAN
      PROVE  LET d == [send(disarmed, b) EXCEPT !.inFlight = busy] IN
             /\ d \in Autosaves /\ d.pending = {}
             /\ d.sending # <<>> => a.sending # <<>> \/ a.pending # {}
  <2> DEFINE c == send(disarmed, b)
  <2>1. /\ c \in Autosaves /\ c.pending = {}
        /\ c.sending # <<>> => a.sending # <<>> \/ a.pending # {}
    BY <1>2
  <2> HIDE DEF c
  <2>2. LET d == [c EXCEPT !.inFlight = busy] IN
        d \in Autosaves /\ d.pending = c.pending /\ d.sending = c.sending
    BY <1>3, <2>1
  <2> QED BY <2>1, <2>2 DEF c
<1>7. /\ timerFires(a) \in Autosaves /\ timerFires(a).pending = {}
      /\ timerFires(a).sending # <<>> => a.sending # <<>> \/ a.pending # {}
  BY <1>4, <1>6
<1>8. /\ flush(a) \in Autosaves /\ flush(a).pending = {}
      /\ flush(a).sending # <<>> => a.sending # <<>> \/ a.pending # {}
  <2> DEFINE busy == send(disarmed, TRUE).sending # a.sending
  <2>1. busy \in BOOLEAN /\ flush(a) = [send(disarmed, TRUE) EXCEPT !.inFlight = busy]
    BY <1>5
  <2> HIDE DEF busy
  <2> QED BY <1>6, <2>1
<1> QED BY <1>7, <1>8

(* However many saves are under way, the answer to the first leaves an     *)
(* autosave.                                                               *)
LEMMA AnswersFit ==
  ASSUME NEW a \in Autosaves, a.sending # <<>>
  PROVE  saveResolves(a) \in Autosaves /\ saveFails(a) \in Autosaves
<1> DEFINE first == Head(a.sending)
           rest == Tail(a.sending)
<1>1. first \in Sends /\ rest \in Seq(Sends)
  <2>1. a.sending \in Seq(Sends)
    BY DEF Autosaves
  <2> QED BY <2>1, HeadTailProperties
<1>2. first.target \in Drawings /\ first.flush \in BOOLEAN
  BY <1>1 DEF Sends
<1> DEFINE state == IF a.pending = {} THEN "saved" ELSE "unsaved"
           busy == a.inFlight /\ ~first.flush
           left == IF a.pending = {} THEN {first.target} ELSE a.pending
<1>3. saveResolves(a) = [a EXCEPT !.sending = rest, !.acknowledged = first.target,
                           !.received = first.target, !.state = state,
                           !.inFlight = busy]
  BY DEF saveResolves
<1>4. saveFails(a) = [a EXCEPT !.sending = rest, !.state = "unsaved", !.pending = left]
  BY DEF saveFails
<1>5. state \in SaveStates /\ busy \in BOOLEAN /\ left \in SUBSET Drawings
      /\ "unsaved" \in SaveStates
  BY <1>2 DEF SaveStates, Autosaves
<1> HIDE DEF first, rest, state, busy, left
<1> QED BY <1>1, <1>2, <1>3, <1>4, <1>5 DEF Autosaves

(* A step that touches neither the canvas nor the autosave nor what is     *)
(* open, stored or published, keeps it.                                    *)
LEMMA RestStaysHome ==
  ASSUME AllHome, AllDrawn',
         UNCHANGED <<canvas, past, future, loading, published, post, server, flowId,
                     flowRef, drafts, auto>>
  PROVE  AllHome'
BY DEF AllHome, Homes, OwnCanvas, IsOpen

(* Drawing in its time, and going back to the builder, changes only the    *)
(* canvas of the flow that is open.                                        *)
LEMMA DrawingStaysHome ==
  ASSUME AllHome, AllDrawn', OwnCanvas',
         UNCHANGED <<netVars, flowRef, drafts>>, flowId' \in {flowId, None},
         auto' \in {auto, schedule(auto, canvas')}
  PROVE  AllHome'
<1>1. auto' \in Autosaves
  <2>1. auto \in Autosaves /\ canvas' \in Drawings
    BY DEF AllHome, AllDrawn
  <2> QED BY <2>1, ScheduleFields
<1> QED BY <1>1 DEF AllHome, Homes, netVars

(* Every edit keeps it, unless it is made too early.                       *)
LEMMA EditStaysHome ==
  ASSUME AllHome, ~DrawsTooEarly,
         \/ \E x \in StepIds :
              \/ \E k \in Kinds : AddStep(x, k) \/ AppendStep(x, k)
              \/ \E y \in StepIds : Connect(x, y)
              \/ \E form \in Forms : UpdateNodeData(x, form)
              \/ MoveNode(x) \/ RemoveNode(x)
         \/ \E e \in canvas.edges : RemoveEdge(e)
         \/ EndGesture \/ Undo \/ Redo \/ Discard
  PROVE  AllHome'
<1> USE DEF runVars, netVars
<1>1. AllDrawn'
  BY EditDraws DEF AllHome
<1>2. CASE EndGesture
  BY <1>1, <1>2, RestStaysHome DEF EndGesture, OnlyGraph
<1>3. CASE ~EndGesture
  <2>1. MayEdit \/ Redo
    BY <1>3 DEF AddStep, AppendStep, Connect, UpdateNodeData, MoveNode, RemoveNode,
                RemoveEdge, Undo, Discard, Building
  <2>2. flowId # None /\ ~loading /\ OwnCanvas /\ flowId = flowRef
    BY <2>1 DEF DrawsTooEarly, AllHome, Homes, IsOpen
  <2> DEFINE X == DrawnFor(flowRef)
  <2>3. X \in SUBSET Drawings /\ \A g \in X : DrawnFor(g.home) \subseteq X
    BY DEF DrawnFor
  <2>4. \A p \in published : p.graph \in X
    BY <2>2 DEF AllHome
  <2>5. canvas \in X /\ past \in Seq(X) /\ future \in Seq(X)
    BY <2>2 DEF OwnCanvas
  <2> HIDE DEF X
  <2>6. /\ OnlyGraph
        /\ canvas' \in X /\ past' \in Seq(X) /\ future' \in Seq(X)
        /\ auto' \in {auto, schedule(auto, canvas')}
    BY <2>3, <2>4, <2>5, EditsStayWithin
  <2>7. OwnCanvas'
    BY <2>6 DEF OnlyGraph, OwnCanvas, X
  <2> QED BY <1>1, <2>6, <2>7, DrawingStaysHome DEF OnlyGraph
<1> QED BY <1>2, <1>3

(* A flow that is opened brings its own draft; if it has none, nothing is  *)
(* left to be saved until it is there.                                     *)
LEMMA OpeningStaysHome ==
  ASSUME AllHome, ~OpensOverSave, NEW f \in Flows, OpenFlow(f) \/ FlowCreated(f)
  PROVE  AllHome'
<1>1. SetFlow(f) /\ UNCHANGED <<server, post, drafts>> /\ AllDrawn'
  BY LoadDraws DEF OpenFlow, FlowCreated, AllHome
<1>2. flowId' = f /\ flowRef' = f /\ published' = {} /\ loading' = TRUE /\ f # None
  BY <1>1, EditorAssumption DEF SetFlow, EditorAssumption
<1>3. auto' \in Autosaves /\ Homes'
  <2>1. CASE drafts[f] = {}
    <3>1. auto' = cancel(auto) /\ auto.sending = <<>> /\ auto \in Autosaves
      BY <1>1, <2>1 DEF SetFlow, OpensOverSave, AllHome
    <3>2. auto' \in Autosaves /\ auto'.pending = {} /\ auto'.sending = <<>>
      BY <3>1 DEF cancel, Autosaves, SaveStates
    <3>3. ~IsOpen'
      BY <1>1, <1>2, <2>1 DEF IsOpen
    <3> QED BY <3>2, <3>3 DEF Homes
  <2>2. CASE drafts[f] # {}
    <3>1. PICK g \in drafts[f] : Load(g) /\ auto' = Scheduled(reset(cancel(auto), g), g)
      BY <1>1, <2>2 DEF SetFlow
    <3>2. g \in DrawnFor(f) /\ g \in Drawings /\ auto \in Autosaves
      BY DrawnForIsDrawn DEF AllHome
    <3>3. auto' \in Autosaves
      <4>1. reset(cancel(auto), g) \in Autosaves
        BY <3>2, LoadFields
      <4> QED BY <3>1, <3>2, <4>1, ScheduleFields DEF Scheduled
    <3>4. OwnCanvas'
      BY <1>2, <3>1, <3>2, EmptySeq DEF Load, OwnCanvas
    <3> QED BY <3>3, <3>4 DEF Homes
  <2> QED BY <2>1, <2>2
<1> QED BY <1>1, <1>2, <1>3 DEF AllHome

(* What the server answers for the flow that is open is that flow's.       *)
LEMMA ArrivalStaysHome ==
  ASSUME AllHome, PublishedArrives
  PROVE  AllHome'
<1> USE DEF graphVars, runVars
<1> DEFINE g == IF liveGraph(flowId) = {} THEN EmptyFlow(flowId)
                ELSE CHOOSE h \in liveGraph(flowId) : TRUE
<1>1. AllDrawn' /\ flowId \in Flows /\ flowId = flowRef /\ flowId # None
  BY LoadDraws, EditorAssumption
     DEF PublishedArrives, AllHome, AllDrawn, EditorAssumption
<1>2. g \in DrawnFor(flowId) /\ g \in Drawings
  <2>1. liveGraph(flowId) \subseteq DrawnFor(flowId)
    BY <1>1 DEF liveGraph, scopeOf, AllHome
  <2>2. EmptyFlow(flowId) \in DrawnFor(flowId)
    BY <1>1, EmptyIsSound
  <2> QED BY <2>1, <2>2, DrawnForIsDrawn
<1>3. /\ published' \in {published, {[version |-> server[flowId].version, graph |-> g]}}
      /\ IF drafts[flowId] = {}
         THEN Load(g) /\ auto' = Scheduled(reset(auto, g), g)
         ELSE UNCHANGED <<graphVars, auto>>
      /\ UNCHANGED <<server, post, flowId, flowRef, drafts>>
  BY DEF PublishedArrives
<1> HIDE DEF g
<1>4. auto' \in Autosaves /\ OwnCanvas'
  <2>1. CASE drafts[flowId] = {}
    <3>1. auto \in Autosaves
      BY DEF AllHome
    <3>2. auto' \in Autosaves
      <4>1. reset(auto, g) \in Autosaves
        BY <1>2, <3>1, LoadFields
      <4> QED BY <1>2, <1>3, <2>1, <4>1, ScheduleFields DEF Scheduled
    <3> QED BY <1>1, <1>2, <1>3, <2>1, <3>2, EmptySeq DEF Load, OwnCanvas
  <2>2. CASE drafts[flowId] # {}
    BY <1>1, <1>3, <2>2 DEF AllHome, Homes, IsOpen, OwnCanvas
  <2> QED BY <2>1, <2>2
<1> QED BY <1>1, <1>2, <1>3, <1>4 DEF AllHome, Homes

(* Saving, opening and leaving keep it, unless a flow is opened over a     *)
(* save or the canvas scheduled too early.                                 *)
LEMMA LoadStaysHome ==
  ASSUME AllHome, ~OpensOverSave, ~DrawsTooEarly,
         \/ Fire \/ Blur \/ Saved \/ SaveFailed
         \/ \E f \in Flows : OpenFlow(f) \/ CreateFlow(f) \/ FlowCreated(f)
                               \/ ArchiveFlow(f)
         \/ FlowArchived \/ ExitFlow \/ LoadFlows \/ PublishedArrives
  PROVE  AllHome'
<1> USE DEF graphVars, runVars, netVars
<1>0. AllDrawn' /\ auto \in Autosaves
  BY LoadDraws DEF AllHome
<1>1. ASSUME Fire \/ Blur PROVE AllHome'
  <2>1. /\ auto' \in Autosaves
        /\ auto'.sending # <<>> \/ auto'.pending # {}
             => auto.sending # <<>> \/ auto.pending # {}
    BY <1>0, <1>1, DispatchAdds DEF Fire, Blur
  <2>2. OnlySave /\ UNCHANGED drafts
    BY <1>1 DEF Fire, Blur
  <2> QED BY <1>0, <2>1, <2>2 DEF OnlySave, AllHome, Homes, OwnCanvas, IsOpen
<1>2. ASSUME Saved \/ SaveFailed PROVE AllHome'
  <2>1. auto' \in Autosaves /\ OwnCanvas
    BY <1>0, <1>2, AnswersFit DEF Saved, SaveFailed, AllHome, Homes
  <2>2. OnlySave /\ \A f \in Flows : drafts'[f] \subseteq DrawnFor(f)
    BY <1>2, <2>1 DEF Saved, SaveFailed, AllHome, AllDrawn, OwnCanvas
  <2> QED BY <1>0, <2>1, <2>2 DEF OnlySave, AllHome, Homes, OwnCanvas
<1>3. ASSUME NEW f \in Flows, CreateFlow(f) PROVE AllHome'
  <2>1. \A h \in Flows : server'[h].graph \subseteq DrawnFor(h)
    BY <1>3 DEF CreateFlow, Absent, AllHome, AllDrawn
  <2> QED BY <1>0, <1>3, <2>1 DEF CreateFlow, AllHome, Homes, OwnCanvas, IsOpen
<1>4. ASSUME NEW f \in Flows, ArchiveFlow(f) PROVE AllHome'
  <2>1. \A h \in Flows : server'[h].graph \subseteq DrawnFor(h)
    BY <1>4 DEF ArchiveFlow, AllHome, AllDrawn, Versions
  <2> QED BY <1>0, <1>4, <2>1 DEF ArchiveFlow, AllHome, Homes, OwnCanvas, IsOpen
<1>5. CASE FlowArchived
  <2>1. \A f \in Flows : drafts'[f] \subseteq DrawnFor(f)
    BY <1>5 DEF FlowArchived, AllHome, AllDrawn
  <2> QED BY <1>0, <1>5, <2>1 DEF FlowArchived, AllHome, Homes, OwnCanvas, IsOpen
<1>6. CASE LoadFlows
  BY <1>0, <1>6 DEF LoadFlows, AllHome, Homes, OwnCanvas, IsOpen
<1>7. CASE ExitFlow
  <2>1. CASE viewing
    <3>1. ~loading /\ OwnCanvas
      BY <1>7, <2>1 DEF ExitFlow, DrawsTooEarly, AllHome, Homes, IsOpen
    <3>2. auto' \in Autosaves
      BY <1>0, <1>7, <2>1, ScheduleFields DEF ExitFlow, AllHome, AllDrawn
    <3> QED BY <1>0, <1>7, <3>1, <3>2 DEF ExitFlow, AllHome, Homes, OwnCanvas
  <2>2. CASE ~viewing
    BY <1>0, <1>7, <2>2 DEF ExitFlow, AllHome, Homes, OwnCanvas, IsOpen
  <2> QED BY <2>1, <2>2
<1> QED BY <1>1, <1>2, <1>3, <1>4, <1>5, <1>6, <1>7, OpeningStaysHome, ArrivalStaysHome

(* Publishing and looking at runs keep it, unless it is too early or the   *)
(* answer comes when another flow is open.                                 *)
LEMMA PublishStaysHome ==
  ASSUME AllHome, ~DrawsTooEarly, ~AnsweredElsewhere,
         \/ Publish \/ ServePublish \/ PublishAnswered
         \/ \E run \in BOOLEAN : SetMode(run)
         \/ RunsArrive \/ PickRun \/ RunPicked
  PROVE  AllHome'
<1> USE DEF graphVars, runVars, netVars
<1>0. AllDrawn'
  BY PublishDraws DEF AllHome
<1>1. CASE Publish
  <2>1. ~loading /\ flowId # None
    BY <1>1 DEF Publish, DrawsTooEarly
  <2>2. canvas \in DrawnFor(flowId)
    BY <2>1 DEF AllHome, Homes, IsOpen, OwnCanvas
  <2>3. \A p \in post' : p.graph \in DrawnFor(p.flow)
    BY <1>1, <2>2 DEF Publish, scope
  <2> QED BY <1>0, <1>1, <2>3 DEF Publish, AllHome, Homes, OwnCanvas, IsOpen
<1>2. CASE ServePublish
  <2>1. PICK p \in post :
          /\ IF scopeOf(p.flow) # {} /\ compiles(p.graph)
             THEN LET s == server[p.flow]
                      v == s.version + 1
                  IN  /\ server' = [server EXCEPT ![p.flow] =
                              [s EXCEPT !.version = v, !.graph = {p.graph}]]
                      /\ post' = {[p EXCEPT !.answer = "created", !.version = v]}
             ELSE server' = server /\ post' = {[p EXCEPT !.answer = "refused"]}
    BY <1>2 DEF ServePublish
  <2>2. p \in Posts /\ server \in [Flows -> Versions] /\ p.graph \in DrawnFor(p.flow)
    BY DEF AllHome, AllDrawn
  <2>3. \A q \in post' : q.graph = p.graph /\ q.flow = p.flow
    <3>1. CASE scopeOf(p.flow) # {} /\ compiles(p.graph)
      <4> DEFINE v == server[p.flow].version + 1
                 q == [p EXCEPT !.answer = "created", !.version = v]
      <4>1. post' = {q}
        BY <2>1, <3>1
      <4> HIDE DEF v
      <4>2. q.graph = p.graph /\ q.flow = p.flow
        BY <2>2 DEF Posts
      <4> QED BY <4>1, <4>2
    <3>2. CASE ~(scopeOf(p.flow) # {} /\ compiles(p.graph))
      BY <2>1, <2>2, <3>2 DEF Posts
    <3> QED BY <3>1, <3>2
  <2>4. \A f \in Flows : server'[f].graph \subseteq DrawnFor(f)
    <3>1. CASE scopeOf(p.flow) # {} /\ compiles(p.graph)
      <4> DEFINE v == server[p.flow].version + 1
                 new == [server[p.flow] EXCEPT !.version = v, !.graph = {p.graph}]
      <4>1. server' = [server EXCEPT ![p.flow] = new]
        BY <2>1, <3>1
      <4>2. new.graph = {p.graph}
        BY <2>2 DEF Versions, Posts
      <4> HIDE DEF new
      <4> QED BY <2>2, <4>1, <4>2 DEF AllHome
    <3>2. CASE ~(scopeOf(p.flow) # {} /\ compiles(p.graph))
      BY <2>1, <3>2 DEF AllHome
    <3> QED BY <3>1, <3>2
  <2>5. UNCHANGED <<graphVars, loading, published, flowId, flowRef, drafts, auto>>
    BY <1>2 DEF ServePublish
  <2> QED BY <1>0, <2>2, <2>3, <2>4, <2>5 DEF AllHome, Homes, OwnCanvas, IsOpen
<1>3. CASE PublishAnswered
  <2>1. PICK p \in post :
          /\ post' = {}
          /\ \/ published' = published
             \/ published' = {[version |-> p.version, graph |-> p.graph]}
    BY <1>3 DEF PublishAnswered
  <2>2. p.graph \in DrawnFor(p.flow)
    BY DEF AllHome
  <2>3. flowId # None => \A q \in published' : q.graph \in DrawnFor(flowId)
    BY <1>3, <2>1, <2>2 DEF AnsweredElsewhere, AllHome
  <2>4. UNCHANGED <<graphVars, server, loading, flowId, flowRef, drafts, auto>>
    BY <1>3 DEF PublishAnswered
  <2> QED BY <1>0, <2>1, <2>3, <2>4 DEF AllHome, Homes, OwnCanvas, IsOpen
<1>4. ASSUME NEW run \in BOOLEAN, SetMode(run) PROVE AllHome'
  <2>1. CASE run
    BY <1>0, <1>4, <2>1, RestStaysHome DEF SetMode, OnlyRuns
  <2>2. CASE ~run
    <3>1. OwnCanvas
      BY <1>4, <2>2 DEF SetMode, DrawsTooEarly, AllHome, Homes, IsOpen
    <3> QED BY <1>0, <1>4, <2>2, <3>1, DrawingStaysHome DEF SetMode, OnlyRuns, OwnCanvas
  <2> QED BY <2>1, <2>2
<1>5. CASE RunsArrive \/ PickRun \/ RunPicked
  BY <1>0, <1>5, RestStaysHome DEF RunsArrive, PickRun, RunPicked, OnlyRuns
<1> QED BY <1>1, <1>2, <1>3, <1>4, <1>5

(* The draft under a flow's key was drawn for that flow, whether or not    *)
(* the user waits for anything, as long as no step is one of the three     *)
(* that lead astray (EditorProps).                                         *)
THEOREM DraftsAreHome ==
  Spec /\ [][~GoesAstray]_vars => []DraftsStayHome
<1>1. Init => AllHome
  BY EditorStarts
     DEF Init, EditorInv, Types, Stored, Homes, AllDrawn, Versions, AllHome
<1>2. AllHome /\ [Next]_vars /\ [~GoesAstray]_vars => AllHome'
  <2> SUFFICES ASSUME AllHome, [Next]_vars, [~GoesAstray]_vars PROVE AllHome'
    OBVIOUS
  <2>1. CASE UNCHANGED vars
    BY <2>1 DEF vars, graphVars, runVars, netVars, AllHome, AllDrawn, Homes, OwnCanvas, IsOpen
  <2>2. CASE Next /\ ~GoesAstray
    BY <2>2, EditStaysHome, LoadStaysHome, PublishStaysHome DEF Next, GoesAstray
  <2> QED BY <2>1, <2>2
<1>3. AllHome => DraftsStayHome
  BY DEF AllHome, DrawnFor, DraftsStayHome
<1> QED BY <1>1, <1>2, <1>3, PTL DEF Spec
=============================================================================
