------------------------------- MODULE Editor -------------------------------
(***************************************************************************)
(* One browser tab with the flow editor (packages/automa-flow-canvas), and *)
(* as much of the server as it talks to: which flows there are and what is *)
(* published of each.  A flow is opened from the overview; its draft is in *)
(* the browser's storage under its own key, its published graph comes from *)
(* the server.  One canvas, one undo history and one autosave serve every  *)
(* flow that is opened.                                                    *)
(*                                                                         *)
(* Every graph carries `home`, which the code has not: the flow the graph  *)
(* was drawn for.  Layout is one of two places a step can be.              *)
(***************************************************************************)
EXTENDS Autosave, FlowCompile

CONSTANTS
  Flows,        \* the flows of the tenant
  Default,      \* the one the server starts with, which is never archived
  StepIds,      \* ids for steps, the trigger's first among them
  Trigger,      \* the id every new flow gives its trigger
  Kinds,        \* the kinds of the library
  Forms,        \* what a setup dialog may commit: [fields, reads]
  Limit,        \* how many undo steps are kept (100)
  Left,         \* the draft of Default from an earlier day, if there is one
  Waits,        \* what the user lets end: a load, a save, an answer
  MaxEdits, MaxOpens, MaxFails, MaxVersions,
  MaxMoves      \* how many edits, openings and failed saves in all

None == "none"

EditorAssumption ==
  /\ Default \in Flows
  /\ Trigger \in StepIds
  /\ None \notin Flows \cup StepIds
  /\ Limit \in Nat \ {0}
  /\ Waits \subseteq {"load", "save", "answer"}
  /\ {MaxEdits, MaxOpens, MaxFails, MaxVersions, MaxMoves} \subseteq Nat
ASSUME EditorAssumption

VARIABLES
  server,     \* flow -> [state, version, graph]
  flowList,   \* the flows the overview offers
  flowId,     \* the flow that is open
  flowRef,    \* the flow the autosave writes for
  canvas, past, future,
  coalescing, \* the top undo entry may absorb a further move
  viewing,    \* History rather than Builder
  loading,    \* the published graph has been asked for
  published,  \* what the editor takes for the live version
  post,       \* the publish request, with its answer once there is one
  archiving,  \* the flow whose archiving has been asked for
  drafts,     \* flow -> the draft in storage, as a set of at most one graph
  auto,       \* the autosave
  listing,    \* the runs of the flow have been asked for
  picking,    \* a run of this flow has been asked for
  shown,      \* the flow whose run is shown; None is the sample run
  live,       \* the flow that is open has a run to show
  edits, opens, fails

graphVars == <<canvas, past, future, coalescing>>
runVars == <<listing, picking, shown, live>>
netVars == <<server, flowList, loading, published, post, archiving>>
vars == <<graphVars, runVars, netVars, flowId, flowRef, viewing, drafts, auto,
          edits, opens, fails>>

NewStep(kind, at) ==
  [kind |-> kind, at |-> at, reads |-> {},
   fields |-> IF kind = "trigger" THEN "set" ELSE "unset"]
EmptyFlow(f) == [home |-> f, edges |-> {},
                 nodes |-> [x \in {Trigger} |-> NewStep("trigger", 0)]]
With(g, nodes, edges) == [g EXCEPT !.nodes = nodes, !.edges = edges]

Live(f) == [state |-> "live", version |-> 1, graph |-> {EmptyFlow(f)}]
Absent == [state |-> "absent", version |-> 0, graph |-> {}]

(* A tab that has just shown its list of flows; the sample on its canvas   *)
(* has been saved under the key of no flow.                                *)
Init ==
  /\ server = [f \in Flows |-> IF f = Default THEN Live(f) ELSE Absent]
  /\ flowList = {Default} /\ flowId = None /\ flowRef = None
  /\ canvas = EmptyFlow(None)
  /\ past = <<>> /\ future = <<>> /\ coalescing = FALSE
  /\ viewing = FALSE /\ loading = FALSE /\ published = {} /\ post = {}
  /\ archiving = None
  /\ drafts = [f \in Flows |-> IF f = Default THEN Left ELSE {}]
  /\ auto = [reset(created, canvas) EXCEPT !.inFlight = TRUE]
  /\ listing = FALSE /\ picking = None /\ shown = None /\ live = FALSE
  /\ edits = 0 /\ opens = 0 /\ fails = 0

-----------------------------------------------------------------------------
(* The graph store and its history                                         *)

Latest(s) == IF Len(s) <= Limit THEN s ELSE Tail(s)

(* every change of the canvas is scheduled, unless a run is being viewed   *)
Scheduled(a, c) == IF viewing THEN a ELSE schedule(a, c)

(* a change the store records, and the autosave with it                    *)
Record(c, again) ==
  /\ canvas' = c
  /\ past' = Latest(Append(past, canvas)) /\ future' = <<>>
  /\ coalescing' = again
  /\ auto' = Scheduled(auto, c)

(* `replaceGraph` and then `clear`: a document that is loaded              *)
Load(g) ==
  /\ canvas' = g /\ past' = <<>> /\ future' = <<>> /\ coalescing' = FALSE

(* A user who waits touches the canvas only while the open flow is loaded  *)
(* and no save is under way; and leaves a flow only when, besides, no      *)
(* publishing and no run is being waited for.                              *)
Quiet == /\ "load" \in Waits => ~loading
         /\ "save" \in Waits => auto.sending = <<>>
Settled == Quiet /\ ("load" \in Waits => flowId # None)
MayLeave == Quiet /\ ("answer" \in Waits => post = {} /\ picking = None)

MayMove == edits + opens + fails < MaxMoves

MayEdit ==
  /\ edits < MaxEdits /\ MayMove /\ edits' = edits + 1
  /\ Settled
OnlyGraph == UNCHANGED <<runVars, netVars, flowId, flowRef, viewing, drafts,
                         opens, fails>>

Building == flowId # None /\ ~viewing /\ MayEdit /\ OnlyGraph

Fresh == StepIds \ Ids(canvas)
Added(x, kind, at) ==
  With(canvas, [y \in Ids(canvas) \cup {x} |->
                  IF y = x THEN NewStep(kind, at) ELSE canvas.nodes[y]],
       canvas.edges)

AddStep(x, kind) ==
  /\ Building /\ x \in Fresh
  /\ Record(Added(x, kind, 1), FALSE)

(* a step dropped on the end of the chain is joined to it: two entries     *)
AppendStep(x, kind) ==
  /\ Building /\ x \in Fresh
  /\ \E entry \in entryPoints(canvas) : \E tail \in chainTails(canvas, entry) :
       LET added == Added(x, kind, 0)
           e == Edge(tail, x, NoHandle)
           joined == With(added, added.nodes, added.edges \cup {e})
           kept == Latest(Append(past, canvas))
       IN  /\ canvas' = IF canConnect(added, e) THEN joined ELSE added
           /\ past' = IF canConnect(added, e) THEN Latest(Append(kept, added))
                      ELSE kept
           /\ future' = <<>> /\ coalescing' = FALSE
           /\ auto' = schedule(auto, canvas')

handles(x) == IF canvas.nodes[x].kind = "branch" THEN Arms ELSE {NoHandle}

Connect(source, target) ==
  /\ Building /\ {source, target} \subseteq Ids(canvas)
  /\ canvas.nodes[target].kind # "trigger"
  /\ \E h \in handles(source) : LET e == Edge(source, target, h) IN
       /\ canConnect(canvas, e)
       /\ Record(With(canvas, canvas.nodes, canvas.edges \cup {e}), FALSE)

(* every pointer move; those of one drag share an entry in the history     *)
MoveNode(x) ==
  /\ Building /\ x \in Ids(canvas)
  /\ LET c == With(canvas, [canvas.nodes EXCEPT ![x].at = 1 - @],
                   canvas.edges)
     IN  \/ coalescing /\ canvas' = c /\ auto' = schedule(auto, c)
            /\ UNCHANGED <<past, future, coalescing>>
         \/ Record(c, TRUE)

(* the pointer goes up, or the next record comes late                      *)
EndGesture ==
  /\ coalescing /\ coalescing' = FALSE
  /\ UNCHANGED <<canvas, past, future, auto, edits>> /\ OnlyGraph

UpdateNodeData(x, form) ==
  /\ Building /\ x \in Ids(canvas) /\ canvas.nodes[x].kind # "trigger"
  /\ LET n == [canvas.nodes[x] EXCEPT !.fields = form.fields,
                                      !.reads = form.reads]
     IN  Record(With(canvas, [canvas.nodes EXCEPT ![x] = n], canvas.edges),
                FALSE)

Without(g, x) == With(g, [y \in Ids(g) \ {x} |-> g.nodes[y]],
                      {e \in g.edges : x \notin {e.source, e.target}})

(* the key handlers are the window's and do not ask what is shown: while a *)
(* run is viewed its steps are selected, and deleted from the canvas       *)
RemoveNode(x) ==
  /\ flowId # None /\ MayEdit /\ OnlyGraph
  /\ x \in IF viewing THEN StepIds ELSE Ids(canvas)
  /\ Record(Without(canvas, x), FALSE)

RemoveEdge(e) ==
  /\ Building /\ e \in canvas.edges
  /\ Record(With(canvas, canvas.nodes, canvas.edges \ {e}), FALSE)

Undo ==
  /\ MayEdit /\ OnlyGraph /\ past # <<>>
  /\ canvas' = past[Len(past)] /\ past' = SubSeq(past, 1, Len(past) - 1)
  /\ future' = Append(future, canvas)
  /\ auto' = Scheduled(auto, canvas')
  /\ UNCHANGED coalescing

Redo ==
  /\ Settled /\ OnlyGraph /\ future # <<>>
  /\ canvas' = future[Len(future)]
  /\ future' = SubSeq(future, 1, Len(future) - 1)
  /\ past' = Append(past, canvas)
  /\ auto' = Scheduled(auto, canvas')
  /\ UNCHANGED <<coalescing, edits>>

diverged == \E p \in published : ~unchanged(p.graph, canvas)

(* back to what is live, as an edit that can be undone                     *)
Discard ==
  /\ Building /\ diverged /\ post = {}
  /\ \E p \in published : Record(p.graph, FALSE)

-----------------------------------------------------------------------------
(* The autosave's timer, and the storage                                   *)

OnlySave == UNCHANGED <<graphVars, runVars, netVars, flowId, flowRef, viewing,
                        edits, opens>>

Fire == auto.timer /\ auto' = timerFires(auto)
        /\ OnlySave /\ UNCHANGED <<drafts, fails>>

(* the window loses the focus or the tab is hidden                         *)
Blur == auto' = flush(auto) /\ OnlySave /\ UNCHANGED <<drafts, fails>>

(* what is written is the canvas of this moment, for the flow of this one  *)
Saved ==
  /\ auto.sending # <<>> /\ auto' = saveResolves(auto)
  /\ drafts' = IF flowRef \in Flows THEN [drafts EXCEPT ![flowRef] = {canvas}]
               ELSE drafts
  /\ OnlySave /\ UNCHANGED fails

(* the storage is full; MaxFails bounds how often                          *)
SaveFailed ==
  /\ auto.sending # <<>> /\ fails < MaxFails /\ MayMove
  /\ fails' = fails + 1
  /\ auto' = saveFails(auto)
  /\ OnlySave /\ UNCHANGED drafts

-----------------------------------------------------------------------------
(* Opening and leaving                                                     *)

(* the effects of a changed flowId, in their order                         *)
SetFlow(f) ==
  /\ flowId' = f
  /\ flowRef' = f /\ published' = {} /\ loading' = TRUE
  /\ listing' = TRUE /\ shown' = None /\ live' = FALSE
  /\ IF drafts[f] = {} THEN auto' = cancel(auto) /\ UNCHANGED graphVars
     ELSE \E g \in drafts[f] :
            Load(g) /\ auto' = Scheduled(reset(cancel(auto), g), g)

OpenFlow(f) ==
  /\ flowId = None /\ f \in flowList /\ MayLeave
  /\ opens < MaxOpens /\ MayMove /\ opens' = opens + 1
  /\ SetFlow(f)
  /\ UNCHANGED <<server, flowList, post, archiving, picking, viewing, drafts,
                 edits, fails>>

ExitFlow ==
  /\ flowId # None /\ MayLeave
  /\ flowId' = None /\ loading' = FALSE /\ listing' = FALSE
  /\ viewing' = FALSE
  /\ auto' = IF viewing THEN schedule(auto, canvas) ELSE auto
  /\ UNCHANGED <<graphVars, flowRef, published, shown, live>>
  /\ UNCHANGED <<server, flowList, post, archiving, picking, drafts, edits,
                 opens, fails>>

(* an archived flow is not listed any more                                 *)
list == {f \in Flows : server[f].state = "live"}

(* the answer to the listing of flows closes a flow that is gone           *)
LoadFlows ==
  /\ flowList' = list /\ flowList # list
  /\ IF flowId \in list \cup {None} THEN UNCHANGED <<flowId, loading, listing>>
     ELSE flowId' = None /\ loading' = FALSE /\ listing' = FALSE
  /\ UNCHANGED <<graphVars, server, published, post, archiving, picking, shown,
                 live, flowRef, viewing, drafts, auto, edits, opens, fails>>

(* the server makes the flow and its endpoint; a second request lists the  *)
(* flows, and its answer opens the new one whatever is open by then        *)
CreateFlow(f) ==
  /\ flowId = None /\ server[f].state = "absent"
  /\ server' = [server EXCEPT ![f] = [Absent EXCEPT !.state = "live"]]
  /\ UNCHANGED <<graphVars, runVars, flowList, loading, published, post,
                 archiving, flowId, flowRef, viewing, drafts, auto, edits,
                 opens, fails>>

FlowCreated(f) ==
  /\ server[f].state = "live" /\ f \notin flowList /\ MayLeave
  /\ opens < MaxOpens /\ MayMove /\ opens' = opens + 1
  /\ flowList' = list
  /\ SetFlow(f)
  /\ UNCHANGED <<server, post, archiving, picking, viewing, drafts, edits,
                 fails>>

ArchiveFlow(f) ==
  /\ flowId = None /\ f \in flowList /\ f # Default /\ archiving = None
  /\ server[f].state = "live"
  /\ server' = [server EXCEPT ![f].state = "archived"]
  /\ archiving' = f
  /\ UNCHANGED <<graphVars, runVars, flowList, loading, published, post, flowId,
                 flowRef, viewing, drafts, auto, edits, opens, fails>>

(* the draft goes, and whatever is open is left                            *)
FlowArchived ==
  /\ archiving # None /\ archiving' = None /\ MayLeave
  /\ drafts' = [drafts EXCEPT ![archiving] = {}]
  /\ flowId' = None /\ loading' = FALSE /\ listing' = FALSE
  /\ UNCHANGED <<graphVars, server, flowList, published, post, picking, shown,
                 live, flowRef, viewing, auto, edits, opens, fails>>

(* An archived flow has no endpoint any more: the server does not know     *)
(* what a request is about that names it, and has nothing published.       *)
scopeOf(f) == {f} \cap list
liveGraph(f) == UNION {server[g].graph : g \in scopeOf(f)}

(* the answer may never come: the canvas stays what it was                 *)

PublishedArrives ==
  /\ loading /\ loading' = FALSE
  /\ LET g == IF liveGraph(flowId) = {} THEN EmptyFlow(flowId)
              ELSE CHOOSE h \in liveGraph(flowId) : TRUE
     IN  /\ published' = IF liveGraph(flowId) = {} THEN published
                         ELSE {[version |-> server[flowId].version, graph |-> g]}
         /\ IF drafts[flowId] = {}
            THEN Load(g) /\ auto' = Scheduled(reset(auto, g), g)
            ELSE UNCHANGED <<graphVars, auto>>
  /\ UNCHANGED <<runVars, server, flowList, post, archiving, flowId, flowRef,
                 viewing, drafts, edits, opens, fails>>

-----------------------------------------------------------------------------
(* Publishing                                                              *)

(* the flow a request is about; slip: the value of the first render, which *)
(* the server reads as its default                                         *)
scopeSlip == Default
scope == flowId

(* the button is there for a flow that is unpublished or has diverged      *)
Publish ==
  /\ flowId # None /\ ~viewing /\ post = {}
  /\ Settled
  /\ published = {} \/ diverged
  /\ server[flowId].version < MaxVersions
  /\ canPublish(validate(canvas))
  /\ post' = {[flow |-> scope, graph |-> canvas, answer |-> "open",
               version |-> 0]}
  /\ UNCHANGED <<graphVars, runVars, server, flowList, loading, published,
                 archiving, flowId, flowRef, viewing, drafts, auto, edits,
                 opens, fails>>

(* the server compiles before it stores, and stores a version of its own   *)
ServePublish ==
  \E p \in post :
    /\ p.answer = "open"
    /\ IF scopeOf(p.flow) # {} /\ compiles(p.graph)
       THEN LET s == server[p.flow]
                v == s.version + 1
            IN  /\ server' = [server EXCEPT ![p.flow] =
                                [s EXCEPT !.version = v, !.graph = {p.graph}]]
                /\ post' = {[p EXCEPT !.answer = "created", !.version = v]}
       ELSE server' = server /\ post' = {[p EXCEPT !.answer = "refused"]}
    /\ UNCHANGED <<graphVars, runVars, flowList, loading, published, archiving,
                   flowId, flowRef, viewing, drafts, auto, edits, opens, fails>>

(* the answer is taken for the flow that is open when it comes; it may not *)
(* come at all                                                             *)
PublishAnswered ==
  \E p \in post :
    /\ post' = {}
    /\ \/ published' = published
       \/ /\ p.answer = "created"
          /\ published' = {[version |-> p.version, graph |-> p.graph]}
    /\ UNCHANGED <<graphVars, runVars, server, flowList, loading, archiving,
                   flowId, flowRef, viewing, drafts, auto, edits, opens, fails>>

-----------------------------------------------------------------------------
(* Looking at runs                                                         *)

OnlyRuns == UNCHANGED <<netVars, flowId, flowRef, drafts, edits, opens, fails>>

SetMode(run) ==
  /\ flowId # None /\ viewing # run /\ viewing' = run
  /\ Settled
  /\ auto' = IF run THEN auto ELSE schedule(auto, canvas)
  /\ UNCHANGED <<graphVars, runVars>> /\ OnlyRuns

(* the flows whose runs may be there to be listed                          *)
latest(f) == {g \in scopeOf(f) : server[g].version > 0}

(* The latest run of the flow and the listing of its runs are two          *)
(* requests; when only the listing has one, the sample is shown as if it   *)
(* were that run.                                                          *)
RunsArrive ==
  /\ listing /\ listing' = FALSE
  /\ \/ UNCHANGED <<shown, live>>
     \/ latest(flowId) # {} /\ live' = TRUE /\ shown' \in {shown, flowId}
  /\ UNCHANGED <<graphVars, picking, viewing, auto>> /\ OnlyRuns

(* another run in the history of the flow                                  *)
PickRun ==
  /\ viewing /\ live /\ picking = None
  /\ picking' = flowId
  /\ UNCHANGED <<graphVars, listing, shown, live, viewing, auto>> /\ OnlyRuns

(* the answer, whichever flow is open by then, if it is a run              *)
RunPicked ==
  /\ picking # None /\ picking' = None /\ shown' \in {shown, picking}
  /\ UNCHANGED <<graphVars, listing, live, viewing, auto>> /\ OnlyRuns

(* A server has answered, the one that listed the flows: what a step can   *)
(* be mapped from is the outputs of the run that is shown, if it is live.  *)
mappingOutputs == IF live THEN {shown} ELSE {}

-----------------------------------------------------------------------------
Next ==
  \/ \E x \in StepIds :
       \/ \E k \in Kinds : AddStep(x, k) \/ AppendStep(x, k)
       \/ \E y \in StepIds : Connect(x, y)
       \/ \E form \in Forms : UpdateNodeData(x, form)
       \/ MoveNode(x) \/ RemoveNode(x)
  \/ \E e \in canvas.edges : RemoveEdge(e)
  \/ EndGesture \/ Undo \/ Redo \/ Discard
  \/ Fire \/ Blur \/ Saved \/ SaveFailed
  \/ \E f \in Flows : OpenFlow(f) \/ CreateFlow(f) \/ FlowCreated(f)
                        \/ ArchiveFlow(f)
  \/ FlowArchived \/ ExitFlow \/ LoadFlows \/ PublishedArrives
  \/ Publish \/ ServePublish \/ PublishAnswered
  \/ \E run \in BOOLEAN : SetMode(run)
  \/ RunsArrive \/ PickRun \/ RunPicked

Spec == Init /\ [][Next]_vars
=============================================================================
