----------------------------- MODULE FlowGraphs -----------------------------
(***************************************************************************)
(* A flow as data (packages/automa-flow-canvas/src/core): what may be      *)
(* connected, what may be published, and what changed between two graphs.  *)
(* A graph is a function from step ids to steps and a set of edges; the    *)
(* order of the two arrays is dropped, and with it the edge ids, which are *)
(* made of source, target and handle.  Every target handle is the only     *)
(* one its step has.  A step is [kind, at, fields, reads]: where it sits,  *)
(* whether every field its schema requires is set, and the steps its       *)
(* fields refer to.                                                        *)
(***************************************************************************)
EXTENDS Integers, FiniteSets

NoHandle == "none"

Edge(source, target, handle) ==
  [source |-> source, target |-> target, handle |-> handle]

Ids(g) == DOMAIN g.nodes
outgoing(g) ==
  [x \in Ids(g) |-> {e.target : e \in {d \in g.edges : d.source = x}}]
incoming(g) ==
  [x \in Ids(g) |-> {e.source : e \in {d \in g.edges : d.target = x}}]

(* everything `start` leads to by one adjacency; an id that is no step     *)
(* leads nowhere                                                           *)
walk(adjacency, start) ==
  LET next(from) == UNION {adjacency[x] : x \in from \cap DOMAIN adjacency}
      seen[n \in Nat] == IF n = 0 THEN next({start})
                         ELSE LET S == seen[n - 1] IN S \cup next(S)
  IN  seen[Cardinality(DOMAIN adjacency)]

descendants(g, start) == walk(outgoing(g), start)
ancestors(g, start) == walk(incoming(g), start)

-----------------------------------------------------------------------------
(* Editing: a connection is refused while it is being dragged              *)

(* Slip: the loop is looked for from the wrong end                         *)
canConnectSlip(g, e) ==
  /\ e.source # e.target
  /\ {e.source, e.target} \subseteq Ids(g)
  /\ e.target \notin descendants(g, e.source)
  /\ e \notin g.edges
  /\ \A d \in g.edges : d.target # e.target

canConnect(g, e) ==
  /\ e.source # e.target
  /\ {e.source, e.target} \subseteq Ids(g)
  /\ e.source \notin descendants(g, e.target)
  /\ e \notin g.edges
  /\ \A d \in g.edges : d.target # e.target

roots(g) == {x \in Ids(g) : \A e \in g.edges : e.target # x}

(* the roots that reach most; the code takes the first of them             *)
entryPoints(g) ==
  LET reach(x) == Cardinality(descendants(g, x))
  IN  {x \in roots(g) : \A y \in roots(g) : reach(y) <= reach(x)}

orphans(g, entry) == Ids(g) \ ({entry} \cup descendants(g, entry))

(* the end of a chain that starts at the entry point and never forks       *)
chainTails(g, entry) ==
  LET chain == {entry} \cup descendants(g, entry)
      leaving(x) == {e \in g.edges : e.source = x}
  IN  {x \in chain : /\ chain \subseteq Ids(g)
                     /\ leaving(x) = {}
                     /\ \A y \in chain : Cardinality(leaving(y)) <= 1}

danglingEdges(g) ==
  {e \in g.edges : ~({e.source, e.target} \subseteq Ids(g))}

(* Kahn's algorithm gets through the graph: no loop, and no edge from a    *)
(* step that is gone, whose target would wait for it forever               *)
topologicallyOrdered(g) ==
  /\ \A x \in Ids(g) : x \notin descendants(g, x)
  /\ \A e \in g.edges : e.target \in Ids(g) => e.source \in Ids(g)

-----------------------------------------------------------------------------
(* Publishing: what the editor refuses                                     *)

Issue(severity, code, x) == [severity |-> severity, code |-> code, step |-> x]
Whole == "flow"

(* the steps whose outputs its settings refer to, at whatever depth        *)
collectReferences(node) == node.reads

stepIssues(g, x) ==
  LET reads == collectReferences(g.nodes[x]) IN
  {Issue("error", c, x) :
     c \in {d \in {"missing_required"} :
                     g.nodes[x].fields = "unset"}
             \cup {d \in {"self_reference"} : x \in reads}
             \cup {d \in {"unknown_reference"} :
                     ~(reads \subseteq Ids(g))}
             \cup {d \in {"non_ancestor_reference"} :
                     ~((reads \cap Ids(g)) \ {x} \subseteq ancestors(g, x))}}

structureIssues(g) ==
  {Issue("error", "no_trigger", Whole) : r \in {1} \ {Cardinality(roots(g))}}
    \cup UNION {{Issue("warning", "orphan", x) : x \in orphans(g, y)} :
                  y \in entryPoints(g)}

(* a loop stops the validation: ancestry says nothing there                *)
validate(g) ==
  IF Ids(g) = {} THEN {Issue("error", "empty_flow", Whole)}
  ELSE {Issue("error", "dangling_edge", e.target) : e \in danglingEdges(g)}
         \cup IF ~topologicallyOrdered(g) THEN {Issue("error", "cycle", Whole)}
              ELSE structureIssues(g)
                     \cup UNION {stepIssues(g, x) : x \in Ids(g)}

canPublish(issues) == \A i \in issues : i.severity # "error"

-----------------------------------------------------------------------------
(* What changed, as operations on ids; order does not count, layout does   *)

diffGraph(before, after) ==
  {[op |-> "add", id |-> x, value |-> after.nodes[x]] :
     x \in Ids(after) \ Ids(before)}
  \cup {[op |-> "replace", id |-> x, value |-> after.nodes[x]] :
          x \in {y \in Ids(after) \cap Ids(before) :
                   after.nodes[y] # before.nodes[y]}}
  \cup {[op |-> "remove", id |-> x] : x \in Ids(before) \ Ids(after)}
  \cup {[op |-> "join", edge |-> e] : e \in after.edges \ before.edges}
  \cup {[op |-> "cut", edge |-> e] : e \in before.edges \ after.edges}

Ops(ops, kind) == {o \in ops : o.op = kind}

applyPatch(g, ops) ==
  LET set == Ops(ops, "add") \cup Ops(ops, "replace")
      kept == (Ids(g) \ {o.id : o \in Ops(ops, "remove")})
                \cup {o.id : o \in set}
  IN  [nodes |-> [x \in kept |->
                    IF \E o \in set : o.id = x
                    THEN (CHOOSE o \in set : o.id = x).value
                    ELSE g.nodes[x]],
       edges |-> (g.edges \ {o.edge : o \in Ops(ops, "cut")})
                   \cup {o.edge : o \in Ops(ops, "join")}]
=============================================================================
