---------------------------- MODULE FlowCompile -----------------------------
(***************************************************************************)
(* From the graph that was drawn to the flow the engine runs               *)
(* (app/src/flow.ts): what the server refuses to publish, and the order,   *)
(* the arms and the idempotency of the steps it hands over.                *)
(***************************************************************************)
EXTENDS FlowGraphs, Sequences, FiniteSetsExt

Arms == {"yes", "no"}

leaving(g, x) == {e \in g.edges : e.source = x}

(* every requirement is checked where the walk from the entry comes, and a *)
(* step it never comes to is refused                                       *)
stepProblems(g, x) ==
  LET n == g.nodes[x]
      arm(h) == {e \in leaving(g, x) : e.handle = h}
  IN  {c \in {"forks"} : n.kind # "branch" /\ Cardinality(leaving(g, x)) > 1}
      \cup {c \in {"arms"} : n.kind = "branch"
              /\ \E h \in Arms : Cardinality(arm(h)) # 1}
      \cup {c \in {"field"} :
              \/ n.kind = "http" /\ n.fields = "unset"
              \/ n.kind \in {"branch", "email", "transform"}
                   /\ n.fields \in {"unset", "blank"}}

problems(g) ==
  IF Ids(g) = {} THEN {"empty"}
  ELSE IF danglingEdges(g) # {} THEN {"edge"}
  ELSE IF roots(g) = {} THEN {"no beginning"}
  ELSE LET entry == CHOOSE x \in roots(g) : TRUE
           reached == {entry} \cup descendants(g, entry)
       IN  {c \in {"unconnected"} : Cardinality(roots(g)) > 1}
           \cup {c \in {"no trigger"} : g.nodes[entry].kind # "trigger"}
           \cup {c \in {"loop"} : \E x \in reached : x \in descendants(g, x)}
           \cup {c \in {"unreachable"} : ~(Ids(g) \subseteq reached)}
           \cup UNION {stepProblems(g, x) : x \in reached}

compiles(g) == problems(g) = {}

(* a step that is being visited, and the places of its edges that are left *)
(* to follow                                                               *)
Frame(drawn, x) ==
  [step |-> x, left |-> {i \in DOMAIN drawn : drawn[i].source = x}]

(* Slip: a step is put behind what it leads to                             *)
visitSlip(w, drawn) ==
  LET top == Head(w.path)
      i == Min(top.left)
      y == drawn[i].target
      on == <<[top EXCEPT !.left = @ \ {i}]>> \o Tail(w.path)
  IN  IF top.left = {}
      THEN [w EXCEPT !.path = Tail(@), !.chain = Append(@, top.step)]
      ELSE IF y \in w.seen THEN [w EXCEPT !.path = on]
      ELSE [w EXCEPT !.seen = @ \cup {y}, !.path = <<Frame(drawn, y)>> \o on]

(* The depth-first walk; `drawn` lists the edges in the order of the array.*)
(* A step is put in front of all that it leads to when the walk leaves it. *)
visit(w, drawn) ==
  LET top == Head(w.path)
      i == Min(top.left)
      y == drawn[i].target
      on == <<[top EXCEPT !.left = @ \ {i}]>> \o Tail(w.path)
  IN  IF top.left = {}
      THEN [w EXCEPT !.path = Tail(@), !.chain = <<top.step>> \o @]
      ELSE IF y \in w.seen THEN [w EXCEPT !.path = on]
      ELSE [w EXCEPT !.seen = @ \cup {y}, !.path = <<Frame(drawn, y)>> \o on]

compiledChain(g, drawn) ==
  LET entry == CHOOSE x \in roots(g) : TRUE
      begin == [path |-> <<Frame(drawn, entry)>>, seen |-> {entry},
                chain |-> <<>>]
      walked[n \in Nat] ==
        IF n = 0 THEN begin
        ELSE LET w == walked[n - 1]
             IN  IF w.path = <<>> THEN w ELSE visit(w, drawn)
  IN  walked[2 * Cardinality(Ids(g)) + Len(drawn)].chain

(* edges keep their arm only if it is one the engine knows                 *)
compiledEdges(g) ==
  {[from |-> e.source, to |-> e.target,
    arm |-> IF e.handle \in Arms THEN e.handle ELSE NoHandle] : e \in g.edges}
=============================================================================
