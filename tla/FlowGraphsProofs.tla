-------------------------- MODULE FlowGraphsProofs --------------------------
(***************************************************************************)
(* What changed between two graphs says all that changed: whoever applies  *)
(* the patch to the graph before has the graph after, and no patch means   *)
(* no difference.  The autosave decides by it what there is to save, and   *)
(* the editor whether a draft has diverged from what is live.              *)
(*                                                                         *)
(* What a step leads to is the least closed set its edges lead into, so    *)
(* that a connection that canConnect lets pass closes no loop.  The walk   *)
(* is a recursion on the numbers: SetInduction and RecursionWorks stand in *)
(* for induction on predicates and for definitions by recursion.           *)
(*                                                                         *)
(* What the server compiles has one beginning, which leads to everything,  *)
(* and no loop; its chain is every step once, each before those it leads   *)
(* to.  Between two visits of the depth-first walk the steps are divided   *)
(* into those on the path, those in the chain and those not seen yet, and  *)
(* every edge of a step in the chain leads further back in it; the number  *)
(* of visits that are left falls to nothing within the bound of the walk.  *)
(***************************************************************************)
EXTENDS FlowCompile, FiniteSetTheorems, SequenceTheorems,
        WellFoundedInduction, TLAPS

(* A graph: a function from ids, and a set of edges.                       *)
IsGraph(g) == g.nodes = [x \in DOMAIN g.nodes |-> g.nodes[x]]

(* The five kinds of operation of a patch, each by its kind.               *)
LEMMA OpsOfPatch ==
  ASSUME NEW before, NEW after
  PROVE  LET ops == diffGraph(before, after) IN
         /\ Ops(ops, "add") = {[op |-> "add", id |-> x, value |-> after.nodes[x]] :
                                 x \in Ids(after) \ Ids(before)}
         /\ Ops(ops, "replace") =
              {[op |-> "replace", id |-> x, value |-> after.nodes[x]] :
                 x \in {y \in Ids(after) \cap Ids(before) :
                          after.nodes[y] # before.nodes[y]}}
         /\ Ops(ops, "remove") = {[op |-> "remove", id |-> x] :
                                    x \in Ids(before) \ Ids(after)}
         /\ Ops(ops, "join") = {[op |-> "join", edge |-> e] :
                                  e \in after.edges \ before.edges}
         /\ Ops(ops, "cut") = {[op |-> "cut", edge |-> e] :
                                 e \in before.edges \ after.edges}
<1> DEFINE ops == diffGraph(before, after)
<1>1. Ops(ops, "add") = {[op |-> "add", id |-> x, value |-> after.nodes[x]] :
                           x \in Ids(after) \ Ids(before)}
  BY DEF Ops, diffGraph
<1>2. Ops(ops, "replace") =
        {[op |-> "replace", id |-> x, value |-> after.nodes[x]] :
           x \in {y \in Ids(after) \cap Ids(before) :
                    after.nodes[y] # before.nodes[y]}}
  BY DEF Ops, diffGraph
<1>3. Ops(ops, "remove") = {[op |-> "remove", id |-> x] :
                              x \in Ids(before) \ Ids(after)}
  BY DEF Ops, diffGraph
<1>4. Ops(ops, "join") = {[op |-> "join", edge |-> e] :
                            e \in after.edges \ before.edges}
  BY DEF Ops, diffGraph
<1>5. Ops(ops, "cut") = {[op |-> "cut", edge |-> e] :
                           e \in before.edges \ after.edges}
  BY DEF Ops, diffGraph
<1> QED BY <1>1, <1>2, <1>3, <1>4, <1>5

(* A patch is faithful: applied to the graph it was made from, it gives    *)
(* the graph it was made for, steps, settings, layout and edges            *)
(* (diffGraph and applyPatch, core/patch.ts).                              *)
THEOREM PatchIsFaithful ==
  ASSUME NEW before, NEW after, IsGraph(after)
  PROVE  LET patched == applyPatch(before, diffGraph(before, after)) IN
         patched.nodes = after.nodes /\ patched.edges = after.edges
<1> DEFINE ops == diffGraph(before, after)
<1> DEFINE set == Ops(ops, "add") \cup Ops(ops, "replace")
<1> DEFINE kept == (Ids(before) \ {o.id : o \in Ops(ops, "remove")})
                     \cup {o.id : o \in set}
<1> DEFINE node(x) == IF \E o \in set : o.id = x
                      THEN (CHOOSE o \in set : o.id = x).value
                      ELSE before.nodes[x]
<1>1. \A o \in set : /\ o.id \in Ids(after) /\ o.value = after.nodes[o.id]
  BY OpsOfPatch
<1>2. \A x \in Ids(after) :
        x \notin Ids(before) \/ after.nodes[x] # before.nodes[x]
          => \E o \in set : o.id = x
  <2> SUFFICES ASSUME NEW x \in Ids(after),
                      x \notin Ids(before) \/ after.nodes[x] # before.nodes[x]
               PROVE  \E o \in set : o.id = x
    OBVIOUS
  <2>1. CASE x \notin Ids(before)
    <3> DEFINE o == [op |-> "add", id |-> x, value |-> after.nodes[x]]
    <3>1. o \in Ops(ops, "add")
      BY <2>1, OpsOfPatch
    <3> QED BY <3>1
  <2>2. CASE x \in Ids(before) /\ after.nodes[x] # before.nodes[x]
    <3> DEFINE o == [op |-> "replace", id |-> x, value |-> after.nodes[x]]
    <3>1. o \in Ops(ops, "replace")
      BY <2>2, OpsOfPatch
    <3> QED BY <3>1
  <2> QED BY <2>1, <2>2
<1>3. {o.id : o \in Ops(ops, "remove")} = Ids(before) \ Ids(after)
  <2>1. \A o \in Ops(ops, "remove") : o.id \in Ids(before) \ Ids(after)
    BY OpsOfPatch
  <2>2. \A x \in Ids(before) \ Ids(after) : [op |-> "remove", id |-> x] \in Ops(ops, "remove")
    BY OpsOfPatch
  <2>3. \A x \in Ids(before) \ Ids(after) : \E o \in Ops(ops, "remove") : o.id = x
    BY <2>2
  <2> HIDE DEF ops
  <2> QED BY <2>1, <2>3
<1> HIDE DEF set, ops
<1>4. kept = Ids(after)
  BY <1>1, <1>2, <1>3
<1>5. \A x \in Ids(after) : node(x) = after.nodes[x]
  BY <1>1, <1>2
<1>6. applyPatch(before, ops).nodes = [x \in kept |-> node(x)]
  BY DEF applyPatch, set
<1>7. applyPatch(before, ops).nodes = after.nodes
  BY <1>4, <1>5, <1>6 DEF IsGraph, Ids
<1>8. {o.edge : o \in Ops(ops, "cut")} = before.edges \ after.edges
  <2>1. \A o \in Ops(ops, "cut") : o.edge \in before.edges \ after.edges
    BY OpsOfPatch DEF ops
  <2>2. \A x \in before.edges \ after.edges : [op |-> "cut", edge |-> x] \in Ops(ops, "cut")
    BY OpsOfPatch DEF ops
  <2>3. \A x \in before.edges \ after.edges : \E o \in Ops(ops, "cut") : o.edge = x
    BY <2>2
  <2> QED BY <2>1, <2>3
<1>9. {o.edge : o \in Ops(ops, "join")} = after.edges \ before.edges
  <2>1. \A o \in Ops(ops, "join") : o.edge \in after.edges \ before.edges
    BY OpsOfPatch DEF ops
  <2>2. \A x \in after.edges \ before.edges : [op |-> "join", edge |-> x] \in Ops(ops, "join")
    BY OpsOfPatch DEF ops
  <2>3. \A x \in after.edges \ before.edges : \E o \in Ops(ops, "join") : o.edge = x
    BY <2>2
  <2> QED BY <2>1, <2>3
<1>10. applyPatch(before, ops).edges = after.edges
  BY <1>8, <1>9 DEF applyPatch
<1> QED BY <1>7, <1>10 DEF ops

(* Nothing to save means that nothing is different.                        *)
THEOREM NoPatchNoChange ==
  ASSUME NEW before, NEW after, IsGraph(before), IsGraph(after),
         diffGraph(before, after) = {}
  PROVE  before.nodes = after.nodes /\ before.edges = after.edges
<1>1. /\ Ids(after) = Ids(before)
      /\ \A x \in Ids(after) : after.nodes[x] = before.nodes[x]
      /\ after.edges = before.edges
  BY DEF diffGraph
<1> QED BY <1>1 DEF IsGraph, Ids

-----------------------------------------------------------------------------
(* Recursion on the numbers, and what a walk over a graph reaches          *)

(* What holds of 0, and of n + 1 whenever it holds of n, holds of every    *)
(* number. The set of those that have it takes the place of the predicate. *)
LEMMA SetInduction ==
  ASSUME NEW S, 0 \in S, \A n \in Nat : n \in S => n + 1 \in S
  PROVE  \A n \in Nat : n \in S
<1> DEFINE T == Nat \ S
           R == OpToRel(<, Nat)
<1>1. IsWellFoundedOn(R, Nat)
  BY NatLessThanWellFounded
<1>2. \A x, y \in Nat : x < y => <<x, y>> \in R
  BY DEF OpToRel
<1> HIDE DEF R
<1>3. ASSUME T # {} PROVE FALSE
  <2>1. PICK x \in T : \A y \in T : ~ (<<y, x>> \in R)
    BY <1>1, <1>3, WFMin
  <2>2. x # 0 /\ x - 1 \in Nat
    OBVIOUS
  <2>3. <<x - 1, x>> \in R
    BY <1>2, <2>2
  <2>4. x - 1 \in S
    BY <2>1, <2>2, <2>3
  <2>5. x - 1 + 1 \in S
    BY <2>2, <2>4
  <2>6. x - 1 + 1 = x
    BY <2>2
  <2> QED BY <2>1, <2>5, <2>6
<1> QED BY <1>3

(* The first n + 1 values of a function that is defined by recursion.      *)
Solves(h, n, first, op) ==
  /\ h[0] = first
  /\ \A i \in 1 .. n : h[i] = op[<<i, h[i - 1]>>]

(* Two that follow the same recursion agree as far as both go.             *)
LEMMA SolutionsAgree ==
  ASSUME NEW first, NEW op, NEW n \in Nat, NEW m \in Nat, NEW g, NEW h,
         Solves(g, n, first, op), Solves(h, m, first, op), n <= m
  PROVE  g[n] = h[n]
<1> DEFINE S == {i \in Nat : i <= n => g[i] = h[i]}
<1>1. 0 \in S
  BY DEF Solves
<1>2. ASSUME NEW i \in Nat, i \in S PROVE i + 1 \in S
  <2>1. CASE i + 1 <= n
    <3>1. g[i] = h[i] /\ i + 1 \in 1 .. n /\ i + 1 \in 1 .. m /\ i + 1 - 1 = i
      BY <1>2, <2>1
    <3>2. g[i + 1] = op[<<i + 1, g[i + 1 - 1]>>] /\ h[i + 1] = op[<<i + 1, h[i + 1 - 1]>>]
      BY <3>1 DEF Solves
    <3> QED BY <3>1, <3>2
  <2> QED BY <2>1
<1>3. \A i \in Nat : i \in S
  <2> HIDE DEF S
  <2> QED BY <1>1, <1>2, SetInduction
<1> QED BY <1>3

(* The recursion can be followed as far as one likes.                      *)
LEMMA SolutionsExist ==
  ASSUME NEW first, NEW op, NEW n \in Nat
  PROVE  \E h : Solves(h, n, first, op)
<1> DEFINE S == {i \in Nat : \E h : Solves(h, i, first, op)}
<1>1. 0 \in S
  <2> DEFINE h == [i \in {0} |-> first]
  <2>1. Solves(h, 0, first, op)
    BY DEF Solves
  <2> QED BY <2>1
<1>2. ASSUME NEW i \in Nat, i \in S PROVE i + 1 \in S
  <2>1. PICK g : Solves(g, i, first, op)
    BY <1>2
  <2> DEFINE h == [j \in 0 .. i + 1 |-> IF j <= i THEN g[j] ELSE op[<<j, g[j - 1]>>]]
  <2>2. h[0] = first
    BY <2>1 DEF Solves
  <2>3. ASSUME NEW j \in 1 .. i + 1 PROVE h[j] = op[<<j, h[j - 1]>>]
    <3>0. j - 1 \in 0 .. i + 1 /\ j - 1 <= i /\ j \in 0 .. i + 1
      BY <2>3
    <3>1. h[j - 1] = g[j - 1]
      BY <3>0
    <3>2. CASE j <= i
      <4>1. g[j] = op[<<j, g[j - 1]>>]
        BY <2>1, <2>3, <3>2 DEF Solves
      <4> QED BY <3>0, <3>1, <3>2, <4>1
    <3>3. CASE ~ (j <= i)
      <4>1. h[j] = op[<<j, g[j - 1]>>]
        BY <3>0, <3>3
      <4> QED BY <3>1, <4>1
    <3> QED BY <3>2, <3>3
  <2>4. Solves(h, i + 1, first, op)
    <3> HIDE DEF h
    <3> QED BY <2>2, <2>3 DEF Solves
  <2> QED BY <2>4
<1>3. \A i \in Nat : i \in S
  <2> HIDE DEF S
  <2> QED BY <1>1, <1>2, SetInduction
<1> QED BY <1>3

(* The function that a recursion on the numbers defines.                   *)
Recurs(f, first, op) ==
  f[0] = first /\ \A n \in Nat : f[n + 1] = op[<<n + 1, f[n]>>]

(* There is one.                                                           *)
LEMMA RecursionWorks ==
  ASSUME NEW first, NEW op
  PROVE  \E f : Recurs(f, first, op)
<1> DEFINE some(n) == CHOOSE h : Solves(h, n, first, op)
           f == [n \in Nat |-> some(n)[n]]
<1>1. ASSUME NEW n \in Nat PROVE Solves(some(n), n, first, op)
  <2>1. \E h : Solves(h, n, first, op)
    BY SolutionsExist
  <2> QED BY <2>1, Zenon
<1> HIDE DEF some
<1>2. ASSUME NEW n \in Nat PROVE f[n + 1] = op[<<n + 1, f[n]>>]
  <2>1. n + 1 \in Nat /\ n <= n + 1 /\ n + 1 \in 1 .. n + 1 /\ n + 1 - 1 = n
    BY <1>2
  <2>2. Solves(some(n), n, first, op) /\ Solves(some(n + 1), n + 1, first, op)
    BY <1>1, <2>1
  <2>3. Solves(some(n + 1), n, first, op)
    BY <2>1, <2>2 DEF Solves
  <2>4. some(n + 1)[n] = some(n)[n]
    BY <2>2, <2>3, SolutionsAgree
  <2>5. some(n + 1)[n + 1] = op[<<n + 1, some(n + 1)[n + 1 - 1]>>]
    BY <2>1, <2>2 DEF Solves
  <2> QED BY <2>1, <2>4, <2>5
<1>3. f[0] = first
  <2>1. Solves(some(0), 0, first, op)
    BY <1>1
  <2> QED BY <2>1 DEF Solves
<1> HIDE DEF f
<1>4. Recurs(f, first, op)
  BY <1>2, <1>3 DEF Recurs
<1> QED BY <1>4

(* Where the steps of a set lead to.                                       *)
Leads(adjacency, from) == UNION {adjacency[x] : x \in from \cap DOMAIN adjacency}

(* What a walk has seen after each of its rounds.                          *)
Spreads(seen, adjacency, start) ==
  /\ walk(adjacency, start) = seen[Cardinality(DOMAIN adjacency)]
  /\ seen[0] = Leads(adjacency, {start})
  /\ \A n \in Nat : seen[n + 1] = seen[n] \cup Leads(adjacency, seen[n])

(* walk follows its recursion for as many rounds as there are steps        *)
(* (descendants and ancestors, core/graph.ts).                             *)
LEMMA WalkSeen ==
  ASSUME NEW adjacency, NEW start
  PROVE  \E seen : Spreads(seen, adjacency, start)
<1> DEFINE V == SUBSET UNION {adjacency[x] : x \in DOMAIN adjacency}
           first == Leads(adjacency, {start})
           op == [p \in Nat \X V |-> p[2] \cup Leads(adjacency, p[2])]
           grow(g) == [n \in Nat |-> IF n = 0 THEN first
                                      ELSE g[n - 1] \cup Leads(adjacency, g[n - 1])]
           seen == CHOOSE g : g = grow(g)
<1>1. PICK h : Recurs(h, first, op)
  <2> HIDE DEF op, first
  <2> QED BY RecursionWorks
<1> DEFINE f == [n \in Nat |-> h[n]]
<1>f. f[0] = first /\ \A n \in Nat : f[n + 1] = op[<<n + 1, f[n]>>]
  <2> HIDE DEF op, first
  <2> QED BY <1>1 DEF Recurs
<1>2. \A from : Leads(adjacency, from) \in V
  BY DEF Leads
<1>3. \A n \in Nat : f[n] \in V => f[n + 1] = f[n] \cup Leads(adjacency, f[n])
  <2> HIDE DEF V, first, f
  <2>1. \A n \in Nat, S \in V : op[<<n + 1, S>>] = S \cup Leads(adjacency, S)
    OBVIOUS
  <2> HIDE DEF op
  <2> QED BY <1>f, <2>1
<1>4. \A n \in Nat : f[n] \in V
  <2> DEFINE S == {n \in Nat : f[n] \in V}
  <2>1. 0 \in S
    BY <1>f, <1>2
  <2>2. ASSUME NEW n \in Nat, n \in S PROVE n + 1 \in S
    <3>1. f[n] \in V /\ Leads(adjacency, f[n]) \in V
      BY <1>2, <2>2
    <3>2. f[n + 1] = f[n] \cup Leads(adjacency, f[n])
      BY <1>3, <3>1
    <3> HIDE DEF f
    <3> QED BY <3>1, <3>2
  <2>3. \A n \in Nat : n \in S
    <3> HIDE DEF S
    <3> QED BY <2>1, <2>2, SetInduction
  <2> QED BY <2>3
<1>5. f = grow(f)
  <2> HIDE DEF V, op, first
  <2>1. \A n \in Nat : n # 0 => f[n] = f[n - 1] \cup Leads(adjacency, f[n - 1])
    <3> SUFFICES ASSUME NEW n \in Nat, n # 0
                 PROVE  f[n] = f[n - 1] \cup Leads(adjacency, f[n - 1])
      OBVIOUS
    <3>1. n - 1 \in Nat /\ n - 1 + 1 = n
      OBVIOUS
    <3> QED BY <1>3, <1>4, <3>1
  <2> QED BY <1>f, <2>1
<1>6. seen = grow(seen)
  <2>1. \E g : g = grow(g)
    <3> HIDE DEF grow
    <3> QED BY <1>5
  <2> HIDE DEF grow
  <2> QED BY <2>1, Zenon
<1>7. walk(adjacency, start) = seen[Cardinality(DOMAIN adjacency)]
  BY Zenon DEF walk, Leads
<1> HIDE DEF seen
<1>8. seen[0] = first
  BY <1>6
<1>9. ASSUME NEW n \in Nat PROVE seen[n + 1] = seen[n] \cup Leads(adjacency, seen[n])
  <2> HIDE DEF first
  <2>1. n + 1 \in Nat /\ n + 1 # 0 /\ n + 1 - 1 = n
    OBVIOUS
  <2>2. \A m \in Nat : m # 0 => seen[m] = seen[m - 1] \cup Leads(adjacency, seen[m - 1])
    BY <1>6, Zenon
  <2> QED BY <2>1, <2>2
<1>10. Spreads(seen, adjacency, start)
  BY <1>7, <1>8, <1>9 DEF Spreads
<1> QED BY <1>10

(* No way leads out of C.                                                  *)
Closed(adjacency, C) == \A x \in C \cap DOMAIN adjacency : adjacency[x] \subseteq C

(* A walk stays in every set that no way leads out of.                     *)
LEMMA WalkIsLeast ==
  ASSUME NEW adjacency, IsFiniteSet(DOMAIN adjacency), NEW start \in DOMAIN adjacency,
         NEW C, Closed(adjacency, C), adjacency[start] \subseteq C
  PROVE  walk(adjacency, start) \subseteq C
<1>0. PICK seen : Spreads(seen, adjacency, start)
  BY WalkSeen
<1>1. /\ walk(adjacency, start) = seen[Cardinality(DOMAIN adjacency)]
      /\ seen[0] = Leads(adjacency, {start})
      /\ \A n \in Nat : seen[n + 1] = seen[n] \cup Leads(adjacency, seen[n])
  BY <1>0 DEF Spreads
<1> DEFINE S == {n \in Nat : seen[n] \subseteq C}
<1>2. 0 \in S
  BY <1>1 DEF Leads
<1>3. ASSUME NEW n \in Nat, n \in S PROVE n + 1 \in S
  <2>1. seen[n + 1] = seen[n] \cup Leads(adjacency, seen[n])
    BY <1>1
  <2>2. Leads(adjacency, seen[n]) \subseteq C
    BY <1>3 DEF Leads, Closed
  <2> QED BY <1>3, <2>1, <2>2
<1>4. \A n \in Nat : n \in S
  <2> HIDE DEF S
  <2> QED BY <1>2, <1>3, SetInduction
<1>5. Cardinality(DOMAIN adjacency) \in Nat
  BY FS_CardinalityType
<1> QED BY <1>1, <1>4, <1>5

(* A walk ends with all there is to be reached: a round that adds no step  *)
(* is the last that adds anything, and there are no more rounds than       *)
(* steps.                                                                  *)
LEMMA WalkIsClosed ==
  ASSUME NEW adjacency, IsFiniteSet(DOMAIN adjacency), NEW start \in DOMAIN adjacency
  PROVE  /\ Closed(adjacency, walk(adjacency, start))
         /\ adjacency[start] \subseteq walk(adjacency, start)
<1>0. PICK seen : Spreads(seen, adjacency, start)
  BY WalkSeen
<1>1. /\ walk(adjacency, start) = seen[Cardinality(DOMAIN adjacency)]
      /\ seen[0] = Leads(adjacency, {start})
      /\ \A n \in Nat : seen[n + 1] = seen[n] \cup Leads(adjacency, seen[n])
  BY <1>0 DEF Spreads
<1> DEFINE steps(n) == seen[n] \cap DOMAIN adjacency
           S == {n \in Nat : adjacency[start] \subseteq seen[n]}
           P == {n \in Nat : Closed(adjacency, seen[n]) \/ Cardinality(steps(n)) >= n + 1}
<1>2. \A T \in SUBSET DOMAIN adjacency :
         /\ IsFiniteSet(T) /\ Cardinality(T) \in Nat
         /\ Cardinality(T) <= Cardinality(DOMAIN adjacency)
  BY FS_Subset, FS_CardinalityType
<1>3. \A n \in Nat : n \in S
  <2>1. 0 \in S
    BY <1>1 DEF Leads
  <2>2. \A n \in Nat : n \in S => n + 1 \in S
    BY <1>1
  <2> HIDE DEF S
  <2> QED BY <2>1, <2>2, SetInduction
<1>4. 0 \in P
  <2>1. CASE steps(0) = {}
    <3>1. Closed(adjacency, seen[0])
      BY <2>1 DEF Closed
    <3> QED BY <3>1
  <2>2. CASE steps(0) # {}
    <3>1. Cardinality(steps(0)) # 0 /\ Cardinality(steps(0)) \in Nat
      BY <1>2, <2>2, FS_EmptySet
    <3> QED BY <3>1
  <2> QED BY <2>1, <2>2
<1>5. ASSUME NEW n \in Nat, n \in P PROVE n + 1 \in P
  <2>1. seen[n + 1] = seen[n] \cup Leads(adjacency, seen[n])
    BY <1>1
  <2>2. CASE steps(n + 1) = steps(n)
    <3>1. Closed(adjacency, seen[n + 1])
      BY <2>1, <2>2 DEF Closed, Leads
    <3> QED BY <3>1
  <2>3. CASE steps(n + 1) # steps(n)
    <3>1. steps(n) \subseteq steps(n + 1)
      BY <2>1
    <3>2. ~ Closed(adjacency, seen[n])
      BY <2>1, <2>3 DEF Closed, Leads
    <3>3. Cardinality(steps(n)) >= n + 1
      BY <1>5, <3>2
    <3>4. Cardinality(steps(n)) < Cardinality(steps(n + 1))
      <4> HIDE DEF steps
      <4>1. IsFiniteSet(steps(n + 1))
        BY <1>2 DEF steps
      <4>2. Cardinality(steps(n)) # Cardinality(steps(n + 1))
        BY <2>3, <3>1, <4>1, FS_Subset
      <4>3. Cardinality(steps(n)) <= Cardinality(steps(n + 1))
        BY <3>1, <4>1, FS_Subset
      <4>4. Cardinality(steps(n)) \in Nat /\ Cardinality(steps(n + 1)) \in Nat
        BY <1>2 DEF steps
      <4> QED BY <4>2, <4>3, <4>4
    <3>5. Cardinality(steps(n + 1)) >= n + 1 + 1
      <4> HIDE DEF steps
      <4>1. Cardinality(steps(n)) \in Nat /\ Cardinality(steps(n + 1)) \in Nat
        BY <1>2 DEF steps
      <4> QED BY <3>3, <3>4, <4>1
    <3> QED BY <3>5
  <2> QED BY <2>2, <2>3
<1>6. \A n \in Nat : n \in P
  <2> HIDE DEF P
  <2> QED BY <1>4, <1>5, SetInduction
<1> DEFINE N == Cardinality(DOMAIN adjacency)
<1>7. N \in Nat
  BY <1>2
<1>8. ~ (Cardinality(steps(N)) >= N + 1)
  <2>1. Cardinality(steps(N)) \in Nat /\ Cardinality(steps(N)) <= N
    BY <1>2
  <2> HIDE DEF steps, N
  <2> QED BY <1>7, <2>1
<1>9. Closed(adjacency, seen[N])
  <2> HIDE DEF steps, N
  <2> QED BY <1>6, <1>7, <1>8
<1>10. adjacency[start] \subseteq seen[N]
  <2> HIDE DEF N
  <2> QED BY <1>3, <1>7
<1> QED BY <1>1, <1>9, <1>10

-----------------------------------------------------------------------------
(* Loops                                                                   *)

(* A finite graph without an edge from or to a step that is gone.          *)
Tidy(g) == IsFiniteSet(Ids(g)) /\ danglingEdges(g) = {}

(* No edge leads out of C.                                                 *)
NoEdgeLeaves(g, C) == \A e \in g.edges : e.source \in C => e.target \in C

(* In a tidy graph both ends of an edge are steps.                         *)
LEMMA EndsAreSteps ==
  ASSUME NEW g, Tidy(g)
  PROVE  \A e \in g.edges : e.source \in Ids(g) /\ e.target \in Ids(g)
BY DEF Tidy, danglingEdges

(* The descendants of a step are all that can be reached from it: the      *)
(* targets of its edges, and with a step the targets of that one's         *)
(* (descendants, core/graph.ts).                                           *)
LEMMA DescendantsAreClosed ==
  ASSUME NEW g, Tidy(g), NEW x \in Ids(g)
  PROVE  /\ NoEdgeLeaves(g, descendants(g, x))
         /\ \A e \in g.edges : e.source = x => e.target \in descendants(g, x)
<1> DEFINE out == outgoing(g)
           D == descendants(g, x)
<1>1. DOMAIN out = Ids(g) /\ IsFiniteSet(DOMAIN out) /\ x \in DOMAIN out
  BY DEF outgoing, Tidy
<1>2. \A y \in Ids(g), e \in g.edges : e.source = y => e.target \in out[y]
  BY DEF outgoing
<1>3. Closed(out, D) /\ out[x] \subseteq D
  <2> HIDE DEF out
  <2> QED BY <1>1, WalkIsClosed DEF descendants, out
<1> HIDE DEF out, D
<1>4. \A e \in g.edges : e.source \in Ids(g)
  BY EndsAreSteps
<1>5. ASSUME NEW e \in g.edges, e.source \in D PROVE e.target \in D
  <2>1. e.source \in D \cap DOMAIN out
    BY <1>1, <1>4, <1>5
  <2>2. out[e.source] \subseteq D
    BY <1>3, <2>1 DEF Closed
  <2> QED BY <1>2, <1>4, <2>2
<1>6. ASSUME NEW e \in g.edges, e.source = x PROVE e.target \in D
  BY <1>2, <1>3, <1>6
<1> QED BY <1>5, <1>6 DEF NoEdgeLeaves, D

(* And nothing else: they are in every set that has the targets of the     *)
(* step's edges and that no edge leads out of.                             *)
LEMMA DescendantsAreLeast ==
  ASSUME NEW g, Tidy(g), NEW x \in Ids(g), NEW C, NoEdgeLeaves(g, C),
         \A e \in g.edges : e.source = x => e.target \in C
  PROVE  descendants(g, x) \subseteq C
<1> DEFINE out == outgoing(g)
<1>1. DOMAIN out = Ids(g) /\ IsFiniteSet(DOMAIN out) /\ x \in DOMAIN out
  BY DEF outgoing, Tidy
<1>2. \A y \in Ids(g) : out[y] = {e.target : e \in {d \in g.edges : d.source = y}}
  BY DEF outgoing
<1> HIDE DEF out
<1>3. Closed(out, C)
  BY <1>1, <1>2 DEF Closed, NoEdgeLeaves
<1>4. out[x] \subseteq C
  BY <1>2
<1> QED BY <1>1, <1>3, <1>4, WalkIsLeast DEF descendants, out

(* Whatever is done to the steps, no loop comes of it while no edge is     *)
(* added.                                                                  *)
LEMMA FewerEdgesNoLoop ==
  ASSUME NEW g, NEW h, Tidy(g), Tidy(h), h.edges \subseteq g.edges,
         topologicallyOrdered(g)
  PROVE  topologicallyOrdered(h)
<1>1. ASSUME NEW x \in Ids(h) PROVE x \notin descendants(h, x)
  <2>1. CASE x \in Ids(g)
    <3>1. descendants(h, x) \subseteq descendants(g, x)
      <4>1. NoEdgeLeaves(h, descendants(g, x))
        BY <2>1, DescendantsAreClosed DEF NoEdgeLeaves
      <4>2. \A e \in h.edges : e.source = x => e.target \in descendants(g, x)
        BY <2>1, DescendantsAreClosed
      <4> QED BY <4>1, <4>2, DescendantsAreLeast
    <3>2. x \notin descendants(g, x)
      BY <2>1 DEF topologicallyOrdered
    <3> QED BY <3>1, <3>2
  <2>2. CASE x \notin Ids(g)
    <3>1. \A e \in h.edges : e.source # x
      BY <2>2, EndsAreSteps
    <3>2. descendants(h, x) \subseteq {}
      <4>1. NoEdgeLeaves(h, {})
        BY DEF NoEdgeLeaves
      <4> QED BY <3>1, <4>1, DescendantsAreLeast
    <3> QED BY <3>2
  <2> QED BY <2>1, <2>2
<1> QED BY <1>1, EndsAreSteps DEF topologicallyOrdered

(* No loop comes of an edge that canConnect lets through: its target does  *)
(* not lead to its source, and whoever leads to its source now leads, with *)
(* it, to its target and what that leads to (canConnect, core/graph.ts).   *)
LEMMA ConnectedNoLoop ==
  ASSUME NEW g, NEW h, NEW e, Tidy(g), Tidy(h), Ids(h) = Ids(g),
         h.edges = g.edges \cup {e}, canConnect(g, e), topologicallyOrdered(g)
  PROVE  topologicallyOrdered(h)
<1>1. /\ e.source \in Ids(g) /\ e.target \in Ids(g) /\ e.source # e.target
      /\ e.source \notin descendants(g, e.target)
  BY DEF canConnect
<1>2. ASSUME NEW x \in Ids(h) PROVE x \notin descendants(h, x)
  <2> DEFINE D == descendants(g, x)
             E == descendants(g, e.target)
             C == IF e.source \in D \cup {x} THEN D \cup {e.target} \cup E ELSE D
  <2>1. /\ NoEdgeLeaves(g, D) /\ NoEdgeLeaves(g, E) /\ x \notin D
        /\ \A d \in g.edges : d.source = x => d.target \in D
        /\ \A d \in g.edges : d.source = e.target => d.target \in E
    BY <1>1, <1>2, DescendantsAreClosed DEF topologicallyOrdered
  <2>2. x \in E => D \subseteq E
    <3>1. x \in E => \A d \in g.edges : d.source = x => d.target \in E
      BY <2>1 DEF NoEdgeLeaves
    <3> HIDE DEF D, E
    <3> QED BY <1>2, <2>1, <3>1, DescendantsAreLeast DEF D
  <2>t. x = e.target => D = E
    OBVIOUS
  <2> HIDE DEF D
  <2>e. e.source \notin E
    BY <1>1
  <2> HIDE DEF E
  <2>3. x \notin C
    BY <1>1, <2>1, <2>2, <2>e, <2>t
  <2>4. NoEdgeLeaves(h, C)
    BY <2>1, <2>e DEF NoEdgeLeaves
  <2>5. \A d \in h.edges : d.source = x => d.target \in C
    BY <2>1
  <2> HIDE DEF C
  <2> QED BY <2>3, <2>4, <2>5, DescendantsAreLeast
<1> QED BY <1>2, EndsAreSteps DEF topologicallyOrdered

-----------------------------------------------------------------------------
(* Compiling: what the server accepts                                      *)

(* A drawing: finitely many steps, and the edges one after the other.      *)
IsDrawing(g) ==
  /\ IsFiniteSet(Ids(g)) /\ g.drawn \in Seq(g.edges)
  /\ g.edges = {g.drawn[i] : i \in DOMAIN g.drawn}

Entry(g) == CHOOSE x \in roots(g) : TRUE

(* What the server compiles has one beginning, which leads to everything,  *)
(* and no loop.                                                            *)
LEMMA CompilesSoundly ==
  ASSUME NEW g, IsDrawing(g), compiles(g)
  PROVE  /\ Tidy(g) /\ topologicallyOrdered(g) /\ Ids(g) # {}
         /\ roots(g) = {Entry(g)} /\ Entry(g) \in Ids(g)
         /\ g.nodes[Entry(g)].kind = "trigger"
         /\ Ids(g) \subseteq {Entry(g)} \cup descendants(g, Entry(g))
         /\ \A x \in Ids(g) : stepProblems(g, x) = {}
<1> DEFINE entry == Entry(g)
           reached == {entry} \cup descendants(g, entry)
<1>1. /\ Ids(g) # {} /\ danglingEdges(g) = {} /\ roots(g) # {}
      /\ {c \in {"unconnected"} : Cardinality(roots(g)) > 1} = {}
      /\ {c \in {"no trigger"} : g.nodes[entry].kind # "trigger"} = {}
      /\ {c \in {"loop"} : \E x \in reached : x \in descendants(g, x)} = {}
      /\ {c \in {"unreachable"} : ~ (Ids(g) \subseteq reached)} = {}
      /\ UNION {stepProblems(g, x) : x \in reached} = {}
  BY DEF compiles, problems, Entry
<1>2. entry \in roots(g) /\ entry \in Ids(g) /\ roots(g) \subseteq Ids(g)
  BY <1>1 DEF Entry, roots
<1>3. g.nodes[entry].kind = "trigger" /\ Ids(g) \subseteq reached
  BY <1>1
<1>4. \A x \in Ids(g) : x \notin descendants(g, x)
  BY <1>1, <1>3
<1>5. \A x \in Ids(g) : stepProblems(g, x) = {}
  <2> HIDE DEF reached
  <2> QED BY <1>1, <1>3
<1>6. Tidy(g)
  BY <1>1 DEF Tidy, IsDrawing
<1>7. topologicallyOrdered(g)
  BY <1>4, <1>6, EndsAreSteps DEF topologicallyOrdered
<1>8. roots(g) = {entry}
  <2>1. IsFiniteSet(roots(g)) /\ Cardinality(roots(g)) \in Nat
    BY <1>2, FS_Subset, FS_CardinalityType DEF IsDrawing
  <2>2. ~ (Cardinality(roots(g)) > 1)
    BY <1>1
  <2>3. ASSUME NEW x \in roots(g), x # entry PROVE FALSE
    <3>1. Cardinality({x, entry}) = 2
      <4>1. IsFiniteSet({x}) /\ Cardinality({x}) = 1 /\ entry \notin {x}
        BY <2>3, FS_Singleton
      <4>2. Cardinality({x} \cup {entry}) = Cardinality({x}) + 1
        BY <4>1, FS_AddElement
      <4>3. {x} \cup {entry} = {x, entry}
        OBVIOUS
      <4> QED BY <4>1, <4>2, <4>3
    <3>2. Cardinality({x, entry}) <= Cardinality(roots(g))
      BY <1>2, <2>1, <2>3, FS_Subset
    <3> QED BY <2>1, <2>2, <3>1, <3>2
  <2> QED BY <1>2, <2>3
<1> HIDE DEF reached
<1> QED BY <1>1, <1>2, <1>3, <1>5, <1>6, <1>7, <1>8 DEF reached

-----------------------------------------------------------------------------
(* Compiling: one visit of the walk                                        *)

(* A set of numbers that is not empty has a least one.                     *)
LEMMA MinIsLeast ==
  ASSUME NEW S \in SUBSET Nat, S # {}
  PROVE  Min(S) \in S /\ \A j \in S : Min(S) <= j
<1> DEFINE R == OpToRel(<, Nat)
<1>1. IsWellFoundedOn(R, Nat)
  BY NatLessThanWellFounded
<1>2. \A x, y \in Nat : x < y => <<x, y>> \in R
  BY DEF OpToRel
<1> HIDE DEF R
<1>3. PICK x \in S : \A y \in S : ~ (<<y, x>> \in R)
  BY <1>1, WFMin
<1>4. ASSUME NEW y \in S PROVE x <= y
  <2>1. x \in Nat /\ y \in Nat /\ ~ (y < x)
    BY <1>2, <1>3
  <2> QED BY <2>1
<1>5. \E i \in S : \A j \in S : i <= j
  BY <1>4
<1> QED BY <1>5 DEF Min

Frames(g) == [step : Ids(g), left : SUBSET DOMAIN g.drawn]
Walks(g) == [path : Seq(Frames(g)), seen : SUBSET Ids(g), chain : Seq(Ids(g))]

(* The ends of the edges of a drawing without dangling edges are steps.    *)
LEMMA DrawnEnds ==
  ASSUME NEW g, IsDrawing(g), Tidy(g), NEW i \in DOMAIN g.drawn
  PROVE  /\ g.drawn[i] \in g.edges /\ i \in Nat
         /\ g.drawn[i].source \in Ids(g) /\ g.drawn[i].target \in Ids(g)
<1>1. g.drawn[i] \in g.edges /\ i \in Nat
  BY DEF IsDrawing
<1> QED BY <1>1, EndsAreSteps

(* Every step can come on the path.                                        *)
LEMMA FrameIsFrame ==
  ASSUME NEW g, IsDrawing(g), Tidy(g), NEW x \in Ids(g)
  PROVE  Frame(g.drawn, x) \in Frames(g)
BY DEF Frame, Frames

(* a chain when its path leads back                                        *)
Back(path, chain) == <<path[1].step>> \o chain

(* a path when an edge of its first step was followed, and when it led on  *)
Along(path, k) ==
  <<[step |-> path[1].step, left |-> path[1].left \ {k}]>> \o Tail(path)
Onto(g, path, k) == <<Frame(g.drawn, g.drawn[k].target)>> \o Along(path, k)

(* a visit leaves a step, passes over an edge, or enters a step            *)
GoesBack(w, v) ==
  /\ w.path[1].left = {}
  /\ v = [path |-> Tail(w.path), seen |-> w.seen,
          chain |-> Back(w.path, w.chain)]
PassesOver(g, w, v, k) ==
  /\ g.drawn[k].target \in w.seen
  /\ v = [path |-> Along(w.path, k), seen |-> w.seen, chain |-> w.chain]
Enters(g, w, v, k) ==
  /\ g.drawn[k].target \notin w.seen
  /\ v = [path |-> Onto(g, w.path, k), seen |-> w.seen \cup {g.drawn[k].target},
          chain |-> w.chain]

(* A walk leaves a step, passes over an edge, or enters a step.            *)
LEMMA VisitMoves ==
  ASSUME NEW g, IsDrawing(g), Tidy(g), NEW w \in Walks(g), w.path # << >>
  PROVE  LET v == visit(w, g.drawn) IN
         /\ v \in Walks(g)
         /\ \/ GoesBack(w, v)
            \/ \E k \in w.path[1].left : PassesOver(g, w, v, k) \/ Enters(g, w, v, k)
<1> DEFINE top == w.path[1]
           v == visit(w, g.drawn)
           i == Min(top.left)
           y == g.drawn[i].target
           new == [step |-> top.step, left |-> top.left \ {i}]
           on == <<new>> \o Tail(w.path)
<1>1. /\ w = [path |-> w.path, seen |-> w.seen, chain |-> w.chain]
      /\ w.path \in Seq(Frames(g)) /\ w.seen \subseteq Ids(g) /\ w.chain \in Seq(Ids(g))
  BY DEF Walks
<1>2. /\ Head(w.path) = top /\ top \in Frames(g)
      /\ Tail(w.path) \in Seq(Frames(g))
  BY <1>1, HeadTailProperties, EmptySeq, ElementOfSeq, LenProperties
<1>3. top = [step |-> top.step, left |-> top.left] /\ top.step \in Ids(g) /\ top.left \subseteq DOMAIN g.drawn
  BY <1>2 DEF Frames
<1>4. CASE top.left = {}
  <2>1. v = [path |-> Tail(w.path), seen |-> w.seen, chain |-> <<top.step>> \o w.chain]
    BY <1>1, <1>2, <1>4 DEF visit
  <2>2. <<top.step>> \in Seq(Ids(g))
    BY <1>3
  <2>3. <<top.step>> \o w.chain \in Seq(Ids(g))
    BY <1>1, <2>2, ConcatProperties
  <2>4. v \in Walks(g)
    BY <1>1, <1>2, <2>1, <2>3 DEF Walks
  <2>5. GoesBack(w, v)
    BY <1>4, <2>1 DEF GoesBack, Back
  <2> QED BY <2>4, <2>5
<1>5. CASE top.left # {}
  <2>1. i \in top.left /\ y \in Ids(g)
    <3>1. top.left \subseteq Nat
      BY <1>3, DrawnEnds
    <3>2. i \in top.left
      BY <1>5, <3>1, MinIsLeast
    <3> QED BY <1>3, <3>2, DrawnEnds
  <2>2. new \in Frames(g) /\ [top EXCEPT !.left = @ \ {i}] = new
    <3> HIDE DEF top, i
    <3>1. \A a, b, c : [[step |-> a, left |-> b] EXCEPT !.left = c]
                        = [step |-> a, left |-> c]
      OBVIOUS
    <3>2. PICK a, b : top = [step |-> a, left |-> b]
      BY <1>3
    <3>4. top.step = a /\ top.left = b
      BY <3>2
    <3>5. [top EXCEPT !.left = b \ {i}] = [step |-> a, left |-> b \ {i}]
      BY <3>1, <3>2
    <3>3. new \in Frames(g)
      BY <1>3 DEF Frames
    <3> QED BY <3>3, <3>4, <3>5
  <2>3. <<new>> \in Seq(Frames(g))
    BY <2>2
  <2>4. on \in Seq(Frames(g))
    BY <1>2, <2>3, ConcatProperties
  <2>5. CASE y \in w.seen
    <3>1. v = [path |-> on, seen |-> w.seen, chain |-> w.chain]
      BY <1>1, <1>2, <1>5, <2>2, <2>5 DEF visit
    <3>2. v \in Walks(g)
      BY <1>1, <2>4, <3>1 DEF Walks
    <3>3. v = [path |-> Along(w.path, i), seen |-> w.seen, chain |-> w.chain]
      BY <3>1 DEF Along
    <3>4. PassesOver(g, w, v, i)
      BY <2>5, <3>3 DEF PassesOver
    <3> HIDE DEF i, y
    <3> QED BY <2>1, <3>2, <3>4
  <2>6. CASE y \notin w.seen
    <3>1. v = [path |-> <<Frame(g.drawn, y)>> \o on, seen |-> w.seen \cup {y},
               chain |-> w.chain]
      BY <1>1, <1>2, <1>5, <2>2, <2>6 DEF visit
    <3>2. <<Frame(g.drawn, y)>> \in Seq(Frames(g))
      BY <2>1, FrameIsFrame
    <3>3. <<Frame(g.drawn, y)>> \o on \in Seq(Frames(g))
      BY <2>4, <3>2, ConcatProperties
    <3>4. v \in Walks(g)
      BY <1>1, <2>1, <3>1, <3>3 DEF Walks
    <3>5. v = [path |-> Onto(g, w.path, i), seen |-> w.seen \cup {y}, chain |-> w.chain]
      BY <3>1 DEF Along, Onto
    <3>6. Enters(g, w, v, i)
      BY <2>6, <3>5 DEF Enters
    <3> HIDE DEF i, y
    <3> QED BY <2>1, <3>4, <3>6
  <2> QED BY <2>5, <2>6
<1> QED BY <1>4, <1>5

-----------------------------------------------------------------------------
(* Compiling: the walk, visit after visit                                  *)

WalkBegin(g) == [path |-> <<Frame(g.drawn, Entry(g))>>, seen |-> {Entry(g)},
             chain |-> << >>]
Further(g, w) == IF w.path = << >> THEN w ELSE visit(w, g.drawn)

(* The walk, visit after visit.                                            *)
Visits(g, w) ==
  /\ w[0] = WalkBegin(g) /\ \A n \in Nat : w[n] \in Walks(g) /\ w[n + 1] = Further(g, w[n])
  /\ compiledChain(g, g.drawn) = w[2 * Cardinality(Ids(g)) + Len(g.drawn)].chain

(* compileFlow goes through the visits.                                    *)
LEMMA ChainIsWalked ==
  ASSUME NEW g, IsDrawing(g), Tidy(g), Entry(g) \in Ids(g)
  PROVE  \E w : Visits(g, w)
<1> DEFINE op == [p \in Nat \X Walks(g) |-> Further(g, p[2])]
           grow(f) == [n \in Nat |-> IF n = 0 THEN WalkBegin(g)
                         ELSE IF f[n - 1].path = << >> THEN f[n - 1]
                              ELSE visit(f[n - 1], g.drawn)]
           walked == CHOOSE f : f = grow(f)
<1>1. PICK h : Recurs(h, WalkBegin(g), op)
  <2> HIDE DEF op
  <2> QED BY RecursionWorks
<1> DEFINE f == [n \in Nat |-> h[n]]
           T == {n \in Nat : f[n] \in Walks(g)}
<1>2. f[0] = WalkBegin(g) /\ \A n \in Nat : f[n + 1] = op[<<n + 1, f[n]>>]
  <2> HIDE DEF op
  <2> QED BY <1>1 DEF Recurs
<1>3. \A v \in Walks(g) : Further(g, v) \in Walks(g)
  BY VisitMoves DEF Further
<1>4. ASSUME NEW n \in Nat, f[n] \in Walks(g)
      PROVE  f[n + 1] = Further(g, f[n]) /\ f[n + 1] \in Walks(g)
  <2>1. \A m \in Nat, v \in Walks(g) : op[<<m, v>>] = Further(g, v)
    OBVIOUS
  <2> HIDE DEF f, op, T
  <2>2. n + 1 \in Nat
    OBVIOUS
  <2>3. op[<<n + 1, f[n]>>] = Further(g, f[n])
    BY <1>4, <2>1, <2>2
  <2>4. f[n + 1] = Further(g, f[n])
    BY <1>2, <2>3
  <2> QED BY <1>3, <1>4, <2>4
<1>5. WalkBegin(g) \in Walks(g)
  <2>1. <<Frame(g.drawn, Entry(g))>> \in Seq(Frames(g))
    BY FrameIsFrame
  <2> QED BY <2>1 DEF WalkBegin, Walks
<1>6. \A n \in Nat : n \in T
  <2>1. 0 \in T
    BY <1>2, <1>5
  <2>2. \A n \in Nat : n \in T => n + 1 \in T
    BY <1>4
  <2> HIDE DEF T
  <2> QED BY <2>1, <2>2, SetInduction
<1>7. f = grow(f)
  <2>1. ASSUME NEW n \in Nat, n # 0 PROVE f[n] = Further(g, f[n - 1])
    <3>1. n - 1 \in Nat /\ n - 1 + 1 = n
      BY <2>1
    <3>2. f[n - 1] \in Walks(g)
      BY <1>6, <3>1
    <3> HIDE DEF f
    <3>3. f[n - 1 + 1] = Further(g, f[n - 1])
      BY <1>4, <3>1, <3>2
    <3> QED BY <3>1, <3>3
  <2>2. \A n \in Nat : f[n] = grow(f)[n]
    <3> HIDE DEF f
    <3> QED BY <1>2, <2>1 DEF Further
  <2> QED BY <2>2
<1>8. walked = grow(walked)
  <2>1. \E k : k = grow(k)
    <3> HIDE DEF grow
    <3> QED BY <1>7
  <2> HIDE DEF grow
  <2> QED BY <2>1, Zenon
<1>9. compiledChain(g, g.drawn) = walked[2 * Cardinality(Ids(g)) + Len(g.drawn)].chain
  BY Zenon DEF compiledChain, WalkBegin, Entry
<1> HIDE DEF walked, f, T
<1>10. walked[0] = WalkBegin(g)
  BY <1>8
<1>11. ASSUME NEW n \in Nat PROVE walked[n + 1] = Further(g, walked[n])
  <2>1. n + 1 \in Nat /\ n + 1 # 0 /\ n + 1 - 1 = n
    OBVIOUS
  <2>2. \A m \in Nat : m # 0 => walked[m] = Further(g, walked[m - 1])
    BY <1>8, Zenon DEF Further
  <2> QED BY <2>1, <2>2
<1>12. \A n \in Nat : walked[n] \in Walks(g)
  <2> DEFINE U == {n \in Nat : walked[n] \in Walks(g)}
  <2>1. 0 \in U /\ \A n \in Nat : n \in U => n + 1 \in U
    BY <1>3, <1>5, <1>10, <1>11
  <2>2. \A n \in Nat : n \in U
    <3> HIDE DEF U
    <3> QED BY <2>1, SetInduction
  <2> QED BY <2>2
<1>13. Visits(g, walked)
  BY <1>9, <1>10, <1>11, <1>12 DEF Visits
<1> QED BY <1>13

-----------------------------------------------------------------------------
(* Compiling: what holds between the visits                                *)

PlacesOf(g, x) == {k \in DOMAIN g.drawn : g.drawn[k].source = x}
OnPath(path) == {path[i].step : i \in DOMAIN path}
Chained(chain) == {chain[p] : p \in DOMAIN chain}

(* Every step that was seen is on the path or in the chain, at one place.  *)
Once(path, seen, chain) ==
  /\ \A i, j \in DOMAIN path : path[i].step = path[j].step => i = j
  /\ \A p, q \in DOMAIN chain : chain[p] = chain[q] => p = q
  /\ OnPath(path) \cap Chained(chain) = {}
  /\ seen = OnPath(path) \cup Chained(chain)

(* Each step of the path leads to those that were entered from it, and an  *)
(* edge that was followed led to the next of the path or into the chain.   *)
Trail(g, path, chain) ==
  /\ \A i, j \in DOMAIN path : i < j =>
       path[i].step \in descendants(g, path[j].step)
  /\ \A i \in DOMAIN path : path[i].left \subseteq PlacesOf(g, path[i].step)
  /\ \A i \in DOMAIN path : \A k \in PlacesOf(g, path[i].step) \ path[i].left :
       \/ g.drawn[k].target \in Chained(chain)
       \/ i > 1 /\ g.drawn[k].target = path[i - 1].step

(* What a step of the chain leads to comes after it.                       *)
Ordered(g, chain) ==
  \A p \in DOMAIN chain : \A k \in PlacesOf(g, chain[p]) :
    \E q \in DOMAIN chain : q > p /\ chain[q] = g.drawn[k].target

WalkSound(g, path, seen, chain) ==
  Once(path, seen, chain) /\ Trail(g, path, chain) /\ Ordered(g, chain)

(* the edges that were followed                                            *)
Followed(g, path, seen) ==
  {k \in DOMAIN g.drawn : /\ g.drawn[k].source \in seen
                          /\ \A i \in DOMAIN path : k \notin path[i].left}

(* One more in front.                                                      *)
LEMMA InFront ==
  ASSUME NEW S, NEW s \in Seq(S), NEW a \in S
  PROVE  LET t == <<a>> \o s IN
         /\ t \in Seq(S) /\ DOMAIN t = 1 .. Len(s) + 1 /\ DOMAIN s = 1 .. Len(s)
         /\ Len(s) \in Nat /\ t[1] = a
         /\ \A i \in DOMAIN t : i # 1 => i - 1 \in DOMAIN s /\ t[i] = s[i - 1]
         /\ \A i \in DOMAIN s : i + 1 \in DOMAIN t /\ t[i + 1] = s[i]
<1>1. <<a>> \in Seq(S) /\ Len(<<a>>) = 1 /\ <<a>>[1] = a
  OBVIOUS
<1> DEFINE t == <<a>> \o s
<1>2. Len(s) \in Nat /\ DOMAIN s = 1 .. Len(s)
  BY LenProperties
<1>3. /\ t \in Seq(S) /\ Len(t) = 1 + Len(s)
      /\ \A i \in 1 .. Len(<<a>>) + Len(s) :
           t[i] = IF i <= Len(<<a>>) THEN <<a>>[i] ELSE s[i - Len(<<a>>)]
  BY <1>1, ConcatProperties
<1>4. DOMAIN t = 1 .. Len(s) + 1
  BY <1>2, <1>3, LenProperties
<1> HIDE DEF t
<1>5. t[1] = a
  BY <1>1, <1>2, <1>3
<1>6. ASSUME NEW i \in DOMAIN t, i # 1 PROVE i - 1 \in DOMAIN s /\ t[i] = s[i - 1]
  BY <1>1, <1>2, <1>3, <1>4, <1>6
<1>7. ASSUME NEW i \in DOMAIN s PROVE i + 1 \in DOMAIN t /\ t[i + 1] = s[i]
  BY <1>1, <1>2, <1>3, <1>4, <1>7
<1> QED BY <1>2, <1>3, <1>4, <1>5, <1>6, <1>7 DEF t

(* All but the first.                                                      *)
LEMMA WithoutFirst ==
  ASSUME NEW S, NEW s \in Seq(S), s # << >>
  PROVE  /\ Tail(s) \in Seq(S) /\ DOMAIN s = 1 .. Len(s) /\ Len(s) \in Nat
         /\ Len(s) > 0 /\ DOMAIN Tail(s) = 1 .. Len(s) - 1
         /\ \A i \in DOMAIN Tail(s) : i + 1 \in DOMAIN s /\ Tail(s)[i] = s[i + 1]
<1>1. Len(s) \in Nat /\ DOMAIN s = 1 .. Len(s) /\ Len(s) > 0
  BY LenProperties, EmptySeq
<1>2. /\ Tail(s) \in Seq(S) /\ Len(Tail(s)) = Len(s) - 1
      /\ \A i \in 1 .. Len(Tail(s)) : Tail(s)[i] = s[i + 1]
  BY HeadTailProperties
<1>3. DOMAIN Tail(s) = 1 .. Len(s) - 1
  BY <1>2, LenProperties
<1> QED BY <1>1, <1>2, <1>3

(* Another in the first place.                                             *)
LEMMA FirstReplaced ==
  ASSUME NEW S, NEW s \in Seq(S), s # << >>, NEW a \in S
  PROVE  LET t == <<a>> \o Tail(s) IN
         /\ t \in Seq(S) /\ DOMAIN t = DOMAIN s /\ DOMAIN s = 1 .. Len(s) /\ 1 \in DOMAIN s
         /\ t[1] = a /\ \A i \in DOMAIN s : i # 1 => t[i] = s[i]
<1> DEFINE t == <<a>> \o Tail(s)
           r == Tail(s)
<1>1. /\ r \in Seq(S) /\ DOMAIN s = 1 .. Len(s) /\ Len(s) \in Nat /\ Len(s) > 0
      /\ DOMAIN r = 1 .. Len(s) - 1 /\ \A i \in DOMAIN r : r[i] = s[i + 1]
  BY WithoutFirst
<1>2. /\ t \in Seq(S) /\ DOMAIN t = 1 .. Len(r) + 1 /\ DOMAIN r = 1 .. Len(r)
      /\ t[1] = a /\ Len(r) \in Nat
      /\ \A i \in DOMAIN t : i # 1 => i - 1 \in DOMAIN r /\ t[i] = r[i - 1]
  BY <1>1, InFront
<1>3. Len(r) = Len(s) - 1
  BY <1>1, HeadTailProperties
<1> HIDE DEF t, r
<1>4. DOMAIN t = DOMAIN s /\ 1 \in DOMAIN s
  BY <1>1, <1>2, <1>3
<1>5. ASSUME NEW i \in DOMAIN s, i # 1 PROVE t[i] = s[i]
  <2>1. i - 1 \in DOMAIN r /\ t[i] = r[i - 1] /\ i - 1 + 1 = i
    BY <1>1, <1>2, <1>4, <1>5
  <2> QED BY <1>1, <2>1
<1> QED BY <1>1, <1>2, <1>4 DEF t, r

(* The walk leaves a step.                                                 *)
LEMMA WalkLeaves ==
  ASSUME NEW g, NEW P \in Seq(Frames(g)), NEW C \in Seq(Ids(g)), NEW seen,
         WalkSound(g, P, seen, C), P # << >>, P[1].left = {}
  PROVE  /\ WalkSound(g, Tail(P), seen, Back(P, C))
         /\ Followed(g, Tail(P), seen) = Followed(g, P, seen)
         /\ Chained(Back(P, C)) = Chained(C) \cup {P[1].step}
         /\ P[1].step \notin Chained(C)
<1> DEFINE x == P[1].step
           Q == Tail(P)
           D == <<x>> \o C
<1>2. /\ DOMAIN P = 1 .. Len(P) /\ Len(P) \in Nat /\ Len(P) > 0 /\ 1 \in DOMAIN P
      /\ DOMAIN Q = 1 .. Len(P) - 1
      /\ \A i \in DOMAIN Q : i + 1 \in DOMAIN P /\ Q[i] = P[i + 1]
  BY WithoutFirst
<1>3. x \in Ids(g)
  <2>1. P[1] \in Frames(g)
    BY <1>2, ElementOfSeq
  <2> QED BY <2>1 DEF Frames
<1>4. /\ DOMAIN D = 1 .. Len(C) + 1 /\ DOMAIN C = 1 .. Len(C) /\ Len(C) \in Nat
      /\ D[1] = x
      /\ \A p \in DOMAIN D : p # 1 => p - 1 \in DOMAIN C /\ D[p] = C[p - 1]
      /\ \A p \in DOMAIN C : p + 1 \in DOMAIN D /\ D[p + 1] = C[p]
  BY <1>3, InFront
<1> HIDE DEF Q, D
<1>6. Once(P, seen, C) /\ Trail(g, P, C) /\ Ordered(g, C)
  BY DEF WalkSound
<1>7. x \in OnPath(P) /\ x \notin Chained(C)
  BY <1>2, <1>6 DEF OnPath, Once
<1>8. Chained(D) = Chained(C) \cup {x}
  <2>1. Chained(D) \subseteq Chained(C) \cup {x}
    BY <1>4 DEF Chained
  <2>2. 1 \in DOMAIN D
    BY <1>4
  <2>3. Chained(C) \cup {x} \subseteq Chained(D)
    BY <1>4, <2>2 DEF Chained
  <2> QED BY <2>1, <2>3
<1>9. OnPath(Q) = OnPath(P) \ {x}
  <2>1. ASSUME NEW i \in DOMAIN P, P[i].step # x PROVE P[i].step \in OnPath(Q)
    <3>1. i - 1 \in DOMAIN Q /\ i - 1 + 1 = i
      BY <1>2, <2>1
    <3>2. Q[i - 1] = P[i]
      BY <1>2, <3>1
    <3> QED BY <3>1, <3>2 DEF OnPath
  <2>2. ASSUME NEW i \in DOMAIN Q PROVE Q[i].step \in OnPath(P) \ {x}
    <3>1. i + 1 \in DOMAIN P /\ Q[i] = P[i + 1] /\ i + 1 # 1
      BY <1>2
    <3>2. P[i + 1].step # x
      BY <1>2, <1>6, <3>1 DEF Once
    <3> QED BY <3>1, <3>2 DEF OnPath
  <2> QED BY <2>1, <2>2 DEF OnPath
<1>10. Once(Q, seen, D)
  <2>1. ASSUME NEW i \in DOMAIN Q, NEW j \in DOMAIN Q, Q[i].step = Q[j].step
        PROVE  i = j
    <3>1. i + 1 = j + 1
      BY <1>2, <1>6, <2>1 DEF Once
    <3> QED BY <1>2, <3>1
  <2>2. ASSUME NEW p \in DOMAIN D, NEW q \in DOMAIN D, D[p] = D[q] PROVE p = q
    <3>1. \A r \in DOMAIN C : C[r] # x
      BY <1>7 DEF Chained
    <3>2. CASE p = 1 \/ q = 1
      BY <1>4, <2>2, <3>1, <3>2
    <3>3. CASE p # 1 /\ q # 1
      <4>1. p - 1 = q - 1
        BY <1>4, <1>6, <2>2, <3>3 DEF Once
      <4> QED BY <1>4, <4>1
    <3> QED BY <3>2, <3>3
  <2>3. OnPath(Q) \cap Chained(D) = {} /\ seen = OnPath(Q) \cup Chained(D)
    BY <1>6, <1>7, <1>8, <1>9 DEF Once
  <2> QED BY <2>1, <2>2, <2>3 DEF Once
<1>11. Trail(g, Q, D)
  <2>1. ASSUME NEW i \in DOMAIN Q, NEW j \in DOMAIN Q, i < j
        PROVE  Q[i].step \in descendants(g, Q[j].step)
    <3>1. /\ i + 1 \in DOMAIN P /\ j + 1 \in DOMAIN P /\ i + 1 < j + 1
          /\ Q[i] = P[i + 1] /\ Q[j] = P[j + 1]
      BY <1>2, <2>1
    <3> QED BY <1>6, <3>1 DEF Trail
  <2>2. ASSUME NEW i \in DOMAIN Q PROVE Q[i].left \subseteq PlacesOf(g, Q[i].step)
    BY <1>2, <1>6 DEF Trail
  <2>3. ASSUME NEW i \in DOMAIN Q, NEW k \in PlacesOf(g, Q[i].step) \ Q[i].left
        PROVE  \/ g.drawn[k].target \in Chained(D)
               \/ i > 1 /\ g.drawn[k].target = Q[i - 1].step
    <3>1. i + 1 \in DOMAIN P /\ Q[i] = P[i + 1] /\ i + 1 - 1 = i /\ i \in Nat
      BY <1>2
    <3>2. g.drawn[k].target \in Chained(C) \/ g.drawn[k].target = P[i].step
      BY <1>6, <2>3, <3>1 DEF Trail
    <3>3. CASE i = 1
      BY <1>8, <3>2, <3>3
    <3>4. CASE i # 1
      <4>1. i - 1 \in DOMAIN Q /\ i - 1 + 1 = i /\ i > 1
        BY <1>2, <3>1, <3>4
      <4>2. Q[i - 1] = P[i]
        BY <1>2, <4>1
      <4> QED BY <1>8, <3>2, <4>1, <4>2
    <3> QED BY <3>3, <3>4
  <2> QED BY <2>1, <2>2, <2>3 DEF Trail
<1>12. Ordered(g, D)
  <2> SUFFICES ASSUME NEW p \in DOMAIN D, NEW k \in PlacesOf(g, D[p])
               PROVE  \E q \in DOMAIN D : q > p /\ D[q] = g.drawn[k].target
    BY DEF Ordered
  <2>1. CASE p = 1
    <3>1. k \in PlacesOf(g, P[1].step) \ P[1].left
      BY <1>4, <2>1
    <3>2. g.drawn[k].target \in Chained(C)
      <4>1. \/ g.drawn[k].target \in Chained(C)
            \/ 1 > 1 /\ g.drawn[k].target = P[1 - 1].step
        BY <1>2, <1>6, <3>1, Zenon DEF Trail
      <4> QED BY <4>1
    <3>3. PICK r \in DOMAIN C : C[r] = g.drawn[k].target
      BY <3>2 DEF Chained
    <3>4. r + 1 \in DOMAIN D /\ D[r + 1] = C[r] /\ r + 1 > p
      BY <1>4, <2>1
    <3> QED BY <3>3, <3>4
  <2>2. CASE p # 1
    <3>1. p - 1 \in DOMAIN C /\ D[p] = C[p - 1]
      BY <1>4, <2>2
    <3>2. PICK r \in DOMAIN C : r > p - 1 /\ C[r] = g.drawn[k].target
      BY <1>6, <3>1 DEF Ordered
    <3>3. r + 1 \in DOMAIN D /\ D[r + 1] = C[r] /\ r + 1 > p
      BY <1>4, <3>1, <3>2
    <3> QED BY <3>2, <3>3
  <2> QED BY <2>1, <2>2
<1>13. Followed(g, Q, seen) = Followed(g, P, seen)
  <2>1. \A k : (\A i \in DOMAIN Q : k \notin Q[i].left)
                 <=> (\A i \in DOMAIN P : k \notin P[i].left)
    <3>1. ASSUME NEW k, \A i \in DOMAIN Q : k \notin Q[i].left, NEW i \in DOMAIN P
          PROVE  k \notin P[i].left
      <4>1. CASE i = 1
        BY <4>1
      <4>2. CASE i # 1
        <5>1. i - 1 \in DOMAIN Q /\ i - 1 + 1 = i
          BY <1>2, <4>2
        <5>2. Q[i - 1] = P[i]
          BY <1>2, <5>1
        <5> QED BY <3>1, <5>1, <5>2
      <4> QED BY <4>1, <4>2
    <3>2. ASSUME NEW k, \A i \in DOMAIN P : k \notin P[i].left, NEW i \in DOMAIN Q
          PROVE  k \notin Q[i].left
      BY <1>2, <3>2
    <3> QED BY <3>1, <3>2
  <2> QED BY <2>1 DEF Followed
<1>14. WalkSound(g, Q, seen, D)
  BY <1>10, <1>11, <1>12 DEF WalkSound
<1> QED BY <1>7, <1>8, <1>13, <1>14 DEF Q, D, Back

(* Only steps come on the path.                                            *)
LEMMA PathSteps ==
  ASSUME NEW g, NEW P \in Seq(Frames(g)), NEW i \in DOMAIN P
  PROVE  P[i].step \in Ids(g)
<1>1. P[i] \in Frames(g)
  BY ElementOfSeq, LenProperties
<1> QED BY <1>1 DEF Frames

(* The walk follows an edge to a step it has seen: one that it has left,   *)
(* since there is no loop.                                                 *)
LEMMA WalkPasses ==
  ASSUME NEW g, IsDrawing(g), Tidy(g), topologicallyOrdered(g),
         NEW P \in Seq(Frames(g)), NEW C \in Seq(Ids(g)), NEW seen,
         WalkSound(g, P, seen, C), P # << >>, NEW k \in P[1].left,
         g.drawn[k].target \in seen
  PROVE  /\ WalkSound(g, Along(P, k), seen, C) /\ k \notin Followed(g, P, seen)
         /\ Followed(g, Along(P, k), seen) = Followed(g, P, seen) \cup {k}
<1> DEFINE x == P[1].step
           y == g.drawn[k].target
           new == [step |-> x, left |-> P[1].left \ {k}]
           Q == <<new>> \o Tail(P)
<1>1. 1 \in DOMAIN P /\ DOMAIN P = 1 .. Len(P) /\ Len(P) \in Nat /\ P[1] \in Frames(g)
  BY WithoutFirst, ElementOfSeq
<1>2. new \in Frames(g)
  BY <1>1 DEF Frames
<1>3. /\ DOMAIN Q = DOMAIN P /\ Q[1] = new
      /\ \A i \in DOMAIN P : i # 1 => Q[i] = P[i]
  BY <1>2, FirstReplaced
<1> HIDE DEF Q
<1>4. Once(P, seen, C) /\ Trail(g, P, C) /\ Ordered(g, C)
  BY DEF WalkSound
<1>5. \A i \in DOMAIN P : Q[i].step = P[i].step
  BY <1>1, <1>3
<1>6. /\ k \in DOMAIN g.drawn /\ g.drawn[k].source = x /\ k \in PlacesOf(g, x)
      /\ \A i \in DOMAIN P : i # 1 => k \notin P[i].left
  <2>1. k \in PlacesOf(g, x)
    BY <1>1, <1>4 DEF Trail
  <2>2. ASSUME NEW i \in DOMAIN P, i # 1 PROVE k \notin P[i].left
    <3>1. P[i].step # x
      BY <1>1, <1>4, <2>2 DEF Once
    <3>2. P[i].left \subseteq PlacesOf(g, P[i].step)
      BY <1>4 DEF Trail
    <3> QED BY <2>1, <3>1, <3>2 DEF PlacesOf
  <2> QED BY <2>1, <2>2 DEF PlacesOf
<1>7. y \in Chained(C)
  <2>1. x \in Ids(g) /\ \A i \in DOMAIN P : P[i].step \in Ids(g)
    BY <1>1, PathSteps
  <2>2. g.drawn[k] \in g.edges
    BY <1>6, DrawnEnds
  <2>3. ASSUME NEW i \in DOMAIN P, y = P[i].step PROVE FALSE
    <3>1. y \in Ids(g) /\ y \notin descendants(g, y)
      BY <2>1, <2>3 DEF topologicallyOrdered
    <3>2. CASE i = 1
      BY <1>6, <2>1, <2>2, <2>3, <3>1, <3>2, DescendantsAreClosed
    <3>3. CASE i # 1
      <4>1. 1 < i
        BY <1>1, <3>3
      <4>2. x \in descendants(g, y)
        BY <1>1, <1>4, <2>3, <4>1 DEF Trail
      <4> QED BY <1>6, <2>2, <3>1, <4>2, DescendantsAreClosed DEF NoEdgeLeaves
    <3> QED BY <3>2, <3>3
  <2> QED BY <1>4, <2>3 DEF Once, OnPath
<1>8. Once(Q, seen, C)
  <2>1. OnPath(Q) = OnPath(P)
    BY <1>3, <1>5 DEF OnPath
  <2> QED BY <1>3, <1>4, <1>5, <2>1 DEF Once
<1>9. Trail(g, Q, C)
  <2>1. \A i, j \in DOMAIN Q : i < j => Q[i].step \in descendants(g, Q[j].step)
    BY <1>3, <1>4, <1>5 DEF Trail
  <2>2. \A i \in DOMAIN Q : Q[i].left \subseteq P[i].left
    BY <1>3
  <2>3. \A i \in DOMAIN Q : Q[i].left \subseteq PlacesOf(g, Q[i].step)
    BY <1>3, <1>4, <1>5, <2>2 DEF Trail
  <2>4. ASSUME NEW i \in DOMAIN Q, NEW m \in PlacesOf(g, Q[i].step) \ Q[i].left
        PROVE  \/ g.drawn[m].target \in Chained(C)
               \/ i > 1 /\ g.drawn[m].target = Q[i - 1].step
    <3>1. CASE m = k /\ i = 1
      BY <1>7, <3>1
    <3>2. CASE m # k \/ i # 1
      <4>1. m \in PlacesOf(g, P[i].step) \ P[i].left
        BY <1>3, <1>5, <2>4, <3>2
      <4>2. \/ g.drawn[m].target \in Chained(C)
            \/ i > 1 /\ g.drawn[m].target = P[i - 1].step
        BY <1>3, <1>4, <4>1, Zenon DEF Trail
      <4>3. i > 1 => i - 1 \in DOMAIN P
        BY <1>1, <1>3
      <4> QED BY <1>5, <4>2, <4>3
    <3> QED BY <3>1, <3>2
  <2> QED BY <2>1, <2>3, <2>4 DEF Trail
<1>10. k \notin Followed(g, P, seen)
  BY <1>1 DEF Followed
<1>11. Followed(g, Q, seen) = Followed(g, P, seen) \cup {k}
  <2>1. x \in seen
    BY <1>1, <1>4 DEF Once, OnPath
  <2>2. \A m \in DOMAIN g.drawn : m # k =>
          \A i \in DOMAIN P : m \in Q[i].left <=> m \in P[i].left
    BY <1>3
  <2>3. \A i \in DOMAIN P : k \notin Q[i].left
    BY <1>3, <1>6
  <2> QED BY <1>3, <1>6, <2>1, <2>2, <2>3 DEF Followed
<1>12. WalkSound(g, Q, seen, C)
  BY <1>4, <1>8, <1>9 DEF WalkSound
<1> QED BY <1>10, <1>11, <1>12 DEF Q, Along

(* The walk enters a step: it comes in front of the path, with all its     *)
(* edges left to follow.                                                   *)
LEMMA WalkEnters ==
  ASSUME NEW g, IsDrawing(g), Tidy(g),
         NEW P \in Seq(Frames(g)), NEW C \in Seq(Ids(g)), NEW seen,
         WalkSound(g, P, seen, C), P # << >>, NEW k \in P[1].left,
         g.drawn[k].target \notin seen, NEW after, after = seen \cup {g.drawn[k].target}
  PROVE  /\ WalkSound(g, Onto(g, P, k), after, C) /\ k \notin Followed(g, P, seen)
         /\ Followed(g, Onto(g, P, k), after) = Followed(g, P, seen) \cup {k}
<1> DEFINE x == P[1].step
           y == g.drawn[k].target
           new == [step |-> x, left |-> P[1].left \ {k}]
           on == <<new>> \o Tail(P)
           f == Frame(g.drawn, y)
           Q == <<f>> \o on
<1>1. 1 \in DOMAIN P /\ DOMAIN P = 1 .. Len(P) /\ Len(P) \in Nat /\ P[1] \in Frames(g)
  BY WithoutFirst, ElementOfSeq
<1>2. new \in Frames(g)
  BY <1>1 DEF Frames
<1>3. /\ on \in Seq(Frames(g)) /\ DOMAIN on = DOMAIN P /\ on[1] = new
      /\ \A i \in DOMAIN P : i # 1 => on[i] = P[i]
  BY <1>2, FirstReplaced
<1>4. Once(P, seen, C) /\ Trail(g, P, C) /\ Ordered(g, C)
  BY DEF WalkSound
<1>5. /\ k \in DOMAIN g.drawn /\ g.drawn[k].source = x /\ k \in PlacesOf(g, x)
      /\ \A i \in DOMAIN P : i # 1 => k \notin P[i].left
  <2>1. k \in PlacesOf(g, x)
    BY <1>1, <1>4 DEF Trail
  <2>2. ASSUME NEW i \in DOMAIN P, i # 1 PROVE k \notin P[i].left
    <3>1. P[i].step # x
      BY <1>1, <1>4, <2>2 DEF Once
    <3>2. P[i].left \subseteq PlacesOf(g, P[i].step)
      BY <1>4 DEF Trail
    <3> QED BY <2>1, <3>1, <3>2 DEF PlacesOf
  <2> QED BY <2>1, <2>2 DEF PlacesOf
<1>6. y \in Ids(g) /\ g.drawn[k] \in g.edges
  BY <1>5, DrawnEnds
<1>7. f \in Frames(g) /\ f.step = y /\ f.left = PlacesOf(g, y)
  BY <1>6, FrameIsFrame DEF Frame, PlacesOf
<1> HIDE DEF on, f
<1>8. /\ DOMAIN Q = 1 .. Len(on) + 1 /\ DOMAIN on = 1 .. Len(on) /\ Len(on) \in Nat
      /\ Q[1] = f
      /\ \A i \in DOMAIN Q : i # 1 => i - 1 \in DOMAIN on /\ Q[i] = on[i - 1]
      /\ \A i \in DOMAIN on : i + 1 \in DOMAIN Q /\ Q[i + 1] = on[i]
  BY <1>3, <1>7, InFront
<1> HIDE DEF Q
<1>9. \A i \in DOMAIN P : on[i].step = P[i].step
  BY <1>1, <1>3
<1>10. \A i \in DOMAIN Q : i # 1 => i - 1 \in DOMAIN P /\ Q[i].step = P[i - 1].step
  BY <1>3, <1>8, <1>9
<1>11. x \in seen /\ y # x /\ \A i \in DOMAIN P : P[i].step # y
  BY <1>1, <1>4 DEF Once, OnPath
<1>12. OnPath(Q) = OnPath(P) \cup {y}
  <2>1. \A i \in DOMAIN Q : Q[i].step \in OnPath(P) \cup {y}
    BY <1>7, <1>8, <1>10 DEF OnPath
  <2>2. 1 \in DOMAIN Q
    BY <1>8
  <2>3. \A i \in DOMAIN P : i + 1 \in DOMAIN Q /\ Q[i + 1].step = P[i].step
    BY <1>3, <1>8, <1>9
  <2>4. \A i \in DOMAIN P : P[i].step \in OnPath(Q)
    BY <2>3 DEF OnPath
  <2>5. y \in OnPath(Q)
    BY <1>7, <1>8, <2>2 DEF OnPath
  <2> HIDE DEF y
  <2> QED BY <2>1, <2>4, <2>5 DEF OnPath
<1>13. Once(Q, seen \cup {y}, C)
  <2>1. ASSUME NEW i \in DOMAIN Q, NEW j \in DOMAIN Q, Q[i].step = Q[j].step
        PROVE  i = j
    <3>1. CASE i = 1 \/ j = 1
      BY <1>7, <1>8, <1>10, <1>11, <2>1, <3>1
    <3>2. CASE i # 1 /\ j # 1
      <4>1. i - 1 = j - 1
        BY <1>4, <1>10, <2>1, <3>2 DEF Once
      <4> QED BY <1>8, <4>1
    <3> QED BY <3>1, <3>2
  <2>2. OnPath(Q) \cap Chained(C) = {} /\ seen \cup {y} = OnPath(Q) \cup Chained(C)
    BY <1>4, <1>12 DEF Once
  <2> QED BY <1>4, <2>1, <2>2 DEF Once
<1>14. Trail(g, Q, C)
  <2>1. ASSUME NEW i \in DOMAIN Q, NEW j \in DOMAIN Q, i < j
        PROVE  Q[i].step \in descendants(g, Q[j].step)
    <3>1. j # 1 /\ j - 1 \in DOMAIN P /\ Q[j].step = P[j - 1].step
      BY <1>8, <1>10, <2>1
    <3>2. CASE i = 1
      <4>1. x \in Ids(g) /\ P[j - 1].step \in Ids(g)
        BY <1>1, <3>1, PathSteps
      <4>2. CASE j - 1 = 1
        BY <1>5, <1>6, <1>7, <1>8, <3>1, <3>2, <4>1, <4>2, DescendantsAreClosed
      <4>3. CASE j - 1 # 1
        <5>1. x \in descendants(g, P[j - 1].step)
          <6>1. 1 < j - 1
            <7>1. j - 1 \in 1 .. Len(P)
              BY <1>1, <3>1
            <7> QED BY <1>1, <4>3, <7>1
          <6> QED BY <1>1, <1>4, <3>1, <6>1, Zenon DEF Trail
        <5>2. NoEdgeLeaves(g, descendants(g, P[j - 1].step))
          BY <4>1, DescendantsAreClosed
        <5> QED BY <1>5, <1>6, <1>7, <1>8, <3>1, <3>2, <5>1, <5>2 DEF NoEdgeLeaves
      <4> QED BY <4>2, <4>3
    <3>3. CASE i # 1
      <4>1. i - 1 \in DOMAIN P /\ Q[i].step = P[i - 1].step /\ i - 1 < j - 1
        BY <1>8, <1>10, <2>1, <3>3
      <4> QED BY <1>4, <3>1, <4>1 DEF Trail
    <3> QED BY <3>2, <3>3
  <2>2. ASSUME NEW i \in DOMAIN Q PROVE Q[i].left \subseteq PlacesOf(g, Q[i].step)
    <3>1. CASE i = 1
      BY <1>7, <1>8, <3>1
    <3>2. CASE i # 1
      <4>1. i - 1 \in DOMAIN P /\ Q[i] = on[i - 1] /\ Q[i].step = P[i - 1].step
        BY <1>3, <1>8, <1>10, <3>2
      <4>2. on[i - 1].left \subseteq P[i - 1].left
        BY <1>3, <4>1
      <4> QED BY <1>4, <4>1, <4>2 DEF Trail
    <3> QED BY <3>1, <3>2
  <2>3. ASSUME NEW i \in DOMAIN Q, NEW m \in PlacesOf(g, Q[i].step) \ Q[i].left
        PROVE  \/ g.drawn[m].target \in Chained(C)
               \/ i > 1 /\ g.drawn[m].target = Q[i - 1].step
    <3>1. i # 1 /\ i > 1
      BY <1>7, <1>8, <2>3
    <3>2. i - 1 \in DOMAIN P /\ Q[i] = on[i - 1] /\ Q[i].step = P[i - 1].step
      BY <1>3, <1>8, <1>10, <3>1
    <3>3. CASE m = k
      <4>1. P[i - 1].step = x
        BY <1>5, <2>3, <3>2, <3>3 DEF PlacesOf
      <4>2. i - 1 = 1
        BY <1>1, <1>4, <3>2, <4>1 DEF Once
      <4> QED BY <1>7, <1>8, <3>1, <3>3, <4>2
    <3>4. CASE m # k
      <4>1. m \in PlacesOf(g, P[i - 1].step) \ P[i - 1].left
        BY <1>3, <2>3, <3>2, <3>4
      <4>2. \/ g.drawn[m].target \in Chained(C)
            \/ i - 1 > 1 /\ g.drawn[m].target = P[i - 1 - 1].step
        BY <1>4, <3>2, <4>1, Zenon DEF Trail
      <4>3. i - 1 > 1 => /\ i - 1 \in DOMAIN Q /\ i - 1 # 1
        BY <1>8, <3>1
      <4>4. i - 1 > 1 => Q[i - 1].step = P[i - 1 - 1].step
        BY <1>10, <4>3
      <4> QED BY <3>1, <4>2, <4>4
    <3> QED BY <3>3, <3>4
  <2> QED BY <2>1, <2>2, <2>3 DEF Trail
<1>15. k \notin Followed(g, P, seen)
  BY <1>1 DEF Followed
<1>16. Followed(g, Q, seen \cup {y}) = Followed(g, P, seen) \cup {k}
  <2>1. ASSUME NEW m \in Followed(g, Q, seen \cup {y}), m # k
        PROVE  m \in Followed(g, P, seen)
    <3>1. m \in DOMAIN g.drawn /\ m \notin PlacesOf(g, y)
      BY <1>7, <1>8, <2>1 DEF Followed
    <3>2. g.drawn[m].source \in seen
      BY <2>1, <3>1 DEF Followed, PlacesOf
    <3>3. ASSUME NEW i \in DOMAIN P PROVE m \notin P[i].left
      <4>1. m \notin on[i].left
        BY <1>3, <1>8, <2>1 DEF Followed
      <4> QED BY <1>3, <2>1, <4>1
    <3> QED BY <3>1, <3>2, <3>3 DEF Followed
  <2>2. ASSUME NEW m \in Followed(g, P, seen) \cup {k}
        PROVE  m \in Followed(g, Q, seen \cup {y})
    <3>1. m \in DOMAIN g.drawn /\ g.drawn[m].source \in seen
      BY <1>5, <1>11, <2>2 DEF Followed
    <3>2. m \notin PlacesOf(g, y)
      BY <3>1 DEF PlacesOf
    <3>3. ASSUME NEW i \in DOMAIN P PROVE m \notin on[i].left
      <4>1. CASE m = k
        BY <1>3, <1>5, <4>1
      <4>2. CASE m # k
        <5>1. m \notin P[i].left
          BY <2>2, <4>2 DEF Followed
        <5> QED BY <1>3, <5>1
      <4> QED BY <4>1, <4>2
    <3>4. \A i \in DOMAIN Q : m \notin Q[i].left
      BY <1>3, <1>7, <1>8, <3>2, <3>3
    <3> QED BY <3>1, <3>4 DEF Followed
  <2> QED BY <2>1, <2>2, k \in Followed(g, Q, seen \cup {y})
<1>17. WalkSound(g, Q, seen \cup {y}, C)
  BY <1>4, <1>13, <1>14 DEF WalkSound
<1> QED BY <1>15, <1>16, <1>17 DEF Q, on, f, Along, Onto

-----------------------------------------------------------------------------
(* Compiling: the order of the steps                                       *)

(* what holds of the walk after n visits; none is wasted until it ends     *)
WalkedTo(g, w, n) ==
  /\ WalkSound(g, w.path, w.seen, w.chain) /\ Entry(g) \in w.seen
  /\ w.path # << >> =>
       Cardinality(Followed(g, w.path, w.seen)) + Cardinality(Chained(w.chain)) = n

(* The steps of the chain and the edges that were followed are finitely    *)
(* many.                                                                   *)
LEMMA WalkSizes ==
  ASSUME NEW g, IsDrawing(g), NEW w \in Walks(g)
  PROVE  LET F == Followed(g, w.path, w.seen)
             C == Chained(w.chain)
         IN  /\ IsFiniteSet(F) /\ Cardinality(F) \in Nat /\ Cardinality(F) <= Len(g.drawn)
             /\ IsFiniteSet(C) /\ Cardinality(C) \in Nat
             /\ C \subseteq Ids(g) /\ Cardinality(C) <= Cardinality(Ids(g))
             /\ Len(g.drawn) \in Nat /\ Cardinality(Ids(g)) \in Nat
<1> DEFINE F == Followed(g, w.path, w.seen)
           C == Chained(w.chain)
<1>1. Len(g.drawn) \in Nat /\ DOMAIN g.drawn = 1 .. Len(g.drawn)
  BY LenProperties DEF IsDrawing
<1>2. IsFiniteSet(1 .. Len(g.drawn)) /\ Cardinality(1 .. Len(g.drawn)) = Len(g.drawn)
  BY <1>1, FS_Interval
<1>3. F \subseteq 1 .. Len(g.drawn)
  BY <1>1 DEF Followed
<1>4. C \subseteq Ids(g)
  <2>1. w.chain \in Seq(Ids(g))
    BY DEF Walks
  <2> QED BY <2>1, ElementOfSeq, LenProperties DEF Chained
<1>5. IsFiniteSet(Ids(g)) /\ Cardinality(Ids(g)) \in Nat
  BY FS_CardinalityType DEF IsDrawing
<1> HIDE DEF F, C
<1>6. IsFiniteSet(F) /\ Cardinality(F) <= Len(g.drawn)
  BY <1>2, <1>3, FS_Subset
<1>7. IsFiniteSet(C) /\ Cardinality(C) <= Cardinality(Ids(g))
  BY <1>4, <1>5, FS_Subset
<1> QED BY <1>1, <1>4, <1>5, <1>6, <1>7, FS_CardinalityType DEF F, C

(* Each visit keeps it so.                                                 *)
LEMMA WalkGoesOn ==
  ASSUME NEW g, IsDrawing(g), Tidy(g), topologicallyOrdered(g), NEW w \in Walks(g),
         NEW n \in Nat, WalkedTo(g, w, n)
  PROVE  WalkedTo(g, Further(g, w), n + 1)
<1> DEFINE v == visit(w, g.drawn)
<1>1. CASE w.path = << >>
  BY <1>1 DEF WalkedTo, Further
<1>2. CASE w.path # << >>
  <2> DEFINE P == w.path
             F == Followed(g, P, w.seen)
             C == Chained(w.chain)
  <2>1. /\ P \in Seq(Frames(g)) /\ w.chain \in Seq(Ids(g))
        /\ WalkSound(g, P, w.seen, w.chain) /\ Entry(g) \in w.seen
        /\ Cardinality(F) + Cardinality(C) = n
    BY <1>2 DEF WalkedTo, Walks
  <2>2. /\ IsFiniteSet(F) /\ IsFiniteSet(C)
        /\ Cardinality(F) \in Nat /\ Cardinality(C) \in Nat
    BY WalkSizes
  <2>3. ASSUME GoesBack(w, v) PROVE WalkedTo(g, v, n + 1)
    <3> DEFINE x == P[1].step
    <3>1. /\ P[1].left = {} /\ P # << >>
          /\ v.path = Tail(P) /\ v.seen = w.seen /\ v.chain = Back(P, w.chain)
      BY <1>2, <2>3 DEF GoesBack
    <3> HIDE DEF v, P
    <3>2. /\ WalkSound(g, Tail(P), w.seen, Back(P, w.chain))
          /\ Followed(g, Tail(P), w.seen) = F
          /\ Chained(Back(P, w.chain)) = C \cup {x} /\ x \notin C
      BY <2>1, <3>1, WalkLeaves
    <3>3. /\ WalkSound(g, v.path, v.seen, v.chain) /\ Followed(g, v.path, v.seen) = F
          /\ Chained(v.chain) = C \cup {x}
      BY <3>1, <3>2
    <3> HIDE DEF F, C, x
    <3>4. Cardinality(C \cup {x}) = Cardinality(C) + 1
      BY <2>2, <3>2, FS_AddElement
    <3>5. Cardinality(F) + (Cardinality(C) + 1) = n + 1
      BY <2>1, <2>2
    <3>7. /\ Cardinality(Chained(v.chain)) = Cardinality(C) + 1
          /\ Cardinality(Followed(g, v.path, v.seen)) = Cardinality(F)
      BY <3>3, <3>4
    <3>6. Entry(g) \in v.seen
      BY <2>1, <3>1
    <3> QED BY <3>3, <3>5, <3>6, <3>7 DEF WalkedTo
  <2>4. ASSUME NEW k, NEW Q, NEW seen, v.path = Q, v.seen = seen, v.chain = w.chain,
               WalkSound(g, Q, seen, w.chain), k \notin F, w.seen \subseteq seen,
               Followed(g, Q, seen) = F \cup {k}
        PROVE  WalkedTo(g, v, n + 1)
    <3>1. Chained(v.chain) = C
      BY <2>4
    <3> HIDE DEF F, C, v
    <3>2. Cardinality(F \cup {k}) = Cardinality(F) + 1
      BY <2>2, <2>4, FS_AddElement
    <3>3. Cardinality(F) + 1 + Cardinality(C) = n + 1
      BY <2>1, <2>2
    <3> QED BY <2>1, <2>4, <3>1, <3>2, <3>3 DEF WalkedTo
  <2>5. ASSUME NEW k \in P[1].left, PassesOver(g, w, v, k) PROVE WalkedTo(g, v, n + 1)
    <3>1. /\ g.drawn[k].target \in w.seen /\ P # << >>
          /\ v.path = Along(P, k) /\ v.seen = w.seen /\ v.chain = w.chain
      BY <1>2, <2>5 DEF PassesOver
    <3> HIDE DEF P, v
    <3>2. /\ WalkSound(g, Along(P, k), w.seen, w.chain) /\ k \notin F
          /\ Followed(g, Along(P, k), w.seen) = F \cup {k}
      BY <2>1, <3>1, WalkPasses
    <3> HIDE DEF F
    <3> QED BY <2>4, <3>1, <3>2
  <2>6. ASSUME NEW k \in P[1].left, Enters(g, w, v, k) PROVE WalkedTo(g, v, n + 1)
    <3> DEFINE more == w.seen \cup {g.drawn[k].target}
    <3>1. /\ g.drawn[k].target \notin w.seen /\ P # << >>
          /\ v.path = Onto(g, P, k) /\ v.seen = more /\ v.chain = w.chain
      BY <1>2, <2>6 DEF Enters
    <3> HIDE DEF P, v
    <3>2. /\ WalkSound(g, Onto(g, P, k), more, w.chain) /\ k \notin F
          /\ Followed(g, Onto(g, P, k), more) = F \cup {k}
      <4>1. more = w.seen \cup {g.drawn[k].target}
        OBVIOUS
      <4> HIDE DEF more
      <4>2. /\ WalkSound(g, P, w.seen, w.chain) /\ g.drawn[k].target \notin w.seen
            /\ P # << >> /\ P \in Seq(Frames(g)) /\ w.chain \in Seq(Ids(g))
        BY <2>1, <3>1
      <4> QED BY ONLY <4>1, <4>2, WalkEnters, IsDrawing(g), Tidy(g), k \in P[1].left
    <3>3. w.seen \subseteq more
      OBVIOUS
    <3> HIDE DEF F, more
    <3> QED BY <2>4, <3>1, <3>2, <3>3
  <2>7. GoesBack(w, v) \/ \E k \in P[1].left : PassesOver(g, w, v, k) \/ Enters(g, w, v, k)
    BY <1>2, VisitMoves
  <2>8. Further(g, w) = v
    BY <1>2 DEF Further
  <2> HIDE DEF v, P
  <2> QED BY <2>3, <2>5, <2>6, <2>7, <2>8
<1> QED BY <1>1, <1>2

(* What the server compiles to is every step once, and each before those   *)
(* it leads to (compileFlow: "a node always lands before everything it     *)
(* leads to").                                                             *)
THEOREM ChainIsInOrder ==
  ASSUME NEW g, IsDrawing(g), compiles(g)
  PROVE  LET chain == compiledChain(g, g.drawn) IN
         /\ chain \in Seq(Ids(g)) /\ Chained(chain) = Ids(g)
         /\ \A p, q \in DOMAIN chain : chain[p] = chain[q] => p = q
         /\ \A e \in g.edges, p \in DOMAIN chain : chain[p] = e.source =>
              \E q \in DOMAIN chain : q > p /\ chain[q] = e.target
<1>1. /\ Tidy(g) /\ topologicallyOrdered(g) /\ Entry(g) \in Ids(g) /\ Ids(g) # {}
      /\ Ids(g) \subseteq {Entry(g)} \cup descendants(g, Entry(g))
  BY CompilesSoundly
<1>2. PICK w : Visits(g, w)
  BY <1>1, ChainIsWalked
<1> DEFINE T == {n \in Nat : WalkedTo(g, w[n], n)}
           N == 2 * Cardinality(Ids(g)) + Len(g.drawn)
<1>3. \A n \in Nat : w[n] \in Walks(g) /\ w[n + 1] = Further(g, w[n])
  BY <1>2 DEF Visits
<1>4. 0 \in T
  <2> DEFINE x == Entry(g)
             f == Frame(g.drawn, x)
             P == <<f>>
             E == << >>
  <2>1. w[0] = [path |-> P, seen |-> {x}, chain |-> E]
    BY <1>2 DEF Visits, WalkBegin
  <2>2. /\ DOMAIN P = {1} /\ P[1] = f /\ DOMAIN E = {}
        /\ f.step = x /\ f.left = PlacesOf(g, x)
    BY DEF Frame, PlacesOf
  <2> HIDE DEF P, E, f, x
  <2>3. OnPath(P) = {x} /\ Chained(E) = {}
    BY <2>2 DEF OnPath, Chained
  <2>4. Once(P, {x}, E)
    BY <2>2, <2>3 DEF Once
  <2>5. Trail(g, P, E) /\ Ordered(g, E)
    BY <2>2 DEF Trail, Ordered
  <2>6. Followed(g, P, {x}) = {}
    BY <2>2 DEF Followed, PlacesOf
  <2>7. Cardinality(Followed(g, P, {x})) + Cardinality(Chained(E)) = 0
    BY <2>3, <2>6, FS_EmptySet
  <2>8. WalkedTo(g, w[0], 0)
    BY <2>1, <2>4, <2>5, <2>7 DEF WalkedTo, WalkSound, x
  <2> QED BY <2>8
<1>5. \A n \in Nat : n \in T
  <2>1. \A n \in Nat : n \in T => n + 1 \in T
    BY <1>1, <1>3, WalkGoesOn
  <2> HIDE DEF T
  <2> QED BY <1>4, <2>1, SetInduction
<1>6. Cardinality(Ids(g)) \in Nat /\ Cardinality(Ids(g)) # 0 /\ Len(g.drawn) \in Nat
  BY <1>1, FS_CardinalityType, FS_EmptySet, LenProperties DEF IsDrawing
<1>7. N \in Nat
  BY <1>6
<1> DEFINE v == w[N]
           chain == v.chain
<1>8. v \in Walks(g) /\ WalkedTo(g, v, N)
  <2> HIDE DEF N
  <2> QED BY <1>3, <1>5, <1>7
<1>9. compiledChain(g, g.drawn) = chain
  BY <1>2 DEF Visits
<1>10. v.path = << >>
  <2> DEFINE F == Followed(g, v.path, v.seen)
             C == Chained(v.chain)
  <2> HIDE DEF v
  <2>1. /\ Cardinality(F) \in Nat /\ Cardinality(F) <= Len(g.drawn)
        /\ Cardinality(C) \in Nat /\ Cardinality(C) <= Cardinality(Ids(g))
    BY <1>8, WalkSizes
  <2>2. v.path # << >> => Cardinality(F) + Cardinality(C) = N
    BY <1>8 DEF WalkedTo
  <2> HIDE DEF F, C
  <2> QED BY <1>6, <2>1, <2>2
<1> HIDE DEF v, T
<1>11. /\ Once(v.path, v.seen, chain) /\ Ordered(g, chain) /\ Entry(g) \in v.seen
       /\ chain \in Seq(Ids(g))
  BY <1>8 DEF WalkedTo, WalkSound, Walks
<1> HIDE DEF chain
<1>12. v.seen = Chained(chain)
  BY <1>10, <1>11 DEF Once, OnPath
<1>13. \A e \in g.edges, p \in DOMAIN chain : chain[p] = e.source =>
         \E q \in DOMAIN chain : q > p /\ chain[q] = e.target
  <2> SUFFICES ASSUME NEW e \in g.edges, NEW p \in DOMAIN chain, chain[p] = e.source
               PROVE  \E q \in DOMAIN chain : q > p /\ chain[q] = e.target
    OBVIOUS
  <2>1. PICK k \in DOMAIN g.drawn : g.drawn[k] = e
    BY DEF IsDrawing
  <2>2. k \in PlacesOf(g, chain[p])
    BY <2>1 DEF PlacesOf
  <2> QED BY <1>11, <2>1, <2>2 DEF Ordered
<1>14. Ids(g) \subseteq Chained(chain)
  <2>1. NoEdgeLeaves(g, Chained(chain))
    BY <1>13 DEF NoEdgeLeaves, Chained
  <2>2. \A e \in g.edges : e.source = Entry(g) => e.target \in Chained(chain)
    BY <1>11, <1>12, <2>1 DEF NoEdgeLeaves
  <2>3. descendants(g, Entry(g)) \subseteq Chained(chain)
    BY <1>1, <2>1, <2>2, DescendantsAreLeast
  <2> QED BY <1>1, <1>11, <1>12, <2>3
<1>15. Chained(chain) \subseteq Ids(g)
  BY <1>11, ElementOfSeq, LenProperties DEF Chained
<1> QED BY <1>9, <1>11, <1>13, <1>14, <1>15 DEF Once
=============================================================================
