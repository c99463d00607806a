---------------------------- MODULE MCPublishing ----------------------------
(***************************************************************************)
(* Two flows of two steps and one that does not compile, whose versions    *)
(* are told apart by their steps; a branch behind another branch, one      *)
(* whose arms meet again, and one with a third way out.                    *)
(***************************************************************************)
EXTENDS PublishingProps, TLC

t == "t"
b == "b"
c == "c"
x == "x"
y == "y"
z == "z"

Step(kind, reads) ==
  [kind |-> kind, at |-> 0, fields |-> "set", reads |-> reads]
Drawn(nodes, drawn) ==
  [nodes |-> nodes, drawn |-> drawn, edges |-> {drawn[i] : i \in DOMAIN drawn}]

Trigger == t :> Step("trigger", {})
Note == Drawn(Trigger @@ (x :> Step("email", {t})), <<Edge(t, x, NoHandle)>>)
Call == Drawn(Trigger @@ (y :> Step("http", {t})), <<Edge(t, y, NoHandle)>>)

BranchSteps == Trigger @@ (b :> Step("branch", {t}))
                 @@ (x :> Step("http", {t})) @@ (y :> Step("http", {t, b}))
Nested == Drawn(BranchSteps @@ (c :> Step("branch", {b}))
                  @@ (z :> Step("http", {b, c})),
                <<Edge(b, c, "no"), Edge(c, z, "yes"), Edge(t, b, NoHandle),
                  Edge(b, x, "yes"), Edge(c, y, "no")>>)
Join == Drawn(BranchSteps, <<Edge(b, y, "no"), Edge(t, b, NoHandle),
                             Edge(b, x, "yes"), Edge(x, y, NoHandle)>>)
Open == Drawn(BranchSteps, <<Edge(t, b, NoHandle), Edge(b, x, "yes")>>)
Third == Drawn([BranchSteps EXCEPT ![b].reads = {}] @@ (z :> Step("http", {})),
               <<Edge(t, b, NoHandle), Edge(b, x, "yes"), Edge(b, y, "no"),
                 Edge(b, z, NoHandle)>>)

MCDrawing == ("note" :> Note) @@ ("call" :> Call) @@ ("open" :> Open)
MCBranches == ("nested" :> Nested) @@ ("join" :> Join)
MCThird == ("third" :> Third)
MCQuote == "'"

MCSymmetry == Permutations(Procs)

MCNumber == ("1" :> 1) @@ ("2" :> 2)
Says(text, means) == [text |-> text, means |-> means]
MCReadings ==
  {Says(<<"a", "=", "a">>, "yes"),
   Says(<<MCQuote, "a", "and", "b", MCQuote, "does not contain", "a">>, "no"),
   Says(<<"2", ">", "1", "and", "c", "is in", "a", ",", "c">>, "yes"),
   Says(<<"a", ">", "1">>, "no")}

ASSUME ReadingsHold
=============================================================================
