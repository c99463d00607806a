----------------------------- MODULE Publishing -----------------------------
(***************************************************************************)
(* From a press of Publish to the run of a step (app/src): processes that  *)
(* share a database, with the flows and their endpoints, the versions that *)
(* were published, and the runs.  A version is a row that is inserted once *)
(* and never changed.  A run keeps the version it was created from, and    *)
(* every process compiles the versions it needs and keeps them.  The       *)
(* engine there is what decides which steps begin and what they find:      *)
(* workers claim, record and advance in any order, as they do in           *)
(* DurableRun, which has the leases, the budgets and the queue in full.    *)
(*                                                                         *)
(* A document is a name of a graph: Drawing[doc] is [nodes, edges, drawn],  *)
(* with the order of its edges.                                            *)
(***************************************************************************)
EXTENDS FlowCompile, Conditions, SequencesExt

CONSTANTS
  Procs, Flows,
  Default,      \* the flow that is seeded at every start
  Drawing,      \* what may be published, by its name
  Builtin,      \* the document the seed publishes
  VersionIds,   \* drawn at random: their order says nothing
  Deliveries,
  Readings,     \* what a branch's condition may read as, and mean
  MaxLosses     \* how many steps fail, processes die and runs are resumed

None == "none"
Documents == DOMAIN Drawing

PublishingAssumption ==
  /\ Default \in Flows /\ Builtin \in Documents /\ compiles(Drawing[Builtin])
  /\ VersionIds \subseteq Nat \ {0} /\ MaxLosses \in Nat
  /\ \A doc \in Documents : LET g == Drawing[doc] IN
       IsFiniteSet(Ids(g)) /\ g.drawn \in Seq(g.edges) /\ g.edges = ToSet(g.drawn)
ASSUME PublishingAssumption

VARIABLES
  catalog,    \* flow -> its state; a live one's endpoint takes deliveries
  rows,       \* published_flows: a set of [id, flow, doc, at]
  requests,   \* publishings under way: the row and who inserts it
  now,        \* the clock of the database, in milliseconds
  up,         \* processes that have started
  compiled,   \* process -> the rows it has compiled and keeps
  hand,       \* delivery -> where the hand-off of it is
  runs,       \* delivery -> the run it started
  view,       \* a run that is being read for the editor
  losses

vars == <<catalog, rows, requests, now, up, compiled, hand, runs, view, losses>>

Row(id, f, doc, at) == [id |-> id, flow |-> f, doc |-> doc, at |-> at]
Demo == 1     \* the id of every process's seed

(* what the server compiles a document to, if it does                      *)
compileFlow ==
  [doc \in {doc \in Documents : compiles(Drawing[doc])} |->
     [chain |-> compiledChain(Drawing[doc], Drawing[doc].drawn),
      edges |-> compiledEdges(Drawing[doc])]]

NotHere == [pc |-> "away", proc |-> None, flow |-> None, floor |-> {},
            live |-> {}]
NoRun == [status |-> "none"]
NoView == [pc |-> "idle"]

Init ==
  /\ catalog = [f \in Flows |-> IF f = Default THEN "live" ELSE "absent"]
  /\ rows = {} /\ requests = {} /\ now = 1
  /\ up = {} /\ compiled = [p \in Procs |-> {}]
  /\ hand = [d \in Deliveries |-> NotHere]
  /\ runs = [d \in Deliveries |-> NoRun]
  /\ view = NoView /\ losses = 0

-----------------------------------------------------------------------------
(* Versions                                                                *)

Later(v, w) == v.at > w.at \/ (v.at = w.at /\ v.id > w.id)

(* Slip: sorted the wrong way round                                        *)
currentSlip(f) == {v \in rows : v.flow = f
                     /\ \A w \in rows : w.flow = f => ~Later(v, w)}

(* the version of new runs, if there is one                                *)
current(f) == {v \in rows : v.flow = f
                 /\ \A w \in rows : w.flow = f => ~Later(w, v)}

(* Slip: what was compiled is found again by flow, not by version          *)
resolverSlip(p, id) ==
  LET row == CHOOSE v \in rows : v.id = id
      kept == {v \in compiled[p] : v.flow = row.flow}
  IN  IF kept # {} THEN CHOOSE v \in kept : TRUE ELSE row

resolver(p, id) ==
  LET kept == {v \in compiled[p] : v.id = id}
  IN  IF kept # {} THEN CHOOSE v \in kept : TRUE
      ELSE CHOOSE v \in rows : v.id = id

Keeps(p, row) == compiled' = [compiled EXCEPT ![p] = @ \cup {row}]

Used == {v.id : v \in rows} \cup {r.row.id : r \in requests}

(* a graph that does not compile is answered at once and stored nowhere;   *)
(* published_at is the time the insert begins; an archived flow is found   *)
(* by its endpoint still                                                   *)
Publish(p, f, doc, id) ==
  /\ p \in up /\ catalog[f] # "absent"
  /\ id \in VersionIds \ (Used \cup {Demo})
  /\ doc \in DOMAIN compileFlow
  /\ requests' = requests \cup {[proc |-> p, row |-> Row(id, f, doc, now)]}
  /\ UNCHANGED <<catalog, rows, now, up, compiled, hand, runs, view, losses>>

Inserted(r) ==
  /\ r.row.id # Demo
  /\ rows' = rows \cup {r.row} /\ requests' = requests \ {r}
  /\ Keeps(r.proc, r.row)
  /\ UNCHANGED <<catalog, now, up, hand, runs, view, losses>>

MillisecondPasses ==
  /\ \E r \in requests : r.row.at = now
  /\ now' = now + 1
  /\ UNCHANGED <<catalog, rows, requests, up, compiled, hand, runs, view,
                 losses>>

(* A process starts: the flow and its endpoint are there already, and what *)
(* is live is looked for.  Two that find nothing insert the same id, and   *)
(* the second does not come up.                                            *)
Seeding(p) == \E r \in requests : r.proc = p /\ r.row.id = Demo

Boot(p) ==
  /\ p \notin up /\ ~Seeding(p)
  /\ IF current(Default) # {} THEN up' = up \cup {p} /\ UNCHANGED requests
     ELSE /\ requests' = requests \cup
                {[proc |-> p, row |-> Row(Demo, Default, Builtin, now)]}
          /\ UNCHANGED up
  /\ UNCHANGED <<catalog, rows, now, compiled, hand, runs, view, losses>>

(* Slip: the seed's id is no key                                           *)
SeededSlip(p) ==
  \E r \in requests :
    /\ r.proc = p /\ r.row.id = Demo
    /\ requests' = requests \ {r}
    /\ rows' = rows \cup {r.row} /\ up' = up \cup {p} /\ Keeps(p, r.row)
    /\ UNCHANGED <<catalog, now, hand, runs, view, losses>>

Seeded(p) ==
  \E r \in requests :
    /\ r.proc = p /\ r.row.id = Demo
    /\ requests' = requests \ {r}
    /\ IF \E v \in rows : v.id = Demo
       THEN UNCHANGED <<rows, up, compiled>>
       ELSE rows' = rows \cup {r.row} /\ up' = up \cup {p} /\ Keeps(p, r.row)
    /\ UNCHANGED <<catalog, now, hand, runs, view, losses>>

(* what a process was doing is over; an insert it sent may still arrive    *)
Die(p) ==
  /\ p \in up /\ losses < MaxLosses /\ losses' = losses + 1
  /\ up' = up \ {p} /\ compiled' = [compiled EXCEPT ![p] = {}]
  /\ LET mine == {r \in requests : r.proc = p} IN
       \/ rows' = rows
       \/ mine # {} /\ rows' = rows \cup {r.row : r \in mine}
     /\ requests' = requests \ mine
  /\ hand' = [d \in Deliveries |->
                IF hand[d].proc = p /\ hand[d].pc # "done"
                THEN [hand[d] EXCEPT !.pc = "done"] ELSE hand[d]]
  /\ view' = IF view.pc = "read" THEN NoView ELSE view
  /\ UNCHANGED <<catalog, now, runs>>

-----------------------------------------------------------------------------
(* Flows                                                                   *)

CreateFlow(f) ==
  /\ up # {} /\ catalog[f] = "absent"
  /\ catalog' = [catalog EXCEPT ![f] = "live"]
  /\ UNCHANGED <<rows, requests, now, up, compiled, hand, runs, view, losses>>

(* the endpoint is switched off in the same transaction                    *)
Archive(f) ==
  /\ up # {} /\ catalog[f] = "live" /\ f # Default
  /\ catalog' = [catalog EXCEPT ![f] = "archived"]
  /\ UNCHANGED <<rows, requests, now, up, compiled, hand, runs, view, losses>>

-----------------------------------------------------------------------------
(* Deliveries                                                              *)

OnlyHands == UNCHANGED <<catalog, rows, requests, now, up, view, losses>>

(* the gate finds the endpoint; what is published by now is noted down     *)
Arrive(d, p, f) ==
  /\ hand[d].pc = "away" /\ p \in up /\ catalog[f] = "live"
  /\ hand' = [hand EXCEPT ![d] = [pc |-> "owner", proc |-> p, flow |-> f,
                                  floor |-> {v \in rows : v.flow = f},
                                  live |-> {}]]
  /\ UNCHANGED <<compiled, runs>> /\ OnlyHands

(* the endpoint is read again for its tenant and flow                      *)
ReadOwner(d) ==
  /\ hand[d].pc = "owner"
  /\ hand' = [hand EXCEPT ![d].pc =
                IF catalog[hand[d].flow] = "live" THEN "current" ELSE "done"]
  /\ UNCHANGED <<compiled, runs>> /\ OnlyHands

ReadCurrent(d) ==
  /\ hand[d].pc = "current"
  /\ LET live == current(hand[d].flow) IN
       hand' = [hand EXCEPT ![d].live = live,
                  ![d].pc = IF live = {} THEN "done" ELSE "create"]
  /\ UNCHANGED <<compiled, runs>> /\ OnlyHands

(* every step of the definition becomes a pending row, in its order        *)
CreateRun(d) ==
  /\ hand[d].pc = "create"
  /\ \E live \in hand[d].live :
       LET row == resolver(hand[d].proc, live.id)
           chain == compileFlow[row.doc].chain
       IN  /\ runs' = [runs EXCEPT ![d] =
                [status |-> "running", version |-> live.id, group |-> 1,
                 chain |-> chain, made |-> row.doc, sent |-> {},
                 steps |-> [x \in ToSet(chain) |-> "pending"],
                 outputs |-> {}, meant |-> {}]]
           /\ Keeps(hand[d].proc, row)
  /\ hand' = [hand EXCEPT ![d].pc = "done"]
  /\ OnlyHands

-----------------------------------------------------------------------------
(* Steps                                                                   *)

reachableFrom(edges, from) ==
  LET Nodes == {e.from : e \in edges} \cup {e.to : e \in edges}
      next == [x \in Nodes |-> {e.to : e \in {d \in edges : d.from = x}}]
  IN  from \cup UNION {walk(next, x) : x \in from}

(* Slip: all that the other arm leads to, joins included                   *)
stepsToSkipSlip(edges, x, taken) ==
  reachableFrom(edges, {e.to : e \in {d \in edges :
                          d.from = x /\ d.arm \in Arms \ {taken}}})

(* what only the other arm leads to                                        *)
stepsToSkip(edges, x, taken) ==
  LET heads(arms) == {e.to : e \in {d \in edges : d.from = x /\ d.arm \in arms}}
  IN  reachableFrom(edges, heads(Arms \ {taken}))
        \ reachableFrom(edges, heads({taken}))

(* Which step is sent for next: the first that is pending, unless one      *)
(* before it failed for good.  One that runs is no blocker, nor one that   *)
(* will be tried again.                                                    *)
isNextRunnable(r, i) ==
  /\ r.steps[r.chain[i]] = "pending"
  /\ \A j \in DOMAIN r.chain :
       j < i => r.steps[r.chain[j]] \notin {"pending", "failed"}

finishOrWait(r) ==
  LET statuses == {r.steps[x] : x \in DOMAIN r.steps}
  IN  IF "failed" \in statuses THEN [r EXCEPT !.status = "failed"]
      ELSE IF statuses \subseteq {"succeeded", "skipped", "skipped_resumed"}
      THEN [r EXCEPT !.status = "succeeded"]
      ELSE r

(* Any process, for any of the messages that ask it to look at a run: the  *)
(* janitor makes more of them while a step runs whose lease has lapsed.    *)
advanceRun(d) ==
  /\ up # {} /\ runs[d].status = "running"
  /\ LET r == runs[d]
         next == {i \in DOMAIN r.chain : isNextRunnable(r, i)}
     IN  runs' = [runs EXCEPT ![d] =
           IF next = {} THEN finishOrWait(r)
           ELSE [r EXCEPT !.sent = @ \cup {r.chain[i] : i \in next}]]
  /\ UNCHANGED <<catalog, rows, requests, now, up, compiled, hand, view, losses>>

(* A message for a step may come again at any time, also once the run is   *)
(* over.  A step whose lease has lapsed is claimed as it is: it goes on    *)
(* running.                                                                *)
claimStep(d, x) ==
  /\ up # {} /\ runs[d].status # "none" /\ x \in runs[d].sent
  /\ runs[d].steps[x] \in {"pending", "retry"}
  /\ runs' = [runs EXCEPT ![d].steps[x] = "running"]
  /\ UNCHANGED <<catalog, rows, requests, now, up, compiled, hand, view, losses>>

(* what a reference finds: outputs of steps that succeeded, and of those a *)
(* resume passed over, if they have one                                    *)
upstream(r) == {x \in {o.step : o \in r.outputs} :
                  r.steps[x] \in {"succeeded", "skipped_resumed"}}

(* the references in the settings of a step that find nothing              *)
resolveConfig(node, r) == node.reads \ upstream(r)

(* tried again, or failed for good                                         *)
Fails(r, x) == {[r EXCEPT !.steps[x] = s] : s \in {"retry", "failed"}}

(* the output is kept; which version it was made by is noted down          *)
Succeeds(r, x, doc) ==
  [r EXCEPT !.steps[x] = "succeeded",
            !.outputs = @ \cup {[step |-> x, doc |-> doc]}]

(* a step that is passed over was pending                                  *)
Passes(r, skip) ==
  [r EXCEPT !.steps = [x \in DOMAIN @ |->
     IF x \in skip /\ @[x] = "pending" THEN "skipped" ELSE @[x]]]

answers == [c \in Readings |-> evaluateCondition(c.text)]

takenArm(a) == IF a.value THEN "yes" ELSE "no"

(* A branch that cannot read its condition fails for good; what it meant   *)
(* is noted down.                                                          *)
Branches(r, x, doc) ==
  {LET edges == compileFlow[doc].edges
       a == answers[c]
       noted == [r EXCEPT !.meant = @ \cup {[step |-> x, arm |-> c.means]}]
   IN  IF ~a.ok THEN [noted EXCEPT !.steps[x] = "failed"]
       ELSE Succeeds(Passes(noted, stepsToSkip(edges, x, takenArm(a))), x, doc) :
     c \in Readings}

(* the version a run is of, whichever process asks                         *)
flowFor(p, r) == resolver(p, r.version)

(* An attempt comes to its end: its references are looked up, the handler  *)
(* does its work, and the result is recorded by whoever holds the step.    *)
runStep(p, d, x) ==
  /\ p \in up /\ runs[d].status # "none" /\ x \in DOMAIN runs[d].steps
  /\ runs[d].steps[x] = "running"
  /\ LET r == runs[d]
         row == flowFor(p, r)
         node == Drawing[row.doc].nodes[x]
         missing == resolveConfig(node, r)
         ends(outcomes) == \E s \in outcomes : runs' = [runs EXCEPT ![d] = s]
     IN  /\ Keeps(p, row)
         /\ \/ missing # {} /\ ends(Fails(r, x)) /\ UNCHANGED losses
            \/ /\ missing = {} /\ node.kind = "branch"
               /\ ends(Branches(r, x, row.doc)) /\ UNCHANGED losses
            \/ /\ missing = {} /\ node.kind # "branch"
               /\ ends({Succeeds(r, x, row.doc)}) /\ UNCHANGED losses
            \/ /\ missing = {} /\ node.kind # "branch" /\ ends(Fails(r, x))
               /\ losses < MaxLosses /\ losses' = losses + 1
  /\ UNCHANGED <<catalog, rows, requests, now, up, hand, view>>

(* A run that stopped goes on from a step: all before it is passed over,   *)
(* whatever it was at.  Messages are not withdrawn.                        *)
resumeRun(d, x) ==
  /\ up # {} /\ runs[d].status = "failed" /\ x \in DOMAIN runs[d].steps
  /\ losses < MaxLosses /\ losses' = losses + 1
  /\ LET r == runs[d]
         place(y) == CHOOSE i \in DOMAIN r.chain : r.chain[i] = y
         before == {y \in DOMAIN r.steps : place(y) < place(x)}
     IN  runs' = [runs EXCEPT ![d] =
           [r EXCEPT !.status = "running", !.group = @ + 1,
              !.outputs = {o \in @ : o.step \in before},
              !.steps = [y \in DOMAIN @ |->
                 IF y \in before THEN "skipped_resumed" ELSE "pending"]]]
  /\ UNCHANGED <<catalog, rows, requests, now, up, compiled, hand, view>>

-----------------------------------------------------------------------------
(* The editor asks for a run: the run, then its steps, then its version    *)

toViewerOutcome(status, over) ==
  CASE status \in {"succeeded", "skipped_resumed"} -> "succeeded"
    [] status \in {"failed", "retry"} -> "failed"
    [] status = "skipped" -> "skipped"
    [] OTHER -> IF over THEN "not_reached" ELSE "running"

OnlyView == UNCHANGED <<catalog, rows, requests, now, up, compiled, hand, runs,
                        losses>>

ReadRun(d) ==
  /\ up # {} /\ view = NoView /\ runs[d].status # "none"
  /\ view' = [pc |-> "read", run |-> d, status |-> runs[d].status]
  /\ OnlyView

byVersion(d) == CHOOSE v \in rows : v.id = runs[d].version

(* what is sent once all three are read                                    *)
sendRun ==
  LET r == runs[view.run]
      over == view.status # "running"
  IN  [status |-> view.status, graph |-> byVersion(view.run).doc,
       outcomes |-> [x \in DOMAIN r.steps |->
                       toViewerOutcome(r.steps[x], over)]]

SendRun ==
  /\ view.pc = "read" /\ view' = NoView
  /\ OnlyView

-----------------------------------------------------------------------------
Next ==
  \/ \E p \in Procs : Boot(p) \/ Seeded(p) \/ Die(p)
  \/ \E p \in Procs, f \in Flows, doc \in Documents, id \in VersionIds :
       Publish(p, f, doc, id)
  \/ \E r \in requests : Inserted(r)
  \/ MillisecondPasses
  \/ \E f \in Flows : CreateFlow(f) \/ Archive(f)
  \/ \E d \in Deliveries, p \in Procs, f \in Flows : Arrive(d, p, f)
  \/ \E d \in Deliveries : ReadOwner(d) \/ ReadCurrent(d) \/ CreateRun(d)
  \/ \E d \in Deliveries : advanceRun(d)
  \/ \E d \in Deliveries, doc \in Documents : \E x \in Ids(Drawing[doc]) :
       claimStep(d, x) \/ resumeRun(d, x) \/ \E p \in Procs : runStep(p, d, x)
  \/ \E d \in Deliveries : ReadRun(d)
  \/ SendRun

Spec == Init /\ [][Next]_vars
=============================================================================
