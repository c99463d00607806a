--------------------------- MODULE PublishingProps --------------------------
(***************************************************************************)
(* What whoever publishes a flow may count on when it runs.                *)
(***************************************************************************)
EXTENDS Publishing

Started == {d \in Deliveries : runs[d].status # "none"}
RowOf(id) == CHOOSE v \in rows : v.id = id

(* Versions have ids of their own, a process compiles what is there, and a *)
(* run has every step of the version it was created from exactly once.     *)
TypeOK ==
  /\ \A f \in Flows : catalog[f] \in {"absent", "live", "archived"}
  /\ catalog[Default] = "live"
  /\ \A v, w \in rows : v.id = w.id => v = w
  /\ \A p \in Procs : compiled[p] \subseteq rows
  /\ \A d \in Started : LET r == runs[d] IN
       /\ \E v \in rows : v.id = r.version /\ v.doc = r.made
       /\ ToSet(r.chain) = Ids(Drawing[r.made]) /\ IsInjective(r.chain)
       /\ DOMAIN r.steps = ToSet(r.chain)
       /\ r.sent \subseteq ToSet(r.chain)
       /\ \A o \in r.outputs : o.step \in ToSet(r.chain)
       /\ r.status \in {"running", "failed", "succeeded"}

(* what the editor draws: a step has one input at most                     *)
Drawable(g) == \A d, e \in g.edges : d.target = e.target => d = e
Editable == {doc \in Documents : /\ Drawable(Drawing[doc])
                                 /\ canPublish(validate(Drawing[doc]))}

(* In a flow the editor draws and lets publish, a step at work finds every *)
(* value it refers to, but of those steps that are at work beside it or    *)
(* have failed: it never waits for one that was passed over, is yet to     *)
(* begin or is not there, whichever arms are taken and whatever overlaps   *)
(* (validation.ts, compileFlow, the skip marks of a branch,                *)
(* nextRunnableStep).                                                      *)
OnlyUnfinishedMissed ==
  \A d \in Started : LET r == runs[d] IN
    r.made \in Editable /\ r.group = 1 =>
      \A x \in {y \in DOMAIN r.steps : r.steps[y] = "running"} :
        \A y \in resolveConfig(Drawing[r.made].nodes[x], r) :
          y \in DOMAIN r.steps /\ r.steps[y] \in {"running", "retry", "failed"}

(* what the conditions lead to, as far as they have been asked, if those   *)
(* branches in `open` are followed both ways                               *)
Path(r, open) ==
  LET g == Drawing[r.made]
      taken(x) == {m.arm : m \in {n \in r.meant : n.step = x}}
      goes(e) == \/ g.nodes[e.source].kind # "branch"
                 \/ e.source \in open
                 \/ e.handle \in taken(e.source)
      then == [x \in Ids(g) |-> {e.target : e \in {k \in g.edges :
                                              k.source = x /\ goes(k)}}]
      start == roots(g)
  IN  start \cup UNION {walk(then, x) : x \in start}

(* A branch reads its condition as it was meant, if it can read it.        *)
ReadingsHold ==
  \A c \in Readings : answers[c].ok => takenArm(answers[c]) = c.means

(* the branches that have begun and not decided                            *)
undecided(r) ==
  {x \in DOMAIN r.steps : /\ Drawing[r.made].nodes[x].kind = "branch"
                          /\ r.steps[x] \in {"running", "retry", "failed"}}

Begins(d, x) ==
  /\ runs[d].status # "none" /\ x \in DOMAIN runs[d].steps
  /\ runs[d].steps[x] = "pending" /\ runs'[d].steps[x] = "running"

(* A step begins only where the conditions lead, save that a branch which  *)
(* is still at work cuts nothing off yet, and a run that succeeds has done *)
(* everything they lead to (branching.ts, the skip marks of a branch,      *)
(* nextRunnableStep).                                                      *)
OnlyPathRuns ==
  [][\A d \in Deliveries : LET r == runs[d] IN
       r.status # "none" /\ r.group = 1 =>
         /\ \A x \in {y \in DOMAIN r.steps : Begins(d, y)} : x \in Path(r, undecided(r))
         /\ r.status # "succeeded" /\ runs'[d].status = "succeeded" =>
              \A x \in Path(r, {}) : r.steps[x] = "succeeded"]_vars

(* What a run has done was of the version it was created from.             *)
RunsKeepVersion ==
  \A d \in Started : \A o \in runs[d].outputs : o.doc = runs[d].made

(* A run keeps the version it began with, whatever is published meanwhile  *)
(* and whichever process takes its next step, and it is shown on that      *)
(* version: no step of it is missing there, and no step of one that        *)
(* succeeded looks unfinished (FlowStore, flowFor, sendRun, runs.ts).      *)
HistoryIsItsOwn ==
  /\ RunsKeepVersion
  /\ view.pc = "read" =>
       /\ sendRun.graph = runs[view.run].made
       /\ DOMAIN sendRun.outcomes = Ids(Drawing[sendRun.graph])
       /\ sendRun.status = "succeeded" =>
            \A x \in DOMAIN sendRun.outcomes :
              sendRun.outcomes[x] \in {"succeeded", "skipped"}

(* A delivery is run on the version that was live when it arrived or on a  *)
(* later one, through any process (onAccepted, FlowStore.current).         *)
NewRunsAreCurrent ==
  \A d \in Started : \A v \in hand[d].floor :
    ~Later(v, RowOf(runs[d].version))
=============================================================================
