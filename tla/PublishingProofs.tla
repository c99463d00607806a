-------------------------- MODULE PublishingProofs --------------------------
(***************************************************************************)
(* A run is of one version, the one that was live when its delivery came   *)
(* or a later one, and every process that takes a step of it takes it from *)
(* that version: for any number of processes, flows, versions, deliveries  *)
(* and failures.                                                           *)
(*                                                                         *)
(* The induction rests on the ids: no two rows have the same, and nobody   *)
(* is about to insert one that is there (Unique, Fresh), so whatever a     *)
(* process finds under an id, compiled or not, is the row (FindsRow).      *)
(*                                                                         *)
(* Every step of the system creates a run, sends for steps of one, claims  *)
(* a step, ends an attempt, resumes a run or leaves it (RunsGoOn), so what *)
(* is true of runs is shown for these six: the shape of a run, that steps  *)
(* begin in the order of the chain, however they overlap, and that what    *)
(* only a passed over step leads to is passed over.                        *)
(***************************************************************************)
EXTENDS PublishingProps, FlowGraphsProofs

Compiled == {doc \in Documents : compiles(Drawing[doc])}

RowState == [id : Nat, flow : Flows, doc : Compiled, at : Nat]
HandState ==
  [pc : {"away", "owner", "current", "create", "done"}, proc : Procs \cup {None},
   flow : Flows \cup {None}, floor : SUBSET RowState, live : SUBSET RowState]

Typed ==
  /\ rows \subseteq RowState /\ requests \subseteq [proc : Procs, row : RowState]
  /\ now \in Nat /\ compiled \in [Procs -> SUBSET rows]
  /\ hand \in [Deliveries -> HandState] /\ DOMAIN runs = Deliveries

Unique == \A v, w \in rows : v.id = w.id => v = w

Fresh ==
  /\ \A r \in requests : r.row.id # Demo =>
       /\ \A v \in rows : v.id # r.row.id
       /\ \A q \in requests : q.row.id = r.row.id => q = r
  /\ \A r \in requests : r.row.id = Demo =>
       /\ r.proc \notin up
       /\ \A q \in requests : q.row.id = Demo /\ q.proc = r.proc => q = r

HandOK(d) ==
  /\ hand[d].pc \in {"owner", "current", "create"} => hand[d].proc \in Procs
  /\ \A v \in hand[d].floor : v \in rows /\ v.flow = hand[d].flow
  /\ \A l \in hand[d].live :
       l \in rows /\ \A v \in hand[d].floor : ~ Later(v, l)

Fields == {"status", "version", "group", "chain", "made", "sent", "steps",
           "outputs", "meant"}

RunOK(d) ==
  runs[d].status # "none" =>
    /\ hand[d].pc = "done" /\ DOMAIN runs[d] = Fields
    /\ \E v \in rows : /\ v.id = runs[d].version /\ v.doc = runs[d].made
                       /\ \A u \in hand[d].floor : ~ Later(u, v)
    /\ \A o \in runs[d].outputs : o.doc = runs[d].made

Versions == Typed /\ Unique /\ Fresh
IInv == Versions /\ \A d \in Deliveries : HandOK(d) /\ RunOK(d)

-----------------------------------------------------------------------------
(* Versions                                                                *)

(* What a process finds under an id is the row of that id.                 *)
LEMMA FindsRow ==
  ASSUME Typed, Unique, NEW p \in Procs, NEW v \in rows
  PROVE  resolver(p, v.id) = v
<1>1. compiled[p] \subseteq rows
  BY DEF Typed
<1>2. CASE {w \in compiled[p] : w.id = v.id} # {}
  <2> DEFINE kept == {w \in compiled[p] : w.id = v.id}
  <2>1. (CHOOSE w \in kept : TRUE) \in kept
    BY <1>2
  <2>2. (CHOOSE w \in kept : TRUE) = v
    BY <1>1, <2>1 DEF Unique
  <2> QED BY <1>2, <2>2 DEF resolver
<1>3. CASE {w \in compiled[p] : w.id = v.id} = {}
  <2>1. (CHOOSE w \in rows : w.id = v.id) = v
    BY DEF Unique
  <2> QED BY <1>3, <2>1 DEF resolver
<1> QED BY <1>2, <1>3

(* Rows that are added take nothing from deliveries and runs.              *)
LEMMA RowsGrow ==
  ASSUME IInv, rows \subseteq rows', UNCHANGED runs,
         \A d \in Deliveries :
           /\ hand'[d].floor = hand[d].floor /\ hand'[d].live = hand[d].live
           /\ hand'[d].flow = hand[d].flow /\ hand'[d].proc = hand[d].proc
           /\ hand'[d].pc \in {hand[d].pc, "done"}
  PROVE  \A d \in Deliveries : HandOK(d)' /\ RunOK(d)'
<1> SUFFICES ASSUME NEW d \in Deliveries PROVE HandOK(d)' /\ RunOK(d)'
  OBVIOUS
<1>1. HandOK(d) /\ RunOK(d)
  BY DEF IInv
<1>2. HandOK(d)'
  BY <1>1 DEF HandOK, Later
<1>3. RunOK(d)'
  BY <1>1 DEF RunOK, Later
<1> QED BY <1>2, <1>3

(* A publishing draws an id that nobody has.                               *)
LEMMA PublishKeeps ==
  ASSUME IInv, NEW p \in Procs, NEW f \in Flows, NEW doc \in Documents,
         NEW id \in VersionIds, Publish(p, f, doc, id)
  PROVE  IInv'
<1> DEFINE r == [proc |-> p, row |-> Row(id, f, doc, now)]
<1>1. /\ requests' = requests \cup {r} /\ id \notin Used /\ id # Demo
      /\ UNCHANGED <<rows, now, up, compiled, hand, runs>>
  BY DEF Publish
<1>2. r \in [proc : Procs, row : RowState] /\ r.row.id = id
  <2>1. doc \in Compiled
    BY DEF Publish, compileFlow, Compiled
  <2>2. id \in Nat
    BY PublishingAssumption DEF PublishingAssumption
  <2> QED BY <2>1, <2>2 DEF IInv, Versions, Typed, RowState, Row
<1>3. Typed'
  BY <1>1, <1>2 DEF IInv, Versions, Typed
<1>4. Unique'
  BY <1>1 DEF IInv, Versions, Unique
<1>5. (\A v \in rows : v.id # id) /\ (\A q \in requests : q.row.id # id)
  BY <1>1 DEF Used
<1> HIDE DEF r
<1>6. Fresh'
  BY <1>1, <1>2, <1>5 DEF IInv, Versions, Fresh
<1>7. \A d \in Deliveries : HandOK(d)' /\ RunOK(d)'
  BY <1>1, RowsGrow
<1> QED BY <1>3, <1>4, <1>6, <1>7 DEF IInv, Versions

(* The row of a publishing arrives under the id that was drawn for it.     *)
LEMMA InsertedKeeps ==
  ASSUME IInv, NEW r \in requests, Inserted(r)
  PROVE  IInv'
<1>1. /\ r.row.id # Demo /\ rows' = rows \cup {r.row} /\ requests' = requests \ {r}
      /\ compiled' = [compiled EXCEPT ![r.proc] = @ \cup {r.row}]
      /\ UNCHANGED <<now, up, hand, runs>>
  BY DEF Inserted, Keeps
<1>2. r.proc \in Procs /\ r.row \in RowState
  BY DEF IInv, Versions, Typed
<1>3. /\ \A v \in rows : v.id # r.row.id
      /\ \A q \in requests : q.row.id = r.row.id => q = r
  BY <1>1 DEF IInv, Versions, Fresh
<1>4. Typed'
  BY <1>1, <1>2 DEF IInv, Versions, Typed
<1>5. Unique'
  BY <1>1, <1>3 DEF IInv, Versions, Unique
<1>6. Fresh'
  BY <1>1, <1>3 DEF IInv, Versions, Fresh
<1>7. \A d \in Deliveries : HandOK(d)' /\ RunOK(d)'
  BY <1>1, RowsGrow
<1> QED BY <1>4, <1>5, <1>6, <1>7 DEF IInv, Versions

(* A process that starts asks for the seed, or comes up.                   *)
LEMMA BootKeeps ==
  ASSUME IInv, NEW p \in Procs, Boot(p)
  PROVE  IInv'
<1> DEFINE r == [proc |-> p, row |-> Row(Demo, Default, Builtin, now)]
<1>1. /\ p \notin up /\ ~ Seeding(p)
      /\ UNCHANGED <<rows, now, compiled, hand, runs>>
      /\ \/ up' = up \cup {p} /\ UNCHANGED requests
         \/ up' = up /\ requests' = requests \cup {r}
  BY DEF Boot
<1>2. r \in [proc : Procs, row : RowState] /\ r.row.id = Demo /\ r.proc = p
  <2>1. Default \in Flows /\ Builtin \in Compiled
    BY PublishingAssumption DEF PublishingAssumption, Compiled
  <2> QED BY <2>1 DEF IInv, Versions, Typed, RowState, Row, Demo
<1>3. \A q \in requests : ~ (q.proc = p /\ q.row.id = Demo)
  BY <1>1 DEF Seeding
<1> HIDE DEF r
<1>4. Typed'
  BY <1>1, <1>2 DEF IInv, Versions, Typed
<1>5. Unique'
  BY <1>1 DEF IInv, Versions, Unique
<1>6. Fresh'
  BY <1>1, <1>2, <1>3 DEF IInv, Versions, Fresh
<1>7. \A d \in Deliveries : HandOK(d)' /\ RunOK(d)'
  BY <1>1, RowsGrow
<1> QED BY <1>4, <1>5, <1>6, <1>7 DEF IInv, Versions

(* The seed is inserted unless one is there.                               *)
LEMMA SeededKeeps ==
  ASSUME IInv, NEW p \in Procs, Seeded(p)
  PROVE  IInv'
<1>1. PICK r \in requests :
        /\ r.proc = p /\ r.row.id = Demo /\ requests' = requests \ {r}
        /\ UNCHANGED <<now, hand, runs>>
        /\ \/ UNCHANGED <<rows, up, compiled>>
           \/ /\ \A v \in rows : v.id # Demo
              /\ rows' = rows \cup {r.row} /\ up' = up \cup {p}
              /\ compiled' = [compiled EXCEPT ![p] = @ \cup {r.row}]
  BY DEF Seeded, Keeps
<1>2. r.row \in RowState
  BY DEF IInv, Versions, Typed
<1>3. \A q \in requests : q.row.id = Demo /\ q.proc = p => q = r
  BY <1>1 DEF IInv, Versions, Fresh
<1>4. Typed'
  BY <1>1, <1>2 DEF IInv, Versions, Typed
<1>5. Unique'
  BY <1>1 DEF IInv, Versions, Unique
<1>6. Fresh'
  BY <1>1, <1>3 DEF IInv, Versions, Fresh
<1>7. \A d \in Deliveries : HandOK(d)' /\ RunOK(d)'
  BY <1>1, RowsGrow
<1> QED BY <1>4, <1>5, <1>6, <1>7 DEF IInv, Versions

(* A process that dies has asked for no seed, and what it sent to be       *)
(* inserted arrives or does not.                                           *)
LEMMA DieKeeps ==
  ASSUME IInv, NEW p \in Procs, Die(p)
  PROVE  IInv'
<1> DEFINE mine == {r \in requests : r.proc = p}
<1>1. /\ p \in up /\ up' = up \ {p} /\ compiled' = [compiled EXCEPT ![p] = {}]
      /\ requests' = requests \ mine /\ UNCHANGED <<now, runs>>
      /\ rows' = rows \/ rows' = rows \cup {r.row : r \in mine}
      /\ hand' = [d \in Deliveries |->
                    IF hand[d].proc = p /\ hand[d].pc # "done"
                    THEN [hand[d] EXCEPT !.pc = "done"] ELSE hand[d]]
  BY DEF Die
<1>2. \A r \in mine : r.row.id # Demo /\ r.row \in RowState
  BY <1>1 DEF IInv, Versions, Typed, Fresh
<1>3. \A r \in mine : /\ \A v \in rows : v.id # r.row.id
                      /\ \A q \in requests : q.row.id = r.row.id => q = r
  BY <1>2 DEF IInv, Versions, Fresh
<1>4. \A d \in Deliveries : /\ hand[d] \in HandState /\ hand'[d] \in HandState
                           /\ hand'[d].floor = hand[d].floor
                           /\ hand'[d].live = hand[d].live
                           /\ hand'[d].flow = hand[d].flow
                           /\ hand'[d].proc = hand[d].proc
                           /\ hand'[d].pc \in {hand[d].pc, "done"}
  <2> SUFFICES ASSUME NEW d \in Deliveries
               PROVE  /\ hand[d] \in HandState /\ hand'[d] \in HandState
                      /\ hand'[d].floor = hand[d].floor
                      /\ hand'[d].live = hand[d].live
                      /\ hand'[d].flow = hand[d].flow
                      /\ hand'[d].proc = hand[d].proc
                      /\ hand'[d].pc \in {hand[d].pc, "done"}
    OBVIOUS
  <2>1. hand[d] \in HandState
    BY DEF IInv, Versions, Typed
  <2>2. hand'[d] \in {hand[d], [hand[d] EXCEPT !.pc = "done"]}
    BY <1>1
  <2> QED BY <2>1, <2>2 DEF HandState
<1>5. rows \subseteq rows' /\ rows' \subseteq rows \cup {r.row : r \in mine}
  BY <1>1
<1> HIDE DEF mine
<1>6. Typed'
  <2>1. rows' \subseteq RowState
    BY <1>2, <1>5 DEF IInv, Versions, Typed
  <2>2. compiled' \in [Procs -> SUBSET rows']
    BY <1>1, <1>5 DEF IInv, Versions, Typed
  <2>3. hand' \in [Deliveries -> HandState]
    BY <1>1, <1>4
  <2> QED BY <1>1, <2>1, <2>2, <2>3 DEF IInv, Versions, Typed
<1>7. Unique'
  BY <1>3, <1>5 DEF IInv, Versions, Unique, mine
<1>8. Fresh'
  <2>1. \A r \in requests' : r \in requests /\ r \notin mine
    BY <1>1
  <2>2. \A r \in requests' : r.row.id # Demo => \A v \in rows' : v.id # r.row.id
    BY <1>3, <1>5, <2>1 DEF IInv, Versions, Fresh
  <2> QED BY <1>1, <2>1, <2>2 DEF IInv, Versions, Fresh
<1>9. \A d \in Deliveries : HandOK(d)' /\ RunOK(d)'
  BY <1>1, <1>4, <1>5, RowsGrow
<1> QED BY <1>6, <1>7, <1>8, <1>9 DEF IInv, Versions

-----------------------------------------------------------------------------
(* Deliveries                                                              *)

(* One delivery's hand-off moves on before it has a run.                   *)
LEMMA HandMoves ==
  ASSUME IInv, NEW d \in Deliveries, NEW h \in HandState, hand[d].pc # "done",
         hand' = [hand EXCEPT ![d] = h], UNCHANGED <<compiled, runs>>, OnlyHands,
         h.pc \in {"owner", "current", "create"} => h.proc \in Procs,
         \A v \in h.floor : v \in rows /\ v.flow = h.flow,
         \A l \in h.live : l \in rows /\ \A v \in h.floor : ~ Later(v, l)
  PROVE  IInv'
<1>1. UNCHANGED <<rows, requests, now, up, compiled, runs>>
  BY DEF OnlyHands
<1>2. hand \in [Deliveries -> HandState]
  BY DEF IInv, Versions, Typed
<1>3. Versions'
  BY <1>1, <1>2 DEF IInv, Versions, Typed, Unique, Fresh
<1>4. ASSUME NEW c \in Deliveries PROVE HandOK(c)' /\ RunOK(c)'
  <2>1. HandOK(c) /\ RunOK(c)
    BY DEF IInv
  <2>2. CASE c = d
    <3>1. hand'[c] = h /\ runs[c].status = "none"
      BY <1>2, <2>1, <2>2 DEF RunOK
    <3> QED BY <1>1, <3>1 DEF HandOK, RunOK, Later
  <2>3. CASE c # d
    <3>1. hand'[c] = hand[c]
      BY <1>2, <2>3
    <3> QED BY <1>1, <2>1, <3>1 DEF HandOK, RunOK, Later
  <2> QED BY <2>2, <2>3
<1> QED BY <1>3, <1>4 DEF IInv

(* A delivery notes down the rows of its flow as it arrives.               *)
LEMMA ArriveKeeps ==
  ASSUME IInv, NEW d \in Deliveries, NEW p \in Procs, NEW f \in Flows,
         Arrive(d, p, f)
  PROVE  IInv'
<1> DEFINE h == [pc |-> "owner", proc |-> p, flow |-> f,
                 floor |-> {v \in rows : v.flow = f}, live |-> {}]
<1>1. /\ hand[d].pc # "done" /\ hand' = [hand EXCEPT ![d] = h]
      /\ UNCHANGED <<compiled, runs>> /\ OnlyHands
  BY DEF Arrive
<1>2. h \in HandState
  BY DEF HandState, IInv, Versions, Typed
<1>3. h.proc \in Procs /\ h.live = {} /\ \A v \in h.floor : v \in rows /\ v.flow = h.flow
  OBVIOUS
<1> HIDE DEF h
<1> QED BY <1>1, <1>2, <1>3, HandMoves

(* The endpoint is read again and nothing else.                            *)
LEMMA ReadOwnerKeeps ==
  ASSUME IInv, NEW d \in Deliveries, ReadOwner(d)
  PROVE  IInv'
<1> DEFINE h == [hand[d] EXCEPT !.pc =
                   IF catalog[hand[d].flow] = "live" THEN "current" ELSE "done"]
<1>1. hand \in [Deliveries -> HandState] /\ HandOK(d)
  BY DEF IInv, Versions, Typed
<1>2. /\ hand[d].pc = "owner" /\ hand' = [hand EXCEPT ![d] = h]
      /\ UNCHANGED <<compiled, runs>> /\ OnlyHands
  BY <1>1 DEF ReadOwner
<1>3. /\ h \in HandState /\ h.proc = hand[d].proc /\ h.flow = hand[d].flow
      /\ h.floor = hand[d].floor /\ h.live = hand[d].live
  BY <1>1 DEF HandState
<1> HIDE DEF h
<1> QED BY <1>1, <1>2, <1>3, HandMoves DEF HandOK

(* What is current is no earlier than any row that was there before.       *)
LEMMA ReadCurrentKeeps ==
  ASSUME IInv, NEW d \in Deliveries, ReadCurrent(d)
  PROVE  IInv'
<1> DEFINE live == current(hand[d].flow)
           h == [hand[d] EXCEPT !.live = live,
                                !.pc = IF live = {} THEN "done" ELSE "create"]
<1>1. hand \in [Deliveries -> HandState] /\ HandOK(d) /\ rows \subseteq RowState
  BY DEF IInv, Versions, Typed
<1>2. /\ hand[d].pc = "current" /\ hand' = [hand EXCEPT ![d] = h]
      /\ UNCHANGED <<compiled, runs>> /\ OnlyHands
  BY <1>1 DEF ReadCurrent
<1>3. \A l \in live : /\ l \in rows
                     /\ \A v \in rows : v.flow = hand[d].flow => ~ Later(v, l)
  BY DEF current
<1> HIDE DEF live
<1>4. /\ h \in HandState /\ h.proc = hand[d].proc /\ h.flow = hand[d].flow
      /\ h.floor = hand[d].floor /\ h.live = live
  BY <1>1, <1>3 DEF HandState
<1> HIDE DEF h
<1>5. \A v \in h.floor : v \in rows /\ v.flow = h.flow
  BY <1>1, <1>4 DEF HandOK
<1>6. \A l \in h.live : l \in rows /\ \A v \in h.floor : ~ Later(v, l)
  BY <1>3, <1>4, <1>5
<1>7. h.proc \in Procs
  BY <1>1, <1>2, <1>4 DEF HandOK
<1> QED BY <1>1, <1>2, <1>4, <1>5, <1>6, <1>7, HandMoves

-----------------------------------------------------------------------------
(* Runs                                                                    *)

(* One run is changed, and a process keeps a row that is there.            *)
LEMMA RunMoves ==
  ASSUME IInv, NEW d \in Deliveries, NEW r,
         runs' = [runs EXCEPT ![d] = r],
         compiled' \in [Procs -> SUBSET rows],
         UNCHANGED <<rows, requests, now, up>>,
         hand' \in [Deliveries -> HandState],
         \A c \in Deliveries \ {d} : hand'[c] = hand[c],
         HandOK(d)', hand'[d].pc = "done", DOMAIN r = Fields,
         \E v \in rows : /\ v.id = r.version /\ v.doc = r.made
                        /\ \A u \in hand'[d].floor : ~ Later(u, v),
         \A o \in r.outputs : o.doc = r.made
  PROVE  IInv'
<1>1. DOMAIN runs = Deliveries
  BY DEF IInv, Versions, Typed
<1>2. Versions'
  BY <1>1 DEF IInv, Versions, Typed, Unique, Fresh
<1>3. ASSUME NEW c \in Deliveries PROVE HandOK(c)' /\ RunOK(c)'
  <2>1. HandOK(c) /\ RunOK(c)
    BY DEF IInv
  <2>2. CASE c = d
    <3>1. runs'[c] = r
      BY <1>1, <2>2
    <3> QED BY <2>2, <3>1 DEF RunOK, Later
  <2>3. CASE c # d
    <3>1. runs'[c] = runs[c] /\ hand'[c] = hand[c]
      BY <1>1, <2>3
    <3> QED BY <2>1, <3>1 DEF HandOK, RunOK, Later
  <2> QED BY <2>2, <2>3
<1> QED BY <1>2, <1>3 DEF IInv

(* A run is created from what was read as current, and that is its row.    *)
LEMMA CreateRunKeeps ==
  ASSUME IInv, NEW d \in Deliveries, CreateRun(d)
  PROVE  IInv'
<1> DEFINE new(live, row, chain, steps) ==
             [status |-> "running", version |-> live.id, group |-> 1,
              chain |-> chain, made |-> row.doc, sent |-> {}, steps |-> steps,
              outputs |-> {}, meant |-> {}]
<1>1. PICK live \in hand[d].live : \E chain, steps :
        LET row == resolver(hand[d].proc, live.id)
        IN  /\ runs' = [runs EXCEPT ![d] = new(live, row, chain, steps)]
            /\ Keeps(hand[d].proc, row)
  BY DEF CreateRun
<1>2. HandOK(d) /\ hand \in [Deliveries -> HandState] /\ hand[d].pc = "create"
  BY DEF IInv, Versions, Typed, CreateRun
<1>3. hand[d].proc \in Procs /\ live \in rows /\ \A v \in hand[d].floor : ~ Later(v, live)
  BY <1>2 DEF HandOK
<1>4. resolver(hand[d].proc, live.id) = live
  BY <1>3, FindsRow DEF IInv, Versions
<1>5. PICK r : /\ \E chain, steps : r = new(live, live, chain, steps)
               /\ runs' = [runs EXCEPT ![d] = r] /\ Keeps(hand[d].proc, live)
  BY <1>1, <1>4
<1>6. compiled' \in [Procs -> SUBSET rows]
  BY <1>3, <1>5 DEF Keeps, IInv, Versions, Typed
<1>7. /\ UNCHANGED <<rows, requests, now, up>>
      /\ hand' = [hand EXCEPT ![d].pc = "done"]
  BY DEF CreateRun, OnlyHands
<1>8. /\ hand' \in [Deliveries -> HandState] /\ hand'[d].pc = "done"
      /\ \A c \in Deliveries \ {d} : hand'[c] = hand[c]
      /\ hand'[d].floor = hand[d].floor /\ hand'[d].live = hand[d].live
      /\ hand'[d].flow = hand[d].flow /\ hand'[d].proc = hand[d].proc
  BY <1>2, <1>7 DEF HandState
<1>9. HandOK(d)'
  BY <1>2, <1>7, <1>8 DEF HandOK, Later
<1>10. /\ DOMAIN r = Fields /\ r.version = live.id /\ r.made = live.doc
       /\ r.outputs = {}
  BY <1>5 DEF Fields
<1> HIDE DEF new
<1> QED BY <1>3, <1>5, <1>6, <1>7, <1>8, <1>9, <1>10, RunMoves

(* What happens to a run: messages are sent for its steps or it is over, a *)
(* step is claimed, an attempt ends, a person starts it again.             *)
Sendable(r) == {i \in DOMAIN r.chain : isNextRunnable(r, i)}

Advances(r, s) ==
  s = IF Sendable(r) = {} THEN finishOrWait(r)
      ELSE [r EXCEPT !.sent = @ \cup {r.chain[i] : i \in Sendable(r)}]

Claims(r, s) ==
  \E x \in r.sent : /\ r.steps[x] \in {"pending", "retry"}
                    /\ s = [r EXCEPT !.steps[x] = "running"]

Ends(r, s) ==
  \E x \in DOMAIN r.steps :
    /\ r.steps[x] = "running"
    /\ \/ s \in Fails(r, x) \/ s = Succeeds(r, x, r.made)
       \/ s \in Branches(r, x, r.made)

Resumes(r, s) ==
  \E x \in DOMAIN r.steps :
    LET place(y) == CHOOSE i \in DOMAIN r.chain : r.chain[i] = y
        before == {y \in DOMAIN r.steps : place(y) < place(x)}
    IN  s = [r EXCEPT !.status = "running", !.group = @ + 1,
               !.outputs = {o \in @ : o.step \in before},
               !.steps = [y \in DOMAIN @ |->
                  IF y \in before THEN "skipped_resumed" ELSE "pending"]]

(* what none of these but the last changes                                 *)
Alike(r, s) ==
  /\ DOMAIN s = Fields /\ s.version = r.version /\ s.group = r.group
  /\ s.chain = r.chain /\ s.made = r.made

Finished == {"succeeded", "skipped", "skipped_resumed"}

(* Advancing, field by field.                                              *)
LEMMA AdvancesIs ==
  ASSUME NEW r, DOMAIN r = Fields, NEW s, Advances(r, s)
  PROVE  /\ Alike(r, s) /\ s.steps = r.steps /\ s.outputs = r.outputs
         /\ \/ /\ s.status = r.status
               /\ s.sent = r.sent \cup {r.chain[i] : i \in Sendable(r)}
            \/ /\ s.sent = r.sent
               /\ \/ s.status \in {r.status, "failed"}
                  \/ /\ s.status = "succeeded"
                     /\ \A x \in DOMAIN r.steps : r.steps[x] \in Finished
<1>1. CASE Sendable(r) # {}
  <2>1. s = [r EXCEPT !.sent = @ \cup {r.chain[i] : i \in Sendable(r)}]
    BY <1>1 DEF Advances
  <2> QED BY <2>1 DEF Alike, Fields
<1>2. CASE Sendable(r) = {}
  <2> DEFINE done == \A x \in DOMAIN r.steps : r.steps[x] \in Finished
             over == {r.steps[x] : x \in DOMAIN r.steps} \subseteq Finished
  <2>1. over => done
    OBVIOUS
  <2>2. \/ s = r \/ s = [r EXCEPT !.status = "failed"]
        \/ s = [r EXCEPT !.status = "succeeded"] /\ over
    BY <1>2 DEF Advances, finishOrWait, Finished
  <2> HIDE DEF done, over
  <2>3. Alike(r, s) /\ s.steps = r.steps /\ s.outputs = r.outputs /\ s.sent = r.sent
    BY <2>2 DEF Alike, Fields
  <2>4. \/ s.status \in {r.status, "failed"}
        \/ s.status = "succeeded" /\ done
    BY <2>1, <2>2 DEF Fields
  <2> QED BY <2>3, <2>4 DEF done
<1> QED BY <1>1, <1>2

(* A claim changes the state of one step.                                  *)
LEMMA ClaimsIs ==
  ASSUME NEW r, DOMAIN r = Fields, NEW s, Claims(r, s)
  PROVE  /\ Alike(r, s) /\ s.status = r.status /\ s.sent = r.sent
         /\ s.outputs = r.outputs
         /\ \E x \in r.sent : /\ r.steps[x] \in {"pending", "retry"}
                              /\ s.steps = [r.steps EXCEPT ![x] = "running"]
BY DEF Claims, Alike, Fields

(* how an attempt at a step ends: it is given up, for now or for good, or  *)
(* it has an output and passes over other steps                            *)
GivesUp(r, s, x) ==
  /\ \E t \in {"retry", "failed"} : s.steps = [r.steps EXCEPT ![x] = t]
  /\ s.outputs = r.outputs
GoesOn(r, s, x, skip) ==
  /\ s.steps = [y \in DOMAIN r.steps |->
                  IF y = x THEN "succeeded"
                  ELSE IF y \in skip /\ r.steps[y] = "pending" THEN "skipped"
                  ELSE r.steps[y]]
  /\ s.outputs = r.outputs \cup {[step |-> x, doc |-> r.made]}
Skippable(r, x) ==
  {stepsToSkip(compileFlow[r.made].edges, x, taken) : taken \in Arms} \cup {{}}

(* An output that is kept, field by field.                                 *)
LEMMA SucceedsIs ==
  ASSUME NEW r, DOMAIN r = Fields, NEW x \in DOMAIN r.steps, NEW doc
  PROVE  LET s == Succeeds(r, x, doc) IN
         /\ Alike(r, s) /\ s.status = r.status /\ s.sent = r.sent
         /\ s.steps = [y \in DOMAIN r.steps |->
                         IF y = x THEN "succeeded" ELSE r.steps[y]]
         /\ s.outputs = r.outputs \cup {[step |-> x, doc |-> doc]}
BY DEF Succeeds, Alike, Fields

(* An end of an attempt, field by field.                                   *)
LEMMA EndsIs ==
  ASSUME NEW r, DOMAIN r = Fields, NEW s, Ends(r, s)
  PROVE  /\ Alike(r, s) /\ s.status = r.status /\ s.sent = r.sent
         /\ \E x \in DOMAIN r.steps :
              /\ r.steps[x] = "running"
              /\ \/ GivesUp(r, s, x)
                 \/ \E skip \in Skippable(r, x) : GoesOn(r, s, x, skip)
<1>1. PICK x \in DOMAIN r.steps :
        /\ r.steps[x] = "running"
        /\ \/ s \in Fails(r, x) \/ s = Succeeds(r, x, r.made)
           \/ s \in Branches(r, x, r.made)
  BY DEF Ends
<1>2. CASE s \in Fails(r, x)
  <2>1. PICK t \in {"retry", "failed"} : s = [r EXCEPT !.steps[x] = t]
    BY <1>2 DEF Fails
  <2>2. /\ Alike(r, s) /\ s.status = r.status /\ s.sent = r.sent
        /\ s.outputs = r.outputs /\ s.steps = [r.steps EXCEPT ![x] = t]
    BY <2>1 DEF Alike, Fields
  <2> QED BY <1>1, <2>2 DEF GivesUp
<1>3. CASE s = Succeeds(r, x, r.made)
  <2>1. /\ Alike(r, s) /\ s.status = r.status /\ s.sent = r.sent
        /\ s.steps = [y \in DOMAIN r.steps |->
                        IF y = x THEN "succeeded" ELSE r.steps[y]]
        /\ s.outputs = r.outputs \cup {[step |-> x, doc |-> r.made]}
    BY <1>3, SucceedsIs
  <2>2. GoesOn(r, s, x, {})
    BY <2>1 DEF GoesOn
  <2> QED BY <1>1, <2>1, <2>2 DEF Skippable
<1>4. CASE s \in Branches(r, x, r.made)
  <2>1. PICK c \in Readings :
          LET a == answers[c]
              noted == [r EXCEPT !.meant = @ \cup {[step |-> x, arm |-> c.means]}]
          IN  s = IF ~a.ok THEN [noted EXCEPT !.steps[x] = "failed"]
                  ELSE Succeeds(Passes(noted, stepsToSkip(compileFlow[r.made].edges, x,
                                                          takenArm(a))), x, r.made)
    BY <1>4 DEF Branches
  <2> DEFINE m == [r EXCEPT !.meant = @ \cup {[step |-> x, arm |-> c.means]}]
             skip == stepsToSkip(compileFlow[r.made].edges, x, takenArm(answers[c]))
             p == Passes(m, skip)
  <2>2. /\ Alike(r, m) /\ m.status = r.status /\ m.sent = r.sent
        /\ m.steps = r.steps /\ m.outputs = r.outputs
    BY DEF Alike, Fields
  <2>3. s = [m EXCEPT !.steps[x] = "failed"] \/ s = Succeeds(p, x, r.made)
    BY <2>1
  <2>4. skip \in Skippable(r, x)
    BY DEF Skippable, takenArm, Arms
  <2> HIDE DEF m, skip
  <2>5. CASE s = [m EXCEPT !.steps[x] = "failed"]
    <3>1. /\ Alike(m, s) /\ s.status = m.status /\ s.sent = m.sent
          /\ s.outputs = m.outputs /\ s.steps = [m.steps EXCEPT ![x] = "failed"]
      BY <2>2, <2>5 DEF Alike, Fields
    <3>2. GivesUp(r, s, x) /\ Alike(r, s)
      BY <2>2, <3>1 DEF GivesUp, Alike
    <3> QED BY <1>1, <2>2, <3>1, <3>2
  <2>6. CASE s = Succeeds(p, x, r.made)
    <3>1. /\ Alike(m, p) /\ p.status = m.status /\ p.sent = m.sent
          /\ p.outputs = m.outputs
          /\ p.steps = [y \in DOMAIN m.steps |->
                          IF y \in skip /\ m.steps[y] = "pending" THEN "skipped"
                          ELSE m.steps[y]]
      BY <2>2 DEF Passes, Alike, Fields
    <3> HIDE DEF p
    <3>2. /\ Alike(p, s) /\ s.status = p.status /\ s.sent = p.sent
          /\ s.steps = [y \in DOMAIN p.steps |->
                          IF y = x THEN "succeeded" ELSE p.steps[y]]
          /\ s.outputs = p.outputs \cup {[step |-> x, doc |-> r.made]}
      <4>1. DOMAIN p = Fields /\ x \in DOMAIN p.steps
        BY <2>2, <3>1 DEF Alike
      <4> QED BY <2>6, <4>1, SucceedsIs
    <3>3. GoesOn(r, s, x, skip) /\ Alike(r, s)
      BY <2>2, <3>1, <3>2 DEF GoesOn, Alike
    <3> QED BY <1>1, <2>2, <2>4, <3>1, <3>2, <3>3
  <2> QED BY <2>3, <2>5, <2>6
<1> QED BY <1>1, <1>2, <1>3, <1>4

(* a run that goes on behind these steps                                   *)
Restarted(r, before) ==
  [r EXCEPT !.status = "running", !.group = @ + 1,
            !.outputs = {o \in @ : o.step \in before},
            !.steps = [y \in DOMAIN @ |->
               IF y \in before THEN "skipped_resumed" ELSE "pending"]]

(* A resume passes over some of the steps and makes the others wait.       *)
LEMMA ResumesIs ==
  ASSUME NEW r, NEW s, Resumes(r, s)
  PROVE  \E before : s = Restarted(r, before)
<1>1. PICK x \in DOMAIN r.steps :
        LET place(y) == CHOOSE i \in DOMAIN r.chain : r.chain[i] = y
            before == {y \in DOMAIN r.steps : place(y) < place(x)}
        IN  s = [r EXCEPT !.status = "running", !.group = @ + 1,
                   !.outputs = {o \in @ : o.step \in before},
                   !.steps = [y \in DOMAIN @ |->
                      IF y \in before THEN "skipped_resumed" ELSE "pending"]]
  BY Zenon DEF Resumes
<1> DEFINE place(y) == CHOOSE i \in DOMAIN r.chain : r.chain[i] = y
           before == {y \in DOMAIN r.steps : place(y) < place(x)}
<1>2. s = Restarted(r, before)
  BY <1>1 DEF Restarted
<1> HIDE DEF before
<1> QED BY <1>2

(* What a run is of stays, and its outputs are of that.                    *)
Moved(r, s) ==
  /\ DOMAIN s = Fields /\ s.version = r.version /\ s.made = r.made
  /\ \A o \in s.outputs : o \in r.outputs \/ o.doc = r.made

(* That much is true of all that happens to it.                            *)
LEMMA AllMove ==
  ASSUME NEW r, DOMAIN r = Fields, NEW s,
         Advances(r, s) \/ Claims(r, s) \/ Ends(r, s) \/ Resumes(r, s)
  PROVE  Moved(r, s)
<1>1. CASE Advances(r, s)
  BY <1>1, AdvancesIs DEF Moved, Alike
<1>2. CASE Claims(r, s)
  BY <1>2, ClaimsIs DEF Moved, Alike
<1>3. CASE Ends(r, s)
  <2>1. PICK x \in DOMAIN r.steps :
          GivesUp(r, s, x) \/ \E skip \in Skippable(r, x) : GoesOn(r, s, x, skip)
    BY <1>3, EndsIs
  <2>2. Alike(r, s)
    BY <1>3, EndsIs
  <2>3. s.outputs = r.outputs \/ s.outputs = r.outputs \cup {[step |-> x, doc |-> r.made]}
    BY <2>1 DEF GivesUp, GoesOn
  <2> QED BY <2>2, <2>3 DEF Moved, Alike
<1>4. CASE Resumes(r, s)
  <2>1. PICK before : s = Restarted(r, before)
    BY <1>4, ResumesIs
  <2> QED BY <2>1 DEF Restarted, Moved, Fields
<1> QED BY <1>1, <1>2, <1>3, <1>4

(* So whatever happens to one run keeps the invariant.                     *)
LEMMA RunGoes ==
  ASSUME IInv, NEW d \in Deliveries, NEW s, runs[d].status # "none",
         runs' = [runs EXCEPT ![d] = s], compiled' \in [Procs -> SUBSET rows],
         UNCHANGED <<rows, requests, now, up, hand>>,
         \/ Advances(runs[d], s) \/ Claims(runs[d], s)
         \/ Ends(runs[d], s) \/ Resumes(runs[d], s)
  PROVE  IInv'
<1>1. HandOK(d) /\ RunOK(d) /\ hand \in [Deliveries -> HandState]
  BY DEF IInv, Versions, Typed
<1>2. /\ DOMAIN runs[d] = Fields /\ hand[d].pc = "done"
      /\ \A o \in runs[d].outputs : o.doc = runs[d].made
  BY <1>1 DEF RunOK
<1>3. PICK v \in rows : /\ v.id = runs[d].version /\ v.doc = runs[d].made
                        /\ \A u \in hand[d].floor : ~ Later(u, v)
  BY <1>1 DEF RunOK
<1>4. Moved(runs[d], s)
  BY <1>2, AllMove
<1>5. /\ DOMAIN s = Fields /\ s.version = runs[d].version /\ s.made = runs[d].made
      /\ \A o \in s.outputs : o.doc = s.made
  BY <1>2, <1>4 DEF Moved
<1>6. HandOK(d)'
  BY <1>1 DEF HandOK, Later
<1> QED BY <1>1, <1>2, <1>3, <1>5, <1>6, RunMoves

(* A message that asks to look at a run.                                   *)
LEMMA AdvanceIs ==
  ASSUME NEW d \in Deliveries, advanceRun(d)
  PROVE  \E s : Advances(runs[d], s) /\ runs' = [runs EXCEPT ![d] = s]
BY DEF advanceRun, Advances, Sendable

(* A message for a step.                                                   *)
LEMMA ClaimIs ==
  ASSUME NEW d \in Deliveries, NEW x, claimStep(d, x)
  PROVE  \E s : Claims(runs[d], s) /\ runs' = [runs EXCEPT ![d] = s]
<1> DEFINE s == [runs[d] EXCEPT !.steps[x] = "running"]
<1>1. runs' = [runs EXCEPT ![d] = s] /\ Claims(runs[d], s)
  BY DEF claimStep, Claims
<1> QED BY <1>1

(* A step is taken from the row of the run's version.                      *)
LEMMA RunStepIs ==
  ASSUME IInv, NEW p \in Procs, NEW d \in Deliveries, NEW x, runStep(p, d, x)
  PROVE  /\ compiled' \in [Procs -> SUBSET rows]
         /\ \E s : Ends(runs[d], s) /\ runs' = [runs EXCEPT ![d] = s]
<1> DEFINE r == runs[d]
           row == flowFor(p, r)
<1>1. /\ r.status # "none" /\ x \in DOMAIN r.steps /\ r.steps[x] = "running"
      /\ Keeps(p, row) /\ RunOK(d)
  BY DEF runStep, IInv
<1>2. PICK v \in rows : v.id = r.version /\ v.doc = r.made
  BY <1>1 DEF RunOK
<1>3. row = v
  BY <1>2, FindsRow DEF IInv, Versions, flowFor
<1>4. compiled' \in [Procs -> SUBSET rows]
  BY <1>1, <1>3 DEF Keeps, IInv, Versions, Typed
<1>5. \/ \E s \in Fails(r, x) : runs' = [runs EXCEPT ![d] = s]
      \/ \E s \in Branches(r, x, row.doc) : runs' = [runs EXCEPT ![d] = s]
      \/ \E s \in {Succeeds(r, x, row.doc)} : runs' = [runs EXCEPT ![d] = s]
  BY DEF runStep
<1>6. row.doc = r.made
  BY <1>2, <1>3
<1> HIDE DEF r, row
<1>7. \E s : Ends(r, s) /\ runs' = [runs EXCEPT ![d] = s]
  BY <1>1, <1>5, <1>6 DEF Ends
<1> QED BY <1>4, <1>7 DEF r

(* A run that a person starts again.                                       *)
LEMMA ResumeIs ==
  ASSUME NEW d \in Deliveries, NEW x, resumeRun(d, x)
  PROVE  \E s : Resumes(runs[d], s) /\ runs' = [runs EXCEPT ![d] = s]
BY Zenon DEF resumeRun, Resumes

(* The four keep the invariant.                                            *)
LEMMA AdvanceKeeps ==
  ASSUME IInv, NEW d \in Deliveries, advanceRun(d) PROVE IInv'
<1>1. PICK s : Advances(runs[d], s) /\ runs' = [runs EXCEPT ![d] = s]
  BY AdvanceIs
<1>2. /\ runs[d].status # "none" /\ UNCHANGED <<rows, requests, now, up, compiled, hand>>
      /\ compiled \in [Procs -> SUBSET rows]
  BY DEF advanceRun, IInv, Versions, Typed
<1> QED BY <1>1, <1>2, RunGoes

(* A claim does.                                                           *)
LEMMA ClaimKeeps ==
  ASSUME IInv, NEW d \in Deliveries, NEW x, claimStep(d, x) PROVE IInv'
<1>1. PICK s : Claims(runs[d], s) /\ runs' = [runs EXCEPT ![d] = s]
  BY ClaimIs
<1>2. /\ runs[d].status # "none" /\ UNCHANGED <<rows, requests, now, up, compiled, hand>>
      /\ compiled \in [Procs -> SUBSET rows]
  BY DEF claimStep, IInv, Versions, Typed
<1> QED BY <1>1, <1>2, RunGoes

(* An attempt does.                                                        *)
LEMMA RunStepKeeps ==
  ASSUME IInv, NEW p \in Procs, NEW d \in Deliveries, NEW x, runStep(p, d, x)
  PROVE  IInv'
<1>1. PICK s : Ends(runs[d], s) /\ runs' = [runs EXCEPT ![d] = s]
  BY RunStepIs
<1>2. /\ runs[d].status # "none" /\ UNCHANGED <<rows, requests, now, up, hand>>
      /\ compiled' \in [Procs -> SUBSET rows]
  BY RunStepIs DEF runStep
<1> QED BY <1>1, <1>2, RunGoes

(* A resume does.                                                          *)
LEMMA ResumeKeeps ==
  ASSUME IInv, NEW d \in Deliveries, NEW x, resumeRun(d, x) PROVE IInv'
<1>1. PICK s : Resumes(runs[d], s) /\ runs' = [runs EXCEPT ![d] = s]
  BY ResumeIs
<1>2. /\ runs[d].status # "none" /\ UNCHANGED <<rows, requests, now, up, compiled, hand>>
      /\ compiled \in [Procs -> SUBSET rows]
  BY DEF resumeRun, IInv, Versions, Typed
<1> QED BY <1>1, <1>2, RunGoes

-----------------------------------------------------------------------------
(* The invariant                                                           *)

(* Nothing is published and nothing runs at the start.                     *)
LEMMA InitIInv ==
  ASSUME Init PROVE IInv
<1>1. Typed
  BY DEF Init, Typed, HandState, NotHere
<1>2. Unique /\ Fresh
  BY DEF Init, Unique, Fresh
<1>3. \A d \in Deliveries : HandOK(d) /\ RunOK(d)
  BY DEF Init, HandOK, RunOK, NotHere, NoRun
<1> QED BY <1>1, <1>2, <1>3 DEF IInv, Versions

(* The clock goes on.                                                      *)
LEMMA ClockKeeps ==
  ASSUME IInv, MillisecondPasses PROVE IInv'
<1>1. now' = now + 1 /\ UNCHANGED <<rows, requests, up, compiled, hand, runs>>
  BY DEF MillisecondPasses
<1>2. Versions'
  BY <1>1 DEF IInv, Versions, Typed, Unique, Fresh
<1>3. \A d \in Deliveries : HandOK(d)' /\ RunOK(d)'
  BY <1>1, RowsGrow
<1> QED BY <1>2, <1>3 DEF IInv

(* What is done to flows, and a run that is being read, change none of it. *)
LEMMA IdleKeeps ==
  ASSUME IInv, UNCHANGED <<rows, requests, now, up, compiled, hand, runs>>
  PROVE  IInv'
<1>1. Versions'
  BY DEF IInv, Versions, Typed, Unique, Fresh
<1>2. \A d \in Deliveries : HandOK(d)' /\ RunOK(d)'
  BY RowsGrow
<1> QED BY <1>1, <1>2 DEF IInv

(* Every step keeps the invariant.                                         *)
LEMMA StepKeeps ==
  ASSUME IInv, [Next]_vars PROVE IInv'
<1>1. ASSUME NEW p \in Procs, Boot(p) \/ Seeded(p) \/ Die(p) PROVE IInv'
  BY <1>1, BootKeeps, SeededKeeps, DieKeeps
<1>2. ASSUME NEW p \in Procs, NEW f \in Flows, NEW doc \in Documents,
             NEW id \in VersionIds, Publish(p, f, doc, id)
      PROVE  IInv'
  BY <1>2, PublishKeeps
<1>3. ASSUME NEW r \in requests, Inserted(r) PROVE IInv'
  BY <1>3, InsertedKeeps
<1>4. CASE MillisecondPasses
  BY <1>4, ClockKeeps
<1>5. ASSUME NEW f \in Flows, CreateFlow(f) \/ Archive(f) PROVE IInv'
  BY <1>5, IdleKeeps DEF CreateFlow, Archive
<1>6. ASSUME NEW d \in Deliveries, NEW p \in Procs, NEW f \in Flows, Arrive(d, p, f)
      PROVE  IInv'
  BY <1>6, ArriveKeeps
<1>7. ASSUME NEW d \in Deliveries, ReadOwner(d) \/ ReadCurrent(d) \/ CreateRun(d)
      PROVE  IInv'
  BY <1>7, ReadOwnerKeeps, ReadCurrentKeeps, CreateRunKeeps
<1>8. ASSUME NEW d \in Deliveries, advanceRun(d) PROVE IInv'
  BY <1>8, AdvanceKeeps
<1>9. ASSUME NEW d \in Deliveries, NEW x,
             claimStep(d, x) \/ resumeRun(d, x) \/ \E p \in Procs : runStep(p, d, x)
      PROVE  IInv'
  BY <1>9, ClaimKeeps, ResumeKeeps, RunStepKeeps
<1>10. ASSUME NEW d \in Deliveries, ReadRun(d) PROVE IInv'
  BY <1>10, IdleKeeps DEF ReadRun, OnlyView
<1>11. CASE SendRun
  BY <1>11, IdleKeeps DEF SendRun, OnlyView
<1>12. CASE UNCHANGED vars
  BY <1>12, IdleKeeps DEF vars
<1> QED BY <1>1, <1>2, <1>3, <1>4, <1>5, <1>6, <1>7, <1>8, <1>9, <1>10, <1>11, <1>12
        DEF Next

(* In every state ids are unique and runs are of their version.            *)
LEMMA AlwaysIInv == Spec => []IInv
<1>1. Init => IInv
  BY InitIInv
<1>2. IInv /\ [Next]_vars => IInv'
  BY StepKeeps
<1> QED BY <1>1, <1>2, PTL DEF Spec

(* A delivery is run on the version that was live when it arrived or on a  *)
(* later one (onAccepted, FlowStore.current).                              *)
THEOREM RunsAlwaysCurrent == Spec => []NewRunsAreCurrent
<1>1. ASSUME IInv, NEW d \in Started, NEW u \in hand[d].floor
      PROVE  ~ Later(u, RowOf(runs[d].version))
  <2>1. d \in Deliveries /\ RunOK(d) /\ Unique
    BY <1>1 DEF Started, IInv, Versions
  <2>2. PICK v \in rows : /\ v.id = runs[d].version
                          /\ \A w \in hand[d].floor : ~ Later(w, v)
    BY <2>1 DEF Started, RunOK
  <2>3. RowOf(runs[d].version) = v
    BY <2>1, <2>2 DEF RowOf, Unique
  <2> QED BY <2>2, <2>3
<1>2. IInv => NewRunsAreCurrent
  BY <1>1 DEF NewRunsAreCurrent
<1> QED BY <1>2, AlwaysIInv, PTL

(* What a run has run was of the version it was created from, whatever was *)
(* published meanwhile and whichever process took the step (flowFor).      *)
THEOREM RunsAlwaysKeepVersion == Spec => []RunsKeepVersion
<1>1. IInv => RunsKeepVersion
  BY DEF IInv, RunOK, Started, RunsKeepVersion
<1> QED BY <1>1, AlwaysIInv, PTL
-----------------------------------------------------------------------------
(* What becomes of a run                                                   *)

(* a run as it is created                                                  *)
NewRun(id, doc) ==
  [status |-> "running", version |-> id, group |-> 1,
   chain |-> compileFlow[doc].chain, made |-> doc, sent |-> {},
   steps |-> [x \in ToSet(compileFlow[doc].chain) |-> "pending"],
   outputs |-> {}, meant |-> {}]

(* what may become of a run in a step of the system                        *)
Becomes(r, s) ==
  \/ s = r
  \/ r.status = "none" /\ \E id \in Nat, doc \in Compiled : s = NewRun(id, doc)
  \/ r.status = "running" /\ DOMAIN r = Fields /\ Advances(r, s)
  \/ r.status # "none" /\ DOMAIN r = Fields /\ (Claims(r, s) \/ Ends(r, s))
  \/ r.status = "failed" /\ DOMAIN r = Fields /\ Resumes(r, s)

(* A run of another delivery stays as it is.                               *)
LEMMA OtherRunsStay ==
  ASSUME DOMAIN runs = Deliveries, NEW d \in Deliveries, NEW c \in Deliveries,
         NEW r, runs' = [runs EXCEPT ![c] = r]
  PROVE  (c = d => runs'[d] = r) /\ (c # d => runs'[d] = runs[d])
OBVIOUS

(* A run is created on a version that compiles.                            *)
LEMMA CreateRunMakes ==
  ASSUME IInv, NEW c \in Deliveries, CreateRun(c)
  PROVE  /\ runs[c].status = "none"
         /\ \E id \in Nat, doc \in Compiled : runs' = [runs EXCEPT ![c] = NewRun(id, doc)]
<1>1. PICK live \in hand[c].live :
        LET row == resolver(hand[c].proc, live.id)
            chain == compileFlow[row.doc].chain
        IN  runs' = [runs EXCEPT ![c] =
              [status |-> "running", version |-> live.id, group |-> 1,
               chain |-> chain, made |-> row.doc, sent |-> {},
               steps |-> [x \in ToSet(chain) |-> "pending"],
               outputs |-> {}, meant |-> {}]]
  BY DEF CreateRun
<1>2. HandOK(c) /\ RunOK(c) /\ hand[c].pc = "create"
  BY DEF IInv, CreateRun
<1>3. hand[c].proc \in Procs /\ live \in rows
  BY <1>2 DEF HandOK
<1>4. resolver(hand[c].proc, live.id) = live
  BY <1>3, FindsRow DEF IInv, Versions
<1>5. live.id \in Nat /\ live.doc \in Compiled
  BY <1>3 DEF IInv, Versions, Typed, RowState
<1>6. runs[c].status = "none"
  BY <1>2 DEF RunOK
<1>7. runs' = [runs EXCEPT ![c] = NewRun(live.id, live.doc)]
  BY <1>1, <1>4 DEF NewRun
<1> QED BY <1>5, <1>6, <1>7

(* Whatever happens, a run is created, goes on in one of four ways or      *)
(* stays.                                                                  *)
LEMMA RunsGoOn ==
  ASSUME IInv, [Next]_vars, NEW d \in Deliveries
  PROVE  Becomes(runs[d], runs'[d])
<1>0. DOMAIN runs = Deliveries
  BY DEF IInv, Versions, Typed
<1>1. ASSUME UNCHANGED runs PROVE Becomes(runs[d], runs'[d])
  BY <1>1 DEF Becomes
<1>2. ASSUME NEW p \in Procs, Boot(p) \/ Seeded(p) \/ Die(p) PROVE UNCHANGED runs
  BY <1>2 DEF Boot, Seeded, Die
<1>3. ASSUME NEW p \in Procs, NEW f \in Flows, NEW doc \in Documents,
             NEW id \in VersionIds, Publish(p, f, doc, id)
      PROVE  UNCHANGED runs
  BY <1>3 DEF Publish
<1>4. ASSUME NEW r \in requests, Inserted(r) PROVE UNCHANGED runs
  BY <1>4 DEF Inserted
<1>5. ASSUME MillisecondPasses \/ SendRun \/ UNCHANGED vars PROVE UNCHANGED runs
  BY <1>5 DEF MillisecondPasses, SendRun, OnlyView, vars
<1>6. ASSUME NEW f \in Flows, CreateFlow(f) \/ Archive(f) PROVE UNCHANGED runs
  BY <1>6 DEF CreateFlow, Archive
<1>7. ASSUME NEW c \in Deliveries, NEW p \in Procs, NEW f \in Flows, Arrive(c, p, f)
      PROVE  UNCHANGED runs
  BY <1>7 DEF Arrive
<1>8. ASSUME NEW c \in Deliveries, ReadOwner(c) \/ ReadCurrent(c) \/ ReadRun(c)
      PROVE  UNCHANGED runs
  BY <1>8 DEF ReadOwner, ReadCurrent, ReadRun, OnlyView
<1>9. ASSUME NEW c \in Deliveries, CreateRun(c) PROVE Becomes(runs[d], runs'[d])
  <2>1. /\ runs[c].status = "none"
        /\ \E id \in Nat, doc \in Compiled : runs' = [runs EXCEPT ![c] = NewRun(id, doc)]
    BY <1>9, CreateRunMakes
  <2> QED BY <1>0, <2>1, OtherRunsStay DEF Becomes
<1>10. \A c \in Deliveries : runs[c].status # "none" => DOMAIN runs[c] = Fields
  BY DEF IInv, RunOK
<1>11. ASSUME NEW c \in Deliveries, advanceRun(c) PROVE Becomes(runs[d], runs'[d])
  <2>1. PICK s : Advances(runs[c], s) /\ runs' = [runs EXCEPT ![c] = s]
    BY <1>11, AdvanceIs
  <2>2. runs[c].status = "running"
    BY <1>11 DEF advanceRun
  <2> QED BY <1>0, <1>10, <2>1, <2>2, OtherRunsStay DEF Becomes
<1>12. ASSUME NEW c \in Deliveries, NEW x, claimStep(c, x)
       PROVE  Becomes(runs[d], runs'[d])
  <2>1. PICK s : Claims(runs[c], s) /\ runs' = [runs EXCEPT ![c] = s]
    BY <1>12, ClaimIs
  <2>2. runs[c].status # "none"
    BY <1>12 DEF claimStep
  <2> QED BY <1>0, <1>10, <2>1, <2>2, OtherRunsStay DEF Becomes
<1>13. ASSUME NEW p \in Procs, NEW c \in Deliveries, NEW x, runStep(p, c, x)
       PROVE  Becomes(runs[d], runs'[d])
  <2>1. PICK s : Ends(runs[c], s) /\ runs' = [runs EXCEPT ![c] = s]
    BY <1>13, RunStepIs
  <2>2. runs[c].status # "none"
    BY <1>13 DEF runStep
  <2> QED BY <1>0, <1>10, <2>1, <2>2, OtherRunsStay DEF Becomes
<1>14. ASSUME NEW c \in Deliveries, NEW x, resumeRun(c, x)
       PROVE  Becomes(runs[d], runs'[d])
  <2>1. PICK s : Resumes(runs[c], s) /\ runs' = [runs EXCEPT ![c] = s]
    BY <1>14, ResumeIs
  <2>2. runs[c].status = "failed"
    BY <1>14 DEF resumeRun
  <2> QED BY <1>0, <1>10, <2>1, <2>2, OtherRunsStay DEF Becomes
<1> QED BY <1>1, <1>2, <1>3, <1>4, <1>5, <1>6, <1>7, <1>8, <1>9, <1>11, <1>12, <1>13, <1>14
        DEF Next

-----------------------------------------------------------------------------
(* The shape of a run                                                      *)

(* what the row of a step says                                             *)
StepStates == {"pending", "running", "retry", "failed"} \cup Finished

(* A run is of a version that compiles, and has all its steps.             *)
Body(r) ==
  /\ r.made \in Compiled /\ r.chain = compileFlow[r.made].chain
  /\ DOMAIN r.steps = Ids(Drawing[r.made])
  /\ \A x \in DOMAIN r.steps : r.steps[x] \in StepStates
  /\ r.sent \subseteq DOMAIN r.steps
  /\ \A o \in r.outputs : o.step \in DOMAIN r.steps
  /\ r.group \in Nat \ {0}

(* One that succeeded has none that is not finished.                       *)
Shape(r) ==
  /\ Body(r)
  /\ r.status \in {"running", "failed", "succeeded"}
  /\ r.status = "succeeded" => \A x \in DOMAIN r.steps : r.steps[x] \in Finished

(* What is published was drawn, and is run in the order it was compiled to.*)
LEMMA CompiledIsDrawn ==
  ASSUME NEW doc \in Compiled
  PROVE  LET g == Drawing[doc]
             c == compileFlow[doc].chain
         IN  /\ IsDrawing(g) /\ compiles(g)
             /\ compileFlow[doc].edges = compiledEdges(g)
             /\ c \in Seq(Ids(g)) /\ Chained(c) = Ids(g) /\ ToSet(c) = Ids(g)
             /\ IsInjective(c)
             /\ \A i, j \in DOMAIN c : c[i] = c[j] => i = j
             /\ \A e \in g.edges, i \in DOMAIN c : c[i] = e.source =>
                  \E j \in DOMAIN c : j > i /\ c[j] = e.target
<1> DEFINE g == Drawing[doc]
           c == compileFlow[doc].chain
<1>1. /\ compiles(g) /\ c = compiledChain(g, g.drawn)
      /\ compileFlow[doc].edges = compiledEdges(g)
  BY DEF Compiled, compileFlow
<1>2. /\ IsFiniteSet(Ids(g)) /\ g.drawn \in Seq(g.edges) /\ g.edges = ToSet(g.drawn)
  BY PublishingAssumption DEF PublishingAssumption, Compiled
<1>3. IsDrawing(g)
  BY <1>2 DEF IsDrawing, ToSet
<1> HIDE DEF g, c
<1>4. /\ c \in Seq(Ids(g)) /\ Chained(c) = Ids(g)
      /\ \A i, j \in DOMAIN c : c[i] = c[j] => i = j
      /\ \A e \in g.edges, i \in DOMAIN c : c[i] = e.source =>
                  \E j \in DOMAIN c : j > i /\ c[j] = e.target
  <2> DEFINE k == compiledChain(g, g.drawn)
  <2>1. /\ k \in Seq(Ids(g)) /\ Chained(k) = Ids(g)
        /\ \A i, j \in DOMAIN k : k[i] = k[j] => i = j
        /\ \A e \in g.edges, i \in DOMAIN k : k[i] = e.source =>
                  \E j \in DOMAIN k : j > i /\ k[j] = e.target
    BY <1>1, <1>3, ChainIsInOrder
  <2>2. c = k
    BY <1>1
  <2> HIDE DEF k
  <2> QED BY <2>1, <2>2
<1>5. ToSet(c) = Chained(c) /\ IsInjective(c)
  BY <1>4 DEF ToSet, Chained, IsInjective
<1> QED BY <1>1, <1>3, <1>4, <1>5 DEF g, c

(* The places of its steps.                                                *)
LEMMA PlacesAre ==
  ASSUME NEW r, Body(r)
  PROVE  /\ DOMAIN r.chain \subseteq Nat
         /\ \A i \in DOMAIN r.chain : r.chain[i] \in DOMAIN r.steps
         /\ \A x \in DOMAIN r.steps : \E i \in DOMAIN r.chain : r.chain[i] = x
<1>1. /\ r.chain \in Seq(Ids(Drawing[r.made])) /\ Chained(r.chain) = DOMAIN r.steps
  BY CompiledIsDrawn DEF Body
<1>2. DOMAIN r.chain \subseteq Nat
  BY <1>1, LenProperties
<1> QED BY <1>1, <1>2 DEF Chained

(* A run begins in shape.                                                  *)
LEMMA NewRunShape ==
  ASSUME NEW id, NEW doc \in Compiled
  PROVE  Shape(NewRun(id, doc))
<1> DEFINE s == NewRun(id, doc)
           c == compileFlow[doc].chain
           g == Drawing[doc]
<1>1. ToSet(c) = Ids(g)
  BY CompiledIsDrawn
<1>2. /\ s.made = doc /\ s.chain = c /\ s.group = 1 /\ s.status = "running"
      /\ s.steps = [x \in ToSet(c) |-> "pending"] /\ s.sent = {} /\ s.outputs = {}
  BY DEF NewRun
<1> HIDE DEF s, c, g
<1>3. DOMAIN s.steps = Ids(g) /\ \A x \in DOMAIN s.steps : s.steps[x] = "pending"
  BY <1>1, <1>2
<1>4. Body(s)
  BY <1>2, <1>3 DEF Body, c, g, StepStates
<1> QED BY <1>2, <1>4 DEF Shape, s

(* Advancing leaves it in shape.                                           *)
LEMMA AdvancesShape ==
  ASSUME NEW r, Shape(r), r.status = "running", DOMAIN r = Fields,
         NEW s, Advances(r, s)
  PROVE  Shape(s)
<1>1. /\ Alike(r, s) /\ s.steps = r.steps /\ s.outputs = r.outputs
      /\ \/ /\ s.status = r.status
            /\ s.sent = r.sent \cup {r.chain[i] : i \in Sendable(r)}
         \/ /\ s.sent = r.sent
            /\ \/ s.status \in {r.status, "failed"}
               \/ /\ s.status = "succeeded"
                  /\ \A x \in DOMAIN r.steps : r.steps[x] \in Finished
  BY AdvancesIs
<1>2. Body(r) /\ {r.chain[i] : i \in Sendable(r)} \subseteq DOMAIN r.steps
  BY PlacesAre DEF Shape, Sendable
<1>3. Body(s)
  BY <1>1, <1>2 DEF Body, Alike
<1> QED BY <1>1, <1>3 DEF Shape

(* A step of one that succeeded is claimed by nobody, and nobody is at it. *)
LEMMA GoesShape ==
  ASSUME NEW r, Shape(r), DOMAIN r = Fields, NEW s, Claims(r, s) \/ Ends(r, s)
  PROVE  Shape(s) /\ r.status # "succeeded"
<1>1. Body(r)
  BY DEF Shape
<1>2. CASE Claims(r, s)
  <2>1. PICK x \in r.sent : /\ r.steps[x] \in {"pending", "retry"}
                            /\ s.steps = [r.steps EXCEPT ![x] = "running"]
    BY <1>2, ClaimsIs
  <2>2. Alike(r, s) /\ s.status = r.status /\ s.sent = r.sent /\ s.outputs = r.outputs
    BY <1>2, ClaimsIs
  <2>3. x \in DOMAIN r.steps
    BY <1>1 DEF Body
  <2>4. Body(s)
    BY <1>1, <2>1, <2>2 DEF Body, Alike, StepStates
  <2>5. r.status # "succeeded"
    BY <2>1, <2>3 DEF Shape, Finished
  <2> QED BY <2>2, <2>4, <2>5 DEF Shape
<1>3. CASE Ends(r, s)
  <2>1. PICK x \in DOMAIN r.steps :
          /\ r.steps[x] = "running"
          /\ \/ GivesUp(r, s, x)
             \/ \E skip \in Skippable(r, x) : GoesOn(r, s, x, skip)
    BY <1>3, EndsIs
  <2>2. Alike(r, s) /\ s.status = r.status /\ s.sent = r.sent
    BY <1>3, EndsIs
  <2>3. /\ DOMAIN s.steps = DOMAIN r.steps
        /\ \A y \in DOMAIN s.steps :
             s.steps[y] \in {"retry", "failed", "succeeded", "skipped", r.steps[y]}
    BY <2>1 DEF GivesUp, GoesOn
  <2>4. \A o \in s.outputs : o \in r.outputs \/ o.step = x
    <3> DEFINE made == [step |-> x, doc |-> r.made]
    <3>1. made.step = x
      OBVIOUS
    <3>2. s.outputs = r.outputs \/ s.outputs = r.outputs \cup {made}
      BY <2>1 DEF GivesUp, GoesOn
    <3> HIDE DEF made
    <3> QED BY <3>1, <3>2
  <2>5. Body(s)
    BY <1>1, <2>1, <2>2, <2>3, <2>4 DEF Body, Alike, StepStates, Finished
  <2>6. r.status # "succeeded"
    BY <2>1 DEF Shape, Finished
  <2> QED BY <2>2, <2>5, <2>6 DEF Shape
<1> QED BY <1>2, <1>3

(* So does a resume.                                                       *)
LEMMA ResumesShape ==
  ASSUME NEW r, Shape(r), DOMAIN r = Fields, NEW s, Resumes(r, s)
  PROVE  Shape(s) /\ s.group > 1
<1>1. PICK before : s = Restarted(r, before)
  BY ResumesIs
<1>2. /\ s.status = "running" /\ s.group = r.group + 1
      /\ s.chain = r.chain /\ s.made = r.made /\ s.sent = r.sent
      /\ s.outputs \subseteq r.outputs
      /\ s.steps = [y \in DOMAIN r.steps |->
                      IF y \in before THEN "skipped_resumed" ELSE "pending"]
  BY <1>1 DEF Restarted, Fields
<1>3. Body(r)
  BY DEF Shape
<1>4. Body(s)
  BY <1>2, <1>3 DEF Body, StepStates, Finished
<1> QED BY <1>2, <1>3, <1>4 DEF Shape, Body

(* A flow is there or it is not, and the one that is seeded is live.       *)
Listed ==
  /\ DOMAIN catalog = Flows /\ \A f \in Flows : catalog[f] \in {"absent", "live", "archived"}
  /\ catalog[Default] = "live"

(* Every run is in shape.                                                  *)
Shaped == \A d \in Started : Shape(runs[d])

(* Who reads a run that is over reads the run it stays.                    *)
Watched ==
  view.pc = "read" =>
    /\ view.run \in Started
    /\ view.status = "succeeded" => runs[view.run].status = "succeeded"

(* what holds of flows, runs and whoever reads them                        *)
HInv == IInv /\ Listed /\ Shaped /\ Watched

(* No step takes a flow away, or archives the one that is seeded.          *)
LEMMA ListedKept ==
  ASSUME Listed, [Next]_vars PROVE Listed'
<1>1. ASSUME NEW p \in Procs, Boot(p) \/ Seeded(p) \/ Die(p) PROVE Listed'
  BY <1>1 DEF Boot, Seeded, Die, Listed
<1>2. ASSUME NEW p \in Procs, NEW f \in Flows, NEW doc \in Documents,
             NEW id \in VersionIds, Publish(p, f, doc, id)
      PROVE  Listed'
  BY <1>2 DEF Publish, Listed
<1>3. ASSUME NEW r \in requests, Inserted(r) PROVE Listed'
  BY <1>3 DEF Inserted, Listed
<1>4. ASSUME MillisecondPasses \/ SendRun \/ UNCHANGED vars PROVE Listed'
  BY <1>4 DEF MillisecondPasses, SendRun, OnlyView, vars, Listed
<1>5. ASSUME NEW f \in Flows, CreateFlow(f) \/ Archive(f) PROVE Listed'
  <2>1. \/ catalog[f] = "absent" /\ catalog' = [catalog EXCEPT ![f] = "live"]
        \/ f # Default /\ catalog' = [catalog EXCEPT ![f] = "archived"]
    BY <1>5 DEF CreateFlow, Archive
  <2>2. Default \in Flows
    BY PublishingAssumption DEF PublishingAssumption
  <2> QED BY <2>1, <2>2 DEF Listed
<1>6. ASSUME NEW c \in Deliveries, NEW p \in Procs, NEW f \in Flows, Arrive(c, p, f)
      PROVE  Listed'
  BY <1>6 DEF Arrive, OnlyHands, Listed
<1>7. ASSUME NEW c \in Deliveries,
             ReadOwner(c) \/ ReadCurrent(c) \/ CreateRun(c) \/ ReadRun(c)
      PROVE  Listed'
  BY <1>7 DEF ReadOwner, ReadCurrent, CreateRun, ReadRun, OnlyHands, OnlyView, Listed
<1>8. ASSUME NEW c \in Deliveries, advanceRun(c) PROVE Listed'
  BY <1>8 DEF advanceRun, Listed
<1>9. ASSUME NEW c \in Deliveries, NEW x,
             claimStep(c, x) \/ resumeRun(c, x) \/ \E p \in Procs : runStep(p, c, x)
      PROVE  Listed'
  BY <1>9 DEF claimStep, resumeRun, runStep, Listed
<1> QED BY <1>1, <1>2, <1>3, <1>4, <1>5, <1>6, <1>7, <1>8, <1>9 DEF Next

(* Whatever becomes of a run, it is in shape; one that succeeded stays as  *)
(* it is, and none is forgotten.                                           *)
LEMMA BecomesShape ==
  ASSUME NEW r, NEW s, Becomes(r, s), r.status # "none" => Shape(r)
  PROVE  /\ s.status # "none" => Shape(s) /\ (r.status = "succeeded" => s = r)
         /\ r.status # "none" => s.status # "none"
<1>1. CASE s = r
  BY <1>1
<1>2. CASE r.status = "none" /\ \E id \in Nat, doc \in Compiled : s = NewRun(id, doc)
  BY <1>2, NewRunShape
<1>3. CASE r.status = "running" /\ DOMAIN r = Fields /\ Advances(r, s)
  BY <1>3, AdvancesShape DEF Shape
<1>4. CASE r.status # "none" /\ DOMAIN r = Fields /\ (Claims(r, s) \/ Ends(r, s))
  BY <1>4, GoesShape DEF Shape
<1>5. CASE r.status = "failed" /\ DOMAIN r = Fields /\ Resumes(r, s)
  BY <1>5, ResumesShape DEF Shape
<1> QED BY <1>1, <1>2, <1>3, <1>4, <1>5 DEF Becomes

(* Every step leaves every run in shape.                                   *)
LEMMA ShapedKept ==
  ASSUME IInv, Shaped, [Next]_vars
  PROVE  Shaped' /\ \A d \in Started : /\ d \in Started'
                                       /\ runs[d].status = "succeeded" => runs'[d] = runs[d]
<1>1. ASSUME NEW d \in Deliveries
      PROVE  /\ runs'[d].status # "none" =>
                  Shape(runs'[d]) /\ (runs[d].status = "succeeded" => runs'[d] = runs[d])
             /\ runs[d].status # "none" => runs'[d].status # "none"
  <2>1. Becomes(runs[d], runs'[d])
    BY RunsGoOn
  <2>2. runs[d].status # "none" => Shape(runs[d])
    BY DEF Shaped, Started
  <2> QED BY <2>1, <2>2, BecomesShape
<1> QED BY <1>1 DEF Shaped, Started

(* What is being read stays what it was when it was over.                  *)
LEMMA WatchedKept ==
  ASSUME IInv, Shaped, Watched, [Next]_vars PROVE Watched'
<1>1. \A d \in Started : /\ d \in Started'
                         /\ runs[d].status = "succeeded" => runs'[d] = runs[d]
  BY ShapedKept
<1>2. ASSUME view' = view \/ view' = NoView PROVE Watched'
  BY <1>1, <1>2 DEF Watched, NoView
<1>3. ASSUME NEW c \in Deliveries, ReadRun(c) PROVE Watched'
  BY <1>3 DEF ReadRun, OnlyView, Watched, Started
<1>4. ASSUME NEW p \in Procs, Boot(p) \/ Seeded(p) \/ Die(p) PROVE Watched'
  BY <1>2, <1>4 DEF Boot, Seeded, Die
<1>5. ASSUME NEW p \in Procs, NEW f \in Flows, NEW doc \in Documents,
             NEW id \in VersionIds, Publish(p, f, doc, id)
      PROVE  Watched'
  BY <1>2, <1>5 DEF Publish
<1>6. ASSUME NEW r \in requests, Inserted(r) PROVE Watched'
  BY <1>2, <1>6 DEF Inserted
<1>7. ASSUME MillisecondPasses \/ SendRun \/ UNCHANGED vars PROVE Watched'
  BY <1>2, <1>7 DEF MillisecondPasses, SendRun, vars
<1>8. ASSUME NEW f \in Flows, CreateFlow(f) \/ Archive(f) PROVE Watched'
  BY <1>2, <1>8 DEF CreateFlow, Archive
<1>9. ASSUME NEW c \in Deliveries, NEW p \in Procs, NEW f \in Flows, Arrive(c, p, f)
      PROVE  Watched'
  BY <1>2, <1>9 DEF Arrive, OnlyHands
<1>10. ASSUME NEW c \in Deliveries, ReadOwner(c) \/ ReadCurrent(c) \/ CreateRun(c)
       PROVE  Watched'
  BY <1>2, <1>10 DEF ReadOwner, ReadCurrent, CreateRun, OnlyHands
<1>11. ASSUME NEW c \in Deliveries, advanceRun(c) PROVE Watched'
  BY <1>2, <1>11 DEF advanceRun
<1>12. ASSUME NEW c \in Deliveries, NEW x,
              claimStep(c, x) \/ resumeRun(c, x) \/ \E p \in Procs : runStep(p, c, x)
       PROVE  Watched'
  BY <1>2, <1>12 DEF claimStep, resumeRun, runStep
<1> QED BY <1>3, <1>4, <1>5, <1>6, <1>7, <1>8, <1>9, <1>10, <1>11, <1>12 DEF Next

(* These invariants hold together.                                         *)
LEMMA AlwaysHInv == Spec => []HInv
<1>1. Init => HInv
  <2> SUFFICES ASSUME Init PROVE HInv
    OBVIOUS
  <2>1. IInv
    BY InitIInv
  <2>2. Listed
    <3>1. Default \in Flows
      BY PublishingAssumption DEF PublishingAssumption
    <3> QED BY <3>1 DEF Init, Listed
  <2>3. Shaped /\ Watched
    BY DEF Init, Shaped, Started, NoRun, Watched, NoView
  <2> QED BY <2>1, <2>2, <2>3 DEF HInv
<1>2. HInv /\ [Next]_vars => HInv'
  BY StepKeeps, ListedKept, ShapedKept, WatchedKept DEF HInv
<1> QED BY <1>1, <1>2, PTL DEF Spec

(* A run has every step of its version exactly once, whatever overlaps, is *)
(* resumed or fails; versions have ids of their own (createRun, FlowStore).*)
THEOREM RunsAlwaysWhole == Spec => []TypeOK
<1>1. ASSUME HInv PROVE TypeOK
  <2>1. ASSUME NEW d \in Started
        PROVE  LET r == runs[d] IN
               /\ \E v \in rows : v.id = r.version /\ v.doc = r.made
               /\ ToSet(r.chain) = Ids(Drawing[r.made]) /\ IsInjective(r.chain)
               /\ DOMAIN r.steps = ToSet(r.chain)
               /\ r.sent \subseteq ToSet(r.chain)
               /\ \A o \in r.outputs : o.step \in ToSet(r.chain)
               /\ r.status \in {"running", "failed", "succeeded"}
    <3>1. RunOK(d) /\ Shape(runs[d]) /\ runs[d].status # "none"
      BY <1>1 DEF HInv, IInv, Shaped, Started
    <3>2. \E v \in rows : v.id = runs[d].version /\ v.doc = runs[d].made
      BY <3>1 DEF RunOK
    <3>3. ToSet(runs[d].chain) = Ids(Drawing[runs[d].made]) /\ IsInjective(runs[d].chain)
      BY <3>1, CompiledIsDrawn DEF Shape, Body
    <3> QED BY <3>1, <3>2, <3>3 DEF Shape, Body
  <2>2. \A v, w \in rows : v.id = w.id => v = w
    BY <1>1 DEF HInv, IInv, Versions, Unique
  <2>3. \A p \in Procs : compiled[p] \subseteq rows
    BY <1>1 DEF HInv, IInv, Versions, Typed
  <2> QED BY <1>1, <2>1, <2>2, <2>3 DEF HInv, Listed, TypeOK
<1> QED BY <1>1, AlwaysHInv, PTL

(* A run is shown on the version it ran, with no step missing and, once it *)
(* succeeded, none unfinished (sendRun, runs.ts).                          *)
THEOREM HistoryAlwaysItsOwn == Spec => []HistoryIsItsOwn
<1>1. ASSUME HInv PROVE HistoryIsItsOwn
  <2>1. RunsKeepVersion
    BY <1>1 DEF HInv, IInv, RunOK, Started, RunsKeepVersion
  <2>2. ASSUME view.pc = "read"
        PROVE  /\ sendRun.graph = runs[view.run].made
               /\ DOMAIN sendRun.outcomes = Ids(Drawing[sendRun.graph])
               /\ sendRun.status = "succeeded" =>
                    \A x \in DOMAIN sendRun.outcomes :
                      sendRun.outcomes[x] \in {"succeeded", "skipped"}
    <3> DEFINE r == runs[view.run]
               over == view.status # "running"
    <3>1. /\ view.run \in Started
          /\ view.status = "succeeded" => r.status = "succeeded"
      BY <1>1, <2>2 DEF HInv, Watched
    <3>2. RunOK(view.run) /\ Shape(r) /\ r.status # "none"
      <4>1. \A d \in Started : RunOK(d) /\ Shape(runs[d]) /\ runs[d].status # "none"
        BY <1>1 DEF HInv, IInv, Shaped, Started
      <4> QED BY <3>1, <4>1
    <3>3. byVersion(view.run).doc = r.made
      <4>1. PICK v \in rows : v.id = r.version /\ v.doc = r.made
        BY <3>2 DEF RunOK
      <4>2. byVersion(view.run) = v
        BY <1>1, <4>1 DEF byVersion, HInv, IInv, Versions, Unique
      <4> QED BY <4>1, <4>2
    <3>4. /\ sendRun.graph = r.made /\ sendRun.status = view.status
          /\ sendRun.outcomes = [x \in DOMAIN r.steps |-> toViewerOutcome(r.steps[x], over)]
      BY <3>3 DEF sendRun
    <3>5. ASSUME view.status = "succeeded", NEW x \in DOMAIN r.steps
          PROVE  toViewerOutcome(r.steps[x], over) \in {"succeeded", "skipped"}
      <4>1. r.steps[x] \in {"succeeded", "skipped", "skipped_resumed"}
        <5>1. r.status = "succeeded" /\ Shape(r)
          BY <3>1, <3>2, <3>5
        <5> HIDE DEF r
        <5> QED BY <3>5, <5>1 DEF Shape, Finished
      <4> HIDE DEF r, over
      <4> QED BY <4>1 DEF toViewerOutcome
    <3>6. DOMAIN r.steps = Ids(Drawing[r.made])
      BY <3>2 DEF Shape, Body
    <3> HIDE DEF r
    <3> QED BY <3>4, <3>5, <3>6 DEF r
  <2> QED BY <2>1, <2>2 DEF HistoryIsItsOwn
<1> QED BY <1>1, AlwaysHInv, PTL

-----------------------------------------------------------------------------
(* References                                                              *)

(* What is compiled is tidy, and an edge leads on in the chain.            *)
LEMMA EdgesLeadOn ==
  ASSUME NEW r, Body(r)
  PROVE  LET g == Drawing[r.made] IN
         /\ Tidy(g) /\ topologicallyOrdered(g)
         /\ compileFlow[r.made].edges = compiledEdges(g)
         /\ \A e \in g.edges : e.source \in DOMAIN r.steps /\ e.target \in DOMAIN r.steps
         /\ \A e \in g.edges, i, j \in DOMAIN r.chain :
              r.chain[i] = e.source /\ r.chain[j] = e.target => i < j
<1> DEFINE g == Drawing[r.made]
           c == r.chain
<1>1. /\ IsDrawing(g) /\ compiles(g) /\ compileFlow[r.made].edges = compiledEdges(g)
      /\ c \in Seq(Ids(g)) /\ \A i, j \in DOMAIN c : c[i] = c[j] => i = j
      /\ \A e \in g.edges, i \in DOMAIN c : c[i] = e.source =>
           \E j \in DOMAIN c : j > i /\ c[j] = e.target
  BY CompiledIsDrawn DEF Body
<1>2. Tidy(g) /\ topologicallyOrdered(g) /\ DOMAIN r.steps = Ids(g)
  BY <1>1, CompilesSoundly DEF Body
<1>3. \A e \in g.edges : e.source \in Ids(g) /\ e.target \in Ids(g)
  BY <1>2, EndsAreSteps
<1> HIDE DEF g, c
<1>4. ASSUME NEW e \in g.edges, NEW i \in DOMAIN c, NEW j \in DOMAIN c,
             c[i] = e.source, c[j] = e.target
      PROVE  i < j
  <2>1. PICK k \in DOMAIN c : k > i /\ c[k] = e.target
    BY <1>1, <1>4
  <2>2. k = j
    BY <1>1, <1>4, <2>1
  <2>3. DOMAIN c \subseteq Nat
    BY <1>1, LenProperties
  <2> QED BY <2>1, <2>2, <2>3
<1> QED BY <1>1, <1>2, <1>3, <1>4 DEF g, c

(* no edge of the compiled ones leads out of C                             *)
Onward(edges, C) == \A d \in edges : d.from \in C => d.to \in C
(* what they lead from and to                                              *)
ArrowEnds(edges) == {d.from : d \in edges} \cup {d.to : d \in edges}

(* What is reached is the least set that the edges do not lead out of.     *)
LEMMA ReachedIs ==
  ASSUME NEW edges, IsFiniteSet(ArrowEnds(edges)),
         NEW from \in SUBSET ArrowEnds(edges)
  PROVE  LET R == reachableFrom(edges, from) IN
         /\ from \subseteq R /\ Onward(edges, R)
         /\ \A C : from \subseteq C /\ Onward(edges, C) => R \subseteq C
<1> DEFINE N == ArrowEnds(edges)
           next == [x \in N |-> {e.to : e \in {d \in edges : d.from = x}}]
           R == reachableFrom(edges, from)
<1>1. R = from \cup UNION {walk(next, x) : x \in from}
  BY DEF reachableFrom, ArrowEnds
<1>2. DOMAIN next = N /\ \A d \in edges : d.from \in N /\ d.to \in next[d.from]
  BY DEF ArrowEnds
<1>3. \A x \in N : \A z \in next[x] : \E d \in edges : d.from = x /\ d.to = z
  OBVIOUS
<1> HIDE DEF next, R
<1>4. \A x \in from : x \in DOMAIN next
  BY <1>2 DEF ArrowEnds
<1> HIDE DEF N
<1>5. ASSUME NEW d \in edges, d.from \in R PROVE d.to \in R
  <2>1. CASE d.from \in from
    <3>1. next[d.from] \subseteq walk(next, d.from)
      BY <1>2, <1>4, <2>1, WalkIsClosed DEF N
    <3> QED BY <1>1, <1>2, <2>1, <3>1
  <2>2. CASE d.from \notin from
    <3>1. PICK x \in from : d.from \in walk(next, x)
      BY <1>1, <1>5, <2>2
    <3>2. Closed(next, walk(next, x))
      BY <1>2, <1>4, WalkIsClosed DEF N
    <3>3. d.to \in walk(next, x)
      BY <1>2, <3>1, <3>2 DEF Closed
    <3> QED BY <1>1, <3>3
  <2> QED BY <2>1, <2>2
<1>6. ASSUME NEW C, from \subseteq C, Onward(edges, C) PROVE R \subseteq C
  <2>1. Closed(next, C)
    BY <1>2, <1>3, <1>6 DEF Closed, Onward
  <2>2. ASSUME NEW x \in from PROVE walk(next, x) \subseteq C
    <3>1. next[x] \subseteq C /\ x \in DOMAIN next
      BY <1>2, <1>4, <1>6, <2>1 DEF Closed
    <3> QED BY <1>2, <2>1, <3>1, WalkIsLeast DEF N
  <2> QED BY <1>1, <1>6, <2>2
<1>7. from \subseteq R
  BY <1>1
<1> QED BY <1>5, <1>6, <1>7 DEF R, Onward

(* the steps that the arms of a step lead to first                         *)
Heads(edges, x, arms) == {e.to : e \in {d \in edges : d.from = x /\ d.arm \in arms}}

(* A branch passes over what the other arm leads to and its own does not.  *)
LEMMA SkipIs ==
  ASSUME NEW g, Tidy(g), NEW x, NEW taken
  PROVE  LET E == compiledEdges(g)
             away == reachableFrom(E, Heads(E, x, Arms \ {taken}))
             on == reachableFrom(E, Heads(E, x, {taken}))
         IN  /\ stepsToSkip(E, x, taken) = away \ on
             /\ Heads(E, x, Arms \ {taken}) \subseteq away
             /\ \A C : Heads(E, x, Arms \ {taken}) \subseteq C /\ NoEdgeLeaves(g, C)
                         => away \subseteq C
             /\ Heads(E, x, {taken}) \subseteq on
             /\ \A C : Heads(E, x, {taken}) \subseteq C /\ NoEdgeLeaves(g, C)
                         => on \subseteq C
             /\ NoEdgeLeaves(g, away) /\ NoEdgeLeaves(g, on)
<1> DEFINE E == compiledEdges(g)
           away == reachableFrom(E, Heads(E, x, Arms \ {taken}))
           on == reachableFrom(E, Heads(E, x, {taken}))
<1>1. /\ \A d \in E : \E e \in g.edges : d.from = e.source /\ d.to = e.target
      /\ \A e \in g.edges : \E d \in E : d.from = e.source /\ d.to = e.target
  <2> DEFINE made(e) == [from |-> e.source, to |-> e.target,
                         arm |-> IF e.handle \in Arms THEN e.handle ELSE NoHandle]
  <2>1. \A e : made(e).from = e.source /\ made(e).to = e.target
    OBVIOUS
  <2>2. E = {made(e) : e \in g.edges}
    BY DEF compiledEdges
  <2> HIDE DEF made, E
  <2> QED BY <2>1, <2>2
<1>2. IsFiniteSet(ArrowEnds(E))
  <2>1. ArrowEnds(E) \subseteq Ids(g)
    BY <1>1, EndsAreSteps DEF ArrowEnds
  <2> QED BY <2>1, FS_Subset DEF Tidy
<1> HIDE DEF E
<1>3. \A C : Onward(E, C) <=> NoEdgeLeaves(g, C)
  BY <1>1 DEF Onward, NoEdgeLeaves
<1>4. \A arms : Heads(E, x, arms) \in SUBSET ArrowEnds(E)
  BY DEF Heads, ArrowEnds
<1>5. stepsToSkip(E, x, taken) = away \ on
  BY DEF stepsToSkip, Heads
<1>6. ASSUME NEW arms
      PROVE  LET R == reachableFrom(E, Heads(E, x, arms)) IN
             /\ Heads(E, x, arms) \subseteq R /\ NoEdgeLeaves(g, R)
             /\ \A C : Heads(E, x, arms) \subseteq C /\ NoEdgeLeaves(g, C) => R \subseteq C
  BY <1>2, <1>3, <1>4, ReachedIs
<1> QED BY <1>5, <1>6 DEF E

(* What only a skipped step leads to is skipped.                           *)
SkipsOn(r) ==
  \A e \in Drawing[r.made].edges :
    r.steps[e.source] = "skipped" => r.steps[e.target] = "skipped"

(* Behind a step that was not sent for nothing has begun, and a step that  *)
(* begins was sent for: this is all the order there is while advances,     *)
(* claims and attempts overlap.                                            *)
Sequenced(r) ==
  /\ \A x \in DOMAIN r.steps : r.steps[x] \in {"pending", "skipped"} \/ x \in r.sent
  /\ \A i, j \in DOMAIN r.chain :
       j < i /\ r.chain[i] \in r.sent => r.steps[r.chain[j]] # "pending"

(* A run that was never resumed goes down its chain.                       *)
Straight(r) ==
  r.group = 1 =>
    /\ \A x \in DOMAIN r.steps : /\ r.steps[x] # "skipped_resumed"
                                 /\ r.steps[x] = "succeeded" =>
                                      \E o \in r.outputs : o.step = x
    /\ Sequenced(r)
    /\ Drawable(Drawing[r.made]) => SkipsOn(r)

(* The steps that a step refers to are its ancestors, if the editor let it *)
(* be published.                                                           *)
LEMMA ReadsAncestors ==
  ASSUME NEW doc \in Editable, NEW x \in Ids(Drawing[doc]),
         topologicallyOrdered(Drawing[doc]), danglingEdges(Drawing[doc]) = {}
  PROVE  Drawing[doc].nodes[x].reads \subseteq ancestors(Drawing[doc], x)
<1> DEFINE g == Drawing[doc]
           reads == g.nodes[x].reads
           codes == {d \in {"missing_required"} : g.nodes[x].fields = "unset"}
                      \cup {d \in {"self_reference"} : x \in reads}
                      \cup {d \in {"unknown_reference"} : ~(reads \subseteq Ids(g))}
                      \cup {d \in {"non_ancestor_reference"} :
                              ~((reads \cap Ids(g)) \ {x} \subseteq ancestors(g, x))}
<1>1. canPublish(validate(g))
  BY DEF Editable
<1>2. stepIssues(g, x) \subseteq validate(g)
  BY DEF validate
<1>3. stepIssues(g, x) = {Issue("error", c, x) : c \in codes}
  BY DEF stepIssues, collectReferences
<1> HIDE DEF codes
<1>4. ASSUME NEW c \in codes PROVE FALSE
  <2>1. Issue("error", c, x) \in validate(g)
    BY <1>2, <1>3
  <2>2. Issue("error", c, x).severity = "error"
    BY DEF Issue
  <2> QED BY <1>1, <2>1, <2>2 DEF canPublish
<1>5. /\ reads \subseteq Ids(g) /\ x \notin reads
      /\ (reads \cap Ids(g)) \ {x} \subseteq ancestors(g, x)
  <2> HIDE DEF g, reads
  <2> QED BY <1>4 DEF codes
<1> QED BY <1>5

(* What a step at work comes from has begun, in a drawing without joins.   *)
LEMMA AncestorsBegan ==
  ASSUME NEW r, Shape(r), Straight(r), r.group = 1, Drawable(Drawing[r.made]),
         NEW x \in DOMAIN r.steps, r.steps[x] = "running"
  PROVE  \A y \in ancestors(Drawing[r.made], x) :
           /\ y \in DOMAIN r.steps
           /\ r.steps[y] \in {"running", "retry", "failed", "succeeded"}
<1> DEFINE g == Drawing[r.made]
           c == r.chain
           st == r.steps
           inc == incoming(g)
<1>1. /\ Body(r) /\ SkipsOn(r) /\ Sequenced(r) /\ x \in r.sent
      /\ \A y \in DOMAIN st : st[y] \in StepStates \ {"skipped_resumed"}
  BY DEF Shape, Body, Straight, Sequenced
<1>2. /\ Tidy(g)
      /\ \A e \in g.edges : e.source \in DOMAIN st /\ e.target \in DOMAIN st
      /\ \A e \in g.edges, i, j \in DOMAIN c :
           c[i] = e.source /\ c[j] = e.target => i < j
  BY <1>1, EdgesLeadOn
<1>3. DOMAIN st = Ids(g) /\ DOMAIN c \subseteq Nat
      /\ \A y \in DOMAIN st : \E i \in DOMAIN c : c[i] = y
  BY <1>1, PlacesAre DEF Body
<1>4. PICK k \in DOMAIN c : c[k] = x
  BY <1>3
<1>5. \A j \in DOMAIN c : j < k => st[c[j]] # "pending"
  BY <1>1, <1>4 DEF Sequenced
<1> DEFINE Began == {"running", "retry", "failed", "succeeded"}
           D == {y \in DOMAIN st : st[y] \in Began /\ \E i \in DOMAIN c : i < k /\ c[i] = y}
<1>6. /\ DOMAIN inc = Ids(g)
      /\ \A y \in Ids(g) : inc[y] = {e.source : e \in {d \in g.edges : d.target = y}}
  BY DEF incoming
<1>7. \A e \in g.edges : st[e.source] = "skipped" => st[e.target] = "skipped"
  BY <1>1 DEF SkipsOn
<1> HIDE DEF g, c, st, inc
<1>8. ASSUME NEW e \in g.edges, NEW j \in DOMAIN c, c[j] = e.target, j <= k,
             st[e.target] # "skipped"
      PROVE  e.source \in D
  <2>1. PICK i \in DOMAIN c : c[i] = e.source
    BY <1>2, <1>3
  <2>2. i < j /\ i < k
    <3>1. i < j
      BY <1>2, <1>8, <2>1
    <3> QED BY <1>3, <1>8, <3>1
  <2>3. st[e.source] # "pending" /\ st[e.source] # "skipped" /\ e.source \in DOMAIN st
    BY <1>2, <1>5, <1>7, <1>8, <2>1, <2>2
  <2>4. st[e.source] \in Began
    BY <1>1, <2>3 DEF StepStates, Finished
  <2> QED BY <2>1, <2>2, <2>3, <2>4
<1>9. inc[x] \subseteq D
  <2>1. \A e \in g.edges : e.target = x => e.source \in D
    <3>1. k <= k /\ st[x] # "skipped"
      BY <1>3 DEF st
    <3> HIDE DEF D
    <3> QED BY <1>4, <1>8, <3>1
  <2>2. x \in Ids(g)
    BY <1>3 DEF st
  <2> HIDE DEF D
  <2> QED BY <1>6, <2>1, <2>2
<1>10. Closed(inc, D)
  <2>1. ASSUME NEW y \in D, NEW e \in g.edges, e.target = y PROVE e.source \in D
    <3>1. PICK j \in DOMAIN c : j < k /\ c[j] = y
      OBVIOUS
    <3>2. j <= k /\ st[y] # "skipped"
      BY <1>3, <3>1
    <3> HIDE DEF D
    <3> QED BY <1>8, <2>1, <3>1, <3>2
  <2> HIDE DEF D
  <2> QED BY <1>6, <2>1 DEF Closed
<1>11. walk(inc, x) \subseteq D
  <2>1. IsFiniteSet(DOMAIN inc) /\ x \in DOMAIN inc
    BY <1>2, <1>3, <1>6 DEF Tidy, st
  <2> HIDE DEF D
  <2> QED BY <1>9, <1>10, <2>1, WalkIsLeast
<1>12. ancestors(g, x) = walk(inc, x)
  BY DEF ancestors, inc
<1> QED BY <1>11, <1>12 DEF g, st

(* Passing over what an arm leads to leaves nothing behind it that is not. *)
LEMMA SkipsGoOn ==
  ASSUME NEW r, Body(r), Sequenced(r), SkipsOn(r), Drawable(Drawing[r.made]),
         NEW s, NEW x \in DOMAIN r.steps, r.steps[x] = "running",
         NEW skip \in Skippable(r, x), GoesOn(r, s, x, skip), Alike(r, s)
  PROVE  SkipsOn(s)
<1> DEFINE g == Drawing[r.made]
           c == r.chain
           E == compileFlow[r.made].edges
<1>1. /\ Tidy(g) /\ E = compiledEdges(g)
      /\ \A e \in g.edges : e.source \in DOMAIN r.steps /\ e.target \in DOMAIN r.steps
      /\ \A e \in g.edges, i, j \in DOMAIN c :
           c[i] = e.source /\ c[j] = e.target => i < j
  BY EdgesLeadOn
<1>2. /\ s.made = r.made
      /\ s.steps = [y \in DOMAIN r.steps |->
                      IF y = x THEN "succeeded"
                      ELSE IF y \in skip /\ r.steps[y] = "pending" THEN "skipped"
                      ELSE r.steps[y]]
  BY DEF GoesOn, Alike
<1>3. \A d, e \in g.edges : d.target = e.target => d = e
  BY DEF Drawable
<1>4. /\ \A y \in DOMAIN r.steps : \E i \in DOMAIN c : c[i] = y
      /\ \A y \in DOMAIN r.steps : r.steps[y] \in {"pending", "skipped"} \/ y \in r.sent
      /\ \A i, j \in DOMAIN c : j < i /\ c[i] \in r.sent => r.steps[c[j]] # "pending"
      /\ \A e \in g.edges : r.steps[e.source] = "skipped" => r.steps[e.target] = "skipped"
  BY PlacesAre DEF Sequenced, SkipsOn
<1>5. \A e \in g.edges : e.source # x /\ e.source \in skip => e.target \in skip
  <2>1. CASE skip = {}
    BY <2>1
  <2>2. ASSUME NEW taken \in Arms, skip = stepsToSkip(E, x, taken)
        PROVE  \A e \in g.edges : e.source # x /\ e.source \in skip => e.target \in skip
    <3> DEFINE away == reachableFrom(E, Heads(E, x, Arms \ {taken}))
               on == reachableFrom(E, Heads(E, x, {taken}))
    <3>1. /\ skip = away \ on /\ NoEdgeLeaves(g, away)
          /\ \A C : Heads(E, x, {taken}) \subseteq C /\ NoEdgeLeaves(g, C) => on \subseteq C
          /\ Heads(E, x, {taken}) \subseteq on /\ NoEdgeLeaves(g, on)
      <4> HIDE DEF g, E
      <4> QED BY <1>1, <2>2, SkipIs
    <3>2. \A h \in Heads(E, x, {taken}) : \E e \in g.edges : e.source = x /\ e.target = h
      <4>1. \A d \in E : \E e \in g.edges : d.from = e.source /\ d.to = e.target
        BY <1>1 DEF compiledEdges
      <4> HIDE DEF E, g
      <4> QED BY <4>1 DEF Heads
    <3> HIDE DEF away, on, E, g
    <3> SUFFICES ASSUME NEW e \in g.edges, e.source # x, e.source \in skip
                 PROVE  e.target \in skip
      OBVIOUS
    <3> DEFINE z == e.target
    <3>3. z \in away /\ e.source \notin on
      BY <3>1 DEF NoEdgeLeaves
    <3>4. NoEdgeLeaves(g, on \ {z})
      BY <1>3, <3>1, <3>3 DEF NoEdgeLeaves
    <3>5. Heads(E, x, {taken}) \subseteq on \ {z}
      BY <1>3, <3>1, <3>2
    <3>6. on \subseteq on \ {z}
      BY <3>1, <3>4, <3>5
    <3> QED BY <3>1, <3>3, <3>6
  <2> QED BY <2>1, <2>2 DEF Skippable, E
<1> HIDE DEF g, c, E
<1>6. ASSUME NEW e \in g.edges, s.steps[e.source] = "skipped"
      PROVE  s.steps[e.target] = "skipped"
  <2> DEFINE y == e.source
             z == e.target
  <2>1. y \in DOMAIN r.steps /\ z \in DOMAIN r.steps /\ y # x
    BY <1>1, <1>2, <1>6
  <2>2. CASE r.steps[y] = "skipped"
    <3>1. r.steps[z] = "skipped" /\ z # x
      BY <1>4, <2>2
    <3> QED BY <1>2, <2>1, <3>1
  <2>3. CASE r.steps[y] # "skipped"
    <3>1. y \in skip /\ r.steps[y] = "pending"
      BY <1>2, <1>6, <2>1, <2>3
    <3>2. z \in skip
      BY <1>5, <2>1, <3>1
    <3>3. PICK i \in DOMAIN c, j \in DOMAIN c : c[i] = y /\ c[j] = z
      BY <1>4, <2>1
    <3>4. i < j
      BY <1>1, <3>3
    <3>5. r.steps[z] \in {"pending", "skipped"}
      BY <1>4, <2>1, <3>1, <3>3, <3>4
    <3> QED BY <1>2, <2>1, <3>2, <3>5
  <2> QED BY <2>2, <2>3
<1> QED BY <1>2, <1>6 DEF SkipsOn, g

(* A step whose state changes between states that are not skipped leaves   *)
(* the skips as they are.                                                  *)
LEMMA SkipsStay ==
  ASSUME NEW r, SkipsOn(r), NEW s, s.made = r.made, NEW x, NEW t,
         s.steps = [r.steps EXCEPT ![x] = t], r.steps[x] # "skipped", t # "skipped",
         \A e \in Drawing[r.made].edges :
           e.source \in DOMAIN r.steps /\ e.target \in DOMAIN r.steps
  PROVE  SkipsOn(s)
BY DEF SkipsOn

(* A new run has begun nothing.                                            *)
LEMMA NewRunStraight ==
  ASSUME NEW id, NEW doc \in Compiled
  PROVE  Straight(NewRun(id, doc))
<1> DEFINE s == NewRun(id, doc)
           c == compileFlow[doc].chain
           g == Drawing[doc]
<1>1. ToSet(c) = Ids(g) /\ Tidy(g)
  BY CompiledIsDrawn, CompilesSoundly
<1>2. /\ s.made = doc /\ s.chain = c /\ s.sent = {}
      /\ s.steps = [x \in ToSet(c) |-> "pending"]
  BY DEF NewRun
<1>3. \A e \in g.edges : e.source \in Ids(g) /\ e.target \in Ids(g)
  BY <1>1, EndsAreSteps
<1> HIDE DEF s, c, g
<1>4. Sequenced(s)
  BY <1>2 DEF Sequenced
<1>5. SkipsOn(s)
  BY <1>1, <1>2, <1>3 DEF SkipsOn, g
<1> QED BY <1>2, <1>4, <1>5 DEF Straight, s, g

(* A step is sent for once everything before it has begun or is passed     *)
(* over.                                                                   *)
LEMMA AdvancesStraight ==
  ASSUME NEW r, Shape(r), Straight(r), DOMAIN r = Fields, NEW s, Advances(r, s)
  PROVE  Straight(s)
<1>1. /\ Alike(r, s) /\ s.steps = r.steps /\ s.outputs = r.outputs
      /\ s.sent = r.sent \/ s.sent = r.sent \cup {r.chain[i] : i \in Sendable(r)}
  BY AdvancesIs
<1> SUFFICES ASSUME r.group = 1 PROVE Straight(s)
  BY <1>1 DEF Alike, Straight
<1>2. Sequenced(s)
  <2>1. \A i, j \in DOMAIN r.chain : r.chain[i] = r.chain[j] => i = j
    BY CompiledIsDrawn DEF Shape, Body
  <2>2. \A i \in Sendable(r), j \in DOMAIN r.chain : j < i => r.steps[r.chain[j]] # "pending"
    BY DEF Sendable, isNextRunnable
  <2>3. Sequenced(r)
    BY DEF Straight
  <2>4. ASSUME NEW i \in DOMAIN r.chain, NEW j \in DOMAIN r.chain, j < i,
               r.chain[i] \in s.sent
        PROVE  r.steps[r.chain[j]] # "pending"
    <3>1. CASE r.chain[i] \in r.sent
      BY <2>3, <2>4, <3>1 DEF Sequenced
    <3>2. CASE r.chain[i] \notin r.sent
      <4>1. PICK k \in Sendable(r) : r.chain[k] = r.chain[i]
        BY <1>1, <2>4, <3>2
      <4>2. k = i
        BY <2>1, <4>1 DEF Sendable
      <4> QED BY <2>2, <2>4, <4>1, <4>2
    <3> QED BY <3>1, <3>2
  <2> QED BY <1>1, <2>3, <2>4 DEF Sequenced, Alike
<1>3. Drawable(Drawing[r.made]) => SkipsOn(s)
  BY <1>1 DEF Straight, SkipsOn, Alike
<1> QED BY <1>1, <1>2, <1>3 DEF Straight, Alike

(* What is claimed was sent for, and nothing goes back to pending.         *)
LEMMA GoesStraight ==
  ASSUME NEW r, Shape(r), Straight(r), DOMAIN r = Fields,
         NEW s, Claims(r, s) \/ Ends(r, s)
  PROVE  Straight(s)
<1>1. Alike(r, s) /\ s.sent = r.sent
  BY ClaimsIs, EndsIs
<1> SUFFICES ASSUME r.group = 1 PROVE Straight(s)
  BY <1>1 DEF Alike, Straight
<1>2. /\ Body(r) /\ Sequenced(r)
      /\ Drawable(Drawing[r.made]) => SkipsOn(r)
      /\ \A x \in DOMAIN r.steps : /\ r.steps[x] # "skipped_resumed"
                                   /\ r.steps[x] = "succeeded" =>
                                        \E o \in r.outputs : o.step = x
  BY DEF Shape, Straight
<1>3. \A e \in Drawing[r.made].edges :
         e.source \in DOMAIN r.steps /\ e.target \in DOMAIN r.steps
  BY <1>2, EdgesLeadOn
<1>4. \A i \in DOMAIN r.chain : r.chain[i] \in DOMAIN r.steps
  BY <1>2, PlacesAre
<1>5. CASE Claims(r, s)
  <2>1. PICK x \in r.sent : /\ r.steps[x] \in {"pending", "retry"}
                            /\ s.steps = [r.steps EXCEPT ![x] = "running"]
    BY <1>5, ClaimsIs
  <2>2. s.outputs = r.outputs
    BY <1>5, ClaimsIs
  <2>3. Sequenced(s)
    BY <1>1, <1>2, <1>4, <2>1 DEF Sequenced, Alike
  <2>4. Drawable(Drawing[r.made]) => SkipsOn(s)
    BY <1>1, <1>2, <1>3, <2>1, SkipsStay DEF Alike
  <2> QED BY <1>1, <1>2, <2>1, <2>2, <2>3, <2>4 DEF Straight, Alike
<1>6. CASE Ends(r, s)
  <2>1. PICK x \in DOMAIN r.steps :
          /\ r.steps[x] = "running"
          /\ \/ GivesUp(r, s, x)
             \/ \E skip \in Skippable(r, x) : GoesOn(r, s, x, skip)
    BY <1>6, EndsIs
  <2>2. x \in r.sent
    BY <1>2, <2>1 DEF Sequenced
  <2>3. CASE GivesUp(r, s, x)
    <3>1. PICK t \in {"retry", "failed"} : s.steps = [r.steps EXCEPT ![x] = t]
      BY <2>3 DEF GivesUp
    <3>2. s.outputs = r.outputs
      BY <2>3 DEF GivesUp
    <3>3. Sequenced(s)
      BY <1>1, <1>2, <1>4, <2>2, <3>1 DEF Sequenced, Alike
    <3>4. Drawable(Drawing[r.made]) => SkipsOn(s)
      BY <1>1, <1>2, <1>3, <2>1, <3>1, SkipsStay DEF Alike
    <3> QED BY <1>1, <1>2, <3>1, <3>2, <3>3, <3>4 DEF Straight, Alike
  <2>4. ASSUME NEW skip \in Skippable(r, x), GoesOn(r, s, x, skip) PROVE Straight(s)
    <3>1. s.steps = [y \in DOMAIN r.steps |->
                       IF y = x THEN "succeeded"
                       ELSE IF y \in skip /\ r.steps[y] = "pending" THEN "skipped"
                       ELSE r.steps[y]]
      BY <2>4 DEF GoesOn
    <3>2. \E o \in s.outputs : o.step = x
      <4> DEFINE o == [step |-> x, doc |-> r.made]
      <4>1. o \in s.outputs /\ o.step = x
        BY <2>4 DEF GoesOn
      <4> HIDE DEF o
      <4> QED BY <4>1
    <3>3. r.outputs \subseteq s.outputs
      BY <2>4 DEF GoesOn
    <3>4. Sequenced(s)
      BY <1>1, <1>2, <1>4, <2>2, <3>1 DEF Sequenced, Alike
    <3>5. Drawable(Drawing[r.made]) => SkipsOn(s)
      BY <1>1, <1>2, <2>1, <2>4, SkipsGoOn
    <3> QED BY <1>1, <1>2, <3>1, <3>2, <3>3, <3>4, <3>5 DEF Straight, Alike
  <2> QED BY <2>1, <2>3, <2>4
<1> QED BY <1>5, <1>6

(* Whatever becomes of a run, it goes down its chain until it is resumed.  *)
LEMMA BecomesStraight ==
  ASSUME NEW r, NEW s, Becomes(r, s), r.status # "none" => Shape(r) /\ Straight(r),
         s.status # "none"
  PROVE  Straight(s)
<1>1. CASE r.status = "none" /\ \E id \in Nat, doc \in Compiled : s = NewRun(id, doc)
  BY <1>1, NewRunStraight
<1>2. CASE r.status = "running" /\ DOMAIN r = Fields /\ Advances(r, s)
  BY <1>2, AdvancesStraight
<1>3. CASE r.status # "none" /\ DOMAIN r = Fields /\ (Claims(r, s) \/ Ends(r, s))
  BY <1>3, GoesStraight
<1>4. CASE r.status = "failed" /\ DOMAIN r = Fields /\ Resumes(r, s)
  <2>1. s.group > 1
    BY <1>4, ResumesShape
  <2> QED BY <2>1 DEF Straight
<1> QED BY <1>1, <1>2, <1>3, <1>4 DEF Becomes

(* every run that was never resumed goes down its chain                    *)
AllStraight == \A d \in Started : Straight(runs[d])

(* This holds together with the invariants above.                          *)
LEMMA AlwaysStraight == Spec => [](HInv /\ AllStraight)
<1>1. Init => AllStraight
  BY DEF Init, AllStraight, Started, NoRun
<1>2. HInv /\ AllStraight /\ [Next]_vars => AllStraight'
  <2> SUFFICES ASSUME HInv, AllStraight, [Next]_vars, NEW d \in Deliveries,
                      runs'[d].status # "none"
               PROVE  Straight(runs'[d])
    BY DEF AllStraight, Started
  <2>1. Becomes(runs[d], runs'[d])
    BY RunsGoOn DEF HInv
  <2>2. runs[d].status # "none" => Shape(runs[d]) /\ Straight(runs[d])
    BY DEF HInv, Shaped, AllStraight, Started
  <2> QED BY <2>1, <2>2, BecomesStraight
<1> QED BY <1>1, <1>2, AlwaysHInv, PTL DEF Spec

(* In a flow that the editor draws and lets publish, a step at work never  *)
(* misses a value but of a step at work beside it or one that failed, for  *)
(* every drawing, order and overlap (validation.ts, compileFlow,           *)
(* stepsToSkip, nextRunnableStep).                                         *)
THEOREM OnlyUnfinishedAlwaysMissed == Spec => []OnlyUnfinishedMissed
<1>1. ASSUME HInv, AllStraight, NEW d \in Started,
             runs[d].made \in Editable, runs[d].group = 1,
             NEW x \in DOMAIN runs[d].steps, runs[d].steps[x] = "running",
             NEW y \in resolveConfig(Drawing[runs[d].made].nodes[x], runs[d])
      PROVE  /\ y \in DOMAIN runs[d].steps
             /\ runs[d].steps[y] \in {"running", "retry", "failed"}
  <2> DEFINE r == runs[d]
  <2>1. Shape(r) /\ Straight(r) /\ Body(r)
    BY <1>1 DEF HInv, Shaped, AllStraight, Shape
  <2>2. Tidy(Drawing[r.made]) /\ topologicallyOrdered(Drawing[r.made])
    BY <2>1, EdgesLeadOn
  <2>3. x \in Ids(Drawing[r.made])
    BY <1>1, <2>1 DEF Body
  <2>4. Drawing[r.made].nodes[x].reads \subseteq ancestors(Drawing[r.made], x)
    BY <1>1, <2>2, <2>3, ReadsAncestors DEF Tidy
  <2>5. /\ y \in Drawing[r.made].nodes[x].reads
        /\ ~ (y \in {o.step : o \in r.outputs} /\ r.steps[y] \in {"succeeded", "skipped_resumed"})
    BY <1>1 DEF resolveConfig, upstream
  <2>6. /\ y \in DOMAIN r.steps
        /\ r.steps[y] \in {"running", "retry", "failed", "succeeded"}
    BY <1>1, <2>1, <2>4, <2>5, AncestorsBegan DEF Editable
  <2>7. r.steps[y] # "succeeded"
    BY <1>1, <2>1, <2>5, <2>6 DEF Straight
  <2> QED BY <2>6, <2>7
<1>2. HInv /\ AllStraight => OnlyUnfinishedMissed
  BY <1>1 DEF OnlyUnfinishedMissed
<1> QED BY <1>2, AlwaysStraight, PTL
=============================================================================
