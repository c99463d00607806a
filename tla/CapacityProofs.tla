--------------------------- MODULE CapacityProofs ---------------------------
(***************************************************************************)
(* The ceilings hold for any number of steps, workers, tenants and flows,  *)
(* whatever dies, lapses, is swept or is deferred.                         *)
(*                                                                         *)
(* The induction rests on the advisory lock: who holds the lock of a       *)
(* tenant is alone with it (Locking), so what a holder has counted stays   *)
(* an upper bound until it claims (Counted), since nobody else starts a    *)
(* step of that tenant, nor of a flow of it, in between.                   *)
(***************************************************************************)
EXTENDS CapacityProps, FiniteSetTheorems, TLAPS

Statuses == {"pending", "running", "succeeded"}
Leases == {"none", "live", "lapsed"}
Targeted == {"lock", "tenant", "flow", "update", "blocked", "exec"}
Counting == {"tenant", "flow", "update"}
Places == Targeted \cup {"top", "drain", "drained", "stopped"}

WorkerState ==
  [pc : Places, batch : SUBSET Steps, target : Steps \cup {NoStep},
   lapsed : SUBSET Steps, processed : Nat, stopping : BOOLEAN]
RowState == [status : Statuses, lease : Leases, owner : Workers \cup {Nobody}]

RowsOK == rows \in [Steps -> RowState]
QueueOK == queue \subseteq [step : Steps, due : BOOLEAN]
WorkersOK == worker \in [Workers -> WorkerState]
TargetsOK == \A w \in Workers : worker[w].pc \in Targeted => worker[w].target \in Steps

Typed == RowsOK /\ QueueOK /\ WorkersOK /\ TargetsOK

Holds(w, s) == worker[w].pc \in Counting /\ worker[w].target = s

Locking ==
  \A v, w \in Workers : \A s, t \in Steps :
    Holds(v, s) /\ Holds(w, t) /\ TenantOf[s] = TenantOf[t] => v = w

Counted ==
  \A w \in Workers : \A s \in Steps :
    worker[w].target = s =>
      /\ worker[w].pc \in {"flow", "update"} =>
           Cardinality(Live(TenantOf, TenantOf[s])) < PerTenant
      /\ worker[w].pc = "update" =>
           Cardinality(Live(FlowOf, FlowOf[s])) < PerFlow

IInv == Typed /\ Locking /\ Counted /\ CeilingsHold

-----------------------------------------------------------------------------
(* Types                                                                   *)

(* A message is a step and whether it is due.                              *)
LEMMA AMessage ==
  ASSUME NEW s \in Steps, NEW b \in BOOLEAN
  PROVE  [step |-> s, due |-> b] \in [step : Steps, due : BOOLEAN]
  OBVIOUS

(* Nothing runs and everything is queued at first.                         *)
LEMMA TypedInit == ASSUME Init PROVE Typed
<1>1. RowsOK
  BY DEF Init, RowsOK, RowState, Statuses, Leases
<1>2. QueueOK
  <2>1. \A s \in Steps : [step |-> s, due |-> TRUE] \in [step : Steps, due : BOOLEAN]
    BY AMessage
  <2> QED BY <2>1 DEF Init, QueueOK
<1>3. Started \in WorkerState /\ Started.pc = "top"
  BY DEF Started, WorkerState, Places, Targeted
<1>4. WorkersOK /\ TargetsOK
  BY <1>3 DEF Init, WorkersOK, TargetsOK, Targeted
<1> QED BY <1>1, <1>2, <1>4 DEF Typed

(* A step of a worker replaces its record by one of the same type.         *)
LEMMA OneWorkerMoves ==
  ASSUME WorkersOK, TargetsOK, NEW w \in Workers, NEW r \in WorkerState,
         r.pc \in Targeted => r.target \in Steps,
         worker' = [worker EXCEPT ![w] = r]
  PROVE  WorkersOK' /\ TargetsOK'
  BY DEF WorkersOK, TargetsOK

(* What a step of worker w writes into its record.                         *)
Becomes(w, r) == r \in WorkerState /\ (r.pc \in Targeted => r.target \in Steps)
                 /\ worker' = [worker EXCEPT ![w] = r]

(* Every step a worker takes keeps the types.                              *)
LEMMA TypedWork ==
  ASSUME Typed, NEW w \in Workers,
         Works(w) \/ Sweep(w) \/ Lock(w) \/ Stop(w) \/ Crash(w)
  PROVE  Typed'
<1> DEFINE old == worker[w]
<1>o. old \in WorkerState /\ (old.pc \in Targeted => old.target \in Steps)
  BY DEF Typed, WorkersOK, TargetsOK
<1>m. ASSUME NEW r, Becomes(w, r) PROVE WorkersOK' /\ TargetsOK'
  BY <1>m, OneWorkerMoves DEF Becomes, Typed
<1>s. Started \in WorkerState /\ Started.pc = "top"
  BY DEF Started, WorkerState, Places, Targeted
<1>1. CASE Top(w)
  <2> DEFINE r == [old EXCEPT !.pc = IF old.stopping THEN "stopped" ELSE "drain"]
  <2>1. Becomes(w, r)
    BY <1>o, <1>1 DEF Becomes, Top, Moves, Typed, WorkersOK, WorkerState, Places, Targeted
  <2> QED BY <1>1, <1>m, <2>1 DEF Top, Typed, RowsOK, QueueOK
<1>2. CASE ClaimBatch(w)
  <2>1. PICK taken \in SUBSET Due : /\ queue' = {m \in queue : m.step \notin taken}
                                  /\ worker' = [worker EXCEPT ![w].batch = taken]
    BY <1>2 DEF ClaimBatch
  <2>2. taken \subseteq Steps
    BY <2>1 DEF Due, Typed, QueueOK
  <2> DEFINE r == [old EXCEPT !.batch = taken]
  <2>3. Becomes(w, r)
    BY <1>o, <2>1, <2>2 DEF Becomes, Typed, WorkersOK, WorkerState, Places, Targeted
  <2> QED BY <1>2, <1>m, <2>1, <2>3 DEF ClaimBatch, Typed, RowsOK, QueueOK
<1>3. CASE Drained(w)
  <2> DEFINE r == [old EXCEPT !.pc = "drained", !.processed = 0]
  <2>1. Becomes(w, r)
    BY <1>o, <1>3 DEF Becomes, Drained, Typed, WorkersOK, WorkerState, Places, Targeted
  <2> QED BY <1>3, <1>m, <2>1 DEF Drained, Typed, RowsOK, QueueOK
<1>4. CASE NoSweep(w) \/ Sweep(w)
  <2> DEFINE r == [old EXCEPT !.pc = "top"]
  <2>1. Becomes(w, r)
    BY <1>o, <1>4 DEF Becomes, NoSweep, Sweep, Moves, Typed, WorkersOK,
       WorkerState, Places, Targeted
  <2>2. Stranded \subseteq Steps
    BY DEF Stranded, Lapsed
  <2>m. \A s \in Stranded : [step |-> s, due |-> TRUE] \in [step : Steps, due : BOOLEAN]
    BY <2>2, AMessage
  <2>3. QueueOK'
    <3>1. CASE NoSweep(w)
      BY <3>1 DEF NoSweep, Typed, QueueOK
    <3>2. CASE Sweep(w)
      <4> DEFINE more == {[step |-> s, due |-> TRUE] : s \in Stranded}
      <4>1. more \subseteq [step : Steps, due : BOOLEAN]
        BY <2>m
      <4>2. queue' = {m \in queue : m.step \notin Stranded} \cup more
        BY <3>2 DEF Sweep
      <4> HIDE DEF more
      <4> QED BY <4>1, <4>2 DEF Typed, QueueOK
    <3> QED BY <1>4, <3>1, <3>2
  <2> QED BY <1>4, <1>m, <2>1, <2>3 DEF NoSweep, Sweep, Typed, RowsOK
<1>5. CASE Stop(w)
  <2> DEFINE r == [old EXCEPT !.stopping = TRUE]
  <2>1. Becomes(w, r)
    BY <1>o, <1>5 DEF Becomes, Stop, Typed, WorkersOK, WorkerState, Places, Targeted
  <2> QED BY <1>5, <1>m, <2>1 DEF Stop, Typed, RowsOK, QueueOK
<1>6. CASE Begin(w)
  <2>1. PICK s \in old.batch :
           worker' = [worker EXCEPT ![w].pc = "lock", ![w].target = s,
                        ![w].batch = @ \ {s}, ![w].processed = @ + 1,
                        ![w].lapsed = Lapsed]
    BY <1>6 DEF Begin
  <2> DEFINE r == [old EXCEPT !.pc = "lock", !.target = s, !.batch = @ \ {s},
                              !.processed = @ + 1, !.lapsed = Lapsed]
  <2>2. s \in Steps /\ Lapsed \subseteq Steps
    BY <1>o, <2>1 DEF WorkerState, Lapsed
  <2>b. /\ old.batch \ {s} \in SUBSET Steps /\ old.processed + 1 \in Nat
        /\ "lock" \in Places /\ s \in Steps \cup {NoStep} /\ Lapsed \in SUBSET Steps
    BY <1>o, <2>2 DEF WorkerState, Places, Targeted
  <2>3. r \in WorkerState /\ r.target \in Steps
    <3> HIDE DEF old
    <3>1. r = [old EXCEPT !.pc = "lock", !.target = s, !.batch = old.batch \ {s},
                          !.processed = old.processed + 1, !.lapsed = Lapsed]
      BY <1>o DEF WorkerState
    <3> QED BY <1>o, <2>b, <2>2, <3>1 DEF WorkerState
  <2>4. Becomes(w, r)
    BY <2>1, <2>3 DEF Becomes, Typed, WorkersOK
  <2> QED BY <1>6, <1>m, <2>4 DEF Begin, Typed, RowsOK, QueueOK
<1>7. CASE Lock(w)
  <2> DEFINE r == [old EXCEPT !.pc = "tenant"]
  <2>1. Becomes(w, r)
    BY <1>o, <1>7 DEF Becomes, Lock, Moves, At, Typed, WorkersOK, WorkerState, Places, Targeted
  <2> QED BY <1>7, <1>m, <2>1 DEF Lock, Typed, RowsOK, QueueOK
<1>g. ASSUME NEW pc \in {"blocked", "flow", "update", "exec"},
             old.target \in Steps, Goes(w, pc)
      PROVE  WorkersOK' /\ TargetsOK'
  <2> DEFINE l == IF pc \in {"tenant", "flow", "update"} THEN old.lapsed ELSE {}
  <2> DEFINE r == [old EXCEPT !.pc = pc, !.lapsed = l]
  <2>1. r \in WorkerState /\ r.target \in Steps
    BY <1>o, <1>g DEF WorkerState, Places, Targeted
  <2>2. Becomes(w, r)
    BY <1>g, <2>1 DEF Becomes, Goes, Typed, WorkersOK
  <2> QED BY <1>m, <2>2
<1>e. ASSUME worker' = Ends(w) PROVE WorkersOK' /\ TargetsOK'
  <2> DEFINE r == [old EXCEPT !.pc = "drain", !.target = NoStep, !.lapsed = {}]
  <2>1. r \in WorkerState /\ r.pc = "drain"
    BY <1>o DEF WorkerState, Places, Targeted
  <2>2. Becomes(w, r)
    BY <1>e, <2>1 DEF Becomes, Ends, Typed, WorkersOK, Targeted
  <2> QED BY <1>m, <2>2
<1>8. CASE CountTenant(w)
  <2>1. \E pc \in {"blocked", "flow"} : Goes(w, pc)
    BY <1>8 DEF CountTenant
  <2>2. old.target \in Steps
    BY <1>o, <1>8 DEF CountTenant, At, Targeted
  <2> QED BY <1>8, <1>g, <2>1, <2>2 DEF CountTenant, Typed, RowsOK, QueueOK
<1>9. CASE CountFlow(w)
  <2>1. \E pc \in {"blocked", "update"} : Goes(w, pc)
    BY <1>9 DEF CountFlow
  <2>2. old.target \in Steps
    BY <1>o, <1>9 DEF CountFlow, At, Targeted
  <2> QED BY <1>9, <1>g, <2>1, <2>2 DEF CountFlow, Typed, RowsOK, QueueOK
<1>10. CASE Claim(w)
  <2>1. old.target \in Steps
    BY <1>o, <1>10 DEF Claim, At, Targeted
  <2>2. WorkersOK' /\ TargetsOK'
    BY <1>10, <1>g, <1>e, <2>1 DEF Claim
  <2>3. RowsOK'
    BY <1>10, <2>1 DEF Claim, Typed, RowsOK, RowState, Statuses, Leases
  <2> QED BY <1>10, <2>2, <2>3 DEF Claim, Typed, QueueOK
<1>11. CASE Defer(w)
  <2>1. old.target \in Steps
    BY <1>o, <1>11 DEF Defer, At, Targeted
  <2>m. [step |-> old.target, due |-> FALSE] \in [step : Steps, due : BOOLEAN]
    BY <2>1, AMessage
  <2>2. QueueOK'
    BY <1>11, <2>m DEF Defer, Typed, QueueOK
  <2> QED BY <1>11, <1>e, <2>2 DEF Defer, Typed, RowsOK
<1>12. CASE Record(w)
  <2>1. RowsOK'
    BY <1>12 DEF Record, Typed, RowsOK, RowState, Statuses, Leases
  <2> QED BY <1>12, <1>e, <2>1 DEF Record, Typed, QueueOK
<1>13. CASE Crash(w)
  <2> DEFINE r == IF old.stopping THEN [Started EXCEPT !.pc = "stopped"] ELSE Started
  <2>1. r \in WorkerState /\ r.pc \notin Targeted
    BY <1>s DEF WorkerState, Places, Targeted
  <2>2. Becomes(w, r)
    BY <1>13, <2>1 DEF Becomes, Crash
  <2> QED BY <1>13, <1>m, <2>2 DEF Crash, Typed, RowsOK, QueueOK
<1> QED BY <1>1, <1>2, <1>3, <1>4, <1>5, <1>6, <1>7, <1>8, <1>9, <1>10, <1>11,
           <1>12, <1>13 DEF Works

(* So does every step.                                                     *)
LEMMA TypedNext == ASSUME Typed, [Next]_vars PROVE Typed'
<1>1. CASE \E w \in Workers :
             Works(w) \/ Sweep(w) \/ Lock(w) \/ Stop(w) \/ Crash(w)
  BY <1>1, TypedWork
<1>2. ASSUME NEW s \in Steps, ComesDue(s) PROVE Typed'
  <2>m. [step |-> s, due |-> TRUE] \in [step : Steps, due : BOOLEAN]
    BY AMessage
  <2> QED BY <1>2, <2>m DEF ComesDue, Typed, RowsOK, QueueOK, WorkersOK, TargetsOK
<1>3. ASSUME NEW s \in Steps, LeaseLapses(s) PROVE Typed'
  BY <1>3 DEF LeaseLapses, Typed, RowsOK, QueueOK, WorkersOK, TargetsOK,
     RowState, Leases
<1>4. CASE UNCHANGED vars
  BY <1>4 DEF vars, Typed, RowsOK, QueueOK, WorkersOK, TargetsOK
<1> QED BY <1>1, <1>2, <1>3, <1>4 DEF Next

-----------------------------------------------------------------------------
(* The lock and the counts                                                 *)

(* The live steps of a tenant or a flow are finitely many, and one that    *)
(* has no live step it did not have before has no more of them.            *)
LEMMA NoMoreLive ==
  ASSUME NEW before \in SUBSET Steps, NEW after, after \subseteq before
  PROVE  /\ Cardinality(before) \in Nat /\ Cardinality(after) \in Nat
         /\ Cardinality(after) <= Cardinality(before)
<1>1. IsFiniteSet(before)
  BY FS_Subset, CapacityAssumption DEF CapacityAssumption
<1> QED BY <1>1, FS_Subset, FS_CardinalityType

(* A step after which every holder of a lock was one before, as to the     *)
(* same target, and which starts no step, keeps all of the invariant.      *)
LEMMA CalmStep ==
  ASSUME IInv,
         \A w \in Workers :
           worker'[w].pc \in Counting =>
             worker[w].pc = worker'[w].pc /\ worker[w].target = worker'[w].target,
         \A s \in Steps :
           rows'[s].status = "running" /\ rows'[s].lease = "live" =>
             rows[s].status = "running" /\ rows[s].lease = "live"
  PROVE  Locking' /\ Counted' /\ CeilingsHold'
<1>1. Locking'
  BY DEF IInv, Locking, Holds, Counting
<1>2. ASSUME NEW of, NEW whose
      PROVE  /\ Live(of, whose) \in SUBSET Steps
             /\ Live(of, whose)' \subseteq Live(of, whose)
  BY DEF Live
<1>3. \A s \in Steps :
        /\ Cardinality(Live(TenantOf, TenantOf[s])) \in Nat
        /\ Cardinality(Live(TenantOf, TenantOf[s])') \in Nat
        /\ Cardinality(Live(TenantOf, TenantOf[s])')
              <= Cardinality(Live(TenantOf, TenantOf[s]))
        /\ Cardinality(Live(FlowOf, FlowOf[s])) \in Nat
        /\ Cardinality(Live(FlowOf, FlowOf[s])') \in Nat
        /\ Cardinality(Live(FlowOf, FlowOf[s])')
              <= Cardinality(Live(FlowOf, FlowOf[s]))
  BY <1>2, NoMoreLive
<1>4. Counted'
  <2> SUFFICES ASSUME NEW w \in Workers, NEW s \in Steps, worker'[w].target = s
               PROVE  /\ worker'[w].pc \in {"flow", "update"} =>
                           Cardinality(Live(TenantOf, TenantOf[s])') < PerTenant
                      /\ worker'[w].pc = "update" =>
                           Cardinality(Live(FlowOf, FlowOf[s])') < PerFlow
    BY DEF Counted
  <2>1. worker'[w].pc \in {"flow", "update"} =>
          worker[w].pc = worker'[w].pc /\ worker[w].target = s
    BY DEF Counting
  <2> QED BY <1>3, <2>1, CapacityAssumption DEF IInv, Counted, CapacityAssumption
<1>5. CeilingsHold'
  BY <1>3, CapacityAssumption DEF IInv, CeilingsHold, CapacityAssumption
<1> QED BY <1>1, <1>4, <1>5

(* What a worker counts, as its transaction sees the leases, includes      *)
(* every step that is live.                                                *)
LEMMA CountsAllLive ==
  ASSUME NEW w, NEW of, NEW whose
  PROVE  /\ Cardinality(Live(of, whose)) \in Nat
         /\ Cardinality(Running(w, of, whose)) \in Nat
         /\ Cardinality(Live(of, whose)) <= Cardinality(Running(w, of, whose))
<1>1. Running(w, of, whose) \in SUBSET Steps
  BY DEF Running
<1>2. Live(of, whose) \subseteq Running(w, of, whose)
  BY DEF Live, Running
<1> QED BY <1>1, <1>2, NoMoreLive

(* Who takes the lock of a tenant is alone with it.                        *)
LEMMA LockTaken ==
  ASSUME IInv, NEW w \in Workers, Lock(w)
  PROVE  Locking' /\ Counted' /\ CeilingsHold'
<1>1. worker' = [worker EXCEPT ![w].pc = "tenant"] /\ UNCHANGED rows
  BY DEF Lock, Moves
<1>2. /\ worker \in [Workers -> WorkerState]
      /\ worker[w].target \in Steps
  BY DEF IInv, Typed, WorkersOK, TargetsOK, Lock, At, Targeted
<1>3. /\ worker'[w].pc = "tenant" /\ worker'[w].target = worker[w].target
      /\ \A v \in Workers \ {w} : worker'[v] = worker[v]
  BY <1>1, <1>2 DEF WorkerState
<1>4. \A v \in Workers : \A s \in Steps :
        Holds(v, s) => TenantOf[s] # TenantOf[worker[w].target]
  BY <1>2 DEF Lock, Holders, Holds, Counting
<1>5. Locking'
  BY <1>2, <1>3, <1>4 DEF IInv, Locking, Holds
<1>6. \A of, whose : Live(of, whose)' = Live(of, whose)
  BY <1>1 DEF Live
<1>7. Counted' /\ CeilingsHold'
  BY <1>3, <1>6 DEF IInv, Counted, CeilingsHold
<1> QED BY <1>5, <1>7

(* Who finds room has counted all that is live.                            *)
LEMMA CountTaken ==
  ASSUME IInv, NEW w \in Workers, CountTenant(w) \/ CountFlow(w)
  PROVE  Locking' /\ Counted' /\ CeilingsHold'
<1> DEFINE s == worker[w].target
<1>1. /\ worker \in [Workers -> WorkerState]
      /\ s \in Steps /\ worker[w].pc \in {"tenant", "flow"}
  BY DEF IInv, Typed, WorkersOK, TargetsOK, CountTenant, CountFlow, At, Targeted
<1>2. UNCHANGED rows /\ \E pc \in {"blocked", "flow", "update"} : Goes(w, pc)
  BY DEF CountTenant, CountFlow
<1>3. /\ worker'[w].target = s /\ worker'[w].pc \in {"blocked", "flow", "update"}
      /\ \A v \in Workers \ {w} : worker'[v] = worker[v]
  BY <1>1, <1>2 DEF WorkerState, Goes
<1>4. Locking'
  BY <1>1, <1>3 DEF IInv, Locking, Holds, Counting
<1>5. \A of, whose : Live(of, whose)' = Live(of, whose)
  BY <1>2 DEF Live
<1>6. worker'[w].pc \in {"flow", "update"} =>
        Cardinality(Live(TenantOf, TenantOf[s])) < PerTenant
  <2>1. CASE CountTenant(w)
    <3>1. worker'[w].pc \in {"flow", "update"} =>
            ~(Cardinality(Running(w, TenantOf, TenantOf[s])) >= PerTenant)
      BY <1>1, <2>1 DEF CountTenant, Goes, WorkerState
    <3> QED BY <3>1, CountsAllLive, CapacityAssumption DEF CapacityAssumption
  <2>2. CASE CountFlow(w)
    BY <1>1, <2>2 DEF IInv, Counted, CountFlow, At
  <2> QED BY <2>1, <2>2
<1>7. worker'[w].pc = "update" => Cardinality(Live(FlowOf, FlowOf[s])) < PerFlow
  <2>1. CASE CountTenant(w)
    BY <1>1, <2>1 DEF CountTenant, Goes, WorkerState
  <2>2. CASE CountFlow(w)
    <3>1. worker'[w].pc = "update" =>
            ~(Cardinality(Running(w, FlowOf, FlowOf[s])) >= PerFlow)
      BY <1>1, <2>2 DEF CountFlow, Goes, WorkerState
    <3> QED BY <3>1, CountsAllLive, CapacityAssumption DEF CapacityAssumption
  <2> QED BY <2>1, <2>2
<1>8. Counted'
  BY <1>3, <1>5, <1>6, <1>7 DEF IInv, Counted
<1> QED BY <1>4, <1>5, <1>8 DEF IInv, CeilingsHold

(* A claim adds one live step, of a tenant and a flow that had room; who   *)
(* else is counting counts for another tenant, hence for another flow.     *)
LEMMA ClaimTaken ==
  ASSUME IInv, NEW w \in Workers, Claim(w), Claimable(w, worker[w].target)
  PROVE  Locking' /\ Counted' /\ CeilingsHold'
<1> DEFINE s == worker[w].target
<1>1. /\ worker \in [Workers -> WorkerState] /\ rows \in [Steps -> RowState]
      /\ s \in Steps /\ worker[w].pc = "update"
  BY DEF IInv, Typed, RowsOK, WorkersOK, TargetsOK, Claim, At, Targeted
<1>2. /\ rows' = [rows EXCEPT ![s] = [status |-> "running", lease |-> "live",
                                      owner |-> w]]
      /\ Goes(w, "exec")
  BY DEF Claim
<1>3. worker'[w].pc = "exec" /\ \A v \in Workers \ {w} : worker'[v] = worker[v]
  BY <1>1, <1>2 DEF WorkerState, Goes
<1>4. Locking'
  BY <1>3 DEF IInv, Locking, Holds, Counting
<1>5. \A of, whose :
        /\ whose # of[s] => Live(of, whose)' \subseteq Live(of, whose)
        /\ Live(of, whose)' \subseteq Live(of, whose) \cup {s}
  BY <1>1, <1>2 DEF Live
<1>6. \A of, whose :
        /\ Cardinality(Live(of, whose)) \in Nat /\ Cardinality(Live(of, whose)') \in Nat
        /\ Cardinality(Live(of, whose)') <= Cardinality(Live(of, whose)) + 1
        /\ whose # of[s] => Cardinality(Live(of, whose)') <= Cardinality(Live(of, whose))
  <2> SUFFICES ASSUME NEW of, NEW whose
               PROVE  /\ Cardinality(Live(of, whose)) \in Nat
                      /\ Cardinality(Live(of, whose)') \in Nat
                      /\ Cardinality(Live(of, whose)') <= Cardinality(Live(of, whose)) + 1
                      /\ whose # of[s] =>
                           Cardinality(Live(of, whose)') <= Cardinality(Live(of, whose))
    OBVIOUS
  <2>1. Live(of, whose) \in SUBSET Steps /\ Live(of, whose) \cup {s} \in SUBSET Steps
    BY <1>1 DEF Live
  <2>2. IsFiniteSet(Live(of, whose))
    BY <2>1, FS_Subset, CapacityAssumption DEF CapacityAssumption
  <2>3. Cardinality(Live(of, whose) \cup {s}) <= Cardinality(Live(of, whose)) + 1
    <3> DEFINE L == Live(of, whose)
    <3>1. IsFiniteSet(L) /\ Cardinality(L) \in Nat
      BY <2>2, FS_CardinalityType
    <3> HIDE DEF L
    <3>2. \/ Cardinality(L \cup {s}) = Cardinality(L)
          \/ Cardinality(L \cup {s}) = Cardinality(L) + 1
      BY <3>1, FS_AddElement
    <3>3. Cardinality(L \cup {s}) <= Cardinality(L) + 1
      BY <3>1, <3>2
    <3> QED BY <3>3 DEF L
  <2>4. /\ Cardinality(Live(of, whose)') <= Cardinality(Live(of, whose) \cup {s})
        /\ Cardinality(Live(of, whose) \cup {s}) \in Nat
        /\ Cardinality(Live(of, whose)') \in Nat
    BY <1>5, <2>1, NoMoreLive
  <2>5. Cardinality(Live(of, whose)) \in Nat
    BY <2>2, FS_CardinalityType
  <2>6. whose # of[s] => Cardinality(Live(of, whose)') <= Cardinality(Live(of, whose))
    BY <1>5, <2>1, NoMoreLive
  <2> QED BY <2>3, <2>4, <2>5, <2>6
<1>7. ASSUME NEW v \in Workers \ {w}, NEW t \in Steps,
             worker[v].pc \in Counting, worker[v].target = t
      PROVE  TenantOf[t] # TenantOf[s] /\ FlowOf[t] # FlowOf[s]
  <2>1. TenantOf[t] # TenantOf[s]
    BY <1>1, <1>7 DEF IInv, Locking, Holds, Counting
  <2> QED BY <1>1, <2>1, CapacityAssumption DEF CapacityAssumption
<1>8. Counted'
  <2> SUFFICES ASSUME NEW v \in Workers \ {w}, NEW t \in Steps, worker[v].target = t,
                      worker[v].pc \in {"flow", "update"}
               PROVE  /\ Cardinality(Live(TenantOf, TenantOf[t])') < PerTenant
                      /\ worker[v].pc = "update" =>
                           Cardinality(Live(FlowOf, FlowOf[t])') < PerFlow
    BY <1>3 DEF Counted
  <2>1. TenantOf[t] # TenantOf[s] /\ FlowOf[t] # FlowOf[s]
    BY <1>7 DEF Counting
  <2>2. /\ Cardinality(Live(TenantOf, TenantOf[t])) < PerTenant
        /\ worker[v].pc = "update" => Cardinality(Live(FlowOf, FlowOf[t])) < PerFlow
    BY DEF IInv, Counted
  <2> QED BY <1>6, <2>1, <2>2, CapacityAssumption DEF CapacityAssumption
<1>9. CeilingsHold'
  <2> SUFFICES ASSUME NEW t \in Steps
               PROVE  /\ Cardinality(Live(TenantOf, TenantOf[t])') <= PerTenant
                      /\ Cardinality(Live(FlowOf, FlowOf[t])') <= PerFlow
    BY DEF CeilingsHold
  <2>1. /\ Cardinality(Live(TenantOf, TenantOf[s])) < PerTenant
        /\ Cardinality(Live(FlowOf, FlowOf[s])) < PerFlow
    BY <1>1 DEF IInv, Counted
  <2>2. /\ Cardinality(Live(TenantOf, TenantOf[t])) <= PerTenant
        /\ Cardinality(Live(FlowOf, FlowOf[t])) <= PerFlow
    BY DEF IInv, CeilingsHold
  <2>3. Cardinality(Live(TenantOf, TenantOf[t])') <= PerTenant
    BY <1>6, <2>1, <2>2, CapacityAssumption DEF CapacityAssumption
  <2>4. Cardinality(Live(FlowOf, FlowOf[t])') <= PerFlow
    BY <1>6, <2>1, <2>2, CapacityAssumption DEF CapacityAssumption
  <2> QED BY <2>3, <2>4
<1> QED BY <1>4, <1>8, <1>9

-----------------------------------------------------------------------------
(* Induction                                                               *)

(* At first nobody counts and nothing is live.                             *)
LEMMA Start == ASSUME Init PROVE IInv
<1>1. \A w \in Workers : worker[w].pc = "top"
  BY DEF Init, Started
<1>2. \A of, whose : Live(of, whose) = {}
  BY DEF Init, Live
<1>3. \A of, whose : Cardinality(Live(of, whose)) = 0
  BY <1>2, FS_EmptySet
<1>4. Locking /\ Counted
  BY <1>1 DEF Locking, Holds, Counting, Counted
<1>5. CeilingsHold
  BY <1>3, CapacityAssumption DEF CeilingsHold, CapacityAssumption
<1> QED BY <1>4, <1>5, TypedInit DEF IInv

(* The steps of a worker outside its claim leave locks and leases as they  *)
(* are, or drop them.                                                      *)
LEMMA WorkKeeps ==
  ASSUME IInv, NEW w \in Workers,
         Works(w) \/ Sweep(w) \/ Lock(w) \/ Stop(w) \/ Crash(w)
  PROVE  Locking' /\ Counted' /\ CeilingsHold'
<1> DEFINE Calm ==
      /\ \A v \in Workers :
           worker'[v].pc \in Counting =>
             worker[v].pc = worker'[v].pc /\ worker[v].target = worker'[v].target
      /\ \A s \in Steps :
           rows'[s].status = "running" /\ rows'[s].lease = "live" =>
             rows[s].status = "running" /\ rows[s].lease = "live"
<1>c. ASSUME Calm PROVE Locking' /\ Counted' /\ CeilingsHold'
  BY <1>c, CalmStep
<1>t. worker \in [Workers -> WorkerState] /\ rows \in [Steps -> RowState]
  BY DEF IInv, Typed, RowsOK, WorkersOK
<1>1. CASE Top(w) \/ NoSweep(w) \/ Sweep(w) \/ Drained(w)
  <2>1. /\ \A v \in Workers \ {w} : worker'[v] = worker[v]
        /\ worker'[w].pc \in {"stopped", "drain", "top", "drained"} /\ UNCHANGED rows
    BY <1>1, <1>t DEF Top, NoSweep, Sweep, Drained, Moves, WorkerState
  <2> QED BY <1>c, <2>1 DEF Counting
<1>2. CASE ClaimBatch(w) \/ Stop(w)
  <2>1. /\ \A v \in Workers :
             worker'[v].pc = worker[v].pc /\ worker'[v].target = worker[v].target
        /\ UNCHANGED rows
    BY <1>2, <1>t DEF ClaimBatch, Stop, WorkerState
  <2> QED BY <1>c, <2>1
<1>3. CASE Begin(w)
  <2>1. /\ \A v \in Workers \ {w} : worker'[v] = worker[v]
        /\ worker'[w].pc = "lock" /\ UNCHANGED rows
    BY <1>3, <1>t DEF Begin, WorkerState
  <2> QED BY <1>c, <2>1 DEF Counting
<1>4. CASE worker' = Ends(w) /\ UNCHANGED rows
  <2>1. /\ \A v \in Workers \ {w} : worker'[v] = worker[v]
        /\ worker'[w].pc = "drain"
    BY <1>4, <1>t DEF Ends, WorkerState
  <2> QED BY <1>4, <1>c, <2>1 DEF Counting
<1>5. CASE Record(w)
  <2>1. /\ \A v \in Workers \ {w} : worker'[v] = worker[v]
        /\ worker'[w].pc = "drain"
    BY <1>5, <1>t DEF Record, Ends, WorkerState
  <2>2. \A s \in Steps :
           rows'[s].status = "running" /\ rows'[s].lease = "live" =>
             rows[s].status = "running" /\ rows[s].lease = "live"
    BY <1>5, <1>t DEF Record, RowState
  <2> QED BY <1>c, <2>1, <2>2 DEF Counting
<1>6. CASE Crash(w)
  <2>1. /\ \A v \in Workers \ {w} : worker'[v] = worker[v]
        /\ worker'[w].pc \in {"stopped", "top"} /\ UNCHANGED rows
    BY <1>6, <1>t DEF Crash, Started, WorkerState
  <2> QED BY <1>c, <2>1 DEF Counting
<1>7. CASE Lock(w)
  BY <1>7, LockTaken
<1>8. CASE CountTenant(w) \/ CountFlow(w)
  BY <1>8, CountTaken
<1>9. CASE Claim(w)
  <2>1. CASE Claimable(w, worker[w].target)
    BY <1>9, <2>1, ClaimTaken
  <2>2. CASE ~Claimable(w, worker[w].target)
    BY <1>4, <1>9, <2>2 DEF Claim
  <2> QED BY <2>1, <2>2
<1>10. CASE Defer(w)
  BY <1>4, <1>10 DEF Defer
<1> QED BY <1>1, <1>2, <1>3, <1>5, <1>6, <1>7, <1>8, <1>9, <1>10 DEF Works

(* Every step keeps the invariant.                                         *)
LEMMA StepKeeps == ASSUME IInv, [Next]_vars PROVE IInv'
<1>1. Typed'
  BY TypedNext DEF IInv
<1>2. CASE \E w \in Workers :
             Works(w) \/ Sweep(w) \/ Lock(w) \/ Stop(w) \/ Crash(w)
  BY <1>1, <1>2, WorkKeeps DEF IInv
<1>3. CASE \E s \in Steps : ComesDue(s) \/ LeaseLapses(s)
  <2>1. UNCHANGED worker
    BY <1>3 DEF ComesDue, LeaseLapses
  <2>2. \A s \in Steps :
           rows'[s].status = "running" /\ rows'[s].lease = "live" =>
             rows[s].status = "running" /\ rows[s].lease = "live"
    BY <1>3 DEF ComesDue, LeaseLapses, IInv, Typed, RowsOK, RowState
  <2> QED BY <1>1, <2>1, <2>2, CalmStep DEF IInv
<1>4. CASE UNCHANGED vars
  <2>1. UNCHANGED worker /\ UNCHANGED rows
    BY <1>4 DEF vars
  <2> QED BY <1>1, <2>1, CalmStep DEF IInv
<1> QED BY <1>2, <1>3, <1>4 DEF Next

(* For every number of workers, tenants, flows and steps: no tenant and no *)
(* flow has more steps with a live lease than its ceiling, whatever the    *)
(* interleaving of the statements of their claims (checkLimits, claimStep).*)
THEOREM CeilingsAlwaysHold == Spec => []CeilingsHold
<1>1. Init => IInv
  BY Start
<1>2. IInv /\ [Next]_vars => IInv'
  BY StepKeeps
<1>3. IInv => CeilingsHold
  BY DEF IInv
<1> QED BY <1>1, <1>2, <1>3, PTL DEF Spec

=============================================================================
