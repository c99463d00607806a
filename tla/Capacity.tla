------------------------------ MODULE Capacity ------------------------------
(***************************************************************************)
(* The worker processes of automa-durable-runner under the concurrency     *)
(* ceilings: the loop of engine/worker.ts, the batches of drain.ts, the    *)
(* claim of a step at the granularity of the statements of checkLimits and *)
(* claimStep (repository.ts), and the janitor's sweep.  DurableRun has one *)
(* run with all its steps; here are many runs, each with the one step that *)
(* is next, and a message stands for the advance_run or the run_step that  *)
(* leads to it.  Two messages for a step in the queue count as one.        *)
(***************************************************************************)
EXTENDS Integers, FiniteSets

CONSTANTS
  Steps, Workers,
  Stopped,             \* the workers that may be told to stop
  TenantOf, FlowOf,    \* step -> whose it is
  PerTenant, PerFlow,  \* deps.limits
  BatchSize, MaxJobs,  \* of drainQueue
  MaxLosses            \* bound: processes that die, leases that lapse early

NoStep == "none"
Nobody == "nobody"

CapacityAssumption ==
  /\ IsFiniteSet(Steps) /\ NoStep \notin Steps
  /\ {PerTenant, PerFlow, BatchSize, MaxJobs} \subseteq Nat \ {0}
  /\ MaxLosses \in Nat /\ Stopped \subseteq Workers
  (* a flow is one tenant's *)
  /\ \A s, t \in Steps : FlowOf[s] = FlowOf[t] => TenantOf[s] = TenantOf[t]
ASSUME CapacityAssumption

VARIABLES
  rows,      \* step -> its status, its lease and who claimed it
  queue,     \* the outbox: steps with a message, and whether it is due
  worker,    \* worker -> where its loop is
  losses

vars == <<rows, queue, worker, losses>>

Started == [pc |-> "top", batch |-> {}, target |-> NoStep, lapsed |-> {},
            processed |-> 0, stopping |-> FALSE]

Init ==
  /\ rows = [s \in Steps |-> [status |-> "pending", lease |-> "none",
                              owner |-> Nobody]]
  /\ queue = {[step |-> s, due |-> TRUE] : s \in Steps}
  /\ worker = [w \in Workers |-> Started]
  /\ losses = 0

Queued == {m.step : m \in queue}
Due == {m.step : m \in {n \in queue : n.due}}
Lapsed == {s \in Steps : rows[s].status = "running" /\ rows[s].lease = "lapsed"}

At(w, pc) == worker[w].pc = pc
Moves(w, pc) == worker' = [worker EXCEPT ![w].pc = pc]

-----------------------------------------------------------------------------
(* The loop                                                                *)

(* A worker that found nothing waits for a notification, the poll interval *)
(* or the stop: it takes its time before this.                             *)
Top(w) ==
  /\ At(w, "top")
  /\ Moves(w, IF worker[w].stopping THEN "stopped" ELSE "drain")
  /\ UNCHANGED <<rows, queue, losses>>

(* a batch is claimed and deleted in one transaction                       *)
ClaimBatch(w) ==
  /\ At(w, "drain") /\ worker[w].batch = {} /\ worker[w].processed < MaxJobs
  /\ \E taken \in (SUBSET Due) \ {{}} :
       /\ Cardinality(taken) <= BatchSize
       /\ Cardinality(taken) <= MaxJobs - worker[w].processed
       /\ queue' = {m \in queue : m.step \notin taken}
       /\ worker' = [worker EXCEPT ![w].batch = taken]
  /\ UNCHANGED <<rows, losses>>

Drained(w) ==
  /\ At(w, "drain") /\ worker[w].batch = {}
  /\ Due = {} \/ worker[w].processed >= MaxJobs
  /\ worker' = [worker EXCEPT ![w].pc = "drained", ![w].processed = 0]
  /\ UNCHANGED <<rows, queue, losses>>

(* Slip: only what was claimed once is looked for                          *)
StrandedSlip == Lapsed

(* a lease that lapsed; or no message and no lease that is live            *)
Stranded ==
  Lapsed \cup {s \in Steps \ Queued : rows[s].status = "pending"}

(* the sweep has an interval of its own: it may be time for it or not      *)
Sweep(w) ==
  /\ At(w, "drained")
  /\ queue' = {m \in queue : m.step \notin Stranded}
                \cup {[step |-> s, due |-> TRUE] : s \in Stranded}
  /\ Moves(w, "top")
  /\ UNCHANGED <<rows, losses>>

NoSweep(w) ==
  /\ At(w, "drained") /\ Moves(w, "top")
  /\ UNCHANGED <<rows, queue, losses>>

(* the flag is looked at between two drains, not between two batches       *)
Stop(w) ==
  /\ w \in Stopped /\ ~worker[w].stopping /\ ~At(w, "stopped")
  /\ worker' = [worker EXCEPT ![w].stopping = TRUE]
  /\ UNCHANGED <<rows, queue, losses>>

-----------------------------------------------------------------------------
(* One message                                                             *)

(* the transaction begins, and now() is this moment until it ends          *)
Begin(w) ==
  /\ At(w, "drain")
  /\ \E s \in worker[w].batch :
       worker' = [worker EXCEPT ![w].pc = "lock", ![w].target = s,
                    ![w].batch = @ \ {s}, ![w].processed = @ + 1,
                    ![w].lapsed = Lapsed]
  /\ UNCHANGED <<rows, queue, losses>>

Goes(w, pc) ==
  worker' = [worker EXCEPT ![w].pc = pc,
               ![w].lapsed = IF pc \in {"tenant", "flow", "update"} THEN @
                             ELSE {}]
Ends(w) == [worker EXCEPT ![w].pc = "drain", ![w].target = NoStep,
                          ![w].lapsed = {}]

(* the advisory lock of the tenant is held until the transaction ends      *)
HoldersSlip(t) == {}
Holders(t) == {w \in Workers : /\ worker[w].pc \in {"tenant", "flow", "update"}
                               /\ TenantOf[worker[w].target] = t}

Lock(w) ==
  /\ At(w, "lock") /\ Holders(TenantOf[worker[w].target]) = {}
  /\ Moves(w, "tenant")
  /\ UNCHANGED <<rows, queue, losses>>

(* the steps that run, as the transaction sees their leases                *)
Running(w, of, whose) ==
  {s \in Steps : /\ of[s] = whose /\ rows[s].status = "running"
                 /\ rows[s].lease = "live" \/ s \notin worker[w].lapsed}

CountTenant(w) ==
  /\ At(w, "tenant")
  /\ LET n == Cardinality(Running(w, TenantOf, TenantOf[worker[w].target]))
     IN  Goes(w, IF n >= PerTenant THEN "blocked" ELSE "flow")
  /\ UNCHANGED <<rows, queue, losses>>

CountFlow(w) ==
  /\ At(w, "flow")
  /\ LET n == Cardinality(Running(w, FlowOf, FlowOf[worker[w].target]))
     IN  Goes(w, IF n >= PerFlow THEN "blocked" ELSE "update")
  /\ UNCHANGED <<rows, queue, losses>>

Claimable(w, s) ==
  \/ rows[s].status = "pending"
  \/ rows[s].status = "running" /\ rows[s].lease = "lapsed"
       /\ s \in worker[w].lapsed

Claim(w) ==
  LET s == worker[w].target IN
  /\ At(w, "update")
  /\ IF Claimable(w, s)
     THEN /\ rows' = [rows EXCEPT ![s] = [status |-> "running", lease |-> "live",
                                          owner |-> w]]
          /\ Goes(w, "exec")
     ELSE worker' = Ends(w) /\ UNCHANGED rows
  /\ UNCHANGED <<queue, losses>>

(* put back in a transaction of its own, due a little later                *)
Defer(w) ==
  LET s == worker[w].target IN
  /\ At(w, "blocked")
  /\ queue' = IF s \in Queued THEN queue
              ELSE queue \cup {[step |-> s, due |-> FALSE]}
  /\ worker' = Ends(w)
  /\ UNCHANGED <<rows, losses>>

(* the handler returns; a worker that lost its claim records nothing       *)
Record(w) ==
  LET s == worker[w].target IN
  /\ At(w, "exec")
  /\ rows' = IF rows[s].status = "running" /\ rows[s].owner = w
             THEN [rows EXCEPT ![s] = [status |-> "succeeded", lease |-> "none",
                                       owner |-> Nobody]]
             ELSE rows
  /\ worker' = Ends(w)
  /\ UNCHANGED <<queue, losses>>

-----------------------------------------------------------------------------
(* Time and failures                                                       *)

ComesDue(s) ==
  /\ [step |-> s, due |-> FALSE] \in queue
  /\ queue' = (queue \ {[step |-> s, due |-> FALSE]})
                \cup {[step |-> s, due |-> TRUE]}
  /\ UNCHANGED <<rows, worker, losses>>

Executing(s) ==
  \E w \in Workers : At(w, "exec") /\ worker[w].target = s /\ rows[s].owner = w

(* nothing renews a lease: that of a slow handler lapses while it works    *)
LeaseLapses(s) ==
  /\ rows[s].lease = "live"
  /\ rows' = [rows EXCEPT ![s].lease = "lapsed"]
  /\ IF Executing(s) THEN losses < MaxLosses /\ losses' = losses + 1
     ELSE UNCHANGED losses
  /\ UNCHANGED <<queue, worker>>

(* A process dies: its transaction rolls back, its batch is gone.  Another *)
(* is started in its place unless it was to stop, when the grace period is *)
(* over.                                                                   *)
Crash(w) ==
  /\ ~At(w, "stopped") /\ losses < MaxLosses /\ losses' = losses + 1
  /\ worker' = [worker EXCEPT ![w] =
                  IF worker[w].stopping THEN [Started EXCEPT !.pc = "stopped"]
                  ELSE Started]
  /\ UNCHANGED <<rows, queue>>

Works(w) ==
  \/ Top(w) \/ ClaimBatch(w) \/ Drained(w) \/ NoSweep(w)
  \/ Begin(w) \/ CountTenant(w) \/ CountFlow(w) \/ Claim(w) \/ Defer(w)
  \/ Record(w)

Next ==
  \/ \E w \in Workers : Works(w) \/ Sweep(w) \/ Lock(w) \/ Stop(w) \/ Crash(w)
  \/ \E s \in Steps : ComesDue(s) \/ LeaseLapses(s)

(* A process goes on, and its sweep comes round; Postgres serves those who *)
(* wait for a lock in turn; time passes.                                   *)
Fairness ==
  /\ \A w \in Workers : /\ WF_vars(Works(w) \/ Sweep(w))
                        /\ SF_vars(Sweep(w)) /\ SF_vars(Lock(w))
  /\ \A s \in Steps : /\ WF_vars(ComesDue(s))
                      /\ WF_vars(~Executing(s) /\ LeaseLapses(s))

Spec == Init /\ [][Next]_vars /\ Fairness
=============================================================================
