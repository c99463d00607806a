# AutomaBuild: a TLA+ development

AutomaBuild runs flows: a webhook or a person starts a *run* of a published
flow, and workers execute its steps one after another, with Postgres as the
only shared state. This directory holds a specification of the parts of it whose
behaviour depends on interleaving, failure and time, the TLC models that check
it on small instances, and theorems about it that hold for every instance.

Paths below are relative to `src/`; `runner/` stands for
`packages/automa-durable-runner/`, `canvas/` for `packages/automa-flow-canvas/src/`
and `fetch/` for `packages/automa-safe-fetch/src/`.

## 1. The system

| Component | State it keeps | Operations | Hard because |
|---|---|---|---|
| **Repository** `runner/src/engine/repository.ts`, `runner/migrations/` | tables `runs`, `step_executions`, `outbox`, `dlq_entries`, `run_idempotency` | `createRun`, `setRunStatus`, `requestCancel`, `nextRunnableStep`, `claimStep`, `recordSuccess`, `recordFailure`, `markSkipped`, `enqueue`, `claimOutboxBatch`, ... | READ COMMITTED: every statement sees its own snapshot; few rows are locked |
| **Orchestrator** `orchestrator.ts` | none; one transaction per `advance_run` message | `advanceRun`, `finishOrWait` | decides from rows that others change between its statements |
| **Executor** `executor.ts` | a claimed step, in memory, while its handler runs | `runStep`: claim, execute, record | the handler runs outside any transaction; leases lapse meanwhile |
| **Retry policy** `error-classes.ts`, `retry.ts`, `backoff.ts` | none (pure) | `decideRetry`, `onAttemptFailed` | two budgets, conditional classes |
| **Drain, worker** `drain.ts`, `worker.ts` | the batch in memory | `drainQueue`, `loop`, `stop` | a batch is deleted from the queue before it is processed |
| **Janitor** `janitor.ts` | none | `sweep` | must recognise lost work from the tables alone, and adds duplicates |
| **Resume and replay** `resume.ts` | none | `resumeRun`, `replayDlqEntry` | read, check and write without a lock, by people |
| **Ceilings** `repository.ts` (`checkLimits`), `executor.ts` | none; counts rows under an advisory lock | `checkLimits`, `claimStep`, the deferral of a blocked step | several statements, several workers, a message that is deleted before the claim |
| **Branching** `branching.ts` | none (pure) | `stepsToSkip`, `evaluateCondition` | graph reachability; a small language |
| **Timeouts, classification, handlers** `timeouts.ts`, `classify.ts`, `engine/handlers.ts` | none (pure), HTTP exchanges | `assertTimeoutsValid`, `classify`, `httpHandler` | what was sent when an exchange fails |
| **Database client, migrations, CLI** | connection pool | `withTransaction`, `migrate`, commands | retries of aborted transactions |
| **Webhook gate** `packages/automa-webhook-gate` | the replay store | `createGate`, `registerWebhookRoute`, `send`, `verify` | senders retry while a delivery is being handed off |
| **App server** `app/src/server.ts`, `runs.ts` | processes over one database | `onAccepted`, seeding, the editor's routes | versions published while runs are in flight |
| **Flow compiler and stores** `app/src/flow.ts`, `flow-store.ts`, `flow-catalog.ts` | `flows`, `published_flows`, what a process has compiled | `compileFlow`, `publish`, `current`, `byVersion` | two processes, each with a cache |
| **Steps** `app/src/steps`, **credentials** | saved credentials | the http, ai, email and branch handlers | what may be tried again; what a model answers |
| **Safe fetch** `fetch/` | none | `safeFetch`, `resolveAndValidate`, `validateUrl`, `validateAddress` | redirects, deadlines, pinning, addresses in disguise |
| **Flow canvas** `canvas/` | the graph, its history, the autosave, what is published, the run shown | `App`, `graph-store`, `createAutosave`, `diffGraph`, `validate` | one canvas and one autosave for all flows; late answers |

How they interact: the app's server receives a delivery through the webhook
gate, compiles the published flow and calls `createRun`, which commits the run,
its step rows and one `advance_run` message together. From then on everything is
driven by messages in the `outbox` table. A worker drains the table: an
`advance_run` is one `advanceRun` transaction, which picks the next step and
enqueues a `run_step`; a `run_step` is a claim (a lease on the step row), the
handler, and a transaction that records the outcome and enqueues the next
`advance_run`, at once or when a retry is due. Between two drains a worker
sweeps, which re-creates messages for runs that have none. People cancel a run
(a flag), resume a run that has stopped, or replay a dead letter (a resume from
the step that failed).

What makes each component correct:

* a step row is changed only by its newest claimant (lease guard), a step that
  has ended stays ended, its budget is never overdrawn, and a dead letter exists
  exactly when a budget ran out;
* the run's counters and its verdict agree with its steps;
* a run that has ended and is quiet stays quiet; a run that has not ended gets
  there, whatever crashes and is lost;
* no tenant has more steps running than it may, and none is starved by that;
* nothing is asked of a server that may not be asked, no credential leaves for
  another origin, a call that must not be repeated is made once, and no server is
  waited for without a deadline;
* what the editor says is saved is what was sent, under the flow it was drawn
  for; what is published runs as it was drawn, and a run keeps its version;
* no step begins before an earlier one has, a step finds the outputs it refers to
  and begins only where the conditions lead, as far as the overlap of steps allows:
  that a step *ends* before the next begins, that one arm of a fork runs and that an
  ambiguous outcome is asked about are promises of the docs that hold only in part,
  see section 5.

## 2. The modules

| Module | What it is |
|---|---|
| `RetryPolicy` | the pure decision after a failed attempt |
| `DurableRun` | one run: tables, queue, workers, janitor, people, time, failures |
| `DurableRunProps` | what is claimed of `DurableRun` |
| `FencedSteps` | the abstract specification: fencing tokens on steps |
| `MCDurableRun` | small instances for TLC; one `.cfg` per run |
| `DurableRunProofs` | types, fencing, `DurableRun` implements `FencedSteps`; checked by TLAPS |
| `DurableRunSafety` | budgets, counters, verdicts, dead letters, what has ended, the order of the steps; checked by TLAPS |
| `Ingress` | from a webhook delivery to a run: route, gate, `onAccepted`, `createRun` |
| `IngressProps` | what is claimed of `Ingress` |
| `OneRun` | the abstract specification: one run per key, chosen once |
| `MCIngress` | small instances for TLC |
| `IngressProofs` | one run, true answers, records, `Ingress` implements `OneRun`; checked by TLAPS |
| `Capacity` | many runs under the ceilings: the worker loop, the statements of a claim |
| `CapacityProps`, `MCCapacity` | what is claimed of it; a small instance |
| `CapacityProofs` | the ceilings hold; checked by TLAPS |
| `AddressPolicy` | which addresses, names and URLs may be asked (pure) |
| `SafeFetch` | one call: redirects, resolution, pinning, deadline, body |
| `StepRequests` | what a step makes of its configuration and of an answer; `classify` (pure) |
| `Backoff` | the delays (pure) |
| `StepAttempts` | all attempts of one step, over `SafeFetch`, `StepRequests`, `RetryPolicy`, `Backoff` |
| `StepAttemptsProps`, `MCStepAttempts` | what is claimed of them; a small instance |
| `StepAttemptsProofs` | credentials, addresses, requests, deadlines, waits, answers, types; checked by TLAPS |
| `FlowGraphs` | a flow as data: connecting, validating, patches (pure) |
| `FlowGraphsProofs` | patches, walks, loops and the order of what is compiled; recursion on the numbers; checked by TLAPS |
| `Autosave` | `createAutosave` as a record and its calls (pure) |
| `Editor` | a browser tab over `Autosave` and `FlowGraphs`, and its server |
| `EditorProps`, `MCEditor` | what is claimed of it; a small instance |
| `EditorProofs` | types, the canvas, what is saved and where drafts go, for every number of flows and steps; checked by TLAPS |
| `FlowCompile` | `compileFlow` (pure) |
| `Conditions` | the condition language (pure) |
| `Publishing` | processes, versions, deliveries and runs over `FlowCompile` and `Conditions` |
| `PublishingProps`, `MCPublishing` | what is claimed of it; a small instance |
| `PublishingProofs` | types, versions, histories, references, for every set of drawings; checked by TLAPS |

### DurableRun

**One run.** The engine's statements select rows by run; runs do not read each
other's rows except for the concurrency ceilings, which are `Capacity`'s.
A worker's batch may hold messages of other runs; they only delay it, and a
delay is what interleaving is.

**Grain.** An action is what no other transaction can see the middle of.
`advanceRun` is one transaction but *not* one action: under READ COMMITTED each
of its statements reads a snapshot of its own and it locks nothing before it
writes. It is therefore `AdvanceRead` (`getRun` and the exits that depend on it
alone), `AdvanceNext` (`nextRunnableStep`), `AdvanceList` (`finishOrWait`'s
`listSteps`) and `AdvanceWrite` (the writes and the commit). `claimStep` and the
recording transactions start with one conditional UPDATE that locks the step row,
so each is one action. `resumeRun` reads and checks in `ResumeRead`, or
`ReplayRead` for a dead letter, and writes in `ResumeWrite`; what it writes does
not depend on what has become of the rows since.

| State | Code |
|---|---|
| `run` | the `runs` row: status, cancel flag, attempt group, counters |
| `step` | the `step_executions` rows. `lease` is `lease_expires_at` against `now()`, `retry` is `next_attempt_at` against `now()`, `group` what is hashed into the idempotency key |
| `outbox` | how many of each message are in the table. `AdvanceLater(s)` is the `advance_run` that a retry of `s` schedules with a delay; when due it is an `Advance` like any other |
| `batch` | per worker, what `drainQueue` has deleted from the outbox and not yet processed |
| `worker` | per worker, its locals inside `advanceRun` or `runStep` |
| `person` | per person, a resume that has been read for and not yet written |
| `dlq` | the `dlq_entries` rows |
| `overdue` | the clocks, the database's and Node's, by which `deadline_at` has passed |
| `epoch`, `losses` | history: how often a step was claimed; crashes and queue losses so far |

| Action | Code |
|---|---|
| `Init` | `createRun` |
| `ClaimBatch` | the claim-and-delete transaction of `drainQueue` |
| `AdvanceRead`, `AdvanceNext`, `AdvanceList`, `AdvanceWrite` | `advanceRun`, `finishOrWait` |
| `ClaimStep`, `Execute`, `RecordStale`, `RecordSuccess`, `RecordRetry`, `RecordPause`, `RecordFailed` | `runStep` |
| `Sweep` | `sweep` |
| `RequestCancel`, `ResumeRead`, `ReplayRead`, `ResumeWrite` | `requestCancel`, `resumeRun`, `replayDlqEntry` |
| `LeaseLapses`, `RetryComesDue`, `DeadlinePasses` | time, as the queries see it |
| `Crash`, `LoseQueue` | a dying worker or an error that escapes into its loop; a wiped queue |

Operators whose name ends in `Slip` are not part of the model: each is the
operator it is named after with a plausible mistake, used to try out that a
property notices.

**Abstractions.** Time is three-valued (a lease is live or lapsed, a retry is due
later or due, a deadline passed or not), and a lease may lapse under a slow
worker as well as under a dead one, because `renewLease` has no caller. Handlers
are external: they end in success or in any of the configured error classes. A
branch is, per step, the sets of steps its success may mark skipped. Step inputs,
outputs, error texts and timestamps are left out. Row locks are not modelled;
what they add is a deadlock between a resume and a recording worker, which
Postgres breaks and `withTransaction` runs again.

**Worker ids.** The guard on a step row is `worker_id = me AND status =
'running'`. It fences only as long as no two processes have the same id, which
`IdOf` leaves open and the instances assume (`OwnIds`); `app/src/server.ts:294`
builds the id from the process number alone, so two containers may share one.

### FencedSteps

What the lease guard promises, without leases, messages or clocks: every claim of
a step takes a new ticket; only the newest ticket of a held step may settle it or
open it again; an older one can only be thrown away; starting the run again
opens and shuts steps at will but never returns a ticket. `DurableRunProps`
instantiates it with `phase` (running = held; ended, exhausted or paused = shut;
pending or owed a retry = open), `latest` (`epoch`) and `tickets` (who is
executing or recording under which claim). `ImplementsFencing` is `Fenced!Spec`.

### Ingress

**One dedup key of one flow.** Both tables are keyed by it, so deliveries with
other keys never meet these rows. `webhook_deliveries` has a row per endpoint
and key, `run_idempotency` one per tenant, flow and key. Several endpoints may
belong to one flow, and a sender's event id is the same wherever it is sent; so
the gate keeps copies apart per endpoint and the key has to bring them together
again. A request is one HTTP request, and a retry is another request for the same
endpoint. Only authentic ones are modelled: a rejected one touches no table.

**Grain.** The store's statements commit on their own, so each is an action. The
transaction of `onAccepted` is the actions `Look` (`findRunByIdempotencyKey`, and
the `INSERT INTO runs` that nobody else sees before the commit), `ClaimKey` (the
`INSERT INTO run_idempotency`, which waits for an open transaction that has
inserted the same key, and the recovery at the savepoint) and `Commit`
(`insertSteps`, `enqueue`, `COMMIT`).

| State | Code |
|---|---|
| `pc`, `result` | per request, where its handler is and which run `createRun` returned |
| `records` | the endpoints with a row in `webhook_deliveries` |
| `keyRow` | the committed row of `run_idempotency` |
| `runs`, `started` | the committed `runs` rows, and those with step rows and an `advance_run`; a run is named after the request that made it |
| `acked`, `impaired` | history: the endpoints whose sender was answered 200; those where something died that nobody unwinds |

| Action | Code |
|---|---|
| `Arrive`, `Answer`, `Release` | `registerWebhookRoute` (`fastify.ts`), `release` |
| `GateAccepts`, `GateFindsDuplicate`, `GateThrows` | `gate`, `record`; a store that does not answer |
| `Look`, `ClaimKey`, `Commit` | `createRun` in the transaction of `onAccepted` |
| `Rerun`, `HandoffThrows` | `withTransaction` starts again; any error of `onAccepted`, a commit that is not heard of included |
| `Die` | the process dies: the transaction rolls back, the record stands |
| `Prune` | `prune`. Retention is a day (`store.ts:100`), so a row outlives the request that inserted it |

`Patient` says whether a sender waits for an answer before it sends again,
`MayDie` whether processes, and the store's connection, die. `withTransaction`'s
number of attempts is left open. Rows of `run_idempotency` are never deleted:
the migration speaks of a janitor that does so, but nothing in the source does.

### OneRun

What a caller of `createRun` is promised: one run is chosen, once, and whoever is
answered is answered with that run. `Ingress` implements it with `chosen` as the
committed `keyRow` and `answer` as the result of those answered 200 and not
"duplicate".

### Capacity

`DurableRun` turned on its side: many runs, each with the one step that is next,
and what workers do to one another. A message stands for the `advance_run` or the
`run_step` that leads to its step; two in the queue for one step count as one.

The transaction of a claim is not one action here. `checkLimits` takes the
tenant's advisory lock, counts the tenant's running steps and then the flow's,
and `claimStep` updates the row; each statement sees what is committed by then,
while `now()` stays that of the transaction's beginning (`lapsed` is what it
makes of the leases). The lock is held until the transaction ends.

| State | Code |
|---|---|
| `rows` | of `step_executions`: status, lease, owner |
| `queue` | of `outbox`: whose messages there are, and whether they are due |
| `worker` | per process, where its loop, its drain and its claim are; `stopping` is the flag of `stop()` |
| `losses` | bound: deaths, and leases that lapse under a worker that lives |

| Action | Code |
|---|---|
| `Top`, `Drained`, `Sweep`, `NoSweep`, `Stop` | `loop`, `stop` (`worker.ts`), `sweep` |
| `ClaimBatch`, `Begin` | `drainQueue`, `runStep` |
| `Lock`, `CountTenant`, `CountFlow`, `Claim` | `checkLimits`, `claimStep` |
| `Defer` | the blocked branch of `runStep`: a message put back in its own transaction |
| `Record` | the recording transactions, as far as they free a place |
| `ComesDue`, `LeaseLapses`, `Crash` | time; a process that dies |

### AddressPolicy, SafeFetch

`AddressPolicy` has the checks as operators on what the code has parsed: an
address is the sequence of its bytes, a host name of its labels. The sizes are
parameters (8 bits to a byte; 10 zero bytes, 2 of ones and 4 of IPv4 make a mapped
address), so that TLC tries *every* address of a small size, with the run of
zeros that the text of an address leaves out, prefixes that end inside a byte and
IPv4 addresses inside IPv6 ones.

`SafeFetch` is one call. `pc` is where it is in the loop: `Hop` (the checks at the
head of it), `Resolve` (`resolveAndValidate`), `Respond` and `RequestFails`
(`requestOnce` and what `safeFetch` makes of a redirect), `Chunk` and `BodyEnds`
(the stream that is handed out). Name servers answer any set of addresses and
servers any status and `Location`, differently every time. `left` is the rest of
the deadline in ticks, `timer` whether the timer of this hop is armed: `Tick` does
not pass a timer that is due. `wire` is history, every request that left.

### StepRequests, Backoff, StepAttempts

A step of the kinds that reach outside, from its first attempt to its end. An
attempt builds its request from the configuration (`normaliseRequest`,
`Buildable`, `Sendable`) or fails as poison without a call; makes its call; and
its failure is classified (`classify`) and judged by `RetryPolicy`, whose retry
waits a delay that `Backoff` draws. That one attempt runs at a time and that a
crash repeats one are `DurableRun`'s business.

| State | Code |
|---|---|
| `step` | the configuration; a free text is what the code tells apart in it |
| `phase`, `verdict`, `counters` | where the attempt is; the step row's outcome; its counters |
| `waited` | the delays so far |
| `saved` | is the credential the step names still in the store |
| `output` | of an ai step, the fields it kept |
| `past` | history: was a call refused in full, postponed, or lost on its way back |

| Action | Code |
|---|---|
| `Attempt` | `canvasHttpHandler`, `aiHandler`, `emailHandler` up to their call |
| `Call` | `safeFetch`, step by step |
| `Return` | `httpHandler` and `aiHandler` after it, `coerceFields`, `resolveCategory`, `onAttemptFailed` |
| `Mail` | `emailHandler`'s exchange with the relay and `classifyFailure` |
| `remove` | `CredentialStore.remove`, at any moment |

The relay, the model and the name servers are the environment. Prompts, wording
and the formats of providers are left out: an answer is what each field of it *is*.

### FlowGraphs, Autosave, Editor

A graph is a function from step ids to steps and a set of edges; the order of the
code's arrays is dropped (the compiler, where it matters, gets it back). `Autosave`
is the closure of `createAutosave` as a record; each of its calls is an operator
from the record before to the one after.

`Editor` is one tab with one user. What the code keeps in React state and refs is
a variable under its name: `flowId` is state, `flowRef` the ref the save reads,
`canvas`, `past`, `future` the graph store, `published`, `post`, `shown`,
`listing` and `picking` what has been asked of the server or answered, `live` whether
a server has. The server is as much as the tab can see: which flows are live and what
is published. The runs of a flow and its latest run are two requests; with an answer to
the first alone the editor is live with the sample run on view, and offers the sample's
fields for mapping (`shown = None`). A blur resets the autosave's `inFlight` even with
nothing pending, as `flush` does.

| Action | Code |
|---|---|
| `AddStep` ... `Discard`, `EndGesture` | the mutations of `graph-store` and the handlers of `App.tsx` that call them |
| `Fire`, `Blur`, `Saved`, `SaveFailed` | the debounce timer, `flush`, and the save function (`App.tsx:903`), which writes what the canvas is *then* under the key `flowRef` names *then* |
| `OpenFlow`, `ExitFlow`, `CreateFlow`, `FlowCreated`, `ArchiveFlow`, `FlowArchived`, `LoadFlows`, `PublishedArrives` | opening, leaving, and the effects of a changed `flowId`, in their order |
| `Publish`, `ServePublish`, `PublishAnswered` | the request, the server, the answer, which need not come |
| `SetMode`, `RunsArrive`, `PickRun`, `RunPicked` | History and Builder, the runs |

`home`, the flow a graph was drawn for, is in no graph of the code; it is how
drafts that went astray are recognised. `Waits` says for what the user waits
before going on: loads, saves, answers. The run `editor` has a user who waits; the
theorems about the canvas and about drafts do without, and section 5 is about one who
does not.

### FlowCompile, Conditions, Publishing

`FlowCompile` is `compileFlow`: what it refuses, the order of the steps, which is
that of a depth-first walk of the edges *in the order of the array*, and the arms.
`Conditions` is the language of `branching.ts` on tokens: quotes, the joining
words (one right behind another does not join, as the blank between is used up), the
word operators before the symbols, lists.

`Publishing` has processes that share a database. A version is a row, inserted
once; each process keeps what it has compiled. A delivery is three statements and
an insert (`Arrive`, `ReadOwner`, `ReadCurrent`, `CreateRun`), between which flows
are published and archived. The editor reads a run in two transactions (`ReadRun`,
`SendRun`).

The engine is here as much as the order of steps, versions and arms depend on, and
with its overlaps: an advance, a claim and the end of an attempt are actions of their
own, any process takes them, and each may come whenever a message allows it. An
advance may be made at any time, because the janitor adds them; a message for a step,
once sent, may come again at any time, also after the run's end or a resume. What
`DurableRun` has in full, leases, budgets, the statements of an advance, is left out: a
step whose lease lapsed is claimed as it is, and an attempt that fails is tried again
or not.

| State | Code |
|---|---|
| `catalog`, `rows` | the flows, live or archived; `published_flows` |
| `requests`, `now` | publishings and seedings before their insert; the clock by which versions are ordered |
| `up`, `compiled` | the processes that run, and what each has compiled |
| `hand` | per delivery, where `onAccepted` is and what it has read |
| `runs` | per delivery, its run: version, steps in order, statuses, outputs, the steps sent for (`sent`), and as history what its branches meant (`meant`) and which drawing it is of (`made`) |
| `view` | the editor's reading of a run, between its two transactions |

| Action | Code |
|---|---|
| `Boot`, `Seeded`, `Die` | `buildServer` and its seed; the death of a process |
| `Publish`, `Inserted`, `MillisecondPasses` | the route and `FlowStore.publish`, also to an archived flow that is addressed by its endpoint (`server.ts:385-387`) |
| `CreateFlow`, `Archive` | `FlowCatalog` |
| `Arrive`, `ReadOwner`, `ReadCurrent`, `CreateRun` | a delivery, `onAccepted` |
| `advanceRun` | `advanceRun`, `finishOrWait`: `isNextRunnable` is the query, for which a step that runs or will be tried again blocks nothing |
| `claimStep` | the claim of a `run_step`, first or later |
| `runStep` | version (`flowFor`), references (`resolveConfig` over `upstream`), handler, record: it fails and is tried again or not (`Fails`), also for a reference that finds nothing, which is an internal error (`handlers.ts:240-242`); succeeds (`Succeeds`); or decides (`Branches`, `Passes`), where a condition that cannot be read fails for good |
| `resumeRun` | `resumeRun` |
| `ReadRun`, `SendRun` | the history of the editor |

`takenArm` is applied by the code to the output of any step (`executor.ts:412`) and
here to a branch's, as no other handler returns `taken`.

## 3. The runs

TLC, on the instances below. Nobody is obliged to act after a run has ended, so
deadlock is not checked. Symmetry in the workers is used where no liveness is
checked: they are interchangeable in `Init`, `Next` and every property.

| Run | Instance | Distinct states | Shows |
|---|---|---|---|
| `work` | 2 workers, chain of 2 (the second not idempotent, and the first may abandon it), `timeout`, `rate_limited` and `poison`, 2 attempts, 1 deferral, a crash or a lost queue, a cancellation | 1,536,448 | `TypeOK`, `Fence`, `BudgetLeft`, `DeadLettersTell`, `CountersAgree`, `VerdictJustified`, `ImplementsFencing`, `NothingUnspent`, `EndedStaysEnded`, `EndIsQuiet`, `StartsInOrder` |
| `restart` | 2 workers, chain of 2, a failure, a deadline by two clocks, one resume or replay | 785,079 | `CountersAgree`, `ImplementsFencing`, `EndIsQuiet` across a new attempt group |
| `live` | 2 workers, 1 step, a crash or a lost queue, a retry, a resume; fairness | 80,612 | `AlwaysStops` |
| `ingress` | 2 copies to each of 2 endpoints, senders that do not wait, deaths | 199,733 | `OneStart`, `AnsweredIsStarted`, `HandedOffAlone`, `RecordStandsForWork`, `ImplementsOneRun` |
| `capacity` | 2 workers, 3 runs of 2 flows of a tenant that may run 2 steps, and 1 of each flow; 1 worker that is stopped, 1 death or early lapse; fairness | 308,312 | `CeilingsHold`, `EveryStepRuns` |
| `steps` | 8 steps (http, ai, email), every address of 2-bit bytes, 6 other URLs to be sent to, 2 attempts and 2 deferrals, 0 or 1 redirects | 1,515,554 | `TypeOK`, `PinnedIsPermitted`, `SecretsStayHome`, `AskedOnce`, `WaitsBounded`, `AnswerFits`, `AlwaysTimed` |
| `editor` | 2 flows, 3 steps, 2 edits, 2 openings, 1 failed save, 1 published version, undo limit 2 | 3,178,001 | `TypeOK`, `GraphsSound`, `SavedIsReceived`, `DraftsStayHome`, `ShowsItsOwn` |
| `publish` | 2 processes, 2 flows, 1 delivery, 3 documents of up to 3 steps, 4 readings of a condition, 1 failure, death or resume | 798,141 | `TypeOK`, `HistoryIsItsOwn`, `NewRunsAreCurrent` |
| `paths` | 1 process, 1 flow, 1 delivery, 2 documents (a branch behind another, and one whose arms meet again), 4 readings of a condition; attempts, claims and advances in every order | 292,821 | `OnlyUnfinishedMissed`, `OnlyPathRuns` |

The violation runs are in section 5.

**Bounds.** Those of `DurableRun`: `MaxGroup` (resumes), `MaxLosses`
(crashes and lost queues), `MaxClaims` (claims of a step after which its lease
outlasts a living owner), `MaxMessages` (messages above which no sweep adds
another), `BatchSize`. Two workers suffice for the races: a third worker holds at
most another stale claim or another duplicate message, of which two already
produce every ordered pair of reads and writes. Two claims of a step give an old
and a new owner; two steps give an earlier and a later one; two attempts give a
failure that is retried and one that exhausts. `MaxMessages = 2` allows the
duplicate `advance_run` on which the hazards depend. One loss is enough to lose
any single message or owner at any moment.

`Ingress` has no bound but the number of requests. Two copies to one endpoint
race for its record, and two endpoints for the key; the second copy at each is
what a release lets in.

`Capacity`: two workers claim at once, the second ceiling binds where the first
has room (two runs of flow `a`) and the other way round (a third run), and a batch
of one with `MaxJobs = 1` lets a worker be stopped, and sweep, between any two
messages. One loss is a death anywhere in a claim or a lease that lapses under its
owner; leases of dead owners lapse freely.

`StepAttempts`: two attempts and two deferrals give a retry and an exhaustion of
each ladder; one redirect gives a second origin, and one too many is tried, too.
The eight steps are one of each way through the code: bodies and methods, headers
by hand, a key that disappears, both tasks of the ai step, a recipient that is not
allowed. `Timeout = 1` lets the deadline fall into every wait.

`Editor`: three ids make every shape of an edge that could close a loop or join
twice; two edits and an undo are what the history can hold at `Limit = 2`; two
openings are the hand-over. `Publishing`: in `publish` the documents are told apart
by their steps, and one does not compile; with two processes, two version ids and one
failure, a run is taken up by a process that has not compiled its version while another
version is live. In `paths` the documents are a branch behind another, whose steps read
from before both, and a join, which only the API can publish; one process suffices, as
the steps of a run overlap whichever process takes them, and a step may be missed, tried
again or advanced past at each point. No attempt of another kind than a branch fails by
itself there (`MaxLosses = 0`): a branch fails on what it cannot read. The readings are
a plain comparison, a quoted `and`, a list with a number, and one that cannot be read.
Symmetry is used in the step ids that are alike and in the processes.

**Fairness** of `DurableRun` (`FairSpec`, used by `live`). A live worker goes on
with what it has claimed: weak fairness of `Process(w)`; the loop of `worker.ts`
never exits on an error. Rows are drained oldest first, so no due message is
passed over for ever: strong fairness of claiming each message, strong because
sweeps and drains of others disable a claim in between. A worker sweeps every
`sweepIntervalMs` between drains: strong fairness of `Sweep(w)`. Leases lapse,
retries come due, deadlines pass: weak fairness. A crashed worker restarts
(`Crash` leaves it idle); crashes are bounded. Nobody is obliged to cancel,
resume or replay.

Fairness of `Capacity` (in `Spec`): a process goes on with its loop (weak), comes
round to its sweep (strong: the interval passes between some two drains) and gets
the advisory lock it waits for (strong: Postgres queues the waiting); messages
come due and leases nobody works under lapse (weak). A worker that is told to stop
stops; `EveryStepRuns` therefore needs one that is not (`Stopped` in `capacity.cfg`
is one of the two).

## 4. The theorems

For every flow, every set of workers and people and every limit, from the
assumptions named in `DurableRun` (`CountsAssumption`, `WorkerAssumption`,
`FlowAssumption`), and for every set of requests and endpoints, patient or not,
from `IngressAssumption`; those about the other modules from the assumptions named
in them (`CapacityAssumption`, `SizesAssumption`, `ListsAssumption`,
`FetchAssumption`, `AttemptsAssumption`, `PolicyAssumption`,
`PublishingAssumption`, `LeftIsDrawn`). Where a theorem needs
more, it says so: `DistinctIds`, no two workers have the same id;
`LimitsPositive`, both limits are at least one, as `assertPolicyValid` asks
(`backoff.ts:128-129`); `OnePerson`, one person at most resumes and replays;
`WaitsForAll`, the user of the editor lets loads, saves and answers come to their
end before going on (the run `editor`; section 5 is about one who does not);
`[][~ Restart]_vars`, nobody starts the run again; `[][~ GoesAstray]_vars`, none of three
steps of the editor is taken, which are named below. `LeftIsDrawn` says that there
are finitely many step ids and that what an earlier session left in the browser
was drawn there. `PublishingAssumption` says that what may be published is a
document: finitely many steps, and an array of edges; and that the built-in flow
compiles, without which the server does not start (`server.ts:174`).
`FetchAssumption` and `ListsAssumption` say that an address is 4 or 16 bytes
(`resolve.ts:88` refuses an answer that is none), that a range is one that
`parseCidr` takes, without which `compile` throws (`blocklist.ts:83`), and that the
metadata addresses are written the way `ipToString` writes them, as the two in the
code are (`blocklist.ts:72`): the check compares texts.

| Theorem | States | Needs |
|---|---|---|
| `TypeCorrect` | `Spec => []TypeOK` | |
| `FenceHolds` | `Spec => []Fence` | `DistinctIds` |
| `BudgetHolds` | `Spec => []BudgetLeft` | `DistinctIds`, `LimitsPositive` |
| `NothingIsUnspent` | `Spec => NothingUnspent` | `DistinctIds` |
| `EndedStepsStay` | `Spec => EndedStaysEnded` | |
| `CountersHold` | `Spec => []CountersAgree` | |
| `ImplementsFence` | `Spec => ImplementsFencing` | `DistinctIds` |
| `EndStaysQuiet` | `Spec => EndIsQuiet` | |
| `VerdictsHold` | `Spec => []VerdictJustified` | `[][~ Restart]_vars` |
| `LettersHold` | `Spec => []DeadLettersTell` | `DistinctIds`, `LimitsPositive`, `OnePerson` |
| `StepsStartInOrder` | `Spec => StartsInOrder` | |
| `StartsOnce` | `Spec => []OneStart` of `Ingress` | |
| `AnswersAreTrue` | `Spec => []AnsweredIsStarted` | |
| `CopiesHandedOffAlone` | `Spec => []HandedOffAlone` | |
| `RecordsAreRight` | `Spec => []RecordStandsForWork` | |
| `ImplementsOnce` | `Spec => ImplementsOneRun` | |
| `CeilingsAlwaysHold` | `Spec => []CeilingsHold` of `Capacity` | |
| `PatchIsFaithful` | `applyPatch(before, diffGraph(before, after))` is `after` | both are graphs |
| `NoPatchNoChange` | an empty patch means no difference | both are graphs |
| `SecretsAlwaysStayHome` | `Spec => []SecretsStayHome` of `StepAttempts` | |
| `AlwaysAskedOnce` | `Spec => []AskedOnce` | |
| `WaitsAlwaysTimed` | `Spec => []AlwaysTimed` | |
| `OnlyPermittedAsked` | `Spec => []PinnedIsPermitted` | |
| `WaitsAlwaysBounded` | `Spec => []WaitsBounded` | |
| `AnswersAlwaysFit` | `Spec => []AnswerFits` | |
| `TypesHold` | `Spec => []TypeOK` of `StepAttempts` | `LimitsPositive` |
| `TypesHold` | `Spec => []TypeOK` of `Editor` | `WaitsForAll` |
| `CanvasStaysSound` | `Spec => []GraphsSound` | |
| `SavedTellsTheTruth` | `Spec => []SavedIsReceived` | `WaitsForAll` |
| `DraftsAreHome` | `Spec => []DraftsStayHome`, whether the user waits or not | `[][~ GoesAstray]_vars` |
| `ChainIsInOrder` | `compiledChain` has every step once, each before all it leads to | it compiles |
| `RunsAlwaysCurrent` | `Spec => []NewRunsAreCurrent` of `Publishing` | |
| `RunsAlwaysKeepVersion` | `Spec => []RunsKeepVersion`, the first part of `HistoryIsItsOwn` | |
| `RunsAlwaysWhole` | `Spec => []TypeOK` of `Publishing` | |
| `HistoryAlwaysItsOwn` | `Spec => []HistoryIsItsOwn` | |
| `OnlyUnfinishedAlwaysMissed` | `Spec => []OnlyUnfinishedMissed` | |

*Types.* `TypeOK` is not inductive, because a record step writes to the step its
worker points at: the invariant `TypeInv` adds `HasTarget`, a working worker's
target is a step.

*What a step may do.* Two lemmas carry most of the rest. `WorkersMove`: one
worker begins a claim, which is the only thing that raises an `epoch`, or goes
on with one, or stops, or none moves. `RowsMove`: a row is claimed, succeeds, is
skipped, retried, paused, failed, its lease lapses or its retry comes due, each
under the guard of the statement that does it, or the run is started again.

*Fencing.* `Fence` alone is not enough for the budgets: `FenceInv` adds `Knows`,
what the owner of a running row read when it claimed it still stands. It is
inductive because a claim takes a token newer than all others and puts its own
name on the row (here distinct ids are used), and because nothing else makes a
row running (`RunningBefore`) or a worker work (`WorkingBefore`).

*Budgets.* Whoever may write a result computed it from the row as it is
(`HolderKnows`, from `Knows`), so `recordFailure`'s absolute counters are
increments in effect; a decision to retry leaves both budgets unspent
(`RetryWithinBudget`). The two together give `BudgetHolds` and
`NothingIsUnspent`.

*Counters.* Only two actions change a counter, and each moves one running row into
the set that the counter counts; a resume empties both sets. That this needs no
distinct ids is a fact worth knowing: a shared id breaks the budget, not the
counters.

*Verdicts.* Between the moment a worker has listed the steps and the moment it
writes what it concluded, others go on: `VerdictInv` says of every such plan that it
is still justified when it is written. Each justification outlives every step but a
resume (`JustifiedStays`): a finished step stays finished, a failed one failed. With
a resume in between the property is false, and TLC shows it (section 5).

*Dead letters.* The record of a failure for good writes exactly one letter for each
budget it has exhausted, of the step's group (`OneBudgetGoes`, `RunningHasBudget`: one
failure exhausts one budget, and only if it was not exhausted before, which needs
the fence). The group of a new attempt is one that no letter has yet (`GroupsPast`);
two people who resume at once may write the same group twice, hence `OnePerson`.

*Order.* A step is begun on a message, the message is written by a worker that chose the
step, and it was chosen because nothing pending came before it in the listing. `OrderInv`
follows this backwards: whatever step has a `run_step` in the queue or in a batch, or is
about to get one, has every earlier step begun or passed over. That outlives all that
happens in between (`EarlierStaysBegun`), crashes and second claims included, because
only a resume makes a step pending again; it needs neither the fence nor distinct ids.
A resume sends messages of two orders into one queue, and the property says nothing of
what comes after one.

*The end.* A quiet run has no message that runs a step, in the queue or in a batch,
and nobody in the middle of `advanceRun`; `EndStaysQuiet` goes through the actions
that enqueue or advance and finds each guarded by a status that has ended or by a
message there is not. It needs no fence.

*Refinement.* A claim is `Grant`, a result that is written is `Settle` by the
newest ticket (from `Fence`), a stale result and a crash are `Discard` of a
ticket nobody else has (the second half of `Fence`), a resume is `Reopen`;
everything else, lapsing leases included, is a stutter.

*Ingress.* The invariant `IngressInv` has two halves beside the types. `KeyInv`:
the only started run is the one in the committed key row, at most one
transaction holds an uncommitted key and only while no row is committed, and
every result at hand is the key's run, or the holder's own. `Recorded`: whoever
is being handed off has its endpoint's record, which together with
`HandedOffAlone` makes that property inductive, since `Release` can only delete
the releaser's own row. `RecordStandsForWork` is inductive with the two. The
refinement is then one step: the commit of the key's holder is `Choose`,
`Answer` is `Tell`, all else stutters.

*Ceilings.* `CeilingsHold` says nothing of a worker between its counts and its
update. The invariant adds `Locking`, nobody else holds the tenant's lock, and
`Counted`: whoever holds it and has counted has room left for its own step, in the
tenant after the first count and in both after the second. It stays true because only the holder of the lock can add
a running step of that tenant, so that meanwhile the numbers can only fall; it
needs that a flow is one tenant's, for the flow's count is under the same lock;
and that `now()` standing still makes a transaction count too many rather than too
few.

*Patches.* The five kinds of operation are told apart by a lemma (`OpsOfPatch`),
after which the ids and the values of the patched graph are those of the later
one, set by set.

*Steps.* The invariant `CallInv` follows the hops: a call that is about to send
has sent as often as it has been redirected (`Hops`), it still has its credential
only if the URL it is at has the home's origin, and a GET has no body (`Home`),
and both stand in every request on the wire (`WireHome`). That no refused call is
repeated comes from the classes alone: a full refusal is `server_error` or
`poison`, and neither is retried for a step that is not idempotent
(`RefusalIsFinal`), so that such a step is over (`RefusedEnds`).

*Addresses.* `PinnedIsPermitted` speaks of numbers and the code of bytes. Each
number of the first bytes of an address is the one before times `Base`, and a digit
(`LeadingGrows`, from the recursion), so that dividing by a power of two cuts off
bytes (`LeadingCut`) and then bits (`LeadingBits`), and equal quotients are equal
bytes and bits (`SameLeading`, `SameDigits`): `cidrContains` is `Covers`
(`ContainsIsCovers`). The text of an address, with its gap, is read back as the
address (`TextKeepsAddress`), and `isIpv4Mapped` recognises just what `MappedOf`
makes (`MappedIsMade`). So what `validateAddress` lets pass is permitted
(`ValidatedIsPermitted`), and the invariant `Pinned` says that a call about to send
has nothing but such addresses to send to: those of one answer, all of them
checked, or the literal of the URL it is at in *this* hop.

*Waits.* Every failure that is tried again spends one attempt or one deferral and
draws a delay of the window of that place; the sum `worstCaseLadderMs` grows by just
that window (`LadderGrows`, from the recursion that defines it). So `Ladders` keeps
the waits, with one millisecond to spare for each, below the sum of the two
ladders, whatever the order of the failures (`JudgePaces`). An answer is kept only
where `coerceFields` has accepted it, and no failure ends in a success (`ToldKept`).

*Walks and loops.* What `walk` sees after as many rounds as there are steps is
closed under the steps' edges and contained in every closed set (`WalkIsClosed`,
`WalkIsLeast`): a round that adds nothing is the last, and each other one adds a
step of finitely many. A new edge whose source its target does not lead to closes
no loop (`ConnectedNoLoop`). Both need recursion and induction on the numbers, of
which the provers have neither for operators; with the set of the numbers that have
the property in the place of the property, and a function in the place of the
step, both become lemmas about well-founded sets (`SetInduction`, `RecursionWorks`).

*Editor.* The invariant `EditorInv` has a part for each place where a graph may be
in the way of another flow's. `Homes`: while a flow is open, or anything may still
be written, the canvas and its history were drawn for the flow `flowRef` names.
`Stored` says the same of the drafts and of what is published, `Screens` of the
requests and answers under way. `AutosaveRight` relates the autosave to the canvas:
one save at most, what is pending or on its way is the canvas, and "saved" is shown
only over what was received. `HistoryFits` says what an undo finds.

*Drafts.* Where drafts go is proved of a user who waits for nothing, with the invariant
`AllHome`: the canvas is the one of the flow `flowRef` names, from the moment that flow
has loaded and as long as anything may be saved. Three steps break it, and `GoesAstray`
names them: a flow without a draft is opened over a save that is under way
(`OpensOverSave`, the run `handover`); the canvas is drawn on, published or taken back
from History while no flow is open or the one that is has not loaded (`DrawsTooEarly`);
and an answer to a publishing is taken for the flow that is open meanwhile
(`AnsweredElsewhere`), to which a discard then returns. Every other interleaving of
saves, timers, blurs, late loads and answers keeps drafts at home. None of the three can
be spared: leaving out any one, TLC finds `DraftsStayHome` violated, in 8, 6 and 13 states, where
nobody waits (`editor.cfg` with `Waits = {}`, `MaxFails = 0`, `MaxOpens = 3`).

*Canvas.* That it is sound needs no waiting: `AllDrawn` says of every place the canvas
may take a graph from (the histories, the drafts, what is published, what is on its way,
what is taken for the live version) that it holds drawings, whoever they were drawn for.
An edit starts from the canvas, so it draws (`EditDraws`); that the canvas has no loop
is then the lemma about walks, for every edge that is drawn.

*Versions.* Nobody inserts a row under an id that is taken: a publishing draws one
that no row and no other publishing has, and a seed, whose id is everybody's, looks
first (`Unique`, `Fresh`). So whatever a process finds under an id, in its cache or
in the table, is the row (`FindsRow`), and a run's steps are those of the row it was
created from (`RunOK`). What was read as current is no earlier than anything that
was there when the delivery came (`HandOK`), whatever is inserted between the
statements.

*Compiling.* `compileFlow` accepts only what has one beginning that leads to
everything and no loop (`CompilesSoundly`). Between two visits of its walk every step
that was seen is on the path or in the chain, at one place (`Once`); an edge of the
path that was followed leads to the next step of the path or into the chain
(`Trail`), never back to the path, since nothing loops; every edge of a step in the
chain leads further back in it (`Ordered`). A visit follows an edge or leaves a step,
so after two for each step and one for each edge the path is empty.

*Runs.* What may become of a run in one step of the system is `Becomes`: it is created,
it is advanced, a step of it is claimed or comes to its end in one of five ways
(`EndsIs`), it is resumed, or it stays (`RunsGoOn`). Four invariants are kept by each.
`Shape`: the run has the steps of the version it was created from, each once. `Watched`:
who reads a run that succeeded reads the steps of one that stays. `Sequenced`, until it is
resumed: what is not pending and not skipped was sent for, and before a step that was
sent for nothing is pending; that is all the order there is. `SkipsOn`, with one input
to each step: what a skipped step leads to is skipped. So when a step is at work, the
steps that the editor lets it refer to, which lie before it in the chain
(`ReadsAncestors`), have begun and are not skipped (`AncestorsBegan`): either they have
succeeded, and their output is found, or they are at work themselves or have failed.

Only model-checked: `AlwaysStops` and `EveryStepRuns`, which are liveness properties
under fairness and out of TLAPS's reach; `OnlyPathRuns`; `ShowsItsOwn`, which only a user
who waits is given; and what the violation runs find. What a recursive definition computes for every input is proved where its recursion is
on the numbers (walks, the compiler's walk, the ladders of the waits, the powers of
two, the number an address is).

## 5. Where the code does less than is said

Three are runs in which TLC finds the behaviour.

| Run | Said | Found |
|---|---|---|
| `twice` | "a socket that died *after* the request was written is not the same as one that never connected" (`runner/src/classify.ts:9`) | the request counts as sent once a response has come (`handlers.ts:149`), so a POST of an http step whose connection is reset before that is made again |
| `handover` | "Cancelling first is what makes the handover safe" (`canvas/core/patch.ts:259`) | what is *under way* is not cancelled: it writes the canvas of that moment under the key of that moment, so the drawing of one flow may become the draft of another |
| `arms` | "Anything reachable only through the other arm never runs" (`branching.ts:59-60`) | the sweep takes a message in a batch for a lost one (`janitor.ts:77-97`) and adds a second `advance_run`, which starts the first pending step behind the branch that is running, for a running step is no blocker (`repository.ts:370-378`); the branch then abandons that arm, `markSkipped` leaves the step alone since it is not pending, and both arms run. Nothing fails, is lost or lapses: two workers suffice |

The following are in the models, too. The property is defined, and TLC shows the
behaviour when it is added to the instance named:

| Property, instance | Said | Found |
|---|---|---|
| `QuestionHoldsTheChain`, `work.cfg` with `Idempotent = {}` | "the run *pauses and asks*" (`runner/README.md:26`) | `waiting_confirmation` is not among the blockers of `nextRunnableStep`: the later steps run first, the run pauses last |
| `ChainInOrder`, `work.cfg` | "A lost or duplicated pointer is harmless" (`runner/README.md:22`) | a second `advance_run` starts the next step while this one runs, since a running step is unfinished but no blocker; the janitor makes the second one when the first is in a batch already deleted |
| `EndedRunStaysEnded`, `work.cfg` | "a no-op, not a resurrection" (`orchestrator.ts:38`) | two overlapping `advanceRun`s: the later commit overwrites the terminal status of the earlier |
| `CancelEndsRun`, `live.cfg` with `Cancellable = TRUE`, `Idempotent = {}`, `Failures = {"timeout"}` | checked "at **every** transition", "Terminal state is `cancelled`" (`autobuild-engineering-plan.md:410`, `413`) | accepted while the run waits for confirmation, and never read |
| `OneArmRuns`, `arms.cfg` with one worker, a `Person` and `MaxGroup = 1` | as for `arms` | a replay in the arm that was taken resets the other arm too |
| `ChainInOrder`, `OneArmRuns`, `arms.cfg` with one worker and `MaxLosses = 1` or `HasDeadline = TRUE` | the same | one worker is not enough: a sweep after a crash, or for an overdue run, makes the second `advance_run` |
| `OnlyPathRuns`, `paths.cfg` with `Drawing <- MCThird`, `Builtin = "third"` | "anything else is a flow the compiler should have refused" (`branching.ts:27`) | a branch with a third way out, without a label, compiles (`flow.ts:204-220`), and the step it leads to runs whatever the condition says; appending a step to a branch at the end of the chain draws it (`App.tsx:1757-1768`) |
| `ShowsItsOwn` with `{flowId}` for `{flowId, None}`, `editor.cfg` | "With a server, only what *this* flow actually produced" (`App.tsx:1419-1427`) | a server that lists a run and does not answer for the latest one leaves the sample run on view, and its fields are offered for mapping as if it were the flow's |
| `RunsAreScheduled`, `ingress.cfg` | "Neither is possible if they commit together" (`repository.ts:98-100`) | the loser of the race for a key commits the run it inserted before the savepoint, with no steps and no message; a sweep later finds it and it ends `succeeded` |
| `NothingLost`, `ingress.cfg` | "the sender's retry is treated as a new delivery" (`fastify.ts:103`) | a retry during the hand-off is answered 200 as a duplicate; the hand-off fails, and the sender has stopped |
| `TemporaryRefusalIsRetried`, `steps.cfg` | "A 4xx SMTP reply is a temporary condition [...] Safe to retry." (`app/src/steps/email.ts:96-97`) | the reply's code is passed on as an HTTP status, where a 4xx is a client error, which is never retried (`classify.ts:71`) |

`EndIsQuiet` is what remains true of "ended": once the run has ended *and* no
`advanceRun` or `run_step` is under way. `VerdictJustified` is what remains of the
verdict while nobody restarts the run. `RecordStandsForWork` is what remains of
"lost": a *record* never stands for nothing unless something died; it is the
answer "duplicate", once given, that cannot be taken back. `AskedOnce` is what
remains of "twice": a call that was refused *in full* is not made again.

Others were seen while reading and are no run's question.

*Engine.* Two replays of one dead letter both read `replayed_at` before either
writes it (`resume.ts:190`). A step that is not idempotent is claimed again when
its worker died and its lease lapsed (`repository.ts:466`), where
`autobuild-engineering-plan.md:328` promises to ask. A worker that is told to stop
looks at the flag between drains, so it may take `maxJobs` more messages; the
server's signal handler stops the worker and leaves the process and its listener
up (`worker.ts:191-198`). `runStep` puts a blocked step's message back in a
transaction of its own: after a death in between only the sweep for stranded runs
finds it. The app's server passes no limits. `remainingCallBudgetMs`, `drainMs`
and `renewLease` have no caller.

*Steps.* A name server that does not answer ends as `SsrfBlockedError`, which is
classified as a client error and not retried. Errors of the deadline, the size and
the redirects have no code and become `internal`, retried whatever was asked, and
so is a 5xx whose body breaks off. No handler reads `Retry-After`. A blank method
is sent as GET but does not count as idempotent. A credential store that does not
answer makes a step poison (`ai.ts:259-274`). The list of allowed recipients is
applied to `to` only. A check in `ai.ts:307-313` can never fail.

*Editor.* 'saving' may be shown for ever, because a save the timer started leaves
`inFlight` set; 'saved' is shown for a flow whose load has failed. Answers to
publishing and to picking a run that come late are taken for the flow that is open
then, and a flow that was created late is opened in the viewing mode of another.
Edits of the last 800 ms before leaving are dropped; a flow that was archived may
get a draft again from an armed timer. Delete and undo act on the draft while a
run is being viewed. An undo in the middle of a drag is absorbed by it.

*Server.* Two processes that seed an empty database insert the same id, and one of
them does not come up. A publishing whose answer is lost leaves the editor with
the version before. A flow that is addressed through a disabled endpoint is still
published. Two versions of one millisecond are ordered by their random ids. Steps
a resume passes over are shown as succeeded, also those on an arm not taken. A
value that contains `or`, an operator or a quote mark is read as part of the
condition it is put into. A join, which only the API can publish, whose step reads
from one arm fails when the other is taken.

## 6. Plan and what is not modelled

Done: the core, the ingress, the ceilings, the steps with the calls they make, the
editor with its autosave, publishing and running versions. Left, in this order:

1. The composition of `StepAttempts` with `DurableRun`: what a crash between a call
   and its record repeats.
2. The path of a run that was resumed, where steps that were passed over count as run.
3. Outbound webhooks (`send`): a loop of attempts of its own, without a caller so
   far.

Not modelled: `assertTimeoutsValid`, a comparison of constants at start-up, since
leases lapse in any order here; rendering, layout, the sample flow; routing,
argument parsing, the read models behind the command line and the event listings
(I/O); signatures and the encryption of credentials (cryptography); the migration
runner; row locks, whose one deadlock Postgres breaks and `withTransaction` runs
again; prompts and the formats of providers.
