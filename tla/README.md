# CountyFlow: TLA+ models and proofs

CountyFlow turns logistics anomalies (a vehicle breakdown, a blocked road) into dispatch
tasks. A FastAPI service records tasks in MySQL and puts them on a Redis stream. Workers
run a graph of eight agents for each task, with checkpoints in Redis, and write
dispatches, audits, publications and rescue cases to MySQL. Browsers follow a task
through its events. A shared memory keeps facts in MySQL, with projections in Qdrant and
Neo4j.

`PROJECT.json` lists every component, run, mutant, hazard and theorem, and maps each
definition to the source lines it models. Paths below are relative to `src/backend/app/`
unless they start with `src/`, or with `docs/` or `backend/`, which are directories of
`src/`.

## The system and its modules

| Part | Code | Module |
|---|---|---|
| Admission of a request: token, keys, revocation, permission | `security/` | `RequestAdmission` |
| Rate limit | `security/rate_limit.py` | `RateLimit` |
| Driver reports, direct submissions, idempotency | `anomaly_reports/`, `services/dispatch_task_api_service.py`, `idempotency/` | `TaskSubmission`, `DispatchPipeline` |
| Task stream, consumer group, dead letters | `streams/` | `DispatchPipeline` |
| Worker: delivery, recovery, execution lock, acknowledgement | `workers/`, `locks/` | `DispatchPipeline` |
| Review and publication | `reviews/`, `publications/` | `DispatchPipeline` |
| Runtime threads and canonical checkpoints | `runtime_threads/` | `DispatchPipeline`, `RuntimeOverrides` |
| Runtime overrides | `runtime_overrides/` | `RuntimeOverrides` |
| The eight agents and the services they call | `agents/`, `fleet/`, `capacity/`, `routing/`, `audit/`, `services/` | `DispatchAgents` |
| Path search | `road_network/` | `RoadGraph`, `PathSearch`, `RoadNetwork` |
| Vehicle reservation, rescue, maintenance, demonstration reset | `dispatch/`, `vehicle_operations/`, `demo_reset/` | `FleetOperations` |
| Task events and the browser's event client | `events/`, `api/v1/task_events.py`, `src/frontend/src/services/` | `TaskEvents`, `EventFeed` |
| Workspace lists | `workspace_reads/` | `WorkspaceReads` |
| Shared memory | `shared_memory/` | `SharedMemory` |
| The seeded county and its set-up | `seed.py`, `sandtable/` | `CountySeed`, `CountySetup` |

How they meet: a request is admitted, inserts the task row and publishes a message. A
worker claims the message, takes the task's execution lock and runs the graph from the
canonical checkpoint of the task's runtime thread. The agents plan, the dispatch node
reserves a vehicle, and the audit approves, rejects or asks for a person. An approved task is
published, its breakdown case is opened in the fleet tables, and only then is the message
acknowledged. The progressor then drives the case. An operator may override the state
of a thread between two nodes. Agents quote the shared memory, which people change
through the API.

What is common to the modules:

- A database transaction, a Redis command and an operation on an external store are one
  step each. A transaction that locks its rows before it decides is one action; one that
  reads without a lock and relies on a version column is a read and a commit.
- Payloads, texts, coordinates and latencies are left out. What a provider answers is a
  choice over the outcomes the code tells apart. A timer is "set"; a set timer may be due
  at any moment.
- A crash loses the local state of a process and nothing else. Every kind of fault has a
  bound, named in the CONSTANTS or in the record of a situation.

### FleetOperations

Rows of `fleet_vehicles`, the dispatch row of each task with the vehicle it reserved, the
rescue unit, and for each task the rescue mission, the maintenance order and its bay; the
outbox; the job each worker is in the middle of; and whether the progressor runs. Vehicles start
with the statuses of the seed (`SeedStatus`), MAINTENANCE and BROKEN among them. `DispatchService.execute` is
`execute_read` and `execute_commit`, with anything in between. `create_breakdown_case`,
the due steps of the progressor, `record_inspection` and `reset_vehicle_breakdown` are one
action each. The progressor is an asyncio task without supervision: any exception of a poll, a
failing database included, ends it (`run_once_fails`) until an API process is started again.

### DispatchPipeline

Task, dispatch and audit rows, publication and case of each task; the thread's canonical
checkpoint and the checkpoints in Redis; the stream, the group's cursor, the pending
entries with their delivery counts, the dead letters; the lock; workers and requests with
their program counters. The graph is cut at its two durable effects, the dispatch row and
the audit row; any agent failing is `GraphFails`. Faults: a worker dies, a lock expires
under a live holder, a request is cut off, XADD fails with or without effect.

### DispatchAgents

Intake, entity memory, graph memory, environment (with its circuit breaker), capacity,
routing, dispatch and audit, each an action that merges its patch over the checkpointed state. Two
workers run up to three tasks at once on one road network, one fleet and one database,
and may die after a node's database effects and before its checkpoint. Allocation ranks
the candidates as `fleet/service.py` does; paths come from `RoadNetwork`, which is
`DijkstraPathFinder.find` as a recursive operator. A request may leave out its vehicle, which
intake then takes from the description. `ResultView` is what the API shows of a finished task.

### PathSearch

The loop of `find` as steps: pop the heap, relax one neighbour. `RoadGraph` has what it
shares with `RoadNetwork`: usable edges, weights, and the order of labels, ties included.

### RuntimeOverrides

One runtime thread, its tree of checkpoints, the override ledger and the boundary lock.
Operators run `apply` step by step or the reconciler; workers claim, run and promote nodes
of the same thread; a dead letter may end it at any time. A call may die at any step, or a statement
of it may fail, which only its finally block notices (`CallRaises`).

### SharedMemory

One fact: its row, the mutation ledger, the projections in both stores, and the Redis lock
of the fact, which is never renewed. `mutate` and `resume_mutation` go through lock,
decision, staging, the canonical transaction, activation, retirement of older projections
and the recording of the outcome. A store operation may fail, a call may die, its lock may
expire, and an operation reported as failed may still take effect later.

### TaskSubmission and RateLimit

Driver reports and direct submissions, one step per transaction or Redis call, behind the
token bucket, whose arithmetic is exact. While Redis is away each API process admits reads
from a window of its own, kept per subject and operation; a crash of a process loses its
windows and any of the open requests. The clock of the Redis server is taken not to be set
back. The worker appears as a consumer that gives each task one verdict, a reviewer as
`SourceDecided`, which ends a source task that waits for a review.

### TaskEvents and EventFeed

A publication is INCR and XADD, so publishers interleave. Clients replay, follow, break
and reconnect with their last event id. `EventFeed` is the promise: an append-only log
that each client reads forwards.

### RequestAdmission, WorkspaceReads, CountySetup

The first has requests of one event loop, cut at every await: the resolver's lock, the
fetch of the keys, the revocation store, with any of the three providers. The second pages through the seven lists while
rows become visible out of the order of their ids. The third runs the set-up on the
databases that earlier versions left, killed between its steps, with work in between, resets
of the demonstration among it. It ends early when the first breakdown case cannot be opened.
`CountySeed` holds the seeded tables.

## Runs

| Run | Instance | Checks |
|---|---|---|
| `fleet` | two workers on two tasks, one's broken vehicle being the other's replacement; one worker, two breakdowns of one vehicle and a reset; or one worker, a vehicle seeded in MAINTENANCE and a progressor that stops | `FleetInv`, `EventsRecordedOnce`, `ManualOrderDecidedByPerson`, `ReservedOnlyWhenAvailable`, `CasesEnd` |
| `pipeline` | four situations: a worker dies and a request is cut off; two tasks claimed in batches; a lock lost under its holder; a client that asks again after a queue error | `OneExecutionPerTask`, `AckedHasVerdict`, `AckedApprovalIsComplete`, `ApprovalIsAudited`, `PublishedIsApproved`, `CanonicalAdvances`, `MessageSettles` |
| `agents_share_the_fleet` | two workers, eighteen sets of up to three requests, two crashes | `ApprovedPathIsDrivable`, `ReviewReasonsHold`, `RecordedVerdictStands`, `ApprovedIsShown` |
| `path_search_in_the_county` | the seeded county, every order and objective with any one road closed, every vehicle to every incident | `AnswerIsCertified`, `FindsCheapest` |
| `override_races` | one worker, two operators, two keys, two calls, one fault | `OverrideTakesEffect`, `AppliedOnce`, `CanonicalLine`, `ThreadEnds` |
| `shared_memory` | two calls at once, three in all, three commands, one failure, one lost lock or late write | `OneAuthorPerVersion`, `VisibleIsCanonical`, `FactAdvances`, `AppliedWhenVisible`, `RetiredWhenReplaced` |
| `task_submission` | two or three reports and submissions, two API processes, two faults | `UnqueuedIsAccountedFor`, `VerdictShownUnlessQueueFailed`, `AdmissionBounded` |
| `live_updates` | a worker and an API process publishing, a stream that is trimmed, one client, one fault | `OnlyOvertakenLost`, `TerminalReachesClients`, `ImplementsFeed` |
| `request_admission` | three requests, two tokens, one rotation, one failed call | `WithdrawnKeyLapses`, `PublishedKeyIsFound`, `LoggedOutIsRefused`, `EveryRequestAnswered` |
| `workspace_lists` | tables of three rows, pages of one, three writes | `WalkListsSteadyRows` |
| `county_setup` | the databases of earlier versions, three steps of work | `SetupIsIdempotent`, `SetupKeepsWork` |
| `dead_letter_of_approved_task` | one worker and no reviewer, three deliveries; ends in a violation | `ApprovedIsReplayed` |

What the properties say, beyond the comments at their definitions:

- Fleet. `FleetInv` is the conjunction of what units, bays, vehicles, missions, orders and
  jobs promise: the unit serves one mission and is marked so exactly then, a bay and its
  order point at each other, the stages of a case match (so the transition checks of the
  progressor, whose failure would end its loop for every case, never fail), and whatever
  has a step left has a timer or an inspector. A vehicle without a case is in no status only a case
  leads to, unless it was seeded with it. Its second half, `HistoryInv`, ties the outbox of
  a case to the stage the case has reached: each event once, and no order that needs a person
  is completed without one.
- Pipeline. The acknowledgement is last: an acknowledged message has a final status, and an
  approval made without a person has been published and its case opened. Nobody publishes
  what was refused or refuses what is published. The canonical checkpoint moves only to a
  child of itself, even with two workers in one task.
- Agents. What is approved can be driven by the vehicle it was planned for, reasons for a
  review survive the nodes after them, a node that runs again changes no verdict, and the API shows
  of an approved task the vehicle it reserved and the path it approved.
- Overrides. An override recorded APPLIED stays in force; the canonical pointer moves down the
  tree of checkpoints; nothing stops the thread for good.
- Shared memory. A version has one author, is searchable only after MySQL has it, and is
  recorded APPLIED only when every store shows it; when `mutate` records it, nothing older is
  visible. A store never shows a gap.
- Edges of the system. A task row goes silent only by a crash between insert and XADD. A
  client loses only events that a later number overtook or whose id is out of order as text. A list walked page by page shows
  every steady row once. A second set-up changes nothing.

### Bounds

- Two tasks are enough for two claims on a unit, a bay or a vehicle, and two workers for two
  runs of a task. Three deliveries are a first execution, a retry and the dead letter; where
  the state space forces two, the retry is the dead letter. Two review decisions are needed
  for a second one. Two tasks on one consumer is the smallest instance in which a claim finds
  an older pending entry in front of its own. `MaxMessages` bounds the entries of the stream;
  two are a task and its second submission, or two tasks.
- Three calls of the shared memory allow a mutation, a competing one and a resume. The three
  commands give creation, replacement, no change, rejection, conflict and a fact that waits for its
  review; a merge takes the same steps as a replacement.
- `MaxRuns` of the overrides is larger than the number of checkpoints two calls can lead to.
  The graph has two positions there, which is all the override code distinguishes.
- `HistoryMaxlen`, `StreamNode`, `PerMillisecond` and `Radix` of the events are small, so that a
  stream is trimmed, also while a client is cut off, and an id gets a second digit, which puts it
  before earlier ones as text. `CacheTtl`, `Leeway` and `Transit` are one unit of a
  clock that runs to three.
- The path search runs on the real tables. The theorems below remove the bounds of the fleet,
  the pipeline, the path search and the shared memory.

Every fault may strike at any step. `CHECK_DEADLOCK FALSE` is set where an instance has a
finite supply of tasks, calls and faults and really stops when it is used up. Symmetry is
used only in `shared_memory`, over calls, and in `task_submission`, over API processes; neither
checks a liveness property.

### Fairness

- Fleet: weak fairness of each due step while the progressor runs: it polls once a second and takes
  due rows oldest first. Nothing is assumed of a progressor that has stopped, nor that it is
  started again, nor of inspectors, workers or resets; `CasesEnd` asks nothing while it is stopped.
- Pipeline: weak fairness of a worker's own steps and of taking new work (the entry point
  loops over `recover_once` and `run_once`), of started requests, and of the expiry of a dead
  holder's lock (Redis PX). Strong fairness, per entry, of claiming: an idle entry is in
  every XAUTOCLAIM from then on, but a worker is not always at the point of its loop where it
  claims. Nothing is assumed of people; faults are bounded.
- Overrides: weak fairness of a started call, of starting a run (the message of an unfinished
  thread is delivered again) and of the runner's steps.
- Events: weak fairness of a client that follows or reconnects, whose timers do so by themselves.
- Admission: weak fairness of a request's steps. The lock is first come first served, and the
  fetch and the stores answer or time out.

## Findings and known limits

`dead_letter_of_approved_task`: at the delivery limit an APPROVED task that was not acknowledged
becomes DLQ (`workers/dispatch_worker.py:218`). In the run one worker does everything: the first
delivery fails after the audit, the second marks the task APPROVED and fails to publish it, and
the third is the limit. `docs/final/FINAL_FACTS.md:157` says that a terminal task
delivered again is replayed and acknowledged.

The models reach the following too. Each property states what the code keeps; its antecedent
names what it does not.

Pipeline and submission:

- When a lock is lost under its holder, two workers can leave an APPROVED task whose only audit
  row says REVIEW_REQUIRED, and one may acknowledge for the other (`ApprovalIsAudited` and
  `OneExecutionPerTask` ask for no lost lock).
- After an XADD error the request writes SUBMISSION_FAILED or PENDING late, over a verdict
  (`services/dispatch_task_api_service.py:140`). A published task can so return to
  REVIEW_REQUIRED and be rejected, and an acknowledged one be approved later without
  publication (`Undisturbed`).
- REJECTED is not in `TERMINAL_STATUSES` (`idempotency/service.py:19`), so a redelivered message
  reopens a task a reviewer has rejected, against `backend/tests/reviews/test_service.py:165`.
- The probe lock is released before the dead-letter steps it protects
  (`workers/dispatch_worker.py:259`).
- A submission with the same key and another payload is compared by order and assignee only
  (`idempotency/service.py:167-175`);
  `docs/superpowers/specs/2026-09-01-driver-anomaly-reporting-design.md:251,254` asks for more.
  Of two submissions with one key at once, one may end as an internal error: `idempotency/service.py:174`
  raises a class of its own, which neither `api/v1/dispatch_tasks.py:73` nor
  `anomaly_reports/service.py:100` catches. A report repeated after a queue error may
  find that its source task has ended. A report by a subject without an active EMPLOYEE account
  fails after the anomaly is saved.
- The audit row is looked up and then inserted (`audit/service.py:221`), so two workers of one task
  can leave two of them once a lock is lost.
- If the API dies between the insert and XADD, nothing publishes the task later.
- A task whose candidates all conflict is REVIEW_REQUIRED without a dispatch row
  (`agents/dispatch.py:65`); no decision can then be recorded.

Agents and fleet:

- The path is planned for the best candidate. When its reservation conflicts and the next one is
  taken, the path stays, so a heavier vehicle may be sent over a road with a lower limit, against
  `docs/superpowers/specs/2026-09-02-fleet-rerouting-demo-design.md:348`. A road closed between
  planning and commit is not noticed, against line 466 of the same document.
- A planned KEEP_ROUTE is always rejected by the audit and its vehicle stays RESERVED. An incident
  at the destination ends in a ValueError. The review flag of the intake is erased by later nodes,
  except for the reasons `ReviewReasonsHold` lists. So ROAD_LOCATION_UNRESOLVED
  (`agents/intake.py:31`) need not end in a review, against line 464 of the same document.
- The mission number keeps the trailing digits of a hexadecimal task id
  (`vehicle_operations/sqlalchemy_repository.py:326`): two cases of one day can collide, and the
  second is refused.
- Nothing watches the progressor (`vehicle_operations/progressor.py:18`, `main.py:261`): after one
  exception every open case waits for the next start of an API process.
- With the wired providers `CapacityProviderError` and NO_SAFE_ROUTE do not occur. The seeded order
  002 cannot be reached by its vehicle.

Overrides and memory:

- A worker promotes a thread that an override holds in OVERRIDING (`promote_checkpoint` ignores the
  status), against `docs/superpowers/specs/2026-08-27-v2-d1-runtime-override-design.md:102`.
  An exception other than the checkpoint store's leaves the row APPLYING
  (`runtime_overrides/service.py:222`) until a call with the same key is made.
  `expected_next_node` is optional (`runtime_overrides/sqlalchemy_repository.py:256`); the run uses
  keys that give it.
- A resume that finds its projection ACTIVE skips the retirement that failed before
  (`shared_memory/service.py:311-323`) and records APPLIED with the older projection still ACTIVE.
  `docs/memory_spec.md:116` and
  `docs/superpowers/specs/2026-08-27-v2-b-shared-memory-design.md:242,330` ask for it RETIRED;
  `AppliedWhenVisible` keeps that half for `mutate` only. Later, a stale PARTIAL mutation that is
  resumed can stage over the projection of an applied one.
- Neo4j's `activate` matches the projection id alone (`shared_memory/neo4j_projection.py:110-112`),
  and the edges of an ATTRIBUTE fact are told apart by their value as well. An edge that a failed
  mutation staged for the same version and another value becomes ACTIVE with the author's;
  `VisibleIsCanonical` speaks of the author's entity only.

Edges:

- INCR and XADD are two commands, so an event can be overtaken, and a client drops it, the last one
  included. TASK_FAILED of an attempt that will be retried ends a client. The history compares
  stream ids as text (`events/broker.py:84`): of more than ten entries in one millisecond, a client
  that resumes from the ninth skips the eleventh (`Misordered`).
- A revocation lasts until the token's expiry and verification accepts a little longer, so
  `LoggedOutIsRefused` ends at the expiry. The Redis client of the API sets no timeout
  (`main.py:180`): that a store answers or fails in the end is an assumption.
- Statuses DLQ and SUBMISSION_FAILED are in no group of a driver's list, and REPORTED anomalies
  under no filter. The count of the vector list is read apart from its rows.
- Every set-up reopens the source tasks of reports and puts back the vehicles of
  `DEMO_FLEET_VISUAL_STATES`. One whose first case cannot be opened, V-005 being under way since a
  reset, ends before the memories are seeded (`seed.py:642`), and so does every later one.

## Proofs

Checked by TLAPS. Each theorem holds for every value of the constants that meets the named
assumption of its module: any number of tasks, vehicles, workers, messages, requests, keys
and calls, and any number of faults.

| Module | Theorem | Statement |
|---|---|---|
| `FleetOperations_proofs` | `FleetInvariant` | `Spec => []FleetInv` |
| | `RescueUnitSafety`, `BaySafety`, `LockstepSafety`, `ReservationSafety` | its conjuncts `RescueUnitExclusive`, `BayHeldByItsOrder`, `CaseInLockstep`, `OneReservationPerVehicle` |
| | `EventsOnce`, `ManualOrdersWait` | `Spec => []EventsRecordedOnce`, `Spec => []ManualOrderDecidedByPerson` |
| | `ReservationFromAvailable` | `Spec => ReservedOnlyWhenAvailable` |
| `PathSearch_proofs` | `SearchInvariant`, `AnswersAreCertified` | `Spec => []AnswerIsCertified` |
| `PipelineTypes_proofs` | `TypeSafe` | the inductive form of `TypeOK` |
| `PipelineLocks_proofs` | `ExecutionIsExclusive` | `Spec => []OneExecutionPerTask` |
| `PipelineLedger_proofs` | `CanonicalOnlyAdvances` | `Spec => CanonicalAdvances` |
| | `AcknowledgedLast` | `Spec => []AckedHasVerdict` |
| `PipelineVerdicts_proofs` | `ApprovalsAreAudited` | `Spec => []ApprovalIsAudited` |
| `PipelineOutcome_proofs` | `PublicationsAreApproved` | `Spec => []PublishedIsApproved` |
| | `AcknowledgedApprovalIsComplete` | `Spec => []AckedApprovalIsComplete` |
| `SharedMemory_proofs` | `MemorySafe` | `Spec => []MemoryInv` |
| | `OneAuthor`, `SearchFollowsTheFact` | `Spec => []OneAuthorPerVersion`, `Spec => []VisibleIsCanonical` |
| | `FactOnlyAdvances`, `AppliedMeansVisible`, `NoGapInSearch` | `Spec => FactAdvances`, `Spec => AppliedWhenVisible`, `Spec => RetiredWhenReplaced` |

**Fleet** (`FleetAssumption`). The unit is safe only because an open order and an active mission
belong together (`CaseInLockstep`). Lockstep survives another case's step only because two open
cases never share a vehicle, which follows from the vehicle's current order. Opening a case moves
the replacement only if it is still held (`HeldInv`). A reservation is safe because a job whose
remembered version is still current looks at a vehicle that is still AVAILABLE (`JobInv`: every
status change raises the version). One lemma per action; steps of the progressor share
`CaseMoveKeepsInv`, steps that change no fleet row share `JobOnlyStep`. These conjuncts are
`OperationsInv`. `HistoryInv` builds on it: an event in the outbox means that the case has passed
the step which records it (`Past`), the stages of a case never go back, and so a step appends only
events its outbox does not have yet. A reset closes a case and a task never opens a second one.
An open order has no result yet, so one that needs a person is completed only by
`record_inspection`, which appends INSPECTION_DECIDED in the same transaction.

**Path search** (`RoadAssumption`, `EdgesAreNaturals`, `QueriesAssumption`). The visited nodes are
the cheapest ones, their labels are final drives from the start, and every other label waits on
the heap. A positive weight makes a label popped later no cheaper. `AnswerIsCertified` is the
conclusion in a form that needs no induction over paths: the labels bound every drive from below.

**Pipeline** (`PipelineAssumption`), a chain of modules, each on the invariant of the one before:

1. `TypeInv` ties a worker's message to the part of the stream that was delivered, so that its task
   is defined, and the verdict and checkpoints it carries to its step.
2. `HolderHasLock`: while no lock was lost, a worker inside `process_message` is the one whose token
   the lock stores. Exclusion follows; the compare-and-delete release is what keeps it.
3. `ReplayInv`, `RowFirst`: a worker's local state says whether it replays, and threads, dispatches
   and checkpoints exist only behind a task row. The canonical pointer moves only by a compare and
   swap from the parent of the new checkpoint. `FinalInv`: final statuses stay final (where the
   queue answers), and whoever is past its verdict has one recorded.
4. `VerdictInv`: the checkpoints of a task are branches with the dispatch rows to match, the first
   audit row agrees with the canonical plan, a status is backed by its rows, and a worker's
   position agrees with all of them. It is a statement about values (row, thread, checkpoints,
   worker), so that one lemma per operation serves the worker that takes the step and one lemma
   every other worker. It is what makes a replay after a crash return the recorded verdict.
5. `OutcomeInv`: what is published is approved, what was refused stays out of APPROVED, and once a
   message is acknowledged no worker of that task still decides.

**Shared memory** (`MemoryAssumption`). `MemoryInv` is the conjunction of `TypeInv`; `LedgerInv` (a
row is decided once, its version follows the one it was decided on, and every call agrees with the
row it remembers); `FinalInv` (a call past `finalize_canonical` has the fact at its version or
beyond, and versions have one author); `StoreInv` (one projection per name in each store);
`LockInv`, `ProgressInv` and `ClearInv` (as long as nothing was disturbed, one call is at work, holds
the lock, every store it has been through is as far as it says, and, after `mutate`, is clear of
older versions); and `VisibleIsCanonical`. The first
four hold with lost locks and late writes, so `OneAuthor`, `FactOnlyAdvances` and the first half of
`SearchFollowsTheFact` do too. Before the proofs, `MemoryInv` was
checked with TLC on the instance of `shared_memory`, and the invariants of the pipeline on those
of `pipeline`.

Only model-checked:

- Liveness (`CasesEnd`, `MessageSettles`, `ThreadEnds`, `TerminalReachesClients`,
  `EveryRequestAnswered`): fairness and ENABLED are out of the prover's reach.
- `FindsCheapest` and everything about `DispatchAgents`: they rest on recursive operators, and what
  a recursion computes needs induction over data.
- `ImplementsFeed` and the safety properties of `RuntimeOverrides`, `TaskSubmission`, `TaskEvents`,
  `RequestAdmission`, `WorkspaceReads` and `CountySetup`: not proved.

## Not modelled

`PROJECT.json` gives the reason for each component: the browser client but for its event client, load
tests and acceptance tools, HTTP routing and response shapes, model and embedding providers, the map
provider's geometry, vector and graph search, redaction, observability, read models of one row, and
the Alembic migrations.
