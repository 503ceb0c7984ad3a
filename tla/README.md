# EchoDesk: TLA+ models and proofs

This directory keeps the formal models of EchoDesk, a local-first assistant for
meetings, documents and agent tasks: a FastAPI backend over SQLite (`backend/app`), an
Electron/React desktop and an Android shell. The models cover the part of the system
that has to be right when several processes, devices, crashes and late answers meet: the
workflow kernel and its outbox, the agent tasks, the stores of uploads, recordings,
artifacts, documents and memories, meetings and their minutes, the speech recognition
scheduler, the event stream, sessions and admission, and the sync hub.

1. Inventory. 2. What is left. 3. The modules. 4. The runs. 5. Findings. 6. The proofs.
7. Not modelled.

## 1. Inventory

| Component | State it keeps | Operations | What is hard |
|---|---|---|---|
| Execution leases (`runtime/execution_lease.py`) | one row per resource: holder, fence, expiry | acquire, renew, release, assert | late renewals and releases of an old holder |
| Workflow dispatcher (`workflows/kernel.py`) | per process: tasks, cancel events, heartbeats | dispatch, execute, heartbeat, cancel, retry, recover, close | takeover, deadlines, cancellation across processes, shutdown |
| Workflow runs (`workflows/service.py`) | `workflow_runs`, `workflow_events` | create, start, settle, cancel, retry, progress | unique keys under races, first terminal wins, lineage |
| Transactional outbox (`workflows/service.py`) | `workflow_outbox`, consumer cursors, recovery lanes, global recovery lease | append, flush, recover, prune | order per scope, failing rows, prune against a slow consumer |
| Agent tasks (`agents/service.py`, `agents/command_outbox.py`) | `agent_tasks`, cancel commands | submit, cancel, resume, recover | late submit against cancel, two terminal states that must agree |
| Projection of agent events (`agents/service.py`) | `agent_task_events`, delivery keys, a lease per event | record, import artifacts, project, replay | a projection that broke off, a worker that lost its lease and goes on |
| Meetings (`use_cases/meeting_state.py`, `meeting_pipeline.py`) | pointer to the current meeting, segments in memory, rows | start, detect, append, end, finalize, hydrate, recover | end against append, two processes with one meeting |
| Minutes (`api/meetings.py`) | generation, run ids, outputs | request, adopt, commit, clear, retry | clear against finalize, adoption of a run that has just ended |
| Speech recognition scheduler (`adapters/stt/scheduler.py`) | two queues, worker tasks, counters, provider circuits, idempotency records | transcribe, cancel, dispatch, fail over, close | cancellation inside a worker, leaked slots, shutdown |
| Ambient capture (`use_cases/ambient_capture.py`) | recordings, storage ledger, transcript rows | capture, collect, transcribe, repair | charges against deletions, replay after a crash |
| RAG index (`adapters/rag/*`) | documents, manifest, fences, JSON cache, snapshots | project, delete, reload, query, repair | late projection or delete, stale caches |
| Workspace scanner (`adapters/rag/workspace_scanner.py`) | state file, cleanup intents | scan, clear, edit directories | files that change meanwhile, failing deletes |
| Artifacts (`artifacts/*`) | private and published directories, markers, rows | build, publish, register, clear, recover | a crash between file and row |
| Uploads (`upload/*`, `api/retrieval.py`) | owners, bytes, activity, documents | claim, stage, bind, release, delete, reconcile | two uploads of the same bytes, a starting instance |
| Identity (`security/sessions.py`, `security/access.py`, desktop identity manager) | families, credentials, sessions, vault | enrol, renew, rotate, revoke, expire | lost answers of a rotation, revoke against renew |
| Admission (`upload/ingress.py`, `security/access.py`, `security/governor.py`, `runtime/scoped_registry.py`) | body budget, gates, leases, day ledger, runtimes | admit, charge, hand over, release, evict | every way out gives back what was taken |
| Sync hub (`sync_hub/store.py`, `hub/*`) | log, operations, rows, cursors, outbox of each device | pair, push, pull, snapshot, stream, revoke | replayed pushes, cursor gaps, colliding row ids |
| Event bus and WebSocket (`event_bus/inmemory.py`, `api/ws.py`, desktop window) | streams, queues, admission FIFO, cursors | publish, subscribe, replay, resync | slow consumers, full stream table |
| Memory (`memory/*`) | nodes, relations, sources, runs | extract, edit, delete, recall | edits between read and write |
| Session checkpoints (`runtime/session_checkpoint_persistence.py`) | session row, events, checkpoints | start, append, save, resume, finalize | a worker overtaken by its successor |
| Migrations (`adapters/repo/migrator.py`) | `schema_version`, schema | migrate | several builds and processes at one database |
| Model runtime, adapters, skills, capability hosts, telemetry | none a property is about | remote calls, rendering | results or exceptions only |
| Desktop, renderer, Android | windows, worker pool | IPC, projection | modelled where they hold a cursor or a secret |

Interaction: a route or a background loop calls the dispatcher; the dispatcher takes a
lease, runs a handler and settles the run through the service; the service writes run,
event and outbox rows in one transaction; consumers publish outbox rows to the event
bus, which feeds the WebSocket. Agent tasks, minutes, uploads, artifacts and clears are
workflow runs with a handler of their own. Meetings and recordings are projected into
the index by repair workers. Requests of public users pass the gate first; devices talk
to the hub over REST and a WebSocket.

What makes each component correct, in one line: a lease term that was taken over or
given back stays lost, and a term names one execution; a run applies its domain step
once and settles once; a key admits one run; a committed outbox row reaches every bus
that was there to hear it; an agent task and its run never show different ends, and each
of its events has its effects once; minutes are made from the whole transcript and a
clear is respected; no slot, byte or counter leaks; bytes and their rows agree; the
index follows the database; a device loses neither its changes nor its key; a window
shows every event, or reloads and shows what the answer brings. The hazards that
threaten these are listed, at their lines, in `PROJECT.json`.

## 2. What is left

Every component with concurrency or persistence of its own has a module. Fourteen of
them have proofs, in eight modules. What remains worth doing, in this order:

1. `RequestGate`: that every counter equals the requests it stands for, for any number
   of requests, peers and owners; the invariant relates each counter to a set of
   requests, as in `AsrSchedulerProofs`.
2. The half-open probe of the speech scheduler (`scheduler.py:699`): a model of several
   providers with probes big enough to see a probe kept for ever.

`HubSync` is defined with folds over sequences, and `EventStream` with a recursive
function that hands out slots; what these compute for every input needs induction over
data, so both stay with TLC.

## 3. The modules

A step is a stretch of code between two awaits, or one SQLite transaction (`BEGIN
IMMEDIATE` transactions are taken as atomic). Definitions keep the names of the code
where they can; `PROJECT.json` maps each to its lines. A definition introduced by
"Variant:" is a plausible bug of the definition that follows; no specification uses it.

### The workflow kernel

**ExecutionLease** has the operations of a lease row as operators: `CanAcquire`,
`Acquire`, `Owned`, `Renew`, `Release`. Rows are never deleted, so fences grow for ever.
**WorkflowStates** is the transition table `_LEGAL_TRANSITIONS`.

**RunOutcome** is the abstract specification of a run, without processes, leases, clocks
or faults: queued, executing, stopping, then one outcome for good; the domain step
happens at most once and only after execution began.

**WorkflowDispatch** (`workflows/kernel.py`, the fenced writes of
`workflows/service.py`, and `finalize_handler` of `api/meetings.py`). State: the run
rows with their recovery marker and deadline, the lease rows, the clock, and for every
process its mode and, per run, where `_execute()`, its heartbeat task and its handler
stand. Actions: `Claim`, `RecordRestored`, `Begin`, `Start`, `Launch`, the three ways
`asyncio.wait` returns, `Stopped`, `Settle`, `Finally`, the heartbeat, the handler,
`RequestCancel` and `SignalCancel` of a cancelling process, and the faults `StoreError`,
`HeartbeatError`, `Crash`, `Close`, with `Exit` and `Tick`. A renewal is two steps:
`renew()` reads the clock (`seen`), then opens a connection and waits for its
transaction, which compares the row with the time read. So a term that ended meanwhile
is renewed after all, if nobody has taken it. `generation` counts how often the domain
step took effect.

**WorkflowRuns** (`workflows/service.py`). State: the rows with idempotency key, active
key, attempt and parent; the count of `workflow.retry_created` events; and where each
`create_run()` call stands. `create_run()` is five separate statements that rely on two
unique indexes; `create_run_atomic()`, `complete_new_run_atomic()` and `retry_run()` are
one step each.

**WorkflowOutbox** (`workflows/service.py`). State: the rows with their status, the
consumers with cursor and lanes, the global recovery row with its lease, the global
lanes and where `flush_outbox()` of each process stands. `heard` is what each bus
carried and `skipped` the rows a consumer was never owed; both are history. Fences are
renamed to the least unused one, as they are only compared.

**AgentTask** (`agents/service.py`, `agents/command_outbox.py`,
`agents/durable_state.py`, `agents/stream_bridge.py`). State: the task row, its run, the
cancel command, three leases, and for every context where submission, cancel command and
bridge stand. The runner is external: it answers a replayed operation key as before, its
answers may be lost or refused, and it ends by its deadline. `told`, `refusals` and
`asks` are history or bounds.

**AgentProjection** (`agents/service.py`: `record_task_event()`, `_project_event()` and
what they call): how an event of a task reaches the run, the artifacts and the clients.
An event is one transaction; its effects are transactions of their own with a download
between them, repeated after a failure by whoever holds the task, so each carries a
delivery key and a lease per event fences a worker that lost it. State: the task, the
run and its output, the events with a count of every effect, the downloaded files, the
rows of artifacts, the two kinds of lease and where the flow of each context stands.
`AgentTask` leaves this part of a task out and keeps one step for it. The lease is
asserted in one step (`Spoil`) and the file of an artifact that cannot be registered is
removed in another (`Remove`), as the check awaits its connection and nothing fences the
removal; `overrun` remembers the artifacts of removals under way whose term ended.
Reasons of failures are left out.

### What a conversation becomes

**AsrScheduler** (`adapters/stt/scheduler.py`). State: the futures, both queues, the
work event, the three counters, per-scope counts, idempotency records, provider states,
worker tasks and the phase of `close()`. The code runs on one event loop and no body
under `_state_lock` awaits, so the lock is never found taken; a worker that goes from
one job to the next, or from one provider to the next, keeps the loop, which `Yielded`
expresses. Time appears as four events: a deadline, a cooldown, a minute and the life of
a record pass. The order in which a semaphore wakes its waiters is left open. A
cancelled caller either reaches the provider task or finds it done. The order of the
providers is not empty, as `config.py:317` demands.

**MeetingLifecycle** (`use_cases/meeting_state.py`, `auto_meeting_detector.py`,
`meeting_pipeline.py`, `adapters/repo/sqlite.py`): the pointer to the current meeting
and its lock, the detector, the segments in memory and the gate that closes them, and
the rows all processes share. `Segs` are abstract texts; a timeout that may have passed
is a choice. The low-level routes (`LowLevelStart`, `LowLevelEnd`, `ChunkRequest`,
segments for a meeting the process does not know) work on the pipeline alone; a meeting
that one of them started is `loose`, as no `MeetingState` points to it. The recovery of
minutes looks at the newest `Listed` ended meetings (20 in the code). Meetings and
segments that come from a hub (`hub/sync.py:658-680`) are not part of it.

**MinutesGeneration** (`api/meetings.py`): requests look for the active finalize run,
adopt or create one and wait; a run must own the generation to commit; the user clears,
and a run may be cancelled, fail or be taken over between any two steps.

**MemoryStore** (`memory/service.py`, `memory/repository.py`): a background extraction
reads the active memories, asks a model and writes each candidate in a transaction of
its own, while the user edits, confirms and deletes and a chat recalls. Any statement
may fail; a run whose own row cannot be read or written ends `Unrecorded`.

### The stores

**AmbientCapture** (`use_cases/ambient_capture.py`, `security/governor.py`): files,
rows, the shared ledger and the storage lock of one owner. A file, a charge and an
upload have size 1.

**UploadOwnership** (`upload/ownership.py`, `api/retrieval.py`): an owner's row per
content, bytes stored once for all owners, the run that parses and binds, and an
instance that starts and reconciles while others work.

**ArtifactStore** (`artifacts/*`, `main.py`): one run whose artifact is "new" and one
directory of an old version; private directories, markers with lease terms, one rename,
the row, the two halves of a clear, the three passes of a start, the receipt of a clear
with the files that could not be removed, and the requests that read the receipt and try
again. A removal fails as a whole: the directory stays. One clear is modelled.

**DurableFiles** brings `AmbientCapture` and `ArtifactStore` together, whose rows
account for files that no transaction covers, and states what is expected of each.

**RagProjection** (`adapters/repo/sqlite.py`, `use_cases/meeting_pipeline.py`,
`adapters/rag/index_store.py`, `bm25.py`): the wanted and the recorded state of a
meeting and of segments, the documents with their cache files and fences, and the
snapshot of each process. The lookup of an old copy of a segment may fail; the repair
that follows ingests without it, and `missed` (history) names the segment.

**WorkspaceScan** (`adapters/rag/workspace_scanner.py`, `api/workspace.py`): files on
disk, documents in the index and the scanner's state file, which nothing keeps
consistent.

**DurableLogs** brings together three numbered logs that grow while others read them,
each with a module of its own, and states what is expected of each:

- **SessionCheckpoints** (`runtime/session_checkpoint_persistence.py`,
  `b13_composition.py`): a session, its log and checkpoints, with a worker, its
  successor and a stranger, each call reading and writing over two connections.
- **ChangeWaiters** (`sync_hub/store.py`, `api/hub.py`): the loop of the sockets of one
  owner around the event they share.
- **Migrator** (`adapters/repo/migrator.py`): processes of several builds, each with its
  catalog; only the versions the code treats specially are kept.

### The ways in and out

**EventStream** (`event_bus/inmemory.py`, `api/ws.py`, `desktop/src/ws.ts`, `store.ts`):
bounded streams with epoch and sequence, admission, replay, overflow and resync, and the
window behind the socket. A load takes time: its answer is a state of some moment since
it was asked for, the first one overrides the cards that events have changed meanwhile
and drops those it does not list, a later one (`rehydrate`) keeps the cards the window
has, and after six attempts the window gives up. `lost` (history) names the events that
such a load took back or passed over. `listMeetings(50)` is taken to list everything.
The composition of bus, socket and window is one module because neither end acknowledges
anything.

**RequestGate** (`upload/ingress.py`, `security/access.py`, `main.py`, `governor.py`,
`scoped_registry.py`): everything one HTTP request takes on its way in and gives back on
every way out, with any SQLite statement failing. An error of `flush_closures()`
replaces the response that was made: a body that has not started never runs, its runtime
lease stays taken (`leaked`, history), and its quota comes back when the generator is
collected (`Collect`).

**DeviceSessions** (`security/sessions.py`, `api/sessions.py`,
`desktop/electron/public-identity-session.cjs`, `credential-vault.cjs`): the rows of the
server and the vault of the desktop, with answers that get lost. The commit of the
server and the receipt of its answer are two steps. A rotation always makes a new
secret: what a device gave up may still arrive and be accepted, also while the answer of
a renewal is on its way. Only rows of `_USER_RESOURCE_TABLES` keep a user from the
cleanup of orphans; what else a user stores does not. The branch of a definitive
rejection (`public-identity-session.cjs:433-437`, status 400, 413, 415 or 422) is not
modelled: the server gives these only to bodies that the client does not send.
**Identities** states what a device may rely on.

**SyncHub**, **HubClient** and **HubSync** (`sync_hub/store.py`, `api/hub.py`,
`hub/sync.py`, `hub/runtime.py`). `SyncHub` has the transactions of the hub as operators
on its record, `HubClient` those of a device, and `HubSync` composes them into cycles,
sockets and faults. `snapshot()` reads each table in a statement of its own
(`store.py:1033-1074`) and the cursor last; the model reads the tables in one step. What
these modules expect of their constants is checked in `TypeOK`.

Composition: `WorkflowDispatch` extends `ExecutionLease` and `WorkflowStates` and
implements `RunOutcome`; `WorkflowRuns`, `AgentTask` and `AgentProjection` extend
`WorkflowStates`; `DurableLogs` instantiates its three logs, `DurableFiles` its two
stores; `HubSync` extends `HubClient`, which extends `SyncHub`; `Identities`
instantiates `DeviceSessions`. The module of a run instantiates the components it checks
beside those it extends.

## 4. The runs

A run asks one question of several components. Except for `dispatch` and the violations
its module is a suite: a variable `part` chooses, in the initial state, which component
moves and with which constants; the variables of the other parts keep one value. A suite
extends the component its question is about first, whose properties are checked as they
stand; a property of the suite names the properties of an instance under the parts that
run it.

| Run | Parts | What it shows |
|---|---|---|
| `dispatch` | two processes, one run | the domain step is applied once, a fence names one execution, a lost term stays lost, owners do not overlap, and the kernel implements `RunOutcome` |
| `records` | `runs`, `races`; `checkpoints`, `sockets`, `migrations` | unique keys and chained retries under races, what callers of `create_run()` get, checkpoints that the log covers and no stranger in a session, no socket that skips a change, migrations once and in order |
| `remotes` | `agent`; `writers`, `listener`, `documents` | task, run, command and runner agree; an operation of a device takes effect once and as the device was told |
| `stores` | `outbox`; `twins`, `pairs`, `lone` (uploads); `ambient`, `artifacts`, `rag`, `scan` | nothing committed is left behind or lost, nothing removed comes back, charges are exact, only the scanner moves the shared cursor |
| `conversations` | `within`, `across` (meetings); `minutes`; `learn`, `share` (memory) | minutes cover the transcript, a clear is respected, the memory graph stays sound |
| `server` | `speech`; `shared`, `single` (streams); `device`, `devices`; `front`, `streams`, `uploads` (gate) | the scheduler leaks no place, a window shows every event that no overlapping load took back, counters and bytes are exact but for the leases a failing close leaves, a device keeps one bearer and a usable secret |
| `delivery` | `events`, `stale`, `cycles`, `sockets`, `cancelled`, `timed`, `shared`, `refused`, `agent`, with fairness | the effects of an agent event take place once and every event is projected; operations are settled, changes sent, runs ended, rows published and cancel commands completed |
| `settles` | one part per component with calls or long work, with fairness | every call is answered and every piece of work ends |
| `outbox_order` | two processes, two scopes (violation) | finding 1 |
| `agent_request_lost`, `agent_late_runner` | one task (violations) | findings 2 and 3 |
| `asr_unbounded_wait` | two requests, one worker, two providers (violation) | finding 4 |

*Bounds.* Two processes, devices or requests are enough for every takeover: a third only
repeats the relation between an old owner and its successor; the scheduler has three
requests, because two share a key. The lease term of the kernel is two ticks in
`dispatch` and the clock three, so a renewal can act on a reading of the clock from
before the end of a term that has ended since, and a term can end before, during and
after each step of its owner and be followed by another (`MaxFence` 2). In `delivery`
the term is one tick and `MaxFence` 3 lets a run change hands twice. A page of one row
makes every scan and every pull take several pages, a window of 0 makes every row
ancient for a late consumer, and two rows in two scopes give the blocked and the
unblocked case. In `stores` an artifact of the page kind is built by processes that are
up from the start and do not crash; a text goes through every start and crash. Three
requests on two workers and a queue of one are the least that fill both queues of the
scheduler. Limits of the code (streams, waiters, bodies, families, rows) are 1 or 2, so
that two actors meet them. Two events of an agent task give the order of two lists of
artifacts, and one event with three faults lets a worker lose both leases, go on beside
its successor and see a call fail. A session has a worker, its successor and a stranger.
Crashes, lost answers and failing statements are bounded by one or two in every part.
Every bound is a named constant and appears in a guard. Symmetry is used in the safety
runs, for the processes, requests, sockets, owners and runs that no part tells apart.
Deadlock is not checked: a system with no work left, or with its bounds spent, stops.

*Fairness.* Weak fairness of a task means that the event loop runs what is runnable. The
dispatcher's reaper keeps claiming and time passes; nothing is assumed of a handler that
nobody cancels. The outbox poller keeps flushing, and strong fairness for taking the
free term and for the lanes of accepted scopes stands for their retry times, which come
round whatever the other process does in between. The agent recovery loop retries for
ever, hence strong fairness for taking a lease that is free again and again; the runner
ends by the deadline it was given. The recovery of events keeps coming back too: a flow
goes on, a term of a context that is gone ends, and a stream that has nothing to do
stops. A provider call ends by its timeout; a device's connection loop keeps running its
cycle; the 15 seconds of a waiting socket pass; repair workers keep coming back. Nobody
has to call, write, cancel, restart or close. In the two fair runs each part has the
fairness of its component's specification.

## 5. Findings

1. `flush_outbox()` promises the order of a scope; with two processes the scan of
   ancient rows can carry a later row on a bus before the earlier one.
2. An event recorded after `task.cancel_requested` (`task.queued`, a progress frame, the
   permission prompt) sets the task back while its cancel command is open; the command's
   own assertion then fails.
3. The contract says that a cancel completed without a runner is reopened when a late
   runner id arrives; the code reopens only open commands.
4. A caller that gives up during a provider call ends the scheduler's worker task.
   Nothing restarts it, and only workers apply deadlines: with the last worker gone,
   admitted callers wait for ever. `JobEnds` is the part of the promise that does hold.

Also met, without a run of their own; the models contain each of them and the properties
are stated so that they say what does hold:

- `ARCHITECTURE.md:109` lets a cancelled run end as cancelled or cancel_failed only,
  while `_LEGAL_TRANSITIONS` lets it succeed, fail or time out.
- A worker of the speech scheduler that `close()` cancels in its first job reads an
  unset local in its finally block and skips `_finish_job()`.
- `_rebuild_storage_ledgers()` (`upload/ownership.py:383`) rewrites the shared ledger
  row from uploads only, so recordings can exceed the budget of `config.py:509`.
- The admission of a new identity collects orphans after the point at which
  `test_enrollment_admission.py:241` expects it (`sessions.py:412`).
- A window that is told to reload ignores events until the REST answer arrives and may
  go on from a cursor older than the reload (`store.ts:443`).
- `main.py:421` recovers builds before it replays clears (`main.py:426`); a crash
  between the two halves of a clear can register again what the clear named.
- `manual_start` that waits for the lock while a meeting starts by itself returns that
  one, though its docstring says it closes it first (`meeting_state.py:303`).
- Changes on the wire carry no operation id and no base revision, so later revisions are
  answered "conflict" by other devices; a memory has no `created_at` there and blocks
  the pull; the segment id of a device is used as row id of the hub.
- Releasing a reservation before the runtime lease (`main.py:685`) leaks the lease when
  the ledger write fails. A failing close in `flush_closures()` loses the rest, and its
  error replaces a streaming response whose leases were deferred (`main.py:1154`): the
  lease of its runtime is never released, against the comment at `main.py:1105-1108`.
- A rotation whose client has given up may still commit and lock the device out
  (`public-identity-session.cjs:428`).
- `update_node` reads and writes over separate connections; the later edit wins whole.
- A late `save_checkpoint()` of an overtaken worker moves the latest checkpoint back,
  and a worker past reading the state reopens a finalized session.
- A list of artifacts that is empty leaves the output of the run as it is, so the run
  goes on showing what an earlier list named (`agents/service.py`, the condition
  `event.artifacts` of the output); and an artifact that cannot be registered a second
  time loses its cached file, although its row stays.
- A document that is named both current and orphan is deleted by the next scan.
- The docstring of the leases says that an expired term cannot revive; `renew()`
  compares the row with a clock read before it waits for the transaction
  (`execution_lease.py:111`), so a term that ended meanwhile and was not taken goes on.
- Between the check of the lease and the removal of a spoiled file
  (`agents/service.py:1913-1915`) the term may end and a successor register the
  artifact, whose file is then removed.
- `docs/0.3/README.md:57` and `docs/0.3/DATA_MODEL_AND_CONTRACTS.md:298` say that rows
  that are indexed are not indexed twice. When the lookup of a segment fails
  (`meeting_pipeline.py:751-761`), the repair ingests without a lookup and an old copy
  stays.
- `docs/0.3/README.md:74` has a window reload everything after a resync. The answer of
  an overlapping load can take back a card or be passed over (`store.ts:460-492`,
  `507-510`), and a load ends after six attempts.
- A clear succeeds although files stay (`api/meetings.py:891`, `recovery.py:346-378`);
  its receipt lists them and a later request tries again.
- A meeting started by `POST /meetings/{id}/start` has no process that would end it: the
  watchdog looks at its current meeting only (`meeting_state.py:540-542`). Minutes that
  are missing for an ended meeting beyond the newest 20 are not recovered
  (`meeting_state.py:270`).
- The cleanup of orphans counts the rows of `_USER_RESOURCE_TABLES`
  (`sessions.py:131-143`); a user who has memories, a profile or a capture selection
  only is deleted.
- The row of a memory extraction stays "running" when its closing write fails
  (`memory/service.py:411`).

## 6. The proofs

The theorems hold for every value of the constants: any number of processes, runs,
callers, jobs, rows, events, segments, attempts and faults. The assumptions are the ones
named in the modules (distinct model values, natural bounds, None no chunk, a positive
term, a non-empty list of providers, builds that have a catalog, bounds of the
identities that are numbers), which TLC evaluates in the runs. The theorems about
meetings, session checkpoints and sockets carry theirs as hypotheses:
`BoundsAreNumbers`, `TasksHaveHomes` and `NoneIsNoMeeting` (bounds are naturals, every
task runs in a process, the value for no meeting is no meeting), `NoneIsApart` (the
value for an absent row is no row) and `WaiterBounds` (the page and the number of
changes are naturals). The configurations of the runs satisfy them. `MinutesGeneration`
needs none.

**WorkflowDispatchProofs.** `DomainAppliedOnce` is not inductive: a handler that passed
its read of the marker may still commit. The inductive invariant is `TypeOK /\ RunInv /\
TaskInv /\ OneExecutionPerTerm`. `RunInv`: the generation is 1 exactly with the marker,
and a running run was started. `TaskInv`: no task has a fence beyond its lease row; a
task with the last fence granted is the row's holder; while its fence is the last one, a
handler that saw no marker is still right about that; and a task that launched, or may
write success, belongs to a run that was started. From it follow
`DomainAppliedOnceHolds`, `OneExecutionPerTermHolds`, the action properties
`LostTermStaysLostHolds` and `OwnersAreExclusiveHolds`, and the refinement
`ImplementsRunOutcomeHolds`, whose step lemma maps each action to a step of `RunOutcome`
or a stutter. For the first of these, `SeenInv` adds what a pending renewal has read: a
clock that is not ahead, and a term that ends no later than a full length after it.

**WorkflowRunsProofs.** Invariant: types, `KeysAreUnique`, `LineageIsAChain`,
`RetryKeys` (a run has parent p exactly when it carries the retry key of p), which lets
the unique index rule out a second child, and for the callers: who was refused by an
index saw a row that is still there or finished since, and who has an answer has a row
of its key. `RowsAreSoundHolds`, `AnswersAreSoundHolds`, and the action property
`RowsKeptHolds`: no run is deleted, rekeyed or revived.

The same module proves the three properties of `DurableLogs`.

- *SessionCheckpoints.* What a worker has read or was told is never ahead of the log
  (`HandInv`), so the comparison in the write that follows decides. A worker nobody
  overtook holds a checkpoint at least as new as the latest (`LatestInv`), and nobody is
  past reading the state of a session finalized alone (`OverInv`). Together:
  `CheckpointsAreSoundHolds`.
- *ChangeWaiters.* The page of a socket goes on where what it sent has ended
  (`PageInv`), and a socket that looked at the log in vain is owed a notice of all that
  is announced since, unless another took it (`NoticeInv`): `WaitersMissNothingHolds`.
- *Migrator.* What a process read of `schema_version` is out of date when it acts on it,
  and its build may lack files that others have. The invariant says what the rows tell
  of the schema (`RowsTell`: a column or a table is there when a version that adds it
  is, and before version 30 nothing is bound to a file); that below a registered version
  only historical ones are missing, and that those came in order (`OrderInv`); that what
  a process is done with is registered or does not apply to what it read (`ReadInv`);
  and that, when every build has the historical files, they were either all passed or
  none can come any more (`LineageInv`). The published version 5 is older than every
  start, so nobody confirms it (`PublishedInv`). `MigrationIsSafeHolds` then has an
  action part too: a start fails by a fault, at a registration that its build does not
  share (`Disowned`: a later version, or one bound to another file), at an object that
  no migration knows when version 13 rebuilds its table, at historical files left half
  way, or when version 6 reaches its statements (`Faces`) after another build passed the
  historical files.

**WorkflowOutboxProofs.** `OutboxIsComplete` is not inductive: a page is published row
by row while other processes append, prune and take the term over. The invariant adds
what the holder of the term knows: its page is a prefix of the rows left to scan, the
scopes it found blocked are the ones with a lane, the head of a lane is the first
unpublished row of its scope, and nothing between the cursor and the page is
unpublished; and for each consumer: its page is a prefix of the rows after its cursor,
which it has all been owed. A process that lost the term may hold an older page, but its
writes are fenced (`OnlyScannerMovesHolds`).

The same module proves the two properties of `DurableFiles`.

- *ArtifactStore.* A lease term has one handler, whose private directory only it
  removes, or a startup that finds the term over or nobody building (`MakerInv`); what a
  startup collected to remove is of terms it saw (`BootInv`). A run ends once, so a row
  that a clear removed is not registered again except by a startup that finds an old
  directory; after the files of a clear were tried a directory is left only by a
  publication that came late, by such a startup, or by a removal that failed and is
  named in the receipt, or will be when the handler is done; and what a clear or a retry
  found gone stays gone (`FilesInv`): `ArtifactsAreKeptHolds`.
- *AmbientCapture.* The holder of the storage lock has the only reservation in flight
  and made room for its file before it reserved (`CallInv`), no file is on the disk
  twice (`WavsInv`), and a chunk is registered before it is transcribed, where a
  collection that overtakes it is remembered (`StageInv`). So the ledger counts the
  registered files, that reservation, the uploads and the charges whose release failed,
  and nothing else (`LedgerInv`): `ChargesAreExactHolds`.

**AgentTaskProofs.** Invariant: types, `TerminalAgrees`, `ForceKnowsRunner` (a forced
command knows its runner), `OutcomeMatchesTask`, `RunnerInv` (a bound task has a runner
that exists, a bridge needs a bound task, and the holder of the submit lease that has
called the runner finds the task unbound), `BoundTaskEndsLikeRunner` and `CountInv`. The
count of attempts is reset when a late runner id reopens a command; `CountInv` shows
that nothing is forgotten: as long as the runner is unknown nobody has called it, so no
refusal was counted. `OutcomesAgreeHolds`, `GivesUpWhenSpentHolds`, and
`TerminalIsFinalHolds` as action property.

**AsrSchedulerProofs.** The counters stand for sets of jobs and the proof follows the
jobs: none is in two places (`QueueInv`, `HandInv`), a future waits exactly as long as
its job is inside (`FutureInv`), a key is known for the job that is worked on
(`KeyInv`), once workers are stopped nothing is queued (`StageInv`), and the counters
and the places of each provider equal the cardinalities of those sets (`CountInv`,
`PlacesInv`). Provider selection is a choice of the first by weighted load, which exists
because the order is total on a finite set; it is proved by well-founded order, without
recursion. `SpeechIsExactHolds` follows: every counter that admits or closes is exact,
an admitted job fits, two workers never call for one key, and `close()` leaves nobody
waiting.

The same module proves `SessionsAreBound` of `Identities`. What a server accepts is
bound to an enrollment: a credential carries its secret, and a session of its family is
of its latest generation (`BearerInv`), so a renewal, a late join or an enrollment that
is sent again leaves one bearer. What an answer may do depends on what the client asked:
a request that is still waited for carries the secret the client is trying, or the one
it has made for the rotation under way, and there is one such request per device
(`AskedInv`); a good answer that is still on its way names a secret the server accepts,
unless a late rotation overtook it meanwhile (`ProvenInv`). So a client forgets a secret
only when another one was accepted after it. A secret that expired or was revoked is
excepted, and so is a client whose abandoned rotation commits after the server has
accepted the old secret. A device stays its user while the user owns a row the cleanup
looks at: `SessionsAreBoundHolds`.

**AgentProjectionProofs.** What a flow has behind it is written in its event (`Fits`),
so repeating it changes nothing. A flow that still owns the projection finds the event
unprojected and the artifact it fetches not imported for it (`Fenced`), so a file it
decides to remove belongs to nobody who is done. The removal comes a step later: a flow
about to remove still owns the projection, or its artifact is in `overrun`
(`RemovalInv`). The holder of the task's lease has every unprojected list of artifacts
before it (`BridgeInv`), so a list is recorded only when all earlier ones are in the
output (`ListOrder`), and a registered artifact without its file has an event that
failed to register it or has yet to, or was overrun by such a removal (`FileInv`):
`ProjectionIsExactHolds`.

**MeetingLifecycleProofs.** The invariants are operators of the state they are about,
not of the variables, because most actions change a row, the memory of a process and a
task at once: each is proved as up to three steps that change one of them (`ProcStep`,
`TaskStep`, `RowOpens`, `RowGains`, `RowEnds`, `FinalStep`), in an order in which the
reason for what is left still stands. A meeting opens once, from a row that is not there
(`RowInv`, `TaskInv`); what is being summarised is closed and was read whole
(`FinalInv`); a closed gate has an ended meeting behind it, or the task that holds the
lock and is about to end it (`GateInv`, `LockInv`); what memory has ahead of the table
is being written or is known to have failed (`MemInv`); an open meeting that
`MeetingState` started has a process that points to it or has yet to look (`OwnInv`).
From these `MeetingsAreWholeHolds`: minutes cover the transcript, memory is stored, no
process points to a meeting that is not there, and no open meeting is left alone but a
loose one.

**MinutesGenerationProofs.** None of the three parts of `MinutesAreCurrent` is
inductive: a request acts on what it read several steps ago. The generation of the
meeting decides. While it is the one a request has read (`Fine`), the meeting has been
asked for, has no minutes once the request has found no run, and no active run has
committed; so the marker that the compare-and-set lets it write revives nothing. The
runs whose minutes were cleared before a request came are over by the time it reads, and
it joins none of them: only the last run may be active (`RunsFine`), a retry comes after
its parent, and a meeting whose last run was cleared stays blank until there is another
(`MeetingFine`). One lemma (`FineKept`) carries `Fine` of every request over every step
that begins no run. From it follow `NoOrphanGenerationHolds`, `ClearIsRespectedHolds`
and `AnswersAreCurrentHolds`.

*Only model-checked.* Liveness under fairness (`EverythingGetsThrough`, `CallsReturn`,
`WorkComesToAnEnd`), which is out of the prover's reach. `OrderWhileAlone`, whose
invariant would have to order what a bus heard against two cursors and the lanes at
once. `SyncIsFaithful` and `StreamIsContinuous`, whose operators fold over sequences or
recur: what they yield for every input needs induction over data. `UploadsAreOwned`,
`IndexIsFaithful`, `ScanIsExact`, `MemoryIsSound` and `GateIsExact`, which have no
proofs yet. `CallersAgree`, `MinutesAreCurrent` and `SuiteTypeOK` of the suites are
about instances; what they say of `WorkflowRuns`, `MinutesGeneration`,
`MeetingLifecycle` and the types of the proved modules follows from the theorems for all
constants.

## 7. Not modelled

`PROJECT.json` lists every component with its status. Left out for good: HTTP adapters,
prompts and rendering, telemetry, packaging and most of the REST transport, which keep
no state across calls or only log; the policy compilation of agent capabilities; the
TypeScript worker pool around the external kernel. Left out within modelled files:
pagination and listing, the columns of the event log, permission grants and
`retry_task()` of the agent service, resource tickets and legacy claims of sessions,
frame limits of the WebSocket, working memory and the profile, speaker names and todo
extraction of meetings, and the sparse outbox rows written before migration 035.
`attach_artifact_to_todo()` of the pipeline (`meeting_pipeline.py:905-955`) writes
minutes back without a comparison, but only tests and
`scripts/smoke_minutes_refactor.py` call it; the application's write of a todo
(`api/artifacts.py:218-244`) reads and writes in one transaction. The half-open probe
that `_select_provider` reserves for candidates it does not take has no property yet.
SQLite is trusted to serialise its transactions and to keep what it committed.
