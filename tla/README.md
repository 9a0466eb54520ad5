# DUDesign, verified

DUDesign is a TypeScript monorepo. An API (`apps/api`) turns a prompt into design jobs of several
*variations*, a runtime gateway (`packages/runtime-gateway`) has agents write each variation as an
HTML artifact, a runtime adapter (`apps/runtime-adapter`) spreads the agents' streams over the
*lanes* of BabeL-O backends, and a web application (`apps/web`) shows jobs and edits variations. This
directory holds TLA+ models of the parts of that program in which concurrency, failure and recovery
matter, TLC runs that check them on small instances, and TLAPS proofs for every instance.

JavaScript runs one callback at a time, so throughout an action is the code of one handler between
two awaits, and a location (`pc`, `at`, `op`, `stage`) names the await a handler is suspended at.

## 1. Inventory

| Component (source) | State | Operations | Interaction |
| --- | --- | --- | --- |
| Lane registry (`runtime-adapter/src/runtimeLane.ts`) | lane status, leases in flight, rotation cursor | plan, acquire, release, markStatus | called by the adapter's handlers; does not know lease holders |
| Runtime adapter (`runtime-adapter/src/app.ts`, `stateStore.ts`) | streams, sessions, refine operations, persist queue, state file | spawn, refine, consume a stream, retry on a lane, cancel, drain, restore | HTTP from the gateway, HTTP to backends, file writes |
| Refine operations (`api/src/service.ts`, `refineOperationReconciler.ts`, stores) | operation row, reconcile lease, the variation's current artifact | refineVariation, cancelVariationRefine, reconcileRefineOperations | handlers of several processes over one database; the gateway |
| Design jobs (`api/src/service.ts`) | job, variation, event and usage rows | create, process, apply events, finalize, admin cancel, admin retry | the queue calls the worker; the runtime yields events; pages read |
| Automation loop (`automationLoop.ts`, `service.ts`) | pending reviews (in memory), attempts | review a page, plan or enqueue a repair, stop | started by a page; enqueues refines; holds back finalization |
| Job queues (`designJobQueue.ts`, `redisDesignJobQueue.ts`, worker) | records by idempotency key | enqueue, run, cancel, time out, retry | between API and worker |
| Job event stream (`eventBus.ts`, `server.ts`, the job page) | ledger, buffer and listeners per job, what the page shows | publish, replay, subscribe, poll, reconnect | between handlers and browsers |
| BabeL-O gateway (`babelOGateway.ts`, `babelOClient.ts`) | active refines, cancel flags | spawn agents, merge streams, reconnect, refine, cancel | between the API and the adapter |
| CLI gateway (`cliAgentGateway.ts`) | child processes, queued cancels | run, time out, flood, cancel | child processes |
| Artifact operations (`artifactApplicationService.ts`, `artifactOperations.ts`, `artifactStore.ts`) | files, artifact rows, exports, shares, the current version | materialize, restore, repair, export, share, revoke, render screenshots | competes with refines and screenshot jobs for the variation's row |
| Capability authoring (`capabilityAuthoring*.ts`) | draft status, template and its versions | analyze, sanitize, preview, import, publish, roll back | several requests on one draft |
| MCP invocations (`service.ts`, `mcpExecutor.ts`) | audit records: a row and a process's copy | authorize, execute, replay | callers choose ids and ask again |
| Capability contexts (`mcpExecutor.ts`, `service.ts`, `babelOClient.ts`) | artifacts by workspace, id and kind; references kept in jobs | analyze data, execute a tool, create and retry a job, write the prompt | what a tool made is told to the runtime by way of a job's requirements |
| Stream transcript (`runtime-adapter/src/app.ts`) | the lines of one response, files of a workspace | watch, execute, retry on a lane, read the artifact, end | a watcher's scans interleave with the execution's result |
| Repositories (`store.ts`, `postgresRepository.ts`) | maps; or tables with a process's copies | every call of the repository's interface | tests run on the maps, production on the tables |
| Accounts (`authApplicationService.ts`, `oauth.ts`) | users, workspaces, identities | register, OAuth login and linking | concurrent sign-ins over three saves |
| Job selections (`service.ts`, `capabilities.ts`) | overrides of plugins (a row and each process's set), template packs, stored jobs | govern plugins, create, retry a job or a variation | processes load the overrides once; a retry creates a job from a stored one |
| Exploration planner (`explorationPlanner.ts`) | none | plan modules for variations, validate, cut out one variation's plan | when a job is created or retried |
| Variation editor (`web .../variations/[variationId]/page.tsx`) | page state, refs, session storage | refine, cancel, poll, reload, restore | calls to the API whose answers race |
| Model services (`service.ts`, `postgresRepository.ts`, the admin console) | rows with one default, a process's copies, user access | seed, synchronize, switch, make default, grant | operators, the runtime's reports and starting processes write the same rows |
| Design sessions (`service.ts`, the home page) | session row, runtime session, the page's list | create, submit, resume, rename, delete | requests that overlap write the whole row; the runtime forgets sessions |
| Screenshots (`screenshotRenderer.ts`, `playwrightBrowserPool.ts`) | pooled browser promise | render, close | queued screenshot jobs |

What makes it hard:

- *Interleaving.* Handlers keep copies of rows and lanes across awaits and write whole rows back;
  the registry's counters are changed by whoever calls `release`.
- *Crashes.* Adapter streams survive in a state file written asynchronously; refine operations
  survive in the database and are taken over by reconcilers; reviews and buffers do not survive.
- *Order.* A cancel races the stream it cancels, late events race terminal statuses, a save queues
  behind older snapshots, a subscription follows a replay, a page merges events with old snapshots.
- *Timeouts and retries.* Lane acquisition, backend execution, connections, child processes, queue
  jobs and operations that look orphaned are all given up by a clock while their work may still be
  going on.
- *Several saves for one thing.* A user, a published template, a tool's artifact, a version with its
  assets are written one row after the other, and anything may happen in between.

What makes each component correct: lanes within capacity, no slot lost or given back twice; answered
spawns and cancels surviving restarts; every consumed stream ending; a refine's recorded status
agreeing with the artifact the user sees, whoever finished it; every operation, job and variation
ending; every review lock having an owner, repairs bounded; a queue waiting for one execution of a
key, ending every job, never running one it refused; a page hearing the end and never reopening what
ended; every variation heard by the merge; child processes watched; versions keeping their files,
archives whole; only reviewed text published; a replay being the answer; whoever was let in able to
return; a servable request getting its plan, and a retry the plan of its original; a disabled plugin
staying out; the editor never stuck in a refine that is over.
`PROJECT.json` lists the hazards at their lines with the properties that cover them.

## 2. Modules

| Module | Models | Run |
| --- | --- | --- |
| `RuntimeLane` | The lane registry: its three variables, selection (`Candidates`, `LeastLoaded`, `Heaviest`, `Rotation`), and one operator per branch of its methods. | with the two below |
| `RuntimeAdapter` | Extends `RuntimeLane` with the handlers of `app.ts` and the file store. | `adapter_...` |
| `LeasePool` | Abstract: what registry and handlers promise together, a counting semaphore per lane. | `adapter_lanes` |
| `RuntimeAdapter_proofs` | Theorems about `RuntimeAdapter`. | |
| `RefineOperations` | The three handlers that share an operation's row. | `refine_...` |
| `RefineOperations_proofs` | Theorems about `RefineOperations`. | |
| `DesignJobs` | One design job: its creation, its worker and the worker's death, the reviews and repairs of its pages, its finalizations, an admin's cancel. | `jobs_...` |
| `DesignJobs_proofs` | Theorems about `DesignJobs`. | |
| `JobQueue` | Abstract: what a `DesignJobQueue` promises, whichever provider. | `queues` |
| `DesignJobQueues` | Both providers, in memory and on Redis; implements `JobQueue`. | `queues` |
| `DesignJobQueues_proofs` | Theorems about `DesignJobQueues`, the refinement among them. | |
| `JobStream` | From the row and the ledger over bus, server and EventSource to what the job page shows. | `streams` |
| `BabelOGateway` | Agents, merge, reconnection and cancel of the gateway to the adapter. | `streams` |
| `Streams` | The two components above, which share no state, side by side. | `streams` |
| `Streams_proofs` | Theorems about `BabelOGateway` and, in `Streams`, `JobStream`. | |
| `CliAgentGateway` | The gateway to command-line agents and their processes. | `services` |
| `Artifacts` | Versions, files, screenshots, exports and shares of one variation. | `records` |
| `CapabilityAuthoring` | A draft, the template it is published as, its version history. | `services` |
| `McpInvocations` | One invocation id: authorization, execution, records, replay. | `records` |
| `Records` | The two components above, which share no state, side by side. | `records` |
| `Records_proofs` | Theorems about `McpInvocations` and, in `Records`, `Artifacts`. | |
| `CapabilityContexts` | Analyses, research and images from the executor that makes them to the prompt. | `services` |
| `StreamTranscript` | The lines of one stream's response: attempts, watcher, page, end. | `services` |
| `InMemoryStore` | The repository of the tests: maps, as operators from one store to the next. | `records` |
| `PostgresRepository`, `PostgresCatalogue` | The repository of production: tables, upserts, joins and copies, beside an `InMemoryStore` that gets the same calls. | `records` |
| `Accounts` | The account of one address: registration, OAuth logins, what they leave behind. | `services` |
| `JobSelections` | What jobs are created from, retries, and the governance of plugins on several processes. | `services` |
| `ExplorationPlanner` | The placement of modules on variations, the validation of the plan, and its retry for one variation. | `services` |
| `VariationEditor` | The editor page while its user refines, cancels and reloads. | `services` |
| `ModelServices` | The catalogue of models under operators, synchronizations and starts, and one user's access. | `services` |
| `DesignSessions` | One session: its row, its runtime session, its jobs, and the home page's list. | `services` |
| `Services` | Ten of these components, which share no state, side by side: an execution is one of one of them. | `services` |
| `VariationServices_proofs` | Theorems about what `Services` does with variations: `ExplorationPlanner`, `VariationEditor`, `StreamTranscript`. | |
| `Services_proofs` | Theorems about the other components of `Services`, and of `Services`. | |
| `MC_...` | Instances for TLC: capacities, weights, symmetry. `MC_Services` and `MC_Streams` are instances of `Services` and `Streams`; `MC_Records` puts the two repositories beside an instance of `Records`. |

**RuntimeAdapter.** A stream goes `absent -> planned (-> opening) -> idle` in `handleSpawnAgent`, and
`(starting ->) acquiring -> preparing -> leasing -> executing (-> finishing) -> closing -> closed` in
`handleStream`, with `retryAcquiring .. retrySaving` inside `executeWithLaneRetry`. `lease[s]` is
`live` when this process acquired it and `stale` when it was read back from the state file: the code
does not distinguish the two. `saves` is the chain of promises of `persistState`, each with the
snapshot taken when it was called. A handler that awaits its own save resumes in the step that
completes it, since promise callbacks run before other events. `SaveFails` rejects every later save
(the chain hangs on a rejected promise), and a stream handler that meets that after its response
head ends the process with an unhandled rejection; nothing installs a handler for those.
Abstracted: the session map's contents, ids, prompts, the events inside a stream, a client that
disconnects (`handleStream` does not watch for it), several streams under one request id, and
`preferredLaneId`s of lanes that do not exist. The backend is external: any answer at any time.

**RefineOperations.** One variation; processes are refine handlers (named by their request), cancel
handlers and reconcilers. `pc[p]` is the await, `copy[p]` the row a process carries, `op` the stored
rows. `WithStatus` and `Save` are `updateRefineOperation`: a status change writes the *copy*, whole.
`Refused` is the unique partial index of migration 0021; `Store = "memory"` removes it. Artifacts are
numbered by version; an artifact has an owner (the refine that made it) and a content, which an
"unchanged" outcome leaves as it was. The gateway is its `activeRefines` entry (`gateway`, `intent`);
the runtime behind it is the status its HTTP interface reports (`rt`) and an execution whose outcome
is `changed`, `unchanged` or `failed` (`run`).
Abstracted: every store call is one step (`DesignJobs` has PostgreSQL's `applyVariationEvent`, which
reads and writes in two statements), intermediate artifact events, a reconciler's batch (claimed one
at a time), prompts, model resolution and access checks. The variation is completed before it is
refined. A refine starts from the current artifact unless `AnyBase`. The runtime may answer a cancel
either way. A call that fails in the try clause of `refineVariation` (`CallFails`, `ApplyFails`, a
version stored and made current or not) leads to its catch clause, which reads the row again and
records a failure or the cancel; `caught` remembers it for the property. One that fails after the
runtime answered a cancel leads to `RefuseCancel` (`CancelFails`). Only what settles nothing is `Crash`:
a lost process, a failure in a catch clause or in a reconciler, whose lease is given back or left. A
store call that fails has not written; `applyEventSideEffects` is one step. The background call that
makes a flawed page current early (`service.ts:3556`) is in `DesignJobs` and `Artifacts`.
`Age` (300 s without a write) and `ExpireLease` (30 s) do not happen to an operation whose handler is
at work unless `SlowRefines`: see section 5.

**DesignJobs.** A task is the design worker, a repair, the review of a page, a finalization or the
admin's cancel; several run at once and all write the same rows. `consumer[p]` is the progress of a
queue job: the event it handles (`v`, `kind`, `content`), the status it read before it went on
(`seen`), the page version it chose, the variations whose stream gave its result. `job` and `var` are
the stored rows, `pages` the html artifacts of each variation, `pending` the in-memory set
`pendingAutomationReviews`. `finals` are the calls of `finalizeQueuedDesignJob` under way, each with
the two snapshots it works from. `Apply` is `applyVariationEvent`: at once in the in-memory store;
with PostgreSQL an element of `writes`, which reads the row (`ReadRow`) and writes all of it back
(`WriteRow`), with the caller waiting, or not waiting where the code has `void`. The runtime is
external: which events a stream may contain, in which order, is what the two gateways let through
(`ProgressKind`, `ResultContent`), and `BabelOGateway` and `CliAgentGateway` model why. A page passes,
has a flaw, or is the placeholder made for a result without files (`bare`), which is never reviewed.
A creation may stop between its writes (`AbandonJob`). `WorkerDies` ends everything the worker process
had under way, and BullMQ, which is external, hands its queue jobs out again: the redelivered job
meets the rows of its first run. `ConfirmRepair` is `reviewVariationAction`, which queues a repair
without taking the review lock. `upsets` bounds cancels, failed creations and deaths together,
`confirms` the owner's repairs,
which `MaxBusy` allows only while so many variations still have or may get a page.
Abstracted: the quality gates (a page's flaws are chosen), event payloads, messages, usage and token
counts, screenshots (`Artifacts`), and time and cost limits of the automation loop (`StopReview` is
always possible). Left out: the mock gateway's `preview_ready`. An admin
retry creates another job and is an instance of the same module. A repair whose base page cannot be
read is in the module (`LostBase`) and excluded by the runs; section 3.

**DesignJobQueues.** `provider` is chosen at start like `createDesignJobQueueFromEnv`. A job's record
is its status with the attempts `made` and the times it `stalled`; `execs` are the executions of the
consumer under way, `awaited` while the queue waits for their result: a time-out and a cancel give an
execution up without ending it. BullMQ is external: delayed set, stalled jobs handed out again at
most `MaxStalled` times, removal of waiting jobs. `KeepsContract` is the refinement of `JobQueue`, in
which `state` is what `getJobState` answers and `active` the keys with an awaited execution. On Redis
the answer is inferred from the stamps BullMQ leaves on a job (`inferBullStateFromJob`), not read: a
job that was started and waits for its next attempt, or was found stalled, is still `running`, and
one whose retry succeeded is `failed`, since the `failedReason` of the earlier attempt stays.
`JobQueue` therefore promises nothing about *when* a running job runs. What it does promise: a start
comes only when no earlier one is awaited, `completed` only after one that was, a result stays.
Left out: readiness, counts, and the memory queue's
loss of everything at a restart, after which a job's row stays as it was.

**JobStream.** `producer` is the process that runs the job between the row, the ledger and the bus;
`worker` says whether that process is the server's (its bus reaches the connection) or a worker's
(only the ledger does). `conn` is `streamJobEvents`: replay of ledger and buffer, subscription, and
the poll; `sent` what `writeIfNew` has let through; `wire` what is not yet received. `page` merges
events (`UpdateFromEvent`) with snapshots that may arrive late and in another order (`MergeSnapshot`).
Progress events carry no contents. `BufferSize` is 500 in the code and 2 here.

**BabelOGateway, CliAgentGateway.** Both merge the generators of a job's variations, `Concurrency` at
a time, and the service pulls one event at a time (`offer`, `Take`). In the first, an agent is a POST
and the GET of its stream; `written` is the adapter's log of the response, `seen` what an open
connection has read of it, and `Connect` after a break is allowed only before the first event, up to
`ReconnectAttempts` times; the adapter refuses a second GET. In the second a unit is a child process
with its timer, output limit and key in `activeProcesses`. Both have the service's cancel with the
flag or the queued intent it leaves. The contents of events and workspaces are left out, and in the
second two deliveries of one job to one process (their processes share a key).

**Artifacts.** `html` are the rows, `files[v]` the page in the file of version `v`: keys are computed
from the version, so a later write of a version replaces its file. `writer[w]` is a materialization
(`nextHtmlArtifactVersion`, the row, its assets, `applyVariationEvent`); a restore, repair or export
is a request with the await it is at; a screenshot job is keyed by idempotency key and rendered in
between. A page whose quality is not `pass` is made current as soon as its row exists, before its
assets, by a call nobody waits for (`CallInBackground`, `service.ts:3350`, `3556`): at once in memory;
in PostgreSQL the call stays in `background` with the row it has read and lands when it likes
(`landInBackground`), also after its stream has died. `early` and `overlapped` are history variables
for the properties. Both stores are initial states of one run. Left out: a share's visibility and expiry, which are checked on read.

**CapabilityAuthoring, McpInvocations, Accounts.** Each has the rows and, per request, the operation
under way with what it has read (`req`, `call`); every operation reads, awaits and saves whole rows.
`races` and `failures` count overlaps, failing saves and deaths, so that a property may say what holds
without them. In the first, a text is one of four kinds (sound, sound, lint warns, lint refuses), and
lint, sanitizer and preview are what they decide about those. A client that creates or updates a draft
sends a whole bundle, of which only the shape is checked (`Sent`): the marks of its example and of its
preview are those it read or its own (`claimed`), which read like `passed`. In the second, three requests use one id (two
permitted, one not). In the third, PostgreSQL's unique indexes and whole-row upserts decide.

**ExplorationPlanner.** One step places one module on the least loaded variations; the hash that
breaks ties is left open (any outcome). Depth-first addition of dependencies is `Walked`, with the
code's skip of what is excluded or already there. `ValidPlan` is `validateBatchExplorationPlan` as far
as a plan made here can fail it. Conditions are already evaluated (`matches`).

**JobSelections.** `process` is what each API process found of the overrides and what it works with;
a governance change and a creation are requests at one of their awaits (`asked`). A job keeps the ids
of its packs, their versions, the pack of each variation and its plan as the list of the planned
variations it realises. `told` and `barred` record what operators were told, for the property; a pack
that suits a planned variation better or worse is `Score`.

**VariationEditor.** The server is reduced to what its answers show (`op`, `handling`, `latest`) and
behaves as `RefineOperations` allows, a lost answer included. `post`, `calls` and `poll` are the page's
requests, `page` its React state, refs and session storage; each answer is handled in one step.
`astray` records that the page was left where no answer is to come.

**ModelServices.** `models` are the rows, `known` the API process's copies, which only tell a
synchronization what is missing; a worker has copies too, but nobody reads them. A request is at one
of its statements (`reading`, `merging`, `marking`; `clearing`, `setting`; `granting`; `listing`).
`decided`, `approved` and `granted` record what operators decided, for the property. The runtime's
report is any set of models. Left out: limits, costs, names; an API that is down stays down, because
nothing it could do would let it start.

**StreamTranscript.** One `handleStream` from the response's head to its end: `lines` are written by
the attempts on lanes (`executed`, `switchLane`), by the watcher, whose scan reads the workspace in
one step and writes in a later one, and by the page that is read when the execution has ended; `files` has what
executions, given-up ones too, have written. A backend's events are one of a few transcripts
(`Transcript`). `RuntimeAdapter` has the leases and restarts around it.

**InMemoryStore, PostgresRepository, PostgresCatalogue.** One call at a time on both repositories
(`Call`), with a clock that stands for timestamps: `db` are the tables, `copies` what processes keep,
`store` the maps. `SameAnswers` compares the answers of all queries of the interface after every call,
except that the events of a job, and the jobs, variations and artifacts in the snapshots of a session and
of a job, are compared as sets (their orders differ, section 3);
the catalogue has accounts, preferences, packs, drafts, models and invocations, the repository the rest.
Left out: calls that overlap (each module has its own), refusals by constraints, workspace members,
annotation batches, a restart of the pair.

**CapabilityContexts.** An id is a position in `artifacts`; what a reference carries is what the code
copies into it. `reported` is what analyses and invocations answered, for the property; `prompts` is
`capabilityArtifactPromptBlock` of each job that ran. Abstracted: text, sizes, hashes; whether a
prompt is unsafe and whether an analysis is for a human to review are chosen.

**DesignSessions.** `ops` are the handlers of the API, `live` the runtime sessions the backend still
knows, `page` the home page with its entry for the session. One submission makes the session and then
its first job; later jobs come from an administrator's retry. `decided` is the row as the answers to
the user would have it.

## 3. Runs

Every run finishes within three minutes; sizes are distinct states.

| Run | Instance | Shows |
| --- | --- | --- |
| `adapter_lanes` (108 k) | 3 streams, 2 lanes of 1 slot, 1 retry, drains, 1 restart, no state file | `TypeOK`, `CapacityRespected`, `SlotAccounting`, and `ImplementsLeasePool`: every step of the adapter is a step of the semaphore. |
| `adapter_durability` (1.0 M) | a spawn and a refine, cancels, failing saves and directories, 2 restarts on a state file | `LeaseInvariant` (the inductive invariant of the proofs), `AckedStreamsDurable`, `AckedCancelSticks`. |
| `adapter_liveness` (157 k) | a spawn and a refine under `FairSpec`, failing directories and lanes | `ConsumedStreamsClose`. |
| `refine_recovery` (26 k) | 2 refines, 2 reconcilers, 2 crashes, failing calls, no cancel, `FairSpec` | `OutcomeIsCurrent`: whoever finishes leaves the artifact the status promises. `OperationsSettle`: somebody finishes. |
| `refine_cancel` (3.9 M) | 2 refines, a cancel of a running operation, 1 reconciler, failing calls, no crash | `CancelAnswerHolds`: a cancel answered "cancelled" leaves the base artifact current and the operation never active again. |
| `jobs_cancel` (177 k) | 2 variations, PostgreSQL, BabeL-O's streams, 1 event before or after the results, 1 page each; a cancel, a failing creation or a worker that dies | `JobSettles`: a job that was enqueued ends with its variations, whatever the runtime sends and whatever fails. |
| `jobs_review` (838 k) | 2 variations of 2 pages, in-memory store, the CLI agent's results, pages with a flaw, 2 automatic repairs, and one the owner confirms when the other variation has failed | `SettledWhenQuiet`: once every task has ended the job and its variations have ended; `RepairsBounded`. |
| `queues` (93 k) | either provider, 2 keys, 2 processes, 2 attempts with backoff and time-out, 1 stall, 1 cancel, 1 death, 3 enqueues | `OneAwaited`, `RefusedNeverRuns`, `EveryJobEnds`, and `KeepsContract`: both implement `JobQueue`. |
| `streams` (326 k) | the gateway: 2 variations through 1 slot and a refine, 1 reconnection, 1 cancel; the page: 1 variation, a cancel, 1 dropped connection, 1 snapshot fetched, a buffer of 2 | `EveryVariationHeard`, `AcceptedCancelSilences`, `MergeEnds`; `NeverReopens`, `PageHearsTheEnd`. |
| `records` (0.7 M) | `Artifacts`: both stores, 2 writers, 1 request at a time, 3 versions, 1 rendering, 4 versions, flaws and requests together; `McpInvocations`: 2 calls, 2 executions, 1 overlap, failures, deaths; the repositories: 2 users, short sequences of calls | `VersionsStayApart`, `ExportsWhole`; `ReplayIsTheAnswer`; `SameAnswers`. |
| `archives` | as `records` | refutes `ArchivesCarryAssets`, see below. |
| `services` (1.1 M) | ten components, below | thirteen properties, below |

`services` is one run of ten components that share no variable and never call each other in the
modules: each initial state selects one of them (`part`), whose steps leave the others where they
begin. Its states are the disjoint union of theirs, so a property of one is checked exactly as in a
run of its own, and symmetry permutes the values of all of them together. `streams` and `records`
are made the same way.

| Component | Instance | Shows |
| --- | --- | --- |
| `CapabilityAuthoring` (112 k) | 2 requests, 3 patches, 1 overlap | `PublishedIsReviewed` |
| `CliAgentGateway` (182 k) | 1 delivery of 2 variations through 1 slot, a refine, 1 cancel | `ProcessesWatched` |
| `Accounts` (6 k) | 2 requests, 2 OAuth providers and a password, 2 users, 2 failures | `AnsweredCanReturn` |
| `ExplorationPlanner` (70 k) | all 19,200 requests over 3 modules and 2 variations that `MC_Services` lists | `RequestServed`, `VariationsRetryable` |
| `JobSelections` (144 k) | 2 processes, 2 requests at a time, 1 plugin, 3 packs, 2 jobs, 2 changes | `DisabledStaysOut`, `RetryRepeats` |
| `VariationEditor` (186 k) | 2 refines, a cancel or reload at a time, 1 lost answer | `QuietPageSettled`, `CancelledIsLeft` |
| `ModelServices` (99 k) | the seeded and 2 found models, 2 requests, 4 changes, 1 overlap, 1 start | `OperatorsDecide` |
| `DesignSessions` (64 k) | 2 handlers, 2 titles, 2 jobs, 3 runtime sessions, 4 changes, 2 overlaps | `LastWordStands` |
| `StreamTranscript` | 2 lanes, 1 retry on another lane and 1 for capacity, 2 drafts of the page | `TranscriptTruthful` |
| `CapabilityContexts` (38 k) | 2 workspaces, 2 artifacts, 2 jobs | `ContextsAsReported` |

Bounds. Two lanes are enough for a retry to have one other lane and then none; three streams make
two compete for one slot while a third holds the other; capacity one makes every surplus grant
visible. One restart shows what a restored process does, two show it restoring what a restored
process wrote. Two refines are needed for one to disturb the next; a third meets nothing the second
does not. Two variations are needed for one review to hold the job while the other variation ends;
two pages let a repair's page be reviewed in turn, and one flaw makes it repeat an earlier finding. `jobs_cancel` also passes with two pages
a variation (403 k) and with a cancel and a death together (1.1 M), the instance of `jobs_review` with
one progress event per consumer (5.5 M), and one variation of three pages with a confirmed repair
(343 k), `CapabilityAuthoring` with 2 overlaps (1.5 M), and `Artifacts` with 3
versions and 2 requests (668 k). Two reconcilers
contend for one lease, and two crashes lose a handler and then the reconciler that took over. Two
keys make one queue job wait for the other, and a third enqueue repeats a key that has ended. A
buffer of two is exceeded by the events of one variation. Two writers choose the same version; a
third version lets a restore go back over one. The bounds are constants of the modules and named
`Max...`, or they are the sets of streams, requests and variations; nothing else is capped.
Deadlock is checked where the system cannot stop; `CHECK_DEADLOCK FALSE` marks runs in which it may:
the adapter exits after a failed save with no restart left, and a variation whose requests are
settled, a job or a queue whose tasks have ended, and a page that has heard the end have nothing
more to do.

Fairness. `RuntimeAdapter!FairSpec` is weak fairness of every handler segment while the process is
up: the event loop dispatches a resolved promise, a lane is polled until a deadline
(`acquireRuntimeLane`), an execution is cut by a watchdog (`nexusClient.ts`). Clients owe nothing:
no fairness on posting, consuming or cancelling. `RefineOperations!FairSpec` is weak fairness of the
handlers, the runtime's execution and the two clocks, and strong fairness of a reconciler's claim:
its timer keeps firing (`RefineOperationReconciler.schedule`), and a claim may be disabled meanwhile
by another owner's lease or while it works on another operation. `DesignJobs!Fairness` is weak
fairness of all the work together: as long as something can be done the event loops and the store do
something, and every stream of a runtime is finite (both gateways cut it after a time limit), so
that no task is starved by another for ever. `DesignJobQueues!Fairness` is weak fairness of the
workers, the consumers they run and the clocks, and strong fairness of taking a job, which another
worker may be about to take or a death may delay. `JobStream!Fairness` has the job's events end, the
server poll and the browser reconnect; `BabelOGateway!Fairness` has the client's waits end and the
service take what it is offered, and asks nothing of the adapter. Nobody need cancel, retry or fail.

### Disagreements between code and documentation

Met while modelling, each with the module that shows it. Where a formula is named, it stands in the
module with the comment that it does not hold, and TLC prints the scenario when it is made an
invariant of the module's instance.

*Runtime adapter.* A stream restored with the lease of an earlier process times out acquiring a
lane; `finally` releases the lane's counter although the slot is another stream's
(`app.ts:644`), and the lane is granted once too often (`CapacityRespected` with a state file;
`runtime-lane-pool-plan.md:181` bounds the streams of a lane). A stream switches lanes and the
workspace on the new lane cannot be created: the lease just acquired is on no stream yet, so nothing
gives it back (`app.ts:816`; `SlotAccounting` with `MkdirMayFail`;
`runtime-lane-pool-plan.md:192`). A second GET of a stream gets 409, and a stream whose consumer
stops at the idle time-out is not recovered (`app.ts:516`). All streams of a job may be planned on one heavier lane.

*Refines.* A cancel writes `cancelling` over an operation that has just finished, and its process
dies. The reconciler asks the runtime to cancel before looking at the terminal status, is refused,
and defers for ever; the variation cannot be refined again (`service.ts:1680`, `OperationsSettle`
with a cancel and a crash; `application-service/TODO.md:522`). A cancel that is stored and answered
before the handler writes `running` from its older copy is lost, and the result becomes current
(`EarlyCancel`). A refine of an older version that produces nothing is recorded as completed,
because the current artifact differs from its base anyway (`AnyBase`). Of two overlapping cancels
the refused one makes the cancelled operation `running` again. A replica that dies after applying a
late event of a cancelled refine leaves what no reconciler repairs; a cancelled handler restores its
base over the next refine's result; a refine whose handler fails after its version was made current
(the event cannot be published, the row not written) is recorded as failed and leaves that version
current, because the catch clause restores nothing (`service.ts:1488`, `1530`: the second disjunct of
`OutcomeIsCurrent`); a cancel that fails after it was stored as `cancelled` writes `running` over it
(`1593`); the in-memory store has two active operations after a cancel
before `running`; a completed refine is executed again after a restart between two saves of the
adapter. This is why `refine_cancel` has one cancel and no crash, and its cancel arrives once the
operation runs.

*Design jobs.* A page with a flaw is reviewed while its completed event is applied; the review's end
finds the last lock gone and finalizes the job, and the worker finalizes it again: the status is
stored and `design.job_completed` published twice (`TerminalEventOnce`, `service.ts:3041`;
`runtime-compatibility/TODO.md:262`). An unreadable base page ends a repair before the code that
releases its review lock, and the job stays running (`LostBase`). With PostgreSQL the write of
`rendering_preview` that nobody awaits may land after the completed status and leave the job
running; with BabeL-O, whose repairs send progress events, a handler that read a row before the
finalization may write `streaming` after it, and the same happens to a repair the owner confirms. A
repair ending between the worker's page and its status makes the page shown an older one. This is
why `jobs_review` has the in-memory store and the CLI agent. A worker that dies takes its reviews
with it: the redelivered job waits for no lock, but a review of a page that a repair made is gone,
and with it the finalization it owed. A redelivered job charges the usage of its variations again,
because the key of the record contains the new artifact's id. A job whose creation stopped half-way
stays queued. The memory queue loses its jobs at a restart, and no service method calls the queue's
cancel. In memory two pages of a variation that are made at once, as BabeL-O's streams may have them,
get one version: neither is older than the other, so both are repaired for the same findings, and
`maxRepairAttempts` (`automation-loop.md:78`) is exceeded (`RepairsBounded` with `Store = "memory"`,
`Gateway = "babel-o"` and one event beside the results). PostgreSQL refuses the second; there the
bound is proved, see section 4.

*Job event stream.* An event published between replay and subscription is left to the poll, and
`job_completed` may close the stream before the next poll (`QuietPageTrue`, `server.ts:781`;
`WORKLOG.md:700` of `runtime-compatibility` promises a complete replay). The page shows a job as
completed on `job_completed` whatever its status.

*Gateways.* A cancel queues itself after the refine has read the queue, or the service closes the
generator between the two steps: the answer is `cancelled: true` and the process runs on
(`AckedCancelStops`, `cliAgentGateway.ts:197`, `221`; `runtime-compatibility/TODO.md:385`). A
cancel that the adapter refuses leaves its flag, and the refine ends without an outcome
(`RefusedCancelIsHarmless`, `babelOGateway.ts:217`; `TODO.md:387`). Two deliveries of one job share
a process key; entries of `activeProcesses` and `queuedRefineCancellations` can stay for ever.

*Artifacts.* A page whose quality is not `pass` is current before its assets are written
(`service.ts:3350`, `3556`), and for good if its stream dies then. A user who exports it meanwhile is
handed an archive without them, and so is every later export of that version, because the archive is
reused (`ArchivesCarryAssets`, the run `archives`; `application-service/WORKLOG.md:3075` expects the
assets in it). `ExportsWhole` is about the other versions. The background call also writes back the
row it read: a version that a user chose in between is no longer current. The screenshot job of a restored version is enqueued once, so a version restored again
keeps the screenshot of the one it replaces (`RestoredPreviewFollows`;
`application-service/WORKLOG.md:669`). A share created while the shares are revoked survives; a
restore does not look for an active refine, and a repair may undo a concurrent one.

A screenshot that PostgreSQL stores after a user has chosen another version, from a row read before,
undoes the choice.

*Stream transcript.* A stream whose execution reports an error and a result is recorded as failed
and then completed (`DecidedOnce`, `app.ts:570`, `604`); a page that was in the workspace before the
execution counts as its result (`ResultIsFresh`); after a lane switch the watcher stays on the first
lane's workspace (`LiveViewFollows`), and lanes that share a workspace root let the page of a
given-up attempt become the result; for lanes that do not (`OwnWorkspaces`) `TranscriptTruthful`
excludes that.

*Contexts.* A job's reference to research is made anew without its provenance, so the runtime is told
to cite research that its own answer reported as a mock's (`MocksAreMarked`, refuted,
`service.ts:4009`; `capability-distribution/TODO.md:550`). Another matter is what the mock's `scanSocial`
makes, of which the property does not speak: it is not flagged as a mock's and is reported as reviewed
when it is made (`mcpExecutor.ts:306`, `service.ts:4074`), so keeping the provenance would not mark it.
A job's images are kept as the client gave them and never looked up; their `imageUrl` has no route. An analysis is kept with the job and never told to the
runtime, and `human_review_required` stops nothing. The refusals of a wrong kind (400) cannot be
reached, because the kind is part of the path.

*Repositories.* With PostgreSQL usage events and audit logs are answered from the process's own
copies, so an API does not see what a worker records (`UsageSeen`, `postgresRepository.ts:761`), and
in memory costs are those of the newest thousand events (`CostsAgree`). Design events are replayed by
their own timestamps (`EventsInOrder`). `getCurrentVariationArtifactSnapshot` and the support session
join `a.*`, `v.*` and `j.*` over columns of one name (`SnapshotNamesVariation`), and the latter's
failure examples show the job's id and status. In memory a second revocation of a login overwrites
the time (`RevocationsAgree`), template packs are found without the rules for workspaces and archived
packs, an invocation id used for another job replaces the whole record; models of one name come in
different orders, and empty constraints come back as null from PostgreSQL. The snapshots of a session and
of a job list jobs and artifacts from the oldest in memory (`store.ts:909`, `store.ts:934`: the order of
the maps) and from the newest with PostgreSQL (`postgresRepository.ts:1327`, 1341, 1366); variations come
in the order of the map and by index (1334, 1359). `SameAnswers` does not compare these orders, so code that
takes the first job or artifact of a snapshot is not covered by it.

*Capability authoring.* Two overlapping requests may save one version with different contents, and
its row keeps the first (`CurrentIsVersion`, `persistDesignTemplatePack`;
`capability-distribution/TODO.md:394`). `TODO.md:389` there lets only a `ready` draft be published whose
sanitizer and preview have passed. The preview has been run (`PublishedIsReviewed`); for the sanitizer
the code takes the marks of the bundle, which may be the client's (`ExamplesSanitized`, not checked;
`createDraft`, `updateDraft`). `sanitizeDraft` takes drafts of a variation only, so that the example of a
document is one the client attaches, as the warning of `createImportedDraft` asks.

*MCP.* The row of an id that is asked again keeps its first request, and shows it with the new
result when it is loaded (`RecordIsOneRequest`, `postgresRepository.ts:2639`;
`application-service/WORKLOG.md:2793`). A crash between authorization and execution leaves a pending
record that is replayed as the answer; JSONB changes the order of keys and with it the replay key.

*Accounts.* A user whose workspace or identity was never saved can neither log in nor register
(`UnusedCanRegister`, `authApplicationService.ts:34`). The in-memory store lets two registrations of
one address through.

*Exploration planner.* A locked module whose condition does not hold is left out without a word
(`LockedIsThere`). Modules added as dependencies may exceed `maxBatchCoverage` and have the plan
refused; a minimum above the number of variations is not reached; at level 0 without an always
module no variation has a focus and the plan is refused, as is one with a dependency on a global
rule. `RequestServed` excludes exactly these.

*Job selections.* A retry has none of its original's plugins, because `capabilityRequirements` is
stored with the job and not passed on, nor its uploaded page (`service.ts:2371`); packs come back by
id with the version published since; a job that wanted no packs added gets them (`autoDistribute`
"no" is not stored), and a variation's retry chooses anew among the packs of all variations
(`RetryKeepsSelection`; `application-service/WORKLOG.md:96`,
`controlled-exploration-governance-plan.md:297`). A plugin disabled on one replica stays usable on the
others until they restart (`DisabledEverywhere`, `service.ts:2150`), though the audit entry says that
selected jobs will be rejected. A plan with a sampled module that asks for two variations or more has
variations that cannot be retried: `EXPLORATION_RETRY_SNAPSHOT_INVALID` (`service.ts:4377`).

*Variation editor.* A call that fails late leaves the page refining for good (`EveryPageSettles`,
`page.tsx:451`, `458`); restoring a version takes away the button that stops the refine in progress
(`StopIsOffered`, `page.tsx:122`, `628`); the message of a refine that a reload found running stays
so (`MessagesSettle`, `page.tsx:470`); a reload before the operation's row exists ends the poll.

*Model services.* After an operator has made another model the default, a process that starts
writes the seeded model as the default too, violates `model_services_single_default_idx` and does
not come up (`StartsAgain`, `postgresRepository.ts:176`; `0004_model_governance.sql:21`), or, started
between the two writes of that operation, takes the choice back. A list of a user's models that found
no row overwrites a denial saved meanwhile (`DenialStays`, `postgresRepository.ts:2858`).

*Design sessions.* A session deleted while it is being resumed is listed again, because the resume
saves the row it read (`DeletedStays`, `service.ts:815`). A job may be created in a deleted session,
and every failed submission of the home page leaves a session without a job.

## 4. Proofs

Eight modules hold theorems. They hold for all values of the constants that the named ASSUMEs of the
modelled module allow (sets of any size, any bounds), and for every fairness, since none of them uses
it.

| Module | Theorem | States | The runs check |
| --- | --- | --- | --- |
| `RuntimeAdapter_proofs` | `TypeCorrect` | `Spec => []TypeOK` | yes |
| | `LeasesInvariant` | `Spec => []LeaseInvariant` | yes |
| | `CapacitySafe` | `Spec => [](LeasesTrusted => CapacityRespected)` | yes |
| | `SlotsAccounted` | if workspaces can be created, `Spec => [](LeasesTrusted => SlotAccounting)` | yes |
| | `LeasePoolImplemented` | without a state file, `Spec => ImplementsLeasePool` | yes |
| | `DurableInvariantHolds` | on a state file, `Spec => []DurableInvariant` | |
| | `AnsweredStreamsDurable` | on a state file, `Spec => []AckedStreamsDurable` | yes |
| | `CancelInvariantHolds` | on a state file, one post per refine, `Spec => []CancelInvariant` | |
| | `AnsweredCancelsStick` | on a state file, one post per refine, `Spec => []AckedCancelSticks` | yes |
| `DesignJobQueues_proofs` | `QueueInvariantHolds`, `TypeCorrect` | `Spec => []QueueInvariant`, `[]TypeOK` | |
| | `OneExecutionAwaited` | `Spec => []OneAwaited` | yes |
| | `RefusedStaysOut` | `Spec => []RefusedNeverRuns` | yes |
| | `ContractKept` | `Spec => KeepsContract`: both providers implement `JobQueue` | yes |
| `Streams_proofs` | `GatewayInvariantHolds`, `TypeCorrect` | `Spec => []GatewayInvariant`, `[]TypeOK` | |
| | `VariationsAreHeard` | `Spec => []EveryVariationHeard` | yes |
| | `CancelSilences` | `Spec => AcceptedCancelSilences`, an action property | yes |
| | `GatewayBesideThePage` | `StreamsSpec => Spec`: the above hold in the composition | |
| | `NothingReopens` | `StreamsSpec => NeverReopens`, an action property | yes |
| `RefineOperations_proofs` | `TypeCorrect` | `Spec => []TypeInvariant` | |
| | `OutcomeInvariantHolds` | without `AnyBase`, `SlowRefines`: `Spec => []OutcomeInvariant` | |
| | `OutcomeStands` | the same: `Spec => [](cancels = 0 => OutcomeIsCurrent)` | yes |
| | `CancelInvariantHolds` | without `EarlyCancel`, `SlowRefines`: `Spec => []CancelInvariant` | |
| | `CancelStands` | the same: `Spec => [](cancels <= 1 /\ crashes = 0 => CancelAnswerHolds)` | yes |
| `DesignJobs_proofs` | `TypeCorrect` | `Spec => []TypeInvariant` | |
| | `RepairsAreBounded` | with PostgreSQL, `Spec => []RepairsBounded` | in memory |
| | `JobsAreSettled` | in memory, CLI agent's streams, base pages present, worker alive: `[]((MaxEvents = 0 \/ confirms = 0) => SettledWhenQuiet)` | yes |
| `Records_proofs` | `ReplaysAnswer` | of `McpInvocations`: `Spec => []ReplayIsTheAnswer` | yes |
| | `FilesAreKept` | `RecordsSpec => []VersionsStayApart` | yes |
| | `ArchivesAreWhole` | `RecordsSpec => []ExportsWhole` | yes |
| `Services_proofs` | `ReviewPrecedesPublication` | of `CapabilityAuthoring`: `Spec => []PublishedIsReviewed` | yes |
| | `CookiesReturn` | `ServicesSpec => []AnsweredCanReturn` | yes |
| | `ProcessesFound` | with one delivery of a job, `ServicesSpec => []ProcessesWatched` | yes |
| | `CatalogueFollowsOperators` | `ServicesSpec => []OperatorsDecide` | yes |
| | `SessionsAsAnswered` | `ServicesSpec => []LastWordStands` | yes |
| | `DisabledStay` | `ServicesSpec => []DisabledStaysOut` | yes |
| | `RetriedAlike` | `ServicesSpec => []RetryRepeats` | yes |
| | `QuietPagesSettled` | `ServicesSpec => []QuietPageSettled` | yes |
| | `CancelledStays` | `ServicesSpec => []CancelledIsLeft` | yes |
| | `PlansServed` | `ServicesSpec => []RequestServed` | yes |
| | `PlansRetryable` | `ServicesSpec => []VariationsRetryable` | yes |
| | `TranscriptsTruthful` | `ServicesSpec => []TranscriptTruthful` | yes |
| | `ContextsToldTruly` | `ServicesSpec => []ContextsAsReported` | yes |

The two theorems of `RecordsSpec` follow from one of `Artifacts` alone (`VersionsKeepTheirFiles`).
Those of `ServicesSpec` are first proved of the component's own specification
(`AnsweredReturn`, `ProcessesAreWatched`, `CatalogueAsDecided`, `LastWordsStand`,
`DisabledPluginsStayOut`, `RetriesRepeat`, `ContextsStay`, and in `VariationServices_proofs`
`PagesSettle`, `PlansServe`, `StreamsAreTruthful`), where needed under the component's `Assumptions`. `ServicesImplement`
carries them over: an execution of `Services` is one of each component, in which all but one stutter.

**Leases.** `LeasesTrusted` is "no restart yet, or no state file": section 3 tells why the capacity is
not respected otherwise, and why slots are not accounted for when a workspace may fail. The counters
cannot be shown right from the counters alone, because the registry does not know who holds a lease.
`LeaseInvariant` therefore ties them to the handlers' locations. `LeasePhases` says where a stream
carries a lease of this process (every location from `preparing` on), where none, and where at most a
restored one. `NoStaleLeases` says restored leases need a state file and a restart. `SlotsCounted`
says that while leases are trusted each counter is at least the number of streams holding a slot of
that lane, and equal to it when workspaces do not fail. Capacity follows: an executing stream holds a
slot, slots are bounded by the counter, and the counter, by type correctness, by `maxConcurrent`.
`TakeCounts` and `GiveCounts` are the cardinality lemmas the counting rests on, and the same lemmas
give each step of the refinement.

**Durability.** What a client was told must be in the file now or in every snapshot from some place
in the queue of saves on, and no save behind that place may lose it. `DurableInvariant` says so for
streams: from the save that a spawn's answer waited for on, every queued snapshot and then the file
has the stream, except behind the save by which its handler drops it. `QueueStep` classifies what a
step does to the queue (nothing, one more save, the first one done, both), `Shift` says it by
position, and each of the two promises is then carried over all actions at once. `CancelInvariant`
is the same for cancelled operations. It needs `OnePostEach`: the service makes a new request id for
every refine (`service.ts:1400`); a client that posted one id twice could overwrite the cancelled
operation of the first post. TLC, with one refine, had not met this; the proof did.

**Queues.** `AwaitedAlone` says that the queue waits for one execution per key, `RedisCounts` that
BullMQ has started a job once per failed attempt, once per stall and once more for what runs or
completed, `MemoryCounts` that in memory a job starts once, `RefusedStay` where a refused job stays.
The counts make the refinement go through: `JobQueue` bounds the starts of a job by attempts and
stalls, and `AwaitedAlone` with `RedisAwaits` gives its other guard, that no earlier start is awaited
(`ActiveEnds`, `ActiveGrows`: what an execution's end or start does to the keys that are). `RefusedNeverRuns` is stated for as long as the job is not accepted anew: a refused job leaves
BullMQ, and its key may then be enqueued again; with one cancel TLC had not met a broader statement's
counterexample.

**Gateway.** `VerdictsRead` counts outcomes against lines read: a generator yields at most one per
line and one more when it gives up. `LogsWellFormed` says a result is the last line of the adapter's
log, so `CompletedOnce` follows, reconnections included, and `VariationsHeard` ties the end of the
job to an outcome of every variation.

**Job page.** Events and snapshots arrive in any order, and the statuses in them are whatever the rows
were when they were made. `PageTypes` says what an event is about that is on its way from the row to the
ledger, the bus, the response and the page; from it `Updated` and `Merged` show, for an event and for a
snapshot, that neither takes back an end the page has shown. `writeIfNew` is a recursive function:
`ReplayExists` and `NewEventsAreEvents` are inductions on the number of events.

**Refines.** `TypeInvariant` adds to the types that a process at work has a request and that a runtime
which reports an end has an outcome. For the outcome, `OneWorker` says that as long as no cancel was
asked for at most one process works on operations: the handler of the one submitted last, or, after
it was lost, a reconciler that holds the lease. `VersionKnown` says that the current version is then
that operation's base or one it made, and `WorkerKnows` what the process at work knows of it: only
where an error was caught may a failure be recorded over an own version (`caught` only grows). The
hypotheses exclude what section 3 reports: a cancel's handlers are a second writer, `AnyBase` has an
operation that produced nothing recorded as completed, and with `SlowRefines` two processes finish one
operation. Any number of crashes is allowed.

With a cancel several processes write one row: the handler, the cancel handler, and every reconciler
that claims a row stored as `cancelling`. `Undisturbed` describes any moment before the cancel.
`Watched(r)` is what holds from then on of the request `r` that is cancelled. Its row stays marked
for its handler until that has ended; the copies of cancel handler and reconcilers are marked or
cancelled (`WorkerShape`), so that no write unmarks the row or makes it active after the answer; and
once the base is restored, a handler that makes its version current late is at a place from which
it reads the marked row again and undoes it, its catch clause among them (`LateVersion`). Each kind of step is shown to keep that for its own
request (`HandlerKept`, `CancellerKept`, `ReconcilerKept`, `TailKept`, put together by `WatchedStep`)
and for another one (`OtherStep`). The theorem has any number of requests, reconcilers and later
refines, either store, and refines of older versions (`AnyBase`), which the run leaves out. A second
cancel, a crash and a cancel before `running` are excluded because the statement is false with each
(section 3).

**Design jobs.** That everything keeps its type is not obvious here, because a page is counted when
it is received, gets a version later and is stored later still. `PagesBounded` counts the pages being
made with those stored (`RoomKept`, `PageReceived`, `PageStored` are the cardinality lemmas),
`VersionsKnown` says the versions are `1 .. k` without a gap, so that `nextHtmlArtifactVersion` has an
answer and gives `k + 1`, and that with PostgreSQL a page's version is its position. `ReviewsKnown`
says a review's page exists. For `RepairsAreBounded`, `Planned(v)` are the repairs of pages whose
number is within `maxRepairAttempts` and whose findings no older page has; it only grows, and its
members are told apart by number and by findings, so it has no more than either bound
(`PlannedBounded`). `RepairsCounted` says that the other repairs are at most those an owner asked for.
The theorem covers BabeL-O's overlapping pages and deaths of the worker, which the run of
`RepairsBounded` leaves out, and assumes PostgreSQL, without which it is false (section 3).

For `JobsAreSettled` nothing that stays true by itself says that a job ends: rows are overwritten by
stale copies, reviews hold locks, and a finalization may look too early. `SettledInvariant` says who
has to act next. `LocksOwned`: the lock of a variation belongs to the review or to the repair of its
newest page, and the repair gives it up only by making the page whose review takes it over. `InTurn`:
without repairs that an owner asks for, pages, reviews and repairs of a variation take turns, so nobody
releases another's lock. `Salvaged` and `Saved`: what the consumption of the design run is yet to fail,
and that every other variation has a page or an end. `Owed`: when the worker has ended and no lock
is held, the job is over, or a finalization is under way that `Concludes`: it has yet to read its
snapshot, or will reconcile every variation still open, or none is open; so whoever releases the last
lock, and the worker at its end, starts one. Each hypothesis excludes a counterexample of section 3:
PostgreSQL and BabeL-O's overlapping consumers, base pages that cannot be read, and a progress event of
an owner's repair between the two snapshots of a finalization. A job in memory dies with its worker, so
deaths are excluded too. The theorem has any number of variations, pages, flaws and events; the run
has two variations and no progress events.

**Authoring.** A request saves a row computed from the draft it read, so a draft's status alone says
nothing. `AuthoringInvariant` says of every request in progress what its copy will be good for when it
is saved: an example that is previewed can be shown, by whoever's marks, a text that is published has passed its review,
an import ends in a draft that is not ready. That is enough whatever the other requests saved in
between, so the theorem needs no condition on overlaps, where `CurrentIsVersion` (section 3) fails.

**Accounts.** `users.email` is unique, so one request makes the only user, and only that request brings
a password as far as its identity (`OneRegisters`); a request that opens a session finds the row of its
way with its own secret (`RequestsLead`). What was granted therefore still leads in when another way is
linked later (`GrantsLead`).

**Command-line agents.** `CliInvariant` (`Watched`) ties a unit's place in its job to the registry and
to the timer: from the start of a process to its end the registry has an entry of the unit's own key,
and the timer is armed until it has fired or was cleared. The key leaves out the delivery: of two
deliveries of one job the later one's entry replaces the earlier one's. The hypothesis `OneDelivery`
excludes that; section 3 has what is false without it.

**Model services.** What is offered and was reported has been approved in every state, because a row
that a request has read and will write back is `Allowed` too (`ReadAllowed`), whatever was written
meanwhile. For the rest, as long as nothing overlapped there is one request in progress, and `Settles`
says where it is: what it read is what the row is (`Agreeing`), between the two writes of a new
default the others' rows are what was decided without the default, and a user's access that is not
stored counts as granted. A process that starts writes the seeded model's row, so from the first start
on `Sure` are the other models only. Nothing is said of the rows known to the API after a start,
because another process may have written them.

**Sessions.** While requests do not overlap the copy that the one in progress works on is the row,
but for the runtime session it is about to save (`SessionInvariant`), so what it saves takes nothing
back, and what it answers is what the row then says.

**Job selections.** Governance takes effect in one process when it is told, in the others when they
start. `GovernanceInvariant` says that what a process was told is stored (`ToldStored`), that a plugin
counts as barred for a process only while the process's own copy has it disabled (`BarredHeld`), that
the change it is about to store does not take this back (`ChangesHold`), and that what a creation in
progress has chosen, and the jobs, are free of it (`CreationsClean`, `JobsClean`). For retries,
`Repeats` says of a job, and of a creation whose plan is copied and whose packs are chosen but
which is no job yet, what it shares with its original: a retry is made of explicit packs, also where
the original chose them itself.

**Editor page.** Nothing on the page says by itself that a refine it shows is still going on: its answer,
its cancel's answer and the polls race, and the server may finish it meanwhile. `EditorInvariant` says
who has yet to settle what the page shows (`Tended`): while it is refining or cancelling, the answer of
the refine is awaited, or a cancel is under way, or the chain of polls goes on until it has settled the
request (`Followed`), or the cancel went astray. `Submitted` says that whatever the page, a call or the
server is about was submitted from this page or before a reload, and `Polled` that what a poll was
answered is of a row that exists. `Left` is `CancelledIsLeft` with the polls that are about to confirm
it. The theorem has any number of refines, calls and upsets; it assumes that no request id is the name
that stands for none.

**Exploration plans.** The invariant says of each module that was placed (`Placed`) that it is on as many
variations as `coverageTarget` says, and, if nothing depends on it, on no other; `Together` that
dependencies came along; `Even` that loads differ by one at most where nothing depends on anything.
`TargetIs` has the arithmetic of the target, from which the bounds of the validation follow. A module
comes with what `Walked` reaches, a recursive function: `WalkExists` shows that there is such a function,
`WalkWithin` what it stays in, and `WalkCloses` that it reaches everything in as many steps as there are
modules, because dependencies descend in a rank. These are inductions. The library's induction
theorems take a predicate, which the provers here cannot instantiate; `SetInduction` is the same for a
set, from the theorem that `<` is well-founded on the naturals.

**Stream transcript.** What a watcher writes depends on a scan made earlier, so the lines alone say too
little. `StreamRuns` says that every attempt but the last ended in a failure on a lane that is not tried
again, `WrittenByRuns` that whoever wrote a file works in its workspace. `StreamWatched` relates the lines
to the watcher: the last draft shown of a file is the one it remembers, and the scan that follows the
end of the execution reads what nobody writes any more. `StreamEnds` says what the last decision
stands for: a page that was read, or a failure and no page. The lemmas are about joined sequences, since
each step appends lines and nothing takes one back. The hypothesis `OwnWorkspaces` is used only for whose
page the result is.

**Contexts.** `AllReported`: whatever is stored was reported as the references say that are made of it.
`JobHas`: a job's research are references made of what its own workspace has (`ResearchOf`), each of
another context, its images are reported ones, and a retry has those of its original. That a retry,
which names every context twice, ends with the same references in the same order is `ResolvedOnce`, an
induction on the number of ids.

**Artifacts.** A version's files are safe if nobody who still holds something read earlier can write
into them, so `ArtifactsInvariant` is about what each actor holds. `VersionsNumbered`: the versions are
`1 .. k` without a gap, a stream's version is one of them or the next, and no number exceeds the pages
made. `Shows`: the variation's row, and the copy of it in a request, a stream or a screenshot job, names
a version that may be handed out, because it is whole or was made current before it was, by a restore or
for its quality (`early`; `ExportsWhole` allows that). `WriterHolds`, `RequestHolds`, `ScreenshotHolds`,
`BackgroundHolds`, `SharesHold`: what each is yet to write, with the version it is for. `FilesApart`: while no two streams overlapped there is one
writer, a version's number is its row's place, and its files are its own. `Grown`, that no step takes
a version back, carries what one actor holds over the steps of the others (the lemmas
`...Still`).

**MCP.** While nothing overlapped, the row has a call's result before the copy has it, and the copy
before the call is answered; `InTurn` says so for each place of the call in progress. `ArtifactsStored`
extends the second half of `ReplayIsTheAnswer` to calls that have stored their artifact and not yet
saved their record, and holds with overlaps, failures and deaths.

The proofs have one lemma per operation or group of operations and, under it, one step per conjunct
that it can disturb. Model-checked only: `SameAnswers` of the two repositories in
`MC_Records`, whose joins, copies and upserts are folds over tables and whose module tlapm does not read,
and liveness under fairness (`ConsumedStreamsClose`,
`OperationsSettle`, `JobSettles`, `EveryJobEnds`, `PageHearsTheEnd`, `MergeEnds`), which is beyond the
provers, as is ENABLED. Where a property depends on what a recursive function computes (`Walked`,
`NewEvents`, `resolveResearchContexts`), the proof shows that there is such a function and argues by
`SetInduction`; the folds of the community modules cannot be reasoned about in this way. No module here
declares a RECURSIVE operator.

## 5. Not modelled, and the plan

`SlowRefines`. The reconciler takes an operation for orphaned after 300 s, the runtime's default
execute timeout is also 300 s, and the reconcile lease of 30 s is not renewed while a recovered
stream is followed. With `SlowRefines = TRUE` the model lets both clocks run under a live owner;
then two processes finish one operation and `OutcomeIsCurrent` fails. The passing runs assume a
refine that writes its row in time.

Components without a module, because they keep no state that several steps depend on: the HTTP server's
routing and parsing, the mock gateway and backend (scripted sequences for demos and tests), the
template packs (parsing of documents),
runtime governance (records for operators, nothing reacts to them), service wiring (reads the
environment), contracts (type declarations), the admin console (forms and tables), deployment
scripts. `PROJECT.json` has the reason for each and, for the components that are partly modelled,
what is left out.

Plan, in order:

1. **Proofs**: `SameAnswers` of the repositories, with recursive functions instead of folds.
2. **Composition**: the queue's redelivery inside `DesignJobs` by instantiating `JobQueue`; the adapter as
   the other end of `BabelOGateway`.
3. **Further components**: the preferences a job is created with.
