# Formal model of AgentTree Studio

TLA+ specifications of the parts of AgentTree Studio whose correctness depends
on the order in which things happen, the TLC configurations that check them on
small instances, and proofs that TLAPS checks for every value of the constants.
Paths below are relative to the repository.

1. [The system](#1-the-system)
2. [The modules](#2-the-modules)
3. [The runs](#3-the-runs)
4. [Fairness](#4-fairness)
5. [What is proved](#5-what-is-proved)
6. [Divergences found](#6-divergences-found)
7. [What is not modelled, and the plan](#7-what-is-not-modelled-and-the-plan)

`PROJECT.json` is the index: components, runs, the mutated definition that each
property is known to reject, the source lines of every definition, hazards,
divergences and theorems.

## 1. The system

Studio is a FastAPI backend on PostgreSQL (SQLAlchemy sessions, requests in a
thread pool, one process), a React front end, and AgentTree Core, a library in
the same process that executes a tree of agents asynchronously.  Core and the
vendors' APIs are outside the repository; they are modelled from how
`backend/` uses them.

| Component | State it keeps | Operations | Talks to |
|---|---|---|---|
| Run lifecycle (`run_service.py`, `async_runs.py`, `core_runtime.py`, `main.py`) | `runs.status`, the coordinator's semaphore and thread pool, the registry of active Core executions | `prepare`, `invoke`, `execute`, `cancel_run`, `submit`, `reconcile_interrupted_runs`, `shutdown` | Core (submit, cancel, result), the database, deliveries |
| Run event log (`run_service.py`, `public_v2.py`) | `trace_events.core_sequence` | ingestion from Core, Studio's own events, `GET /events`, the durable half of `/stream` | Core's log, SSE clients |
| Live output (`public_v2.py`, `core/public_api.py`) | connection slots per token, one queue per connection | `acquire_sse`, `release_sse`, the pump thread, the frame generator | Core's delta subscription, SSE clients |
| Idempotent submission (`public_v2.py`) | `run_idempotency`, a process-wide lock | `submit_run` | lifecycle |
| Result destinations (`destination_service.py`) | `result_destinations`, `result_deliveries` | `ensure_defaults`, `create`, `update`, `delete`, `deliver_completed` | the worker of a Run, people, webhooks |
| Playground view (`use-playground-run.ts`, `run-live.ts`) | cursor, model, pending batch, flags of one React effect | `refresh`, `start`, the stream loop, `publish`, `deny`, unmount | the three above, through HTTP |
| Model catalogue and qualification (`model_discovery_service.py`, `qualification_control.py`) | `provider_models.qualification_status` and evidence | discover, verify, stop | vendors |
| Providers page (`pages/providers.tsx`) | busy, step, lock and stop marks of a visit; the coroutines it leaves running | test, discover, verify one or all, stop, edit, delete | the catalogue |
| Editors of a Tree (`tree-builder.tsx`, `builder/model.ts`, `tree-wizard.tsx`) | a document, its undo history, what was last saved and last checked | edits, undo and redo, debounced check, save, reload | `tree_service.py` |
| Trees and versions (`tree_service.py`) | tree and version status, current version, agents | create, save, replace, validate, delete | lifecycle (pins a version) |
| Playground as a launcher (`tree-playground.tsx`) | the Tree as read, the Run followed, the version drawn | validate and submit, choose a Run | trees, lifecycle |
| Execution page (`run-detail.tsx`, `trace-activity.ts`, `playground-execution.ts`) | Run, events, stream, what is unfinished | start-up, timer, stream, cancel | the public API |
| Tools (`tool_service.py`, `pages/tools.tsx`, `tool-form.tsx`) | rows with their last test, a form, a dialog | create, edit, test, assign | trees, secrets |
| Templates and set-up (`template_setup_service.py`, `template-setup.tsx`, `pages/templates.tsx`) | the set-up of a Tree, the drawer and the dialog over it | add, save, resolve, finish | trees, tools |
| Accounts (`auth_service.py`, `auth.tsx`, `users.tsx`, `router.tsx`) | users, sessions, grants; who the browser thinks it is | sign-in, sign-out, passwords, administration | every endpoint |
| Secrets (`secret_service.py`, `secrets.tsx`, `resource-dependency-dialog.tsx`) | rows, their uses, the dialog's inspection | create, inspect, delete | providers, tools |
| API keys, webhooks, destinations panels; lists of Trees, Templates, Runs, events, models, capabilities | rows read once and patched, or asked again for every query | CRUD; search | their endpoints |
| Tool loop of a specialist (`tool_aware_specialist_executor.py`) | observations and counts of one execution | `execute` | providers, tools, Core |
| Webhook ingress, Public API v1, dashboard, health, schemas, remaining pages | none of their own | | the above |

### What is hard here, and what makes each component correct

* **Run lifecycle.**  A Run is written by its worker, by cancellation requests
  and by the start-up of the next process.  The worker looks at the row without
  a lock at several points and acts on it later.  Correct means: a Run has
  exactly one outcome; a cancellation on record is never turned into a result;
  an open Run always has somebody who will settle it; permits and registry
  entries come back; nothing accepted is forgotten by a shutdown; a result is
  delivered at most once.
* **Event log.**  Numbers are assigned by Core and by Studio; the stream reads
  rows, the Run and the latest number in three separate queries.  Correct
  means: the log has no gaps, a client that resumes at its cursor has received
  exactly the prefix, and the stream ends only when there is nothing left.
* **Live output.**  Two threads share a bounded queue, and a counter without a
  lock; a slot is taken and given back in different places.  Correct means: a
  gap is announced, slots are within the limit, threads end.
* **Submission.**  The Run and the key that names it are committed separately,
  and a request waits for the lock with the time it has read before.  Correct
  means: equal requests get equal answers and one Run, also across retries.
* **Deliveries.**  Destinations are edited while Runs are delivered.  Correct
  means: every call is on record, one destination's failure does not reach
  another.
* **Playground view.**  A periodic refresh, the start-up, the stream and a
  batch timer take turns at every `await`.  Correct means: the view holds the
  newest events up to its cursor and skips none among them, the final view has
  those stored when the Run ended, and a denied view shows nothing.
* **Execution page and journal.**  Overlapping reads of one Run come back in any
  order, and events are replayed by pages and by reconnections.  Correct means:
  what is shown is the newest that was served, the end and the output come
  together, and an operation is unfinished exactly while it is.
* **Model catalogue.**  Sessions keep what they have loaded while a vendor takes
  minutes.  Correct means: claims exclude one another, status agrees with
  evidence, a stop reaches what is under way.
* **Providers page.**  The loop goes on when the page is left, and a stop is a
  mark in the browser and a request to the server that overtake one another.
  Correct means: at most what is under way goes on, and the page becomes free.
* **Pages that change what the server keeps.**  Requests are answered late, out
  of order, or not at all, while the user goes on editing and others change the
  same rows; two-request operations fail half way.  Correct means: what a page
  calls saved, checked, tested, completed or signed in is so, one form makes one
  row, and a row in use is not removed.

## 2. The modules

```
RunResource  <--refines--  RunLifecycle  <--EXTENDS--  RunEvents, Submission
Deliveries
ModelCatalog  <--EXTENDS--  Qualification  --INSTANCE-->  ProvidersPage
Live    --INSTANCE-->  LiveStream, RunView, RunConsole, RunJournal, ProvidersPage
RunView, RunConsole  --EXTENDS-->  RunLive
Studio  --EXTENDS-->   TreeBuilder  --EXTENDS-->  BuilderModel
        --INSTANCE-->  TreeWizard, TemplateSetup, ToolsPage, Accounts, SecretsPage,
                       Shelf, Integrations, Lookups, Launch

Proofs (each EXTENDS the module it is about):
RunLifecycleProofs (also Submission, RunEvents)
DeliveriesProofs
ProvidersPageProofs  <--INSTANCE--  QualificationProofs, LiveProofs
StudioProofs, ToolsPageProofs  <--EXTENDS--  TreeEditorsProofs
```

`MC*.tla` add what TLC needs (symmetry sets, small sets of records) to the module
they name.  The variants with a mistake in them (`CountNothing`, `HeadDeaf`,
`MapExpired`, ...) that precede the actions of a module are not part of its
specification; each is a plausible bug that one property is known to reject.

### RunLifecycle

The unit of atomicity is a database commit, or a step of a thread that another
can observe.  `status` is `runs.status`; `sub` is the request between
`prepare` and `submit`; `worker` is where `RunService.execute` stands;
`snap` the Core state the polling loop read before it took the lock; `rowLock`
and `cancel` a cancellation request inside `_lock_run`; `permits` the
semaphore; `active` the registry; `core` Core's own state, which outlives the
row's in both directions; `delivered` calls of the delivery service; `phase`
and `restarts` the process.

| Code | Actions |
|---|---|
| `RunService.prepare`, `invoke` | `Prepare`, `Invoke` |
| `AsyncRunCoordinator.submit`, its refusal, the caller's withdrawal | `Enqueue`, `Refuse`, `Discard`, `PickUp` |
| `RunService.execute` before Core | `ReadRow`, `MarkRunning`, `Build`, `FinishBuildFailure`, `RefreshRow`, `SubmitToCore` |
| its polling loop | `PollTimeout`, `PollWrite`, `PollRaises`, `Harvest` |
| its two endings | `FinishSuccess`, `FinishError`, `Release`, `Deliver`, `Return` |
| `RunService.cancel_run` | `CancelQueued` (Core has no handle), `CancelThroughCore`, `CancelCommit` |
| Core | `CoreStarts`, `CoreEnds` |
| `reconcile_interrupted_runs`, lifespan | `Crash`, `BeginShutdown`, `FinishShutdown`, `Startup` |

Both endings and the cancellation take the row lock; the first read, the claim
(`run.status = "running"`) and the read before Core do not, which is where the
two divergences of the module are.

`RunResource` is what a client can rely on: the status as the API shows it and
the deliveries.  Its steps are the documented moves, with `StartOverCancel`,
the one the documents exclude, under a name of its own.  `FollowsPromise` says
that RunLifecycle implements it (`Promised`, an `INSTANCE` of RunResource with
`status` and `delivered` mapped to themselves).

### RunEvents

Extends RunLifecycle: worker steps that copy Core's log are strengthened with
what they store, Core's log grows while an execution lives, and clients follow.
A pass of `_stream` is three steps (`rows`, `run`, `latest`) because each
query sees its own snapshot.  Connections are lost and resumed at the client's
cursor.

### Submission

Extends RunLifecycle: a request reads the clock, takes `_idempotency_lock`,
looks the key up, and prepares, maps and submits in three commits; the process
may stop between two.  Time is a counter; a mapping lives `Life` ticks.

### Deliveries

The two tables of one Tree.  A read with its checks and the write that follows
are two steps, as two requests in the thread pool or a request and a worker
interleave.  A worker records `pending`, calls the adapter and records the
outcome in three steps, and may be lost between them.

### LiveStream

`slots` is the counter of a token; a generator that is closed before it was
entered does not run its `finally`.  The pump and the generator are separate
processes on `deltas` and `dropped`; the subscription of Core drops its
oldest delta when full.  The generator takes a delta (`TakeDelta`) and sends it
(`SendDelta`) in two steps, between which the pump may count and discard.  `due`
and `got` are history variables: what the client should have and what it has.

The threads interleave where the build can switch them.  `backend/Dockerfile:3`
names CPython 3.12, whose interpreter gives its lock up at calls and at the end
of a loop's round.  The pump's `local_dropped += 1` (`public_v2.py:271`) and the
generator's read of the counter with its reset in the next line (`:323-324`)
contain neither, so each is one step.  This is an assumption about the
interpreter and not something the language promises: without its lock, a count
between read and reset would be overwritten and a drop go unannounced.
`GapsAreSignalled` and the theorems about it rest on it.

### RunView

One JavaScript thread: an action is what runs between two `await`s.  `refresh`
and `start` are the positions of the two coroutines, `stream` that of
`openRunStream`, `pending` the batch not yet published.  The server is two
actions: `Store` appends an event, before or after `CloseRun` ends the Run,
because the worker of a cancelled Run ingests Core's last events when the row is
closed already.  Nothing else is taken from the server: that a completed Run's log
is whole is RunEvents' concern.

### RunLive

What both views of a Run keep of its events: `reduceLive` puts a new event in
order, and keeps the newest `MaxShown` (1000 in `run-live.ts`).  The model of a view
is therefore the set `Newest` of what it has received, and its cursor the largest
number in it.

### ModelCatalog

One provider connection.  `row` is `provider_models`: the columns status,
availability, candidacy and error code, and of the metadata the evidence of the
last verification and whether an attempt is pending.  `seen` and `prior`,
`loaded` are what a discovery and a verification hold in their sessions, which
neither expire (`expire_on_commit=False`) nor lock; `Flush` writes what differs
from it, as the ORM does.  `current` and `raised` are the stop token of the
connection's control entry and the tokens that were set.

| Code | Actions |
|---|---|
| `discover_catalog` | `ReadCatalog`, then `DiscoveryFails` or `WriteCatalog` (`Relisted` per model) |
| `verify_model` up to the claim | `Begin`, `Claim`, `ClaimFails` |
| the work and the last commit | `Refresh`, `RefreshFails`, `NextRequest`, `Finish` (`Settled`) |
| `start_qualification`, `stop_qualification` | `StartQualification`, `StopQualification` |
| `ProviderService.update` with another configuration | `ClearCatalog` |

The decision checks are three results (all passed, one failed, interrupted);
retry times only decide whether a verification begins.  An idle control entry
gets a new token only if the old one was set: with nobody holding it, an unset
token is as good as a new one, and the 256 entries' eviction, which takes idle
entries only, is the same step.

### ProvidersPage and Qualification

One connection as the page shows it.  `pvPage` is the React state of the visit on
screen; `pvFlow` where the coroutine of each visit stands, which goes on when the
page is left; `pvRefs` the two refs (`activeProviderWork`,
`stoppedQualification`) of each visit; `provider` what the page needs of the
server: its models, who works for which, and the control's Event.  `Head` is the
top of the loop, `Concludes` its end, `Release` the `finally` blocks.

`Qualification` puts the server's end (`ModelCatalog`, extended) and the
browser's (`ProvidersPage`) side by side.

### RunConsole and RunJournal

`RunConsole` is `run-detail.tsx`: `boot` at each `await`, up to two overlapping
`loadState` requests (`rcLoads`), the timer, the stream, the Cancel button.  A
401, 403 or 404 (`loseAccess`) clears what is shown, closes the stream and puts up a
notice, but `boot()`, the timer and requests under way go on behind it and may
fill the model again; `ConsoleSettles` speaks of pages that have their access.
The stream's loop ends on the event that ends the execution (`onEvent`); a body that
the server ends (`BodyEnds`) makes it connect again.  `RunJournal` folds a Run's events as
`reduceExecution`, `projectJournal`, `waitingProviderRequests` and
`traceActivities` do: an event is appended, or an event at any place up to the
next one is ingested, as a replayed page or a reconnection brings it.

### Live

The composition of everything that follows work done elsewhere.  `part` says
which part moves: a browser shows one page at a time, a page that is left keeps
no state that another reads, and a connection of the stream shares nothing with
the pages but the slots, which are LiveStream's own.  The parts are instances of
their modules over the variables that Live declares.

### BuilderModel and TreeBuilder

`BuilderModel` holds the pure operations of `builder/model.ts` and of the canvas:
which connections are allowed, what connecting, attaching and deleting do to the
document, the places the layout gives to Agents and to resources, what a
collapsed Agent hides.  `IsHierarchy` and `IsTidy` are their reference
definitions.  `TreeBuilder` is the page around it: the document and its look are
a snapshot; `past` and `future` are the undo history; a save is a chain of
requests (`Put`, `Mark`, `Get`), each served and answered in its own step; the
debounced check answers for the document that was sent.  `CleanIsSaved`,
`VerdictIsCurrent`, `HistoryIsAnchored` and `DocumentIsSound` are its
properties (`BuilderIsHonest`), `LaidOutIsTidy` that of the layout
(`LayoutKeepsApart`).

### TreeWizard, TemplateSetup and ToolsPage

| Code | Actions |
|---|---|
| `tree-wizard.tsx`, the steps and dialogs | `GeneralStep`, `ToolsStep`, `openEditor`, `saveEditor`, `deleteManager`, `deleteSpecialist`, `choosePeer` |
| its `saveDraft` and validation | `saveDraft`, `WizardPut`, `DraftSaved`, `DraftFailed`, `WizardValidates`, `WizardValidated` |
| `types.ts`, from a Tree and back | `wizardFromTree`, `wizardPayload` |
| `template-setup.tsx` | `addAgent`, `saveAgentDetails`, `applyDefault`, `resolve`, `resolveAllRequired`, `finishSetup`; served (`SetupServed`, `AgentServed`, `SetupValidated`), answered (`SetupAnswered`, `SetupCompleted`) or failed (`SetupFailed`, `SetupReloads`) |
| `tools.tsx`, cards and dialog | `testConnection`, `ConnectionTested`, `testPackage`, `PackageTested`, `addPackageTool`, `PackageAdded` |
| `tool-form.tsx` | `persist`, `FormProves`, `Assigns`, `FormSaved`, `FormFails` |

`WizardPut` and the builder's `Put` are refused for a Tree that has become ready
under a page that opened it as a draft, as `_ensure_draft` does, and
`ConnectionTested` marks no disabled row as proven.  A set-up is complete when every Agent has a model and the Agent `Holder` has a
Tool; a setup of a Tool is a model value of which a test may find either that
its far end answers or that it does not.

### Accounts, SecretsPage, Shelf, Integrations, Lookups

`Accounts` follows one browser (`acShell`) and the desk of an administrator in
another (`acDesk`); a sign-in checks the password and commits its session in two
steps, between which the administrator may act.  Sessions of the ORM do not expire
what they loaded (`expire_on_commit=False`), so the answer to a sign-in says
"must change" as it was read for the check; a reset that commits in between
makes the session `slipped`.  The list of the Users page is read with that of the
Trees; when either fails (`UsersFail`) the page is left with no rows.  Further
administrators change accounts at any time (`AnotherAdmin`).  An account is known by
its name: one that is deleted and made again is the same account here.  `Pages`, `LinkNeeds` and
`RouteNeeds` are the tables of the side bar and of the router.  In `SecretsPage`
other users give a
Secret a use or take it away between the dialog's inspections, the service's
check and its commit.  In `SecretsPage`, `Shelf` and `Integrations` somebody else
also creates, changes and deletes rows behind the page's list
(`OthersChange`); no such page asks again, so a row changed after the list was
read is in a history (`others`, `wrong`) that the properties except, and a change
before it was read must be shown.  `Shelf` is the list of Templates or of Trees,
`Integrations` one of three panels, `Lookups` one of five views that ask again
when their query changes (`render` retires the effect of the previous query).

### Launch

The Playground as the place where Runs start: the Tree read once, the check and
the submission, the Run followed, and the version that Run is pinned to, drawn
when its answer arrives.  Another Run may be chosen at any time, also while a
submission is under way (the browser's Back, and "again").

### Studio

The composition of the pages that change what the server keeps.  `route` is the
page on screen: the router unmounts a page that is left, and none of these pages
keeps a coroutine or a module-level variable that another reads, so the routes
do not interact in the browser; what they share at the server is represented in
each page's module by steps of "others".

## 3. The runs

Every property of a passing run is there because some plausible mistake breaks
it; the mistake is recorded beside it in `PROJECT.json` ("mutants").

| Run | Instance | Question |
|---|---|---|
| `lifecycle_safety` | 2 Runs, 2 cancellers, 1 thread, no queue, registry of 1, 1 restart | are Runs owned, permits and registry balanced, Core watched, nothing lost at shutdown, outcomes final, cancellations binding, and is what a client sees a behaviour of RunResource? |
| `events` | 1 Run, 1 client, log of 3, pages of 2, a canceller, a restart, a lost connection, fairness | is the log gapless and a completed one whole, is a resumed client a prefix, does the stream end only at the end, does every Run settle, does a follower catch up? |
| `submission_safety` | 2 requests, 2 bodies, 2 Runs, 1 place, 3 ticks, a restart | do answers agree with each other and their bodies, is an accepted Run durable, does a job run once? |
| `deliveries_safety` | 1 Run, 1 editor and 3 rows of one Tree, a crash, fairness | are calls on record, failures contained, do loops end? |
| `catalog_safety` | server: 1 model, 1 discovery and 2 verifications at a time, 4 requests in all, a fresh token, and a changed configuration or a crash; page: 2 models, 2 visits, 2 coroutines | do claims exclude one another, does status agree with evidence, does a stop reach what is under way, does the loop hear it? |
| `live` | stream: 2 connections, 1 slot, queues of 1 and 2, 3 deltas; view: 4 events in pages of 2, 2 of them kept, 1 failure; console: 3 events, 2 of them kept, 2 reads at a time, 1 failure; journal: 3 operations with a shared key, 3 events; providers: 2 models, 1 visit, 3 coroutines, a lost answer; fairness | is every gap announced, the limit kept, the view contiguous and up to the end of its Run when final, the page of an execution settled, the journal exact; do streams end, results get shown, and the Providers page become free? |
| `studio` | one page at a time with 1 to 3 requests under way; exact numbers in `Studio.cfg` | is what a page calls saved, checked, tested, completed, signed in or listed so? |

Five more runs end in a counterexample; they are in section 6.

**Why the bounds are enough.**  Two Runs are what contention for a permit, a
thread or a registry slot needs; a third adds no new kind of rival.  Two
cancellers are enough for one that waits for the row behind another.  One
restart is enough to lose a process at every step.  A log longer than two pages
makes the client turn a page in the middle; a page of two has a first and a last
row that differ.  A view that keeps two events of three or four has one that falls
out of it, and one that stays beside the newest.  Two requests are one that maps and one that waits behind the
lock, comes back while the first is half committed, or comes after the mapping
has expired; Studio's own submission takes the place they compete for.  Five
requests on a catalogue are one discovery that fills it, a verification, a
discovery that undoes its claim, a verification that claims the row again, and
one that follows when the first has written over the second.  Small
queues overflow more than once with the few deltas of the run.  On the pages two
requests are one answer that overtakes another, a third follows from the state
the first two leave; two rows are one that is acted on and one that must not be
touched; changes of others share the bound of a page's own requests, so that each
may come before, between or after them; a history of one snapshot overflows with the second edit; one change of
others can fall between any two steps of the page.  Two visits and two models
are a coroutine left behind while another verifies, and a Stop that falls
between two models.  The history
variables grow with the number of Runs and events only, so no state constraint
is used: each run is exhaustive for its constants.

Deadlock is not checked in any run (`CHECK_DEADLOCK FALSE`): the models are of
finitely many Runs, requests and restarts, and stop when these are used up.
That nothing waits for ever is stated by the liveness properties instead.

The composed runs let one part move per behaviour.  That loses no interleaving
the code has, for the reasons given with `Live` and `Studio`, and each property
names the part it is about.

## 4. Fairness

* A worker thread that can take a step takes it (weak fairness per Run); where
  the step needs the row lock, strong fairness, because PostgreSQL queues the
  waiters of a row and cancellers are finite in number.
* Core ends what it started.  This is an assumption about the external library:
  the worker's loop asks again whenever a wait of it times out (`PollTimeout`),
  without a deadline of its own.
* A pool thread picks queued work up and carries it on: one strong fairness
  condition per Run, because threads become free again and again and the
  executor's queue is first in, first out.
* A process that has stopped is started again by its supervisor
  (`compose.yaml`, `restart: unless-stopped`); restarts are bounded, so a
  behaviour does not consist of crashes alone.
* Adapters of deliveries have HTTP time-outs.
* In the browser: requests are answered or fail, timers fire.  That the Run
  ends is never assumed of the view.
* On the Providers page: every request is answered, fails or is lost, and the
  server ends a verification it has begun (its requests have time-outs).  That
  anybody presses anything is not assumed.
* `Live` states the fairness of a part while it is the part that moves.  `Studio`
  and the catalogue state none: only safety is checked of them.

Nothing is assumed of clients or users: they may never connect, cancel, retry or
press a button.

## 5. What is proved

Every safety property and action property that a passing run checks, except
`LayoutKeepsApart` of `Studio`, is proved for every value of the constants, from
the assumptions named below.  For each module the argument is an inductive
invariant, shown to hold at the start and to be kept by every step (one lemma
per action or group of actions); TLC evaluated it as an invariant of a run before
it was proved.

### Life cycle of a Run: `RunLifecycleProofs`

For every set of Runs and cancellers, every number of workers, queue length,
registry size and number of restarts (`RunsAssumption`: the set of Runs is
finite; `SizesAssumption`: sizes are natural numbers, at least one worker and one
registry slot; `NoOneAssumption`: the null value is no canceller).

| Theorem | Says |
|---|---|
| `TypeCorrect` | `[]TypeOK` |
| `Inductive` | `[]IInv`, the invariant below |
| `NeverStranded` | a serving process never leaves an open Run without submitter or worker |
| `PermitsBalance` | free permits plus admitted Runs are the capacity |
| `RegistryBalance` | every registry entry has a worker that will release it |
| `CoreAccounted` | no execution is unwatched; a completed Run has a completed execution |
| `GracefulShutdown` | a shutdown without a crash leaves no open Run |
| `AtMostOnce` | at most one delivery, only of a completed Run (no run of its own: the refinement implies it) |
| `TerminalHolds`, `CancellationHolds` | the two action properties of the outcome |
| `Refinement` | RunLifecycle implements RunResource |

None of the invariants is inductive: `OwnedUntilSettled`, for example, says
nothing of a worker at the point where it claims a row that is already
terminal.  `IInv` adds, per Run: what `status` may be at each step of the
worker (`StatusAt`), that submitter and worker exclude each other, what
Core may have done at each step (`SubmitterAt`, `CoreAt`, `DeliveryAt`), that a
locked row is open and its worker has not passed its last write (`LockAt`), what
the phases exclude (`PhaseAt`); for each canceller what it holds
(`CancellerInv`); and globally that the pool is a finite set whose size and the
free permits make the capacity.  A Run none of whose own state changes keeps
its part (`RunUntouched`); the permit equation has its own lemma (`PermitsStep`).

### Event log, in `RunLifecycleProofs`

Also for every set of clients and every limit (`LimitsAssumption`; a Core log has
room for more than two events, because the model lets every execution record its
start, something and its end).

| Theorem | Says |
|---|---|
| `EventsImplyLifecycle` | `EventsSpec => Spec`: the theorems above hold of the composition |
| `EventsInductive` | `[]EInv` |
| `LogsAreWhole` | `[]LogIsWhole`, if `MaxEvents <= FinalLimit` |
| `LogsAreNumbered`, `LogsGrow` | without that hypothesis: numbers 1, 2, ... without gap or double, and nothing ever appears behind a cursor |
| `ReplaysAreComplete` | a client has exactly the stored events up to its cursor |
| `StreamEndsAreComplete` | a stream the server ends has delivered everything, unless somebody asked to cancel |

The hypothesis of `LogsAreWhole` is what the code needs: the final transaction
reads one page of 1000 events (section 6), and a longer log loses its tail.
`EInv` says that a log is a numbered interval (`Whole0`), within Core's log
until the worker's last write, and closed by Studio's event after it; that a Run
nobody asked to cancel is not active only when its worker has made that last
write (`AskedInv`), which is why a stream may trust the status it read; and of
each client what it has read at each of the three steps of a pass and what of it
is final (`ClientInv`).  Numbered intervals have their own lemmas (their
cardinality, their last number, what an ingested slice adds).

### Submission, in `RunLifecycleProofs`

Submission extends RunLifecycle and is proved beside it, for every set of requests
and bodies and every life of a mapping.  `SubmissionIsLifecycle` shows that every behaviour is one of RunLifecycle.
`SubmissionInductive` proves `SInv`: who holds the lock and what its holder has
made at each step (`LockInv`, `MadeAt`), that a Run has one maker (`OwnerInv`), what the
mapping row stands for (`MappingInv`), that a request takes less than two ticks
(`TimeInv`), that the mapping of a Run that was handed over lives out its life
(`LivesAt`) and was alive when an answer that rests on it arrived (`RestsAt`).
From it: `RetriesAgree`, `AcceptanceLasts`, `RetriesRunOnce`.

`AnswersAgree` speaks of requests that arrived after the one they repeat, or
made a Run themselves.  Of two that arrived in the same tick one may have been
answered before the other, from a mapping that has expired since: a case no
small run reaches and the proof does.

### Deliveries: `DeliveriesProofs`

Without any assumption.  `IInv` says what the row of a destination is at each
step of the worker that serves it; `CallsOnRecord` and `FailuresContained`
follow.

### Catalogue and Providers page: `QualificationProofs`, `ProvidersPageProofs`

`CatalogInductive` proves `CInv` of ModelCatalog (`ModelsAssumption`: there
is a model; `BoundsAssumption`: bounds are natural numbers): rows agree with their evidence unless a session has written
over them (`RowInv`), a verification runs under the token of its connection and
what it has read belongs to a configuration no later than the present one
(`PriorInv`), an undisturbed claim is on its row and excludes others
(`ClaimInv`, `OneClaim`), and a row reads `verifying` only while the end of some
verification will replace it (`VerifyingIsHeld`).  It gives `ClaimsExclude`,
`StatusIsProved` and `StopsReach`.

`ProvidersPageProofs` holds lemmas about the page alone, for every number of
visits, coroutines and lost answers: its invariant `ProvidersInv` says where the
coroutine of each visit can stand (`PageInv`), that the server works for a visit
whose coroutine awaits exactly that (`WorkInv`), and that a loop whose Stop is on record
has at most one verification under way (`StopInv`).  Both compositions with the
page use it, through `Steady == INSTANCE ProvidersPageProofs`: `PageInductive`,
`StopsAreHeard` and `PageIsProviders` in `QualificationProofs`,
`ProvidersInductive` in `LiveProofs`.  `ServerIsCatalog` carries the theorems about
the catalogue over to `Qualification`.

### What follows running work: `LiveProofs`

For every number of connections, queue size, page size, number of overlapping
reads, failures, operations and events (`LiveAssumption`: sizes are positive,
bounds natural, connections finite; `JournalAssumption`: an operation is its Agent and key,
and no name is both an operation's and a request's).

| Theorem | Says |
|---|---|
| `StreamInductive`, `GapsAreTold` | no delta overtakes another; each one due is on its way, received, or announced by the next that is (under the assumption about threads in section 2) |
| `ViewInductive`, `ViewsAreTrue` | shown events are the newest up to a cursor, with no gap; what is pending continues them; every request and stream starts within them; a final view has the newest up to at least the last event stored when the Run ended |
| `ConsoleInductive`, `ConsolesSettle` | while a page has its access, it shows the newest events up to its cursor; the ended Run without its output is being asked for |
| `JournalInductive`, `JournalsAreExact` | unfinished, waiting and told are what the log says |
| `ProvidersInductive` | the page's invariant, beside the other parts |
| `LiveTypes` | shapes, queue sizes and the limit of streams per token |

The journal is where folds over a log of any length matter.  The library's
induction theorems take an operator as a parameter, which the provers cannot
instantiate, so `LiveProofs` states induction over sets of numbers (`Induct`),
from their least elements (`Least`, from the well-foundedness of `<`).  With it
`WaitsStepByStep` and `LeftStepByStep` show that the two folds of the journal are
the last of the folds of the log's prefixes, which is what `WithoutIs` and
`WaitsHold` reason about.  For this `Without` (a filter in the code) is written as
a fold; it computes the same.

### Pages that change what the server keeps: `StudioProofs`, `ToolsPageProofs`

For every set of users, Agents and Tools, and every bound on requests and rows
(`StudioAssumption`, in `Studio`; `MaxRuns`, `MaxSecrets` and `MaxRows` are
positive, since a Run, a Secret and a row exist at the start; "nobody" is no
account and no item, and "absent" no grant, as these stand for `null`).  One page moves at a time and never touches
the variables of another (`OnePageMoves`), so the invariant has a part for each
page.

| Theorem | Says |
|---|---|
| `SecretsAreKept` | no Secret in use is removed; the one deletion that runs is of the Secret in the dialog, which then shows the server's answer about it |
| `PagesAreServed` | the lists at rest of users, Secrets, Trees, templates, keys, webhooks and destinations are the server's, but for rows that others changed since and users that could not be loaded; those looked up are of the query asked, a secret shown once is one the server accepts; the set-up at rest shows the server's draft, and "completed" is said of a ready Tree |
| `SessionIsShown` | a browser shows the account of the session it holds, and "must change" unless the session slipped past a reset; the links it shows lead somewhere |
| `GraphAndRunAgree` | the graph is of the version the Run is pinned to; one submission and one unfinished Run at a time |
| `ToolsAreTested` (`ToolsPageProofs`) | a Tool is called connected for the setup it has; a form makes one Tool unless the answer was lost, and finished leaves it as it was sent |

`VaultInv` adds that the one request of a deletion is about the Secret of the
dialog (`DeletionInv`), that a dialog not closed over an inspection waits for that
one alone (`InspectionInv`), and that until the history says lists were lost or
overlapped there is one, and it holds what the server keeps or the page has yet
to ask again (`ListInv`).  `PlayInv` adds that a version on its way to the canvas
is that of the Run on screen (`PlayPinned`), that a Run the page takes for ended
has ended (`PlayFollows`), that there is one submission, which names its Run once accepted (`PlayStarts`),
and that of the Runs started since the user last chose one the others have ended
(`PlaySince`).  `SetupInv` adds what a request of
each kind can have been sent with (`SetupFits`), and that until two have
overlapped the request under way is alone and will be answered with the server's
state (`SetupAlone`).

The pages of rows share one argument: a row is the server's, or the answer that
makes it so is on its way (`ShelfRows`, `IgTrue`, `AcRows`), as long as there is
one request of a row at a time.  What makes it one differs: the dialog's busy mark
(`ShelfAlone`), the two marks of the panel of keys (`IgKeys`), the one of webhooks
(`IgHooks`), and of destinations only the history, which says that none crossed
(`IgApart`).  A secret that is shown once stays accepted because no request under
way is of its row (`IgRaw`).  For accounts, `AcTickets` says that a sign-in which
is not committed is alone and opens a session nobody holds yet, `AcAnswers` that
an answer about a session that lives names its account, and `AcScreen` that
before two answers raced the page shows nobody else's.  Of the views that look
something up, an answer that may still be shown is for the query on the screen
(`LooksAsked`).

A form of a Tool is up to three requests of one coroutine.  `ToolsInv` says of
each coroutine what it was sent with and which of its requests are behind it
(`FormCall` and what follows it), that one form has one coroutine, and what is
proven of a Tool's setup between the test and the row it is written to.  The
attempt showed that the dialog's own busy mark does not keep a card's test and
the dialog apart: the history now records a mark taken while its operation works
(section 6).

### The two editors of a Tree: `TreeEditorsProofs`

For every set of Agents (each of the three roles has at least one; they are
natural numbers, whose order is that of the document), every set of Tools, every
length of the builder's history, of the wizard's lists and of the bounds.

| Theorem | Says |
|---|---|
| `BuilderSaysTheTruth` | what the builder calls saved is what the server has, what it calls checked is what it shows; the history is anchored in the document, which refers only to what it holds |
| `WizardKeepsItsPromise` | a visit makes one Tree unless an answer was lost; what the wizard sends refers only to what it holds; the two conversions together are the identity on valid Trees |
| `StudioIsTyped` | `StudioTypeOK`, together with `SevenPagesAreTyped` and `ToolsAreTyped` of the other two modules |

Both rest on lemmas about documents.  `SoundDocuments` are those that satisfy the
reference definition `IsHierarchy`; `SoundHas` and `MakesSound` take one apart
and put one together, and one lemma per operation of `BuilderModel` shows that
it makes a sound document of a sound one.  `BuilderInv` then says that every
document anywhere (on screen, in the undo history, in an open animation, in a
request, at the server, in an answer) is sound, that a save that was answered is
what the server holds until it is torn (`BaseHolds`), that a verdict on screen or
on its way is about a document that was sent (`VerdictHolds`), and that past and
future together are at most the history's limit (`HistoryHolds`: the limit
of each alone is not inductive).

The wizard edits lists.  `Coherent` lists name each Manager once and have peers
among themselves; `PayloadIs` shows that they make a sound document, `FromTreeIs`
that a sound document makes such lists, and `KeepsValid` that a valid document
comes back unchanged: the order of the lists is that of the document
(`InOrderLists`), every Specialist has the one Manager that lists it, and of
several places `CHOOSE` finds the right one.  `WizardInv` carries this through
editing, saving and loading, says what the open dialog remembers
(`EditorHolds`), and counts: until the answer to a creation is lost only the
Tree of the beginning is there while the page has none of its own
(`FewTrees`), because one save is under way at a time (`OneIsBusy`).
The place an open dialog remembers is right only until an answer replaces the
lists under it; the first attempt at `EditorHolds` failed there, and the case is
a divergence now (section 6).  In `saveEditor`, `DraftSaved` and three more
actions the attempts also found `CASE` expressions whose guards overlap; they
are written with `IF` now.

### Only model-checked

* Everything under fairness: `EveryRunSettles`, `FollowerCatchesUp`,
  `DeliveriesEnd`, `StreamsEnd`, `ResultIsShown`, `ProvidersSettle`.  The
  provers' back ends reach neither weak and strong fairness of actions like
  these nor `ENABLED`.
* `LayoutKeepsApart`: what the layout computes is a fold over rows of cards and a
  recursive function over their widths, so that no two overlap is a statement
  about induction over data.  TLC checks it for every document the bounded run
  reaches.

## 6. Divergences found

Each of these has a run whose counterexample is the behaviour described in
`PROJECT.json` ("findings").

| Run | What the code does |
|---|---|
| `lifecycle_lost_cancel` | a cancellation that commits between the worker's first look and its claim is overwritten with `running` |
| `submission_crash` | a crash between the Run's commit and its mapping lets the retry create a second Run |
| `view_reopened` | a stream is opened on a Run that has ended, and reconnects for ever |
| `stream_leak` | a client that disconnects before a server thread has entered its frame generator keeps a slot of its token: the `finally` clause of a generator that never started does not run |
| `tools_untested` | the answer of a preflight test marks the setup as tested although it was edited while the test ran; Add then sends a setup no test found working |

The models also show the following; the properties of the passing runs are
stated so that they leave exactly these cases out.

* A cancellation that commits after the worker's last look (`RefreshRow`) and
  before `SubmitToCore` leaves a cancelled Run with a Core execution, which
  nobody asks to stop: the worker only waits for its result.
* The stream of a Run under cancellation ends before the worker has stored
  Core's last events, because the row closes first (`StreamEndIsComplete` asks
  for Runs nobody has asked to cancel).
* The final ingestion reads Core's log from its beginning with a limit of 1000:
  the tail of a longer log is lost (`LogIsWhole` is checked with logs
  that fit).
* Two concurrent `ensure_defaults` insert a built-in destination twice, and two
  concurrent updates can retype one: no property speaks of them.  A destination
  deleted while a worker loops breaks the foreign key of its pending row and ends
  the loop (`FailuresDoNotSpread` asks for loops that were not broken off).
* A delta the pump discards takes the count of Core's earlier drops with it, so
  the counts a client sees are a lower bound (`GapsAreSignalled` says only that
  no drop goes unannounced).
* `RunView` and `RunConsole` keep the newest 1000 events; of a longer log the views
  promise the newest ones only.  A view closed over a cancelled Run lacks
  what its worker stores afterwards: `ViewIsTrue` promises the events up to the end
  of the Run.
* `LimitHolds` (part of `LiveTypeOK`) is about the limit, not about slots coming back; that they may
  not is `stream_leak`.
* A discovery decides from rows it loaded before it asked the vendor.  It can
  turn a `verifying` row into `unavailable` (the vendor did not list the model),
  and a later one makes it `unknown`; the model can then be claimed again while
  the first verification still sends requests, against the comment at
  `model_discovery_service.py:456` ("Claim the row atomically so duplicate clicks
  or API retries cannot generate against the same model concurrently, even
  across workers").  `ClaimIsExclusive` leaves out claims that were written over
  (`revoked`), `StatusMatchesProof` rows that were (`crossed`).
* A process that ends during a verification leaves the row `verifying`; nothing
  at start-up takes it up, and every later verification is answered "in
  progress".  `ClaimIsExclusive` says that a claimed row has its worker up to the
  first crash.
* `docs/provider-model-compatibility.md:15` says "Rediscovery invalidates prior
  verification under the existing lifecycle", but `discover_catalog` keeps the
  evidence and the status of a model that is still listed (`Relisted`).

Of the user interface, the properties leave out:

* A dialog of the wizard remembers its Manager or Specialist by its place in the
  lists (`setEditor` in `tree-wizard.tsx`).  When the answer to the load, or to the save of a ready
  Tree, replaces the lists under it, its Agent is put in whatever place has that
  number by then: a Manager may be overwritten by another, or be there twice.
  `WizardSendsHierarchy` leaves that out (`moved`).
* Edits made in the builder or the wizard while a save or the reload after it is
  under way are replaced by the answer.  `CleanIsSaved` says that what is shown
  as saved is what the server has, not that such edits survive; it leaves out
  saves that wrote the Tree and then failed in the page.
* A creation whose answer is lost is repeated by the user and makes a second
  Tree, Tool or Run; `OneTreePerWizard`, `FormMakesOneTool` and `OneRunAtATime`
  leave lost answers out.
* A Specialist without a Manager is dropped when its Tree is opened in the
  wizard; `WizardKeepsValidTrees` asks for Trees the server finds valid.
* On the pages of Tools and Templates the operation of a second row takes the
  busy mark from the first, whose controls become free while it still works; a
  Tool tested from its card while its form is open can be called connected for a
  setup that was replaced (`ConnectedIsProven` leaves marks taken that way out).
* Answers of set-up requests that overlap replace one another with older
  snapshots; a Tree is marked ready by a validation that does not look again at
  rows changed since it read them.
* A `me()` or a change of password that is unanswered when somebody else signs
  in may put the earlier account back on screen, until the next request.
* A sign-in whose password is reset between the check and the commit of its session
  keeps a session the reset did not end, and is answered as if no new password were
  due (`slipped`); the server refuses its other requests.
* A save of an account is several requests; after a failure the row of the Users
  page keeps what it showed.  When the users or the Trees cannot be loaded the page is
  an empty list.
* Users, Secrets, Trees, templates, keys, webhooks and destinations that another user
  changes after a page has read its list stay there as they were.
* The execution page that lost its access puts up a notice, behind which its
  start-up, its timer and what was asked before go on.
* A Run chosen while a submission is under way is replaced by the one submitted.
* The execution page stops its timer once it has seen the Run end: a failed
  request for the result is repeated by nothing.
* An inspection of a Secret's uses that is still under way when its dialog is
  closed answers into the next dialog; a list that is answered after a creation
  drops the new row.
* The Learning link is shown to users whom its route turns away.

## 7. What is not modelled, and the plan

Left out on purpose: the wording of errors and events, sanitization, encodings,
prompt contents, styling; the vendors' protocols; read-only queries (dashboard,
health), which change no state.  Database failures appear as crashes between
commits, not as exceptions of single statements.  `tool_aware_specialist_executor.py`
is constructed by nothing but its tests; no running program reaches it.

Also left out, and worth modelling:

* `discover_models`, which verifies one model after the other from rows its own
  session has loaded earlier (ModelCatalog begins every verification with a fresh
  row), and a provider's connection test at the server.
* The server's tables of Tree versions under two users' saves, and
  `runtime_builder.py` assembling a pinned version against edits of providers,
  models and tools.  In `Launch` a Run is pinned to a version; in `TreeBuilder`
  and `TreeWizard` one user edits.
* Deletion of providers and tools against references that appear meanwhile;
  `SecretsPage` has it for Secrets.
* The sign-in limiter, the expiry of sessions, the bootstrap of the first
  account, and API tokens as the API checks them.
* The webhook ingress, a further caller of `Prepare`, and the request-rate limit
  of a submission.
* Database failures of single statements in the worker, and the marking of a
  provider authentication failure on a Run cancelled meanwhile.

The plan takes them in that order.
