---------------------------- MODULE RunLifecycle ----------------------------
(***************************************************************************)
(* The life of a Studio Run inside one backend process: the submission     *)
(* that persists it, the bounded coordinator that queues it, the worker    *)
(* that drives it through AgentTree Core, the cancellation request that    *)
(* races with that worker, and a restart of the process.                   *)
(*                                                                         *)
(* The unit of atomicity is the database commit.  A handler is split       *)
(* wherever another session can observe or change the row between two of   *)
(* its statements; a handler that holds the row lock of RunService._lock_run *)
(* from its read to its commit is one action, unless something that does   *)
(* not take the lock can change meanwhile (cancel_run and the registry).   *)
(***************************************************************************)
EXTENDS Integers, FiniteSets

CONSTANTS
  Runs,          \* Run ids the callers may create
  Cancellers,    \* request threads inside RunService.cancel_run
  Workers,       \* threads of the coordinator's pool
  Pending,       \* submissions the coordinator queues beyond the threads
  MaxActive,     \* size of the registry of active Core executions
  MaxRestarts,   \* bound: process stops (crashes and shutdowns) in a behaviour
  NoOne          \* no canceller holds the row

ASSUME RunsAssumption == IsFiniteSet(Runs)
ASSUME SizesAssumption ==
  /\ Workers \in Nat \ {0}
  /\ Pending \in Nat
  /\ MaxActive \in Nat \ {0}
  /\ MaxRestarts \in Nat
ASSUME NoOneAssumption == NoOne \notin Cancellers

Capacity == Workers + Pending

ActiveStatus   == {"pending", "running", "cancellation_requested"}
TerminalStatus == {"completed", "failed", "cancelled"}
Cancelling     == {"cancelled", "cancellation_requested"}
Status         == {"absent"} \union ActiveStatus \union TerminalStatus

Channels == {"public", "studio", "inline"}

\* States of a Core execution; "lost" is one that died with its process.
CoreLive     == {"queued", "running", "cancellation_requested"}
CoreTerminal == {"completed", "failed", "cancelled"}
CoreState    == {"none", "lost"} \union CoreLive \union CoreTerminal

VARIABLES
  phase,      \* the process: see Phases
  restarts,   \* how often the process has stopped
  status,     \* Run.status, "absent" where there is no row
  channel,    \* the entry point that created the Run
  sub,        \* progress of the submitting request
  worker,     \* progress of the thread inside RunService.execute
  snap,       \* Core state that thread read before locking the row
  rowLock,    \* the canceller that holds the row with SELECT ... FOR UPDATE
  cancel,     \* progress of each canceller
  permits,    \* free permits of the coordinator's semaphore
  active,     \* StudioAgentTreeRuntime._active
  core,       \* Core executions
  delivered   \* calls of ResultDeliveryService.deliver

procVars == <<phase, restarts>>
vars == <<phase, restarts, status, channel, sub, worker, snap,
          rowLock, cancel, permits, active, core, delivered>>

SubStep == {"none", "prepared", "refused", "done"}

\* Inside RunService.execute, before Core has the Run and after.
BeforeCore == {"read", "claim", "build", "buildfailed", "refresh", "submit"}
WithCore   == {"poll", "tick", "success", "error"}
AfterWrite == {"release", "deliver", "return"}
Executing  == BeforeCore \union WithCore \union AfterWrite
WorkerStep == {"idle", "queued", "done"} \union Executing

Idle     == [run |-> "none", saw |-> "idle"]
CancelOp == {Idle} \union [run : Runs, saw : CoreState \union {"missing"}]

\* Serving; in the lifespan exit; ended by it; ended without it.
Phases == {"up", "draining", "stopped", "crashed"}

TypeOK ==
  /\ phase \in Phases
  /\ restarts \in Nat
  /\ status \in [Runs -> Status]
  /\ channel \in [Runs -> Channels]
  /\ sub \in [Runs -> SubStep]
  /\ worker \in [Runs -> WorkerStep]
  /\ snap \in [Runs -> CoreState]
  /\ rowLock \in [Runs -> Cancellers \union {NoOne}]
  /\ cancel \in [Cancellers -> CancelOp]
  /\ permits \in Nat
  /\ active \in SUBSET Runs
  /\ core \in [Runs -> CoreState]
  /\ delivered \in [Runs -> Nat]

Init ==
  /\ phase = "up"
  /\ restarts = 0
  /\ status = [r \in Runs |-> "absent"]
  /\ channel = [r \in Runs |-> "public"]
  /\ sub = [r \in Runs |-> "none"]
  /\ worker = [r \in Runs |-> "idle"]
  /\ snap = [r \in Runs |-> "none"]
  /\ rowLock = [r \in Runs |-> NoOne]
  /\ cancel = [c \in Cancellers |-> Idle]
  /\ permits = Capacity
  /\ active = {}
  /\ core = [r \in Runs |-> "none"]
  /\ delivered = [r \in Runs |-> 0]

-----------------------------------------------------------------------------
(* Shorthands for a thread's progress and for the row it writes.           *)

Unlocked(r) == rowLock[r] = NoOne

WorkerMoves(r, from, to) ==
  /\ worker[r] = from
  /\ worker' = [worker EXCEPT ![r] = to]

SetStatus(r, s) == status' = [status EXCEPT ![r] = s]

\* Runs the coordinator's pool owes a permit to, and those on a thread.
InPool == {r \in Runs : channel[r] # "inline" /\ worker[r] \notin {"idle", "done"}}
OnThread == {r \in InPool : worker[r] # "queued"}

-----------------------------------------------------------------------------
(* Variants of the steps below with a mistake in them.  They are no part of *)
(* the specification; each shows that a property notices the mistake.      *)

\* The handler of a failed build returns without writing the row.
BuildFailureUnwritten(r) ==
  /\ WorkerMoves(r, "buildfailed", "return")
  /\ UNCHANGED <<procVars, status, channel, sub, snap, rowLock, cancel,
                 permits, active, core, delivered>>

\* The state read before the lock is written whatever the row holds.
PollWriteUnchecked(r) ==
  /\ Unlocked(r)
  /\ WorkerMoves(r, "tick", "poll")
  /\ SetStatus(r, IF snap[r] = "cancellation_requested" THEN snap[r] ELSE "running")
  /\ snap' = [snap EXCEPT ![r] = "none"]
  /\ UNCHANGED <<procVars, channel, sub, rowLock, cancel, permits, active,
                 core, delivered>>

\* Any end of the execution is taken for a result.
HarvestAnyEnd(r) ==
  /\ core[r] \in CoreTerminal
  /\ WorkerMoves(r, "poll", "success")
  /\ UNCHANGED <<procVars, status, channel, sub, snap, rowLock, cancel,
                 permits, active, core, delivered>>

\* A late result replaces a cancellation.
FinishSuccessUnchecked(r) ==
  /\ Unlocked(r)
  /\ WorkerMoves(r, "success", "release")
  /\ SetStatus(r, "completed")
  /\ UNCHANGED <<procVars, channel, sub, snap, rowLock, cancel, permits,
                 active, core, delivered>>

\* A failure replaces a cancellation that only the row knows of.
FinishErrorUnchecked(r) ==
  /\ Unlocked(r)
  /\ WorkerMoves(r, "error", "release")
  /\ SetStatus(r, IF r \in active /\ core[r] = "cancelled" THEN "cancelled" ELSE "failed")
  /\ UNCHANGED <<procVars, channel, sub, snap, rowLock, cancel, permits,
                 active, core, delivered>>

\* The error path leaves the entry in the registry.
FinishErrorUnreleased(r) ==
  /\ Unlocked(r)
  /\ WorkerMoves(r, "error", "return")
  /\ SetStatus(r, IF status[r] \in Cancelling THEN "cancelled" ELSE "failed")
  /\ UNCHANGED <<procVars, channel, sub, snap, rowLock, cancel, permits,
                 active, core, delivered>>

\* The future's callback is not registered.
ReturnKeepingPermit(r) ==
  /\ WorkerMoves(r, "return", "done")
  /\ UNCHANGED <<procVars, status, channel, sub, snap, rowLock, cancel,
                 permits, active, core, delivered>>

-----------------------------------------------------------------------------
(* Submission.                                                             *)

\* RunService.prepare: the row is committed before anything is queued.
Prepare(r, ch) ==
  /\ phase = "up"
  /\ sub[r] = "none"
  /\ ch # "inline"
  /\ SetStatus(r, "pending")
  /\ channel' = [channel EXCEPT ![r] = ch]
  /\ sub' = [sub EXCEPT ![r] = "prepared"]
  /\ UNCHANGED <<procVars, worker, snap, rowLock, cancel, permits,
                 active, core, delivered>>

\* RunService.invoke (Public V1, test run): prepare, then execute in the
\* request thread, outside the coordinator and its capacity.
Invoke(r) ==
  /\ phase = "up"
  /\ sub[r] = "none"
  /\ SetStatus(r, "pending")
  /\ channel' = [channel EXCEPT ![r] = "inline"]
  /\ sub' = [sub EXCEPT ![r] = "done"]
  /\ worker' = [worker EXCEPT ![r] = "read"]
  /\ UNCHANGED <<procVars, snap, rowLock, cancel, permits, active,
                 core, delivered>>

\* AsyncRunCoordinator.submit with a free permit.
Enqueue(r) ==
  /\ sub[r] = "prepared"
  /\ permits > 0
  /\ permits' = permits - 1
  /\ sub' = [sub EXCEPT ![r] = "done"]
  /\ worker' = [worker EXCEPT ![r] = "queued"]
  /\ UNCHANGED <<procVars, status, channel, snap, rowLock, cancel, active,
                 core, delivered>>

\* AsyncRunCoordinator.submit raises RuntimeCapacityError.
Refuse(r) ==
  /\ sub[r] = "prepared"
  /\ permits = 0
  /\ sub' = [sub EXCEPT ![r] = "refused"]
  /\ UNCHANGED <<procVars, status, channel, worker, snap, rowLock, cancel,
                 permits, active, core, delivered>>

\* The caller undoes the refused submission: Public V2 and webhooks delete
\* the row, the Studio facade calls cancel_run on it.
Discard(r) ==
  /\ sub[r] = "refused"
  /\ Unlocked(r)
  /\ sub' = [sub EXCEPT ![r] = "done"]
  /\ SetStatus(r, IF channel[r] = "public" THEN "absent" ELSE "cancelled")
  /\ UNCHANGED <<procVars, channel, worker, snap, rowLock, cancel,
                 permits, active, core, delivered>>

-----------------------------------------------------------------------------
(* The worker: RunService.execute.                                         *)

\* A pool thread takes a queued submission.
PickUp(r) ==
  /\ Cardinality(OnThread) < Workers
  /\ WorkerMoves(r, "queued", "read")
  /\ UNCHANGED <<procVars, status, channel, sub, snap, rowLock, cancel,
                 permits, active, core, delivered>>

\* The first read takes no lock; only a cancelled Run returns at once.
ReadRow(r) ==
  /\ WorkerMoves(r, "read", IF status[r] = "cancelled" THEN "return" ELSE "claim")
  /\ UNCHANGED <<procVars, status, channel, sub, snap, rowLock, cancel,
                 permits, active, core, delivered>>

\* run.status = "running" is committed over whatever the row holds by now.
MarkRunning(r) ==
  /\ Unlocked(r)
  /\ WorkerMoves(r, "claim", "build")
  /\ SetStatus(r, "running")
  /\ UNCHANGED <<procVars, channel, sub, snap, rowLock, cancel,
                 permits, active, core, delivered>>

\* RuntimeBuilder.build: a bundle, or an exception before there is one.
Build(r) ==
  /\ \E next \in {"refresh", "buildfailed"} : WorkerMoves(r, "build", next)
  /\ UNCHANGED <<procVars, status, channel, sub, snap, rowLock, cancel,
                 permits, active, core, delivered>>

\* The exception handler without a bundle: there is nothing to release.
FinishBuildFailure(r) ==
  /\ Unlocked(r)
  /\ WorkerMoves(r, "buildfailed", "return")
  /\ SetStatus(r, IF status[r] \in Cancelling THEN "cancelled" ELSE "failed")
  /\ UNCHANGED <<procVars, channel, sub, snap, rowLock, cancel, permits,
                 active, core, delivered>>

\* The row is read again, unlocked, just before Core gets the task.
RefreshRow(r) ==
  /\ WorkerMoves(r, "refresh", IF status[r] = "cancelled" THEN "release" ELSE "submit")
  /\ UNCHANGED <<procVars, status, channel, sub, snap, rowLock, cancel,
                 permits, active, core, delivered>>

\* StudioAgentTreeRuntime.submit: terminal entries are evicted first, then a
\* full registry or a refusal by Core raises.
SubmitToCore(r) ==
  LET kept == {q \in active : core[q] \notin CoreTerminal}
  IN \/ /\ r \notin active
        /\ Cardinality(kept) < MaxActive
        /\ active' = kept \union {r}
        /\ core' = [core EXCEPT ![r] = "queued"]
        /\ WorkerMoves(r, "submit", "poll")
        /\ UNCHANGED <<procVars, status, channel, sub, snap, rowLock, cancel,
                       permits, delivered>>
     \/ /\ r \notin active
        /\ active' = kept
        /\ WorkerMoves(r, "submit", "error")
        /\ UNCHANGED <<procVars, status, channel, sub, snap, rowLock, cancel,
                       permits, core, delivered>>

\* handle.result(timeout=0.1) timed out; Core's state is read, unlocked.
PollTimeout(r) ==
  /\ core[r] \in CoreLive
  /\ WorkerMoves(r, "poll", "tick")
  /\ snap' = [snap EXCEPT ![r] = core[r]]
  /\ UNCHANGED <<procVars, status, channel, sub, rowLock, cancel, permits,
                 active, core, delivered>>

\* The state read before the lock is written after it, unless a cancellation
\* is on the row.
PollWrite(r) ==
  /\ Unlocked(r)
  /\ WorkerMoves(r, "tick", "poll")
  /\ SetStatus(r, IF status[r] \in Cancelling THEN status[r]
                  ELSE IF snap[r] = "cancellation_requested" THEN snap[r]
                  ELSE "running")
  /\ snap' = [snap EXCEPT ![r] = "none"]
  /\ UNCHANGED <<procVars, channel, sub, rowLock, cancel, permits, active,
                 core, delivered>>

\* Copying metrics, events or artifact references raises inside the loop.
PollRaises(r) ==
  /\ Unlocked(r)
  /\ WorkerMoves(r, "tick", "error")
  /\ snap' = [snap EXCEPT ![r] = "none"]
  /\ UNCHANGED <<procVars, status, channel, sub, rowLock, cancel, permits,
                 active, core, delivered>>

\* handle.result returns or raises.
Harvest(r) ==
  /\ core[r] \in CoreTerminal
  /\ WorkerMoves(r, "poll", IF core[r] = "completed" THEN "success" ELSE "error")
  /\ UNCHANGED <<procVars, status, channel, sub, snap, rowLock, cancel,
                 permits, active, core, delivered>>

\* The result is written under the lock: a cancellation on the row wins, a
\* result whose own status is failed (or that cannot be persisted) fails.
FinishSuccess(r) ==
  /\ Unlocked(r)
  /\ WorkerMoves(r, "success", "release")
  /\ IF status[r] \in Cancelling
     THEN SetStatus(r, "cancelled")
     ELSE SetStatus(r, "completed") \/ SetStatus(r, "failed")
  /\ UNCHANGED <<procVars, channel, sub, snap, rowLock, cancel, permits,
                 active, core, delivered>>

\* The exception handler with a bundle.  Core is asked what happened only
\* if the registry still holds the Run; a Core cancellation overrides the
\* failure.
FinishError(r) ==
  /\ Unlocked(r)
  /\ WorkerMoves(r, "error", "release")
  /\ SetStatus(r, IF \/ status[r] \in Cancelling
                     \/ r \in active /\ core[r] = "cancelled"
                  THEN "cancelled" ELSE "failed")
  /\ UNCHANGED <<procVars, channel, sub, snap, rowLock, cancel, permits,
                 active, core, delivered>>

\* StudioAgentTreeRuntime.release, after the commit; then run.status is read
\* back to decide on delivery.
Release(r) ==
  /\ WorkerMoves(r, "release", IF status[r] = "completed" THEN "deliver" ELSE "return")
  /\ active' = active \ {r}
  /\ UNCHANGED <<procVars, status, channel, sub, snap, rowLock, cancel,
                 permits, core, delivered>>

\* ResultDeliveryService.deliver, outside every try block of execute.
Deliver(r) ==
  /\ WorkerMoves(r, "deliver", "return")
  /\ delivered' = [delivered EXCEPT ![r] = @ + 1]
  /\ UNCHANGED <<procVars, status, channel, sub, snap, rowLock, cancel,
                 permits, active, core>>

\* The future is done; its callback gives the permit back.
Return(r) ==
  /\ WorkerMoves(r, "return", "done")
  /\ permits' = IF channel[r] = "inline" THEN permits ELSE permits + 1
  /\ UNCHANGED <<procVars, status, channel, sub, snap, rowLock, cancel,
                 active, core, delivered>>

-----------------------------------------------------------------------------
(* Cancellation: RunService.cancel_run under the row lock.                 *)

\* A queued Run that Core never saw is cancelled on the spot.
CancelQueued(c, r) ==
  /\ phase = "up"
  /\ cancel[c] = Idle
  /\ Unlocked(r)
  /\ status[r] = "pending"
  /\ r \notin active
  /\ SetStatus(r, "cancelled")
  /\ UNCHANGED <<procVars, channel, sub, worker, snap, rowLock, cancel,
                 permits, active, core, delivered>>

\* What handle.cancel() leaves a Core execution in.
CoreAfterCancel(s) ==
  IF s = "queued" THEN "cancelled"
  ELSE IF s = "running" THEN "cancellation_requested" ELSE s

\* Any other active Run is cancelled through Core, which may not know it
\* (KeyError): the lock on the row does not cover the registry.
CancelThroughCore(c, r) ==
  LET after == CoreAfterCancel(core[r])
  IN /\ phase = "up"
     /\ cancel[c] = Idle
     /\ Unlocked(r)
     /\ status[r] \in ActiveStatus
     /\ status[r] = "pending" => r \in active
     /\ rowLock' = [rowLock EXCEPT ![r] = c]
     /\ IF r \in active
        THEN /\ core' = [core EXCEPT ![r] = after]
             /\ cancel' = [cancel EXCEPT ![c] = [run |-> r, saw |-> after]]
        ELSE /\ cancel' = [cancel EXCEPT ![c] = [run |-> r, saw |-> "missing"]]
             /\ UNCHANGED core
     /\ UNCHANGED <<procVars, status, channel, sub, worker, snap, permits,
                    active, delivered>>

CancelCommit(c) ==
  /\ cancel[c] # Idle
  /\ LET r == cancel[c].run
     IN /\ SetStatus(r, IF cancel[c].saw \in {"missing", "cancelled"}
                        THEN "cancelled" ELSE "cancellation_requested")
        /\ rowLock' = [rowLock EXCEPT ![r] = NoOne]
  /\ cancel' = [cancel EXCEPT ![c] = Idle]
  /\ UNCHANGED <<procVars, channel, sub, worker, snap, permits, active,
                 core, delivered>>

-----------------------------------------------------------------------------
(* AgentTree Core, as its handle is used: an execution starts and ends.    *)

CoreStarts(r) ==
  /\ core[r] = "queued"
  /\ core' = [core EXCEPT ![r] = "running"]
  /\ UNCHANGED <<procVars, status, channel, sub, worker, snap, rowLock,
                 cancel, permits, active, delivered>>

CoreEnds(r) ==
  /\ \/ core[r] = "running" /\ \E s \in {"completed", "failed"} :
                                   core' = [core EXCEPT ![r] = s]
     \/ core[r] = "cancellation_requested" /\ \E s \in CoreTerminal :
                                   core' = [core EXCEPT ![r] = s]
  /\ UNCHANGED <<procVars, status, channel, sub, worker, snap, rowLock,
                 cancel, permits, active, delivered>>

-----------------------------------------------------------------------------
(* The process stops and starts.                                           *)

\* Threads, locks, permits, the registry and Core's in-memory store are gone;
\* the database keeps what was committed.
LoseProcess ==
  /\ restarts' = restarts + 1
  /\ sub' = [r \in Runs |-> IF sub[r] = "none" THEN "none" ELSE "done"]
  /\ worker' = [r \in Runs |-> IF sub[r] = "none" THEN "idle" ELSE "done"]
  /\ snap' = [r \in Runs |-> "none"]
  /\ rowLock' = [r \in Runs |-> NoOne]
  /\ cancel' = [c \in Cancellers |-> Idle]
  /\ permits' = Capacity
  /\ active' = {}
  /\ core' = [r \in Runs |-> IF core[r] \in CoreLive THEN "lost" ELSE core[r]]

Crash ==
  /\ phase \in {"up", "draining"}
  /\ restarts < MaxRestarts
  /\ phase' = "crashed"
  /\ LoseProcess
  /\ UNCHANGED <<status, channel, delivered>>

\* Lifespan exit: the server has finished its requests and the coordinator
\* takes no more work.
BeginShutdown ==
  /\ phase = "up"
  /\ restarts < MaxRestarts
  /\ \A r \in Runs : sub[r] \in {"none", "done"}
  /\ \A r \in Runs : channel[r] = "inline" => worker[r] = "done"
  /\ \A c \in Cancellers : cancel[c] = Idle
  /\ phase' = "draining"
  /\ UNCHANGED <<restarts, status, channel, sub, worker, snap, rowLock,
                 cancel, permits, active, core, delivered>>

\* Variant: shutdown(cancel_futures=True) drops what is still queued.
ShutdownDroppingQueue ==
  /\ phase = "draining"
  /\ OnThread = {}
  /\ phase' = "stopped"
  /\ LoseProcess
  /\ UNCHANGED <<status, channel, delivered>>

\* shutdown(wait=True, cancel_futures=False): every queued Run is executed.
FinishShutdown ==
  /\ phase = "draining"
  /\ InPool = {}
  /\ phase' = "stopped"
  /\ LoseProcess
  /\ UNCHANGED <<status, channel, delivered>>

\* Variant: the process serves again without reconciling.
StartupUnreconciled ==
  /\ phase \in {"stopped", "crashed"}
  /\ phase' = "up"
  /\ UNCHANGED <<restarts, status, channel, sub, worker, snap, rowLock,
                 cancel, permits, active, core, delivered>>

\* The lifespan entry runs reconcile_interrupted_runs before it serves.
Startup ==
  /\ phase \in {"stopped", "crashed"}
  /\ phase' = "up"
  /\ status' = [r \in Runs |-> IF status[r] \in ActiveStatus THEN "failed" ELSE status[r]]
  /\ UNCHANGED <<restarts, channel, sub, worker, snap, rowLock, cancel,
                 permits, active, core, delivered>>

-----------------------------------------------------------------------------
Submission(r) ==
  \/ \E ch \in Channels : Prepare(r, ch)
  \/ Invoke(r)
  \/ Enqueue(r)
  \/ Refuse(r)
  \/ Discard(r)

Execution(r) ==
  \/ PickUp(r) \/ ReadRow(r) \/ MarkRunning(r)
  \/ Build(r) \/ FinishBuildFailure(r) \/ RefreshRow(r) \/ SubmitToCore(r)
  \/ PollTimeout(r) \/ PollWrite(r) \/ PollRaises(r)
  \/ Harvest(r) \/ FinishSuccess(r) \/ FinishError(r)
  \/ Release(r) \/ Deliver(r) \/ Return(r)

Cancellation(c) ==
  \/ \E r \in Runs : CancelQueued(c, r) \/ CancelThroughCore(c, r)
  \/ CancelCommit(c)

CoreStep(r) == CoreStarts(r) \/ CoreEnds(r)

Next ==
  \/ \E r \in Runs : Submission(r)
  \/ \E r \in Runs : Execution(r)
  \/ \E c \in Cancellers : Cancellation(c)
  \/ \E r \in Runs : CoreStep(r)
  \/ Crash \/ BeginShutdown \/ FinishShutdown \/ Startup

Spec == Init /\ [][Next]_vars

(***************************************************************************)
(* Threads that are inside a handler keep running, Core ends what it       *)
(* started (its execution timeout), and a stopped process is started       *)
(* again.  A session waiting for a row lock is not overtaken for ever by   *)
(* later cancellations of the same row: strong fairness.  Nobody has to    *)
(* submit, cancel, crash or shut down.                                     *)
(***************************************************************************)
Fairness ==
  /\ \A r \in Runs :
       /\ WF_vars(Enqueue(r) \/ Refuse(r))
       /\ SF_vars(Discard(r))
       /\ SF_vars(Execution(r))
       /\ WF_vars(CoreStep(r))
  /\ \A c \in Cancellers : WF_vars(CancelCommit(c))
  /\ WF_vars(FinishShutdown)
  /\ WF_vars(Startup)

FairSpec == Spec /\ Fairness

-----------------------------------------------------------------------------
(* Properties.                                                             *)

\* While the process serves, a Run that is not terminal is in somebody's
\* hands: its submitter has still to queue or discard it, or a worker has
\* still to write its outcome.  No interleaving of cancellation, refusal,
\* failed builds and evictions strands a Run in a nonterminal status.
StillOwned(r) ==
  \/ sub[r] \in {"prepared", "refused"}
  \/ worker[r] \in {"queued"} \union (BeforeCore \union WithCore)
OwnedUntilSettled ==
  phase \in {"up", "draining"} =>
    \A r \in Runs : status[r] \in ActiveStatus => StillOwned(r)

\* The semaphore agrees with the work it counts: every permit taken belongs
\* to a Run that is queued or on a pool thread, whatever way the Run ends.
PermitsMatchWork == permits + Cardinality(InPool) = Capacity

\* The registry holds only Runs whose worker will still release them, so no
\* bundle and no MCP client outlives its Run.
RegistryHasWorker ==
  \A r \in active : worker[r] \in WithCore \union {"release"}

\* A Core execution that is still going on is watched by its worker, or its
\* Run is already closed: Studio never shows a Run open whose Core execution
\* nobody will harvest, and never a completed Run whose Core execution did
\* not complete.
CoreIsAccountedFor ==
  \A r \in Runs :
    /\ core[r] \in CoreLive =>
         \/ worker[r] \in WithCore
         \/ status[r] \in {"cancelled", "failed"}
    /\ status[r] = "completed" => core[r] = "completed"

\* A graceful shutdown, unlike a crash, leaves nothing for the restart to
\* fail: queued Runs are executed before the process stops.
ShutdownLosesNothing ==
  phase = "stopped" => \A r \in Runs : status[r] \notin ActiveStatus

\* A result is delivered at most once, and only that of a completed Run.
DeliveredOnce ==
  \A r \in Runs : delivered[r] <= 1 /\ (delivered[r] = 1 => status[r] = "completed")

\* Once the worker has taken the Run, a terminal status never changes; before
\* that, only a refused submission may still be withdrawn.  The window in
\* which the worker has read the row and not yet claimed it is the exception
\* that TerminalIsFinal below does not make.
ClaimedTerminalIsFinal ==
  [][\A r \in Runs :
       status[r] \in TerminalStatus /\ worker[r] # "claim"
         => status'[r] = status[r] \/ sub[r] = "refused"]_vars

\* A cancellation that is on the row cannot be undone by a worker: the Run
\* ends cancelled, or failed by the restart that interrupted it.
CancellationBinds ==
  [][\A r \in Runs :
       status[r] = "cancellation_requested"
         => \/ status'[r] \in Cancelling
            \/ status'[r] = "failed" /\ phase = "crashed"]_vars

\* Every Run that was persisted settles: it becomes terminal, or it is
\* withdrawn because the coordinator was full, and then stays so.
Settled(r) == status[r] \in TerminalStatus \union {"absent"}
EveryRunSettles ==
  \A r \in Runs : (status[r] = "pending") ~> []Settled(r)

\* The status a client reads and the deliveries it gets follow RunResource.
Promised == INSTANCE RunResource WITH status <- status, delivered <- delivered
FollowsPromise == Promised!Spec

\* docs/public-api-v2.md: "Terminal Runs return their current state. Core
\* transitions prevent late success from replacing cancellation."
TerminalIsFinal ==
  [][\A r \in Runs :
       status[r] \in TerminalStatus
         => status'[r] = status[r] \/ sub[r] = "refused"]_vars
=============================================================================
