------------------------- MODULE RunLifecycleProofs -------------------------
(***************************************************************************)
(* Proofs about RunLifecycle for every set of Runs and cancellers and all  *)
(* sizes of the pool, the queue and the registry, and about the two        *)
(* modules that extend it: Submission, for every set of requests and       *)
(* bodies and every life of a mapping, and RunEvents, for every set of     *)
(* clients, every length of a log and every limit on a page.               *)
(***************************************************************************)
EXTENDS RunEvents, Submission, FiniteSetTheorems, FunctionTheorems, TLAPS

\* What the status may be while the worker is at a given step.
StatusAt(r) ==
  /\ worker[r] = "idle" => status[r] \in {"absent", "pending", "cancelled"}
  /\ worker[r] \in {"queued", "read", "claim"} => status[r] \in {"pending", "cancelled"}
  /\ worker[r] \in {"build", "buildfailed", "refresh", "submit"}
       => status[r] \in {"running", "cancelled"}
  /\ worker[r] \in WithCore => status[r] \in {"running", "cancellation_requested", "cancelled"}
  /\ worker[r] \in AfterWrite => status[r] \in TerminalStatus
  /\ worker[r] = "done" => status[r] \notin ActiveStatus \/ phase = "crashed"

\* The submitter and the worker of a Run never act on it together.
SubmitterAt(r) ==
  /\ sub[r] \in {"none", "prepared", "refused"} => worker[r] = "idle"
  /\ sub[r] = "none" => status[r] = "absent"
  /\ sub[r] \in {"prepared", "refused"} => status[r] \in {"pending", "cancelled"}
  /\ sub[r] \in {"prepared", "refused"} => channel[r] # "inline"
  /\ sub[r] = "done" /\ worker[r] = "idle" => status[r] \notin ActiveStatus

\* What Core may have done with the Run while the worker is at a given step.
CoreAt(r) ==
  /\ worker[r] \in {"idle", "queued"} \union BeforeCore => core[r] = "none"
  /\ worker[r] \in {"poll", "tick"} => core[r] \in CoreLive \union CoreTerminal
  /\ worker[r] = "success" => core[r] = "completed"
  /\ status[r] = "completed" => core[r] = "completed"
  /\ core[r] \in CoreLive => worker[r] \in WithCore \/ status[r] \in {"cancelled", "failed"}
  /\ r \in active => worker[r] \in WithCore \union {"release"}

DeliveryAt(r) ==
  /\ worker[r] \notin {"return", "done"} => delivered[r] = 0
  /\ worker[r] = "deliver" => status[r] = "completed"
  /\ delivered[r] \in {0, 1}
  /\ delivered[r] = 1 => status[r] = "completed"

\* The phases in which nothing new may begin.
PhaseAt(r) ==
  /\ phase # "up" => sub[r] \in {"none", "done"}
  /\ phase = "draining" /\ channel[r] = "inline" => worker[r] = "done"
  /\ phase \in {"stopped", "crashed"} => worker[r] \in {"idle", "done"}
  /\ phase = "stopped" => status[r] \notin ActiveStatus

\* A locked row is open, and no worker can close it before the commit.
LockAt(r) ==
  rowLock[r] # NoOne =>
    /\ cancel[rowLock[r]] # Idle
    /\ cancel[rowLock[r]].run = r
    /\ status[r] \in {"running", "cancellation_requested"}
    /\ cancel[rowLock[r]].saw # "missing" => worker[r] \in WithCore
    /\ phase = "up"

RunInv(r) ==
  StatusAt(r) /\ SubmitterAt(r) /\ CoreAt(r) /\ DeliveryAt(r) /\ PhaseAt(r) /\ LockAt(r)

CancellerInv(c) ==
  cancel[c] # Idle => cancel[c].run \in Runs /\ rowLock[cancel[c].run] = c

IInv ==
  /\ TypeOK
  /\ \A r \in Runs : RunInv(r)
  /\ \A c \in Cancellers : CancellerInv(c)
  /\ PermitsMatchWork

-----------------------------------------------------------------------------
LEMMA TypeInit == Init => TypeOK
BY SizesAssumption
   DEF Init, TypeOK, Phases, Status, SubStep, WorkerStep, CoreState, CancelOp,
       Channels, Capacity

LEMMA TypeStep == TypeOK /\ [Next]_vars => TypeOK'
<1> SUFFICES ASSUME TypeOK, [Next]_vars
             PROVE  TypeOK'
  OBVIOUS
<1> USE DEF TypeOK, Phases, Status, ActiveStatus, TerminalStatus, Cancelling,
            Channels, SubStep, WorkerStep, Executing, BeforeCore, WithCore,
            AfterWrite, CoreState, CoreLive, CoreTerminal, CancelOp,
            WorkerMoves, SetStatus, procVars
<1>1. ASSUME NEW r \in Runs, Submission(r)
      PROVE  TypeOK'
  BY <1>1 DEF Submission, Prepare, Invoke, Enqueue, Refuse, Discard
<1>2. ASSUME NEW r \in Runs, Execution(r)
      PROVE  TypeOK'
  <2>1. CASE PickUp(r) \/ ReadRow(r) \/ MarkRunning(r) \/ Build(r)
             \/ FinishBuildFailure(r) \/ RefreshRow(r)
    BY <2>1 DEF PickUp, ReadRow, MarkRunning, Build, FinishBuildFailure, RefreshRow
  <2>2. CASE SubmitToCore(r)
    BY <2>2 DEF SubmitToCore
  <2>3. CASE PollTimeout(r) \/ PollWrite(r) \/ PollRaises(r) \/ Harvest(r)
    BY <2>3 DEF PollTimeout, PollWrite, PollRaises, Harvest
  <2>4. CASE FinishSuccess(r) \/ FinishError(r)
    BY <2>4 DEF FinishSuccess, FinishError
  <2>5. CASE Release(r) \/ Deliver(r) \/ Return(r)
    BY <2>5 DEF Release, Deliver, Return
  <2> QED  BY <1>2, <2>1, <2>2, <2>3, <2>4, <2>5 DEF Execution
<1>3. ASSUME NEW c \in Cancellers, Cancellation(c)
      PROVE  TypeOK'
  <2>1. ASSUME NEW r \in Runs, CancelQueued(c, r)
        PROVE  TypeOK'
    BY <2>1 DEF CancelQueued
  <2>2. ASSUME NEW r \in Runs, CancelThroughCore(c, r)
        PROVE  TypeOK'
    <3>1. CoreAfterCancel(core[r]) \in CoreState
      BY DEF CoreAfterCancel
    <3> QED  BY <2>2, <3>1 DEF CancelThroughCore
  <2>3. CASE CancelCommit(c)
    <3>1. rowLock' \in [Runs -> Cancellers \union {NoOne}]
      BY <2>3 DEF CancelCommit
    <3> QED  BY <2>3, <3>1 DEF CancelCommit
  <2> QED  BY <1>3, <2>1, <2>2, <2>3 DEF Cancellation
<1>4. ASSUME NEW r \in Runs, CoreStep(r)
      PROVE  TypeOK'
  BY <1>4 DEF CoreStep, CoreStarts, CoreEnds
<1>5. CASE Crash \/ BeginShutdown \/ FinishShutdown
  BY <1>5, SizesAssumption DEF Crash, BeginShutdown, FinishShutdown, LoseProcess, Capacity
<1>6. CASE Startup
  BY <1>6 DEF Startup
<1>7. CASE UNCHANGED vars
  BY <1>7 DEF vars
<1> QED  BY <1>1, <1>2, <1>3, <1>4, <1>5, <1>6, <1>7 DEF Next

\* Every reachable state has the types the components declare.
THEOREM TypeCorrect == Spec => []TypeOK
BY TypeInit, TypeStep, PTL DEF Spec

-----------------------------------------------------------------------------
(* The semaphore.  Each action adds one Run to the pool, takes one from it, *)
(* empties it, or leaves it alone.                                          *)
LEMMA PoolIsFinite == IsFiniteSet(InPool) /\ InPool \in SUBSET Runs
<1>1. InPool \subseteq Runs
  BY DEF InPool
<1> QED  BY <1>1, RunsAssumption, FS_Subset

\* A step that keeps the pool and the permits keeps their balance.
LEMMA SamePool ==
  ASSUME PermitsMatchWork, InPool' = InPool, permits' = permits
  PROVE  PermitsMatchWork'
BY DEF PermitsMatchWork, Capacity

LEMMA PermitsStep ==
  ASSUME IInv, [Next]_vars
  PROVE  PermitsMatchWork'
<1> USE DEF IInv
<1>1. ASSUME NEW r \in Runs, Enqueue(r)
      PROVE  PermitsMatchWork'
  <2>1. /\ worker[r] = "idle" /\ channel[r] # "inline"
        /\ r \notin InPool
    BY <1>1 DEF Enqueue, RunInv, SubmitterAt, InPool
  <2>2. InPool' = InPool \union {r}
    BY <1>1, <2>1 DEF Enqueue, InPool, TypeOK
  <2>3. Cardinality(InPool') = Cardinality(InPool) + 1
    BY <2>1, <2>2, PoolIsFinite, FS_AddElement
  <2>4. permits \in Nat /\ permits' = permits - 1 /\ Cardinality(InPool) \in Nat
    BY <1>1, PoolIsFinite, FS_CardinalityType DEF Enqueue, TypeOK
  <2> QED  BY <2>3, <2>4, SizesAssumption DEF PermitsMatchWork, Capacity
<1>2. ASSUME NEW r \in Runs, Return(r)
      PROVE  PermitsMatchWork'
  <2>1. CASE channel[r] = "inline"
    <3>1. InPool' = InPool /\ permits' = permits
      BY <1>2, <2>1 DEF Return, WorkerMoves, InPool, TypeOK
    <3> QED  BY <3>1, SamePool
  <2>2. CASE channel[r] # "inline"
    <3>1. r \in InPool /\ InPool' = InPool \ {r}
      BY <1>2, <2>2 DEF Return, WorkerMoves, InPool, TypeOK
    <3>2. Cardinality(InPool') = Cardinality(InPool) - 1
      BY <3>1, PoolIsFinite, FS_RemoveElement
    <3>3. permits \in Nat /\ permits' = permits + 1 /\ Cardinality(InPool) \in Nat
      BY <1>2, <2>2, PoolIsFinite, FS_CardinalityType DEF Return, TypeOK
    <3> QED  BY <3>2, <3>3, SizesAssumption DEF PermitsMatchWork, Capacity
  <2> QED  BY <2>1, <2>2
<1>3. ASSUME LoseProcess, UNCHANGED channel
      PROVE  PermitsMatchWork'
  <2>1. InPool' = {}
    BY <1>3 DEF LoseProcess, InPool
  <2> QED  BY <1>3, <2>1, FS_EmptySet, SizesAssumption
           DEF LoseProcess, PermitsMatchWork, Capacity
<1>4. ASSUME NEW r \in Runs,
             \/ \E ch \in Channels : Prepare(r, ch)
             \/ Invoke(r) \/ Refuse(r) \/ Discard(r)
      PROVE  PermitsMatchWork'
  <2>1. InPool' = InPool /\ permits' = permits
    BY <1>4 DEF Prepare, Invoke, Refuse, Discard, InPool, TypeOK, RunInv, SubmitterAt
  <2> QED  BY <2>1, SamePool
<1>5. ASSUME NEW r \in Runs, Execution(r), ~ Return(r)
      PROVE  PermitsMatchWork'
  <2>1. /\ permits' = permits /\ channel' = channel
        /\ worker[r] \notin {"idle", "done"}
        /\ \E step \in WorkerStep \ {"idle", "done"} :
              worker' = [worker EXCEPT ![r] = step]
    BY <1>5 DEF Execution, PickUp, ReadRow, MarkRunning, Build, FinishBuildFailure,
                RefreshRow, SubmitToCore, PollTimeout, PollWrite, PollRaises,
                Harvest, FinishSuccess, FinishError, Release, Deliver,
                WorkerMoves, WorkerStep, Executing, BeforeCore, WithCore, AfterWrite
  <2>2. InPool' = InPool
    BY <2>1 DEF InPool, TypeOK
  <2> QED  BY <2>1, <2>2, SamePool
<1>6. ASSUME UNCHANGED <<worker, channel, permits>>
      PROVE  PermitsMatchWork'
  BY <1>6, SamePool DEF InPool
<1>7. ASSUME NEW c \in Cancellers, Cancellation(c)
      PROVE  UNCHANGED <<worker, channel, permits>>
  BY <1>7 DEF Cancellation, CancelQueued, CancelThroughCore, CancelCommit
<1>8. ASSUME NEW r \in Runs, CoreStep(r)
      PROVE  UNCHANGED <<worker, channel, permits>>
  BY <1>8 DEF CoreStep, CoreStarts, CoreEnds
<1>9. ASSUME BeginShutdown \/ Startup \/ UNCHANGED vars
      PROVE  UNCHANGED <<worker, channel, permits>>
  BY <1>9 DEF BeginShutdown, Startup, vars
<1> QED
  BY <1>1, <1>2, <1>3, <1>4, <1>5, <1>6, <1>7, <1>8, <1>9
     DEF Next, Submission, Crash, FinishShutdown

-----------------------------------------------------------------------------
(* The inductive invariant.                                                *)

LEMMA InitInv == Init => IInv
<1> SUFFICES ASSUME Init PROVE IInv
  OBVIOUS
<1>1. TypeOK
  BY TypeInit
<1>2. \A r \in Runs : RunInv(r)
  BY DEF Init, RunInv, StatusAt, SubmitterAt, CoreAt, DeliveryAt, PhaseAt, LockAt,
         WithCore, AfterWrite, BeforeCore, ActiveStatus, CoreLive
<1>3. \A c \in Cancellers : CancellerInv(c)
  BY DEF Init, CancellerInv
<1>4. PermitsMatchWork
  <2>1. InPool = {}
    BY DEF Init, InPool
  <2> QED  BY <2>1, FS_EmptySet, SizesAssumption DEF Init, PermitsMatchWork, Capacity
<1> QED  BY <1>1, <1>2, <1>3, <1>4 DEF IInv

\* A Run none of whose own state changes keeps its invariant.
LEMMA RunUntouched ==
  ASSUME TypeOK, NEW q \in Runs, RunInv(q),
         UNCHANGED <<phase, status[q], channel[q], sub[q], worker[q],
                     core[q], delivered[q], rowLock[q]>>,
         q \in active' => q \in active,
         rowLock[q] # NoOne => UNCHANGED cancel[rowLock[q]]
  PROVE  RunInv(q)'
BY DEF RunInv, StatusAt, SubmitterAt, CoreAt, DeliveryAt, PhaseAt, LockAt

LEMMA SubmissionStep ==
  ASSUME IInv, NEW r \in Runs, Submission(r), NEW q \in Runs
  PROVE  RunInv(q)'
<1> USE DEF IInv
<1>1. CASE q # r
  <2>1. UNCHANGED <<phase, status[q], channel[q], sub[q], worker[q], core[q],
                    delivered[q], rowLock[q], active, cancel>>
    BY <1>1 DEF Submission, Prepare, Invoke, Enqueue, Refuse, Discard, SetStatus,
                procVars, TypeOK
  <2> QED  BY <2>1, RunUntouched
<1>2. CASE q = r
  <2> USE DEF SetStatus, procVars, TypeOK, RunInv, StatusAt, SubmitterAt, CoreAt,
              DeliveryAt, PhaseAt, LockAt, WithCore, AfterWrite, BeforeCore,
              ActiveStatus, TerminalStatus, CoreLive, Unlocked, SubStep
  <2>1. CASE \E ch \in Channels : Prepare(r, ch)
    BY <1>2, <2>1 DEF Prepare, Channels
  <2>2. CASE Invoke(r)
    BY <1>2, <2>2 DEF Invoke, Channels
  <2>3. CASE Enqueue(r)
    BY <1>2, <2>3 DEF Enqueue
  <2>4. CASE Refuse(r)
    BY <1>2, <2>4 DEF Refuse
  <2>5. CASE Discard(r)
    BY <1>2, <2>5 DEF Discard
  <2> QED  BY <2>1, <2>2, <2>3, <2>4, <2>5 DEF Submission
<1> QED  BY <1>1, <1>2

LEMMA ExecutionStep ==
  ASSUME IInv, NEW r \in Runs, Execution(r), NEW q \in Runs
  PROVE  RunInv(q)'
<1> USE DEF IInv
<1>1. CASE q # r
  <2>1. UNCHANGED <<phase, status[q], channel[q], sub[q], worker[q], core[q],
                    delivered[q], rowLock[q], cancel>>
    BY <1>1 DEF Execution, PickUp, ReadRow, MarkRunning, Build, FinishBuildFailure,
                RefreshRow, SubmitToCore, PollTimeout, PollWrite, PollRaises,
                Harvest, FinishSuccess, FinishError, Release, Deliver, Return,
                WorkerMoves, SetStatus, procVars, TypeOK
  <2>2. q \in active' => q \in active
    BY <1>1 DEF Execution, PickUp, ReadRow, MarkRunning, Build, FinishBuildFailure,
                RefreshRow, SubmitToCore, PollTimeout, PollWrite, PollRaises,
                Harvest, FinishSuccess, FinishError, Release, Deliver, Return
  <2> QED  BY <2>1, <2>2, RunUntouched
<1>2. CASE q = r
  <2> USE <1>2 DEF SetStatus, WorkerMoves, procVars, TypeOK, RunInv, StatusAt,
              SubmitterAt, CoreAt, DeliveryAt, PhaseAt, LockAt, WithCore, AfterWrite,
              BeforeCore, ActiveStatus, TerminalStatus, Cancelling, CoreLive,
              CoreTerminal, Unlocked
  <2>1. CASE PickUp(r) \/ ReadRow(r) \/ MarkRunning(r)
    BY <2>1 DEF PickUp, ReadRow, MarkRunning
  <2>2. CASE Build(r) \/ FinishBuildFailure(r) \/ RefreshRow(r)
    BY <2>2 DEF Build, FinishBuildFailure, RefreshRow
  <2>3. CASE SubmitToCore(r)
    BY <2>3 DEF SubmitToCore
  <2>4. CASE PollTimeout(r) \/ PollRaises(r) \/ Harvest(r)
    BY <2>4 DEF PollTimeout, PollRaises, Harvest
  <2>5. CASE PollWrite(r)
    BY <2>5 DEF PollWrite
  <2>6. CASE FinishSuccess(r)
    BY <2>6 DEF FinishSuccess
  <2>7. CASE FinishError(r)
    BY <2>7 DEF FinishError
  <2>8. CASE Release(r) \/ Deliver(r) \/ Return(r)
    BY <2>8 DEF Release, Deliver, Return
  <2> QED  BY <2>1, <2>2, <2>3, <2>4, <2>5, <2>6, <2>7, <2>8 DEF Execution
<1> QED  BY <1>1, <1>2

LEMMA CoreStepStep ==
  ASSUME IInv, NEW r \in Runs, CoreStep(r), NEW q \in Runs
  PROVE  RunInv(q)'
<1> USE DEF IInv
<1>1. CASE q # r
  <2>1. UNCHANGED <<phase, status[q], channel[q], sub[q], worker[q], core[q],
                    delivered[q], rowLock[q], active, cancel>>
    BY <1>1 DEF CoreStep, CoreStarts, CoreEnds, procVars, TypeOK
  <2> QED  BY <2>1, RunUntouched
<1>2. CASE q = r
  BY <1>2 DEF CoreStep, CoreStarts, CoreEnds, procVars, TypeOK, RunInv, StatusAt,
              SubmitterAt, CoreAt, DeliveryAt, PhaseAt, LockAt, WithCore,
              BeforeCore, CoreLive, CoreTerminal
<1> QED  BY <1>1, <1>2

LEMMA CancellationStep ==
  ASSUME IInv, NEW c \in Cancellers, Cancellation(c), NEW q \in Runs
  PROVE  RunInv(q)'
<1> USE DEF IInv
<1>1. ASSUME NEW r \in Runs, CancelQueued(c, r)
      PROVE  RunInv(q)'
  BY <1>1 DEF CancelQueued, SetStatus, procVars, TypeOK, RunInv, StatusAt,
              SubmitterAt, CoreAt, DeliveryAt, PhaseAt, LockAt, WithCore, AfterWrite,
              BeforeCore, ActiveStatus, TerminalStatus, CoreLive, Unlocked
<1>2. ASSUME NEW r \in Runs, CancelThroughCore(c, r)
      PROVE  RunInv(q)'
  <2> USE <1>2 DEF CancelThroughCore, procVars
  <2>1. CASE q # r
    <3>1. UNCHANGED <<phase, status[q], channel[q], sub[q], worker[q], core[q],
                      delivered[q], rowLock[q], active>>
      BY <2>1 DEF TypeOK
    <3>2. rowLock[q] # NoOne => rowLock[q] # c /\ UNCHANGED cancel[rowLock[q]]
      BY <2>1 DEF TypeOK, RunInv, LockAt
    <3> QED  BY <3>1, <3>2, RunUntouched
  <2>2. CASE q = r
    <3>1. rowLock'[r] = c /\ cancel'[c].run = r /\ cancel'[c] # Idle
      <4>1. CoreAfterCancel(core[r]) \in CoreState
        BY DEF TypeOK, CoreAfterCancel, CoreState, CoreLive, CoreTerminal
      <4>2. cancel'[c].saw # "idle"
        BY <4>1 DEF TypeOK, CoreState, CoreLive, CoreTerminal
      <4> QED  BY <4>2 DEF TypeOK, Idle
    <3>2. cancel'[c].saw # "missing" => r \in active /\ worker[r] \in WithCore
      BY DEF TypeOK, RunInv, CoreAt, StatusAt, AfterWrite, WithCore, ActiveStatus,
             TerminalStatus
    <3>3. status[r] \in {"running", "cancellation_requested"}
      BY DEF TypeOK, RunInv, CoreAt, StatusAt, WithCore, ActiveStatus,
             AfterWrite, TerminalStatus
    <3>4. core'[r] \in CoreLive => core[r] \in CoreLive
      BY DEF TypeOK, CoreAfterCancel, CoreLive
    <3>5. r \in active => core'[r] = CoreAfterCancel(core[r])
      BY DEF TypeOK
    <3>6. CoreAt(r)'
      BY <3>4, <3>5 DEF RunInv, CoreAt, StatusAt, CoreAfterCancel, WithCore,
         AfterWrite, BeforeCore, ActiveStatus, TerminalStatus, CoreLive, CoreTerminal
    <3>7. LockAt(r)'
      BY <3>1, <3>2, <3>3 DEF LockAt
    <3>8. StatusAt(r)' /\ SubmitterAt(r)' /\ DeliveryAt(r)' /\ PhaseAt(r)'
      BY DEF RunInv, StatusAt, SubmitterAt, DeliveryAt, PhaseAt
    <3> QED  BY <2>2, <3>6, <3>7, <3>8 DEF RunInv
  <2> QED  BY <2>1, <2>2
<1>3. CASE CancelCommit(c)
  <2>1. PICK r \in Runs : r = cancel[c].run /\ rowLock[r] = c
    BY <1>3 DEF CancelCommit, CancellerInv
  <2>2. CASE q # r
    <3>1. UNCHANGED <<phase, status[q], channel[q], sub[q], worker[q], core[q],
                      delivered[q], rowLock[q], active>>
      BY <1>3, <2>1, <2>2 DEF CancelCommit, SetStatus, procVars, TypeOK
    <3>2. rowLock[q] # NoOne => rowLock[q] # c /\ UNCHANGED cancel[rowLock[q]]
      BY <1>3, <2>1, <2>2 DEF CancelCommit, TypeOK, RunInv, LockAt
    <3> QED  BY <3>1, <3>2, RunUntouched
  <2>3. CASE q = r
    BY <1>3, <2>1, <2>3, NoOneAssumption
       DEF CancelCommit, SetStatus, procVars, TypeOK, RunInv, StatusAt, SubmitterAt,
           CoreAt, DeliveryAt, PhaseAt, LockAt, WithCore, AfterWrite, BeforeCore,
           ActiveStatus, TerminalStatus, CoreLive
  <2> QED  BY <2>2, <2>3
<1> QED  BY <1>1, <1>2, <1>3 DEF Cancellation

LEMMA ProcessStep ==
  ASSUME IInv, Crash \/ BeginShutdown \/ FinishShutdown \/ Startup, NEW q \in Runs
  PROVE  RunInv(q)'
<1> USE DEF IInv, procVars, TypeOK, RunInv, StatusAt, SubmitterAt, CoreAt,
            DeliveryAt, PhaseAt, LockAt
<1>1. CASE Crash
  <2>1. /\ sub'[q] = IF sub[q] = "none" THEN "none" ELSE "done"
        /\ worker'[q] = IF sub[q] = "none" THEN "idle" ELSE "done"
        /\ core'[q] = IF core[q] \in CoreLive THEN "lost" ELSE core[q]
        /\ rowLock'[q] = NoOne /\ q \notin active' /\ phase' = "crashed"
        /\ UNCHANGED <<status[q], channel[q], delivered[q]>>
    BY <1>1 DEF Crash, LoseProcess
  <2>2. StatusAt(q)' /\ SubmitterAt(q)' /\ PhaseAt(q)' /\ LockAt(q)'
    BY <2>1 DEF WithCore, AfterWrite, ActiveStatus, SubStep
  <2>3. CoreAt(q)'
    BY <2>1 DEF WithCore, AfterWrite, BeforeCore, CoreLive, CoreTerminal
  <2>4. DeliveryAt(q)'
    BY <2>1
  <2> QED  BY <2>2, <2>3, <2>4
<1>2. CASE BeginShutdown
  BY <1>2 DEF BeginShutdown
<1>3. CASE FinishShutdown
  <2>1. /\ sub'[q] = IF sub[q] = "none" THEN "none" ELSE "done"
        /\ worker'[q] = IF sub[q] = "none" THEN "idle" ELSE "done"
        /\ core'[q] = IF core[q] \in CoreLive THEN "lost" ELSE core[q]
        /\ rowLock'[q] = NoOne /\ q \notin active' /\ phase' = "stopped"
        /\ UNCHANGED <<status[q], channel[q], delivered[q]>>
    BY <1>3 DEF FinishShutdown, LoseProcess
  <2>2. worker[q] \in {"idle", "done"} /\ sub[q] \in {"none", "done"}
    BY <1>3 DEF FinishShutdown, InPool
  <2>3. status[q] \notin ActiveStatus
    BY <1>3, <2>2 DEF FinishShutdown, ActiveStatus
  <2>4. StatusAt(q)' /\ SubmitterAt(q)' /\ PhaseAt(q)' /\ LockAt(q)'
    BY <2>1, <2>3 DEF WithCore, AfterWrite, ActiveStatus, SubStep
  <2>5. CoreAt(q)'
    BY <2>1 DEF WithCore, AfterWrite, BeforeCore, CoreLive, CoreTerminal
  <2>6. DeliveryAt(q)'
    BY <2>1, <2>2
  <2> QED  BY <2>4, <2>5, <2>6
<1>4. CASE Startup
  <2>1. /\ status'[q] = IF status[q] \in ActiveStatus THEN "failed" ELSE status[q]
        /\ phase' = "up"
        /\ UNCHANGED <<sub, worker, core, rowLock, cancel, active, channel, delivered>>
    BY <1>4 DEF Startup
  <2>2. worker[q] \in {"idle", "done"} /\ sub[q] \in {"none", "done"}
    BY <1>4 DEF Startup
  <2>3. rowLock[q] = NoOne
    BY <1>4 DEF Startup
  <2> QED  BY <2>1, <2>2, <2>3 DEF WithCore, AfterWrite, BeforeCore, ActiveStatus,
                                     TerminalStatus, CoreLive
<1> QED  BY <1>1, <1>2, <1>3, <1>4

LEMMA CancellerStep ==
  ASSUME IInv, [Next]_vars, NEW c \in Cancellers
  PROVE  CancellerInv(c)'
<1> USE DEF IInv, CancellerInv
<1>1. CASE UNCHANGED <<cancel, rowLock>>
  BY <1>1
<1>2. CASE LoseProcess
  BY <1>2 DEF LoseProcess
<1>3. ASSUME NEW d \in Cancellers, NEW r \in Runs, CancelThroughCore(d, r)
      PROVE  CancellerInv(c)'
  BY <1>3, NoOneAssumption DEF CancelThroughCore, TypeOK, Unlocked
<1>4. ASSUME NEW d \in Cancellers, CancelCommit(d)
      PROVE  CancellerInv(c)'
  BY <1>4 DEF CancelCommit, TypeOK
<1>5. ASSUME NEW r \in Runs, Submission(r) \/ Execution(r) \/ CoreStep(r)
      PROVE  UNCHANGED <<cancel, rowLock>>
  BY <1>5 DEF Submission, Prepare, Invoke, Enqueue, Refuse, Discard, Execution,
              PickUp, ReadRow, MarkRunning, Build, FinishBuildFailure, RefreshRow,
              SubmitToCore, PollTimeout, PollWrite, PollRaises, Harvest,
              FinishSuccess, FinishError, Release, Deliver, Return, CoreStep,
              CoreStarts, CoreEnds
<1>6. ASSUME NEW d \in Cancellers, NEW r \in Runs, CancelQueued(d, r)
      PROVE  UNCHANGED <<cancel, rowLock>>
  BY <1>6 DEF CancelQueued
<1>7. ASSUME BeginShutdown \/ Startup \/ UNCHANGED vars
      PROVE  UNCHANGED <<cancel, rowLock>>
  BY <1>7 DEF BeginShutdown, Startup, vars
<1> QED
  BY <1>1, <1>2, <1>3, <1>4, <1>5, <1>6, <1>7
     DEF Next, Cancellation, Crash, FinishShutdown

LEMMA InvStep == IInv /\ [Next]_vars => IInv'
<1> SUFFICES ASSUME IInv, [Next]_vars
             PROVE  IInv'
  OBVIOUS
<1>1. TypeOK'
  BY TypeStep DEF IInv
<1>2. ASSUME NEW q \in Runs
      PROVE  RunInv(q)'
  <2>1. CASE UNCHANGED vars
    BY <2>1, RunUntouched DEF IInv, vars
  <2> QED  BY <2>1, SubmissionStep, ExecutionStep, CancellationStep, CoreStepStep,
              ProcessStep DEF Next
<1>3. \A c \in Cancellers : CancellerInv(c)'
  BY CancellerStep
<1> QED  BY <1>1, <1>2, <1>3, PermitsStep DEF IInv

\* The inductive invariant holds of every behaviour.
THEOREM Inductive == Spec => []IInv
BY InitInv, InvStep, PTL DEF Spec

-----------------------------------------------------------------------------
(* The safety properties of RunLifecycle.                                  *)

\* A serving process never strands a nonterminal Run without a submitter or
\* a worker that will still decide its outcome.
THEOREM NeverStranded == Spec => []OwnedUntilSettled
<1>1. IInv => OwnedUntilSettled
  BY DEF IInv, RunInv, StatusAt, SubmitterAt, TypeOK, OwnedUntilSettled, StillOwned,
         WorkerStep, Executing, BeforeCore, WithCore, AfterWrite, ActiveStatus,
         TerminalStatus, SubStep
<1> QED  BY <1>1, Inductive, PTL

\* Free permits and admitted Runs always add up to the capacity.
THEOREM PermitsBalance == Spec => []PermitsMatchWork
<1>1. IInv => PermitsMatchWork
  BY DEF IInv
<1> QED  BY <1>1, Inductive, PTL

\* Every entry of the registry will be released by a worker.
THEOREM RegistryBalance == Spec => []RegistryHasWorker
<1>1. IInv => RegistryHasWorker
  BY DEF IInv, TypeOK, RunInv, CoreAt, RegistryHasWorker
<1> QED  BY <1>1, Inductive, PTL

\* No Core execution goes on unwatched behind an open Run, and a completed
\* Run stands for a completed execution.
THEOREM CoreAccounted == Spec => []CoreIsAccountedFor
<1>1. IInv => CoreIsAccountedFor
  BY DEF IInv, RunInv, CoreAt, CoreIsAccountedFor
<1> QED  BY <1>1, Inductive, PTL

\* A graceful shutdown leaves no Run for the restart to fail.
THEOREM GracefulShutdown == Spec => []ShutdownLosesNothing
<1>1. IInv => ShutdownLosesNothing
  BY DEF IInv, RunInv, PhaseAt, ShutdownLosesNothing
<1> QED  BY <1>1, Inductive, PTL

\* Results are delivered at most once, and only for completed Runs.
THEOREM AtMostOnce == Spec => []DeliveredOnce
<1>1. IInv => DeliveredOnce
  BY DEF IInv, RunInv, DeliveryAt, DeliveredOnce
<1> QED  BY <1>1, Inductive, PTL

-----------------------------------------------------------------------------
(* What a step may do to a status.                                         *)

\* The ways a step changes the status of a Run, seen from the invariant.
StatusMoves(r) ==
  \/ status'[r] = status[r]
  \/ status[r] = "absent" /\ status'[r] = "pending"
  \/ status[r] \in {"pending", "cancelled"} /\ status'[r] = "running" /\ worker[r] = "claim"
  \/ status[r] \in ActiveStatus /\ status'[r] = "cancelled"
  \/ status[r] \in {"running", "cancellation_requested"}
       /\ status'[r] = "cancellation_requested"
  \/ status[r] = "running" /\ status'[r] \in {"completed", "failed"}
  \/ status[r] \in {"pending", "cancelled"} /\ status'[r] = "absent" /\ sub[r] = "refused"

LEMMA StatusStep ==
  ASSUME IInv, [Next]_vars
  PROVE  Startup \/ \A r \in Runs : StatusMoves(r)
<1> SUFFICES ASSUME ~ Startup, NEW r \in Runs
             PROVE  StatusMoves(r)
  OBVIOUS
<1> USE DEF IInv, TypeOK, SetStatus, StatusMoves
<1>1. ASSUME NEW q \in Runs, Submission(q)
      PROVE  StatusMoves(r)
  BY <1>1 DEF Submission, Prepare, Invoke, Enqueue, Refuse, Discard, RunInv,
              SubmitterAt, ActiveStatus
<1>2. ASSUME NEW q \in Runs, Execution(q)
      PROVE  StatusMoves(r)
  <2> USE DEF WorkerMoves, RunInv, StatusAt, ActiveStatus, Cancelling
  <2>1. CASE MarkRunning(q)
    BY <2>1 DEF MarkRunning
  <2>2. CASE FinishBuildFailure(q)
    BY <2>2 DEF FinishBuildFailure
  <2>3. CASE PollWrite(q)
    BY <2>3 DEF PollWrite, WithCore
  <2>4. CASE FinishSuccess(q)
    BY <2>4 DEF FinishSuccess, WithCore
  <2>5. CASE FinishError(q)
    BY <2>5 DEF FinishError, WithCore
  <2>6. CASE UNCHANGED status
    BY <2>6
  <2> QED  BY <1>2, <2>1, <2>2, <2>3, <2>4, <2>5, <2>6
           DEF Execution, PickUp, ReadRow, Build, RefreshRow, SubmitToCore,
               PollTimeout, PollRaises, Harvest, Release, Deliver, Return
<1>3. ASSUME NEW c \in Cancellers, Cancellation(c)
      PROVE  StatusMoves(r)
  <2>1. CASE CancelCommit(c)
    <3>1. PICK q \in Runs : /\ q = cancel[c].run
                           /\ rowLock[q] = c
      BY <2>1 DEF CancelCommit, CancellerInv
    <3>2. status[q] \in {"running", "cancellation_requested"}
      BY <3>1, NoOneAssumption DEF RunInv, LockAt
    <3> QED  BY <2>1, <3>1, <3>2 DEF CancelCommit, ActiveStatus
  <2>2. CASE \E q \in Runs : CancelQueued(c, q) \/ CancelThroughCore(c, q)
    BY <2>2 DEF CancelQueued, CancelThroughCore, ActiveStatus
  <2> QED  BY <1>3, <2>1, <2>2 DEF Cancellation
<1>4. CASE UNCHANGED status
  BY <1>4
<1> QED  BY <1>1, <1>2, <1>3, <1>4
         DEF Next, CoreStep, CoreStarts, CoreEnds, Crash, BeginShutdown,
             FinishShutdown, vars

\* Once the worker has claimed the Run no step leaves a terminal status.
THEOREM TerminalHolds == Spec => ClaimedTerminalIsFinal
<1> DEFINE Holds == \A r \in Runs :
                      status[r] \in TerminalStatus /\ worker[r] # "claim"
                        => status'[r] = status[r] \/ sub[r] = "refused"
<1>1. IInv /\ [Next]_vars => Holds
  <2> SUFFICES ASSUME IInv, [Next]_vars
               PROVE  Holds
    OBVIOUS
  <2>1. Startup => Holds
    BY DEF Startup, ActiveStatus, TerminalStatus
  <2> QED  BY <2>1, StatusStep DEF StatusMoves, ActiveStatus, TerminalStatus
<1> QED  BY <1>1, Inductive, PTL DEF Spec, ClaimedTerminalIsFinal

\* A worker never undoes a cancellation that is on the row.
THEOREM CancellationHolds == Spec => CancellationBinds
<1> DEFINE Holds == \A r \in Runs :
                      status[r] = "cancellation_requested"
                        => \/ status'[r] \in Cancelling
                           \/ status'[r] = "failed" /\ phase = "crashed"
<1>1. IInv /\ [Next]_vars => Holds
  <2> SUFFICES ASSUME IInv, [Next]_vars
               PROVE  Holds
    OBVIOUS
  <2>1. Startup => Holds
    BY DEF Startup, ActiveStatus, IInv, RunInv, PhaseAt
  <2> QED  BY <2>1, StatusStep DEF StatusMoves, ActiveStatus, Cancelling
<1> QED  BY <1>1, Inductive, PTL DEF Spec, CancellationBinds

-----------------------------------------------------------------------------
(* RunLifecycle implements RunResource.                                    *)

\* A step of the promise for one Run.
PromisedMove(r) ==
  \/ Promised!Accept(r) \/ Promised!Start(r) \/ Promised!StartOverCancel(r)
  \/ Promised!AskToCancel(r) \/ Promised!Cancel(r) \/ Promised!Complete(r)
  \/ Promised!Fail(r) \/ Promised!Withdraw(r) \/ Promised!Deliver(r)

LEMMA StepFollowsPromise ==
  ASSUME IInv, [Next]_vars
  PROVE  [Promised!Next]_<<status, delivered>>
<1> USE DEF IInv, TypeOK, SetStatus, PromisedMove, Promised!Moves, Promised!Accept,
            Promised!Start, Promised!StartOverCancel, Promised!AskToCancel,
            Promised!Cancel, Promised!Complete, Promised!Fail, Promised!Withdraw,
            Promised!Deliver, Promised!ActiveStatus
<1>1. ASSUME NEW r \in Runs, Submission(r)
      PROVE  PromisedMove(r) \/ UNCHANGED <<status, delivered>>
  BY <1>1 DEF Submission, Prepare, Invoke, Enqueue, Refuse, Discard, RunInv,
              SubmitterAt, ActiveStatus
<1>2. ASSUME NEW r \in Runs, Execution(r)
      PROVE  PromisedMove(r) \/ UNCHANGED <<status, delivered>>
  <2> USE DEF WorkerMoves, RunInv, StatusAt, ActiveStatus, Cancelling
  <2>1. CASE MarkRunning(r)
    BY <2>1 DEF MarkRunning
  <2>2. CASE FinishBuildFailure(r)
    BY <2>2 DEF FinishBuildFailure
  <2>3. CASE PollWrite(r)
    BY <2>3 DEF PollWrite, WithCore
  <2>4. CASE FinishSuccess(r)
    BY <2>4 DEF FinishSuccess, WithCore
  <2>5. CASE FinishError(r)
    BY <2>5 DEF FinishError, WithCore
  <2>6. CASE Deliver(r)
    <3>1. status[r] = "completed" /\ delivered[r] = 0
      BY <2>6 DEF Deliver, DeliveryAt
    <3> QED  BY <2>6, <3>1 DEF Deliver
  <2>7. CASE UNCHANGED <<status, delivered>>
    BY <2>7
  <2> QED  BY <1>2, <2>1, <2>2, <2>3, <2>4, <2>5, <2>6, <2>7
           DEF Execution, PickUp, ReadRow, Build, RefreshRow, SubmitToCore,
               PollTimeout, PollRaises, Harvest, Release, Return
<1>3. ASSUME NEW c \in Cancellers, Cancellation(c)
      PROVE  (\E r \in Runs : PromisedMove(r)) \/ UNCHANGED <<status, delivered>>
  <2>1. CASE CancelCommit(c)
    <3>1. PICK r \in Runs : r = cancel[c].run /\ rowLock[r] = c
      BY <2>1 DEF CancelCommit, CancellerInv
    <3>2. status[r] \in {"running", "cancellation_requested"}
      BY <3>1, NoOneAssumption DEF RunInv, LockAt
    <3> QED  BY <2>1, <3>1, <3>2 DEF CancelCommit
  <2>2. ASSUME NEW r \in Runs, CancelQueued(c, r)
        PROVE  PromisedMove(r)
    BY <2>2 DEF CancelQueued
  <2>3. ASSUME NEW r \in Runs, CancelThroughCore(c, r)
        PROVE  UNCHANGED <<status, delivered>>
    BY <2>3 DEF CancelThroughCore
  <2> QED  BY <1>3, <2>1, <2>2, <2>3 DEF Cancellation
<1>4. CASE Startup
  BY <1>4 DEF Startup, Promised!Next, Promised!Recover, ActiveStatus
<1>5. CASE UNCHANGED <<status, delivered>>
  BY <1>5
<1>6. ASSUME NEW r \in Runs, PromisedMove(r)
      PROVE  Promised!Next
  BY <1>6 DEF Promised!Next
<1> QED  BY <1>1, <1>2, <1>3, <1>4, <1>5, <1>6
         DEF Next, CoreStep, CoreStarts, CoreEnds, Crash, BeginShutdown,
             FinishShutdown, vars

\* What a client reads and receives is a behaviour of RunResource.
THEOREM Refinement == Spec => FollowsPromise
<1>1. Init => Promised!Init
  BY DEF Init, Promised!Init
<1> QED  BY <1>1, Inductive, StepFollowsPromise, PTL
         DEF Spec, FollowsPromise, Promised!Spec

-----------------------------------------------------------------------------
(* Submission.  Its steps are first shown to be steps of RunLifecycle, so  *)
(* that what is proved above holds of it too.                              *)

Holding == {"prepared", "mapped", "refused"}

\* The lock is held by the one request that is between its first commit and
\* the hand-over.
LockInv ==
  /\ lock = {} \/ \E q \in Requests : lock = {q}
  /\ \A q \in Requests : stage[q] \in Holding <=> q \in lock

\* What a request has made, and how far its submission is, at each step.
MadeAt(q) ==
  /\ made[q] = {} \/ \E r \in Runs : made[q] = {r}
  /\ stage[q] \in {"new", "waiting", "conflict", "not_ready"} => made[q] = {}
  /\ stage[q] \in Holding => made[q] # {}
  /\ \A r \in made[q] :
       /\ channel[r] = "public"
       /\ stage[q] \in {"prepared", "mapped"} => sub[r] = "prepared"
       /\ stage[q] = "refused" => sub[r] = "refused"
       /\ stage[q] \in Ended => sub[r] = "done"
       /\ stage[q] = "accepted" => answer[q] = made[q]

\* A Run has one maker, which still holds the lock while it submits the Run.
OwnerInv ==
  /\ \A p, q \in Requests : \A r \in made[p] \cap made[q] : p = q
  /\ \A r \in Runs :
       channel[r] = "public" /\ sub[r] \in {"prepared", "refused"}
         => \E q \in Requests : stage[q] \in Holding /\ r \in made[q]

\* Only the Run of an accepted request gets to a worker.
StartedAt(q) ==
  stage[q] # "accepted" =>
    \A r \in made[q] : worker[r] \in {"idle", "done"} /\ core[r] = "none"

\* A caller is given one Run, handed over and made for the same body.
AnswerAt(q) ==
  /\ stage[q] # "accepted" => answer[q] = {}
  /\ stage[q] = "accepted" => \E r \in Runs : answer[q] = {r}
  /\ \A r \in answer[q] :
       /\ sub[r] = "done" /\ status[r] # "absent"
       /\ keyed[q] => \E p \in Requests : r \in made[p] /\ body[p] = body[q]

\* A row of the mapping is the one its maker has committed.
MappingInv ==
  /\ mapping = {} \/ \E m \in Mapping : mapping = {m}
  /\ \A m \in mapping : \E p \in Requests :
       /\ stage[p] \in {"mapped", "refused", "accepted", "lost"}
       /\ made[p] = {m.run} /\ body[p] = m.body /\ m.expires = now[p] + Life
       /\ status[m.run] # "absent"
  /\ \A q \in Requests : stage[q] = "prepared" /\ keyed[q] => mapping = {}

\* A request takes less than two ticks.
TimeInv ==
  \A q \in Requests :
    /\ now[q] <= clock
    /\ stage[q] \in InFlight => clock <= now[q] + 1

\* The mapping of a Run that has been handed over lives out its life.
LivesAt(p) ==
  keyed[p] /\ stage[p] \in {"mapped", "refused", "accepted"} =>
    \A r \in made[p] :
      \/ \E m \in mapping : m.run = r
      \/ clock >= now[p] + Life

\* The mapping an answer rests on was alive when the request arrived.
RestsAt(q) ==
  keyed[q] /\ stage[q] = "accepted" =>
    \/ \E m \in mapping : answer[q] = {m.run} /\ m.expires > now[q]
    \/ clock > now[q]

\* What is left to show of two accepted requests with the key.
Agree(p, q) ==
  (p \in Accepted /\ q \in Accepted /\ made[p] # {}) =>
    /\ now[p] < now[q] /\ now[q] <= now[p] + Life - 2 => answer[p] = answer[q]
    /\ made[q] # {} /\ p # q => ~Near(p, q)

RequestInv(q) == MadeAt(q) /\ StartedAt(q) /\ AnswerAt(q) /\ LivesAt(q) /\ RestsAt(q)

SInv ==
  /\ SubmissionTypeOK
  /\ LockInv /\ OwnerInv /\ MappingInv /\ TimeInv
  /\ \A q \in Requests : RequestInv(q)
  /\ \A p, q \in Requests : Agree(p, q)

-----------------------------------------------------------------------------
(* Submission composes RunLifecycle with requests and a clock.             *)

LEMMA StepIsLifecycle ==
  SubmissionTypeOK /\ [SubmissionNext]_submissionVars => [Next]_vars
<1> SUFFICES ASSUME SubmissionTypeOK, [SubmissionNext]_submissionVars
             PROVE  [Next]_vars
  OBVIOUS
<1>1. ASSUME NEW q \in Requests, Arrive(q) \/ Existing(q) \/ Conflict(q) \/ NotReady(q)
               \/ MapKey(q)
      PROVE  UNCHANGED vars
  BY <1>1 DEF Arrive, Existing, Conflict, NotReady, MapKey
<1>2. ASSUME NEW q \in Requests, NEW r \in Runs, PrepareRun(q, r)
      PROVE  Next
  BY <1>2 DEF PrepareRun, Next, Submission, Channels
<1>3. ASSUME NEW q \in Requests, HandOver(q) \/ NoCapacity(q) \/ Withdraw(q)
      PROVE  Next
  <2>1. made[q] \subseteq Runs
    BY DEF SubmissionTypeOK
  <2> QED  BY <1>3, <2>1 DEF HandOver, NoCapacity, Withdraw, Next, Submission
<1>4. CASE Background
  BY <1>4 DEF Background, StudioSubmit, Next, Submission, Channels
<1>5. CASE LoseRequests
  BY <1>5 DEF LoseRequests, Next
<1>6. CASE Tick \/ UNCHANGED submissionVars
  BY <1>6 DEF Tick, submissionVars
<1> QED  BY <1>1, <1>2, <1>3, <1>4, <1>5, <1>6 DEF SubmissionNext, Submit

\* A submission step for one Run leaves the others alone.
LEMMA OthersKept ==
  ASSUME TypeOK, NEW s \in Runs, NEW r \in Runs, r # s,
         (\E ch \in Channels : Prepare(s, ch)) \/ Enqueue(s) \/ Refuse(s) \/ Discard(s)
  PROVE  UNCHANGED <<status[r], sub[r], channel[r], worker[r], core[r]>>
BY DEF TypeOK, Prepare, Enqueue, Refuse, Discard, SetStatus, procVars

\* What the rest of the process may do to a Run that a request has made.
RunKept(r) ==
  /\ sub[r] # "none" /\ channel[r] = "public" =>
       /\ channel'[r] = "public"
       /\ sub'[r] = IF phase' # phase /\ phase' = "crashed" THEN "done" ELSE sub[r]
  /\ channel'[r] = "public" /\ sub'[r] \in {"prepared", "refused"} =>
       channel[r] = "public" /\ sub[r] = sub'[r]
  /\ sub[r] = "done" =>
       /\ sub'[r] = "done"
       /\ status[r] # "absent" => status'[r] # "absent"
       /\ worker[r] \in {"idle", "done"} /\ core[r] = "none" =>
            worker'[r] \in {"idle", "done"} /\ core'[r] = "none"

LEMMA BackgroundKeeps ==
  ASSUME IInv, NEW r \in Runs, Background \/ Crash
  PROVE  RunKept(r)
<1> USE DEF IInv, TypeOK, RunKept, procVars, SetStatus
<1>1. ASSUME NEW s \in Runs, StudioSubmit(s)
      PROVE  RunKept(r)
  BY <1>1 DEF StudioSubmit, Prepare, Enqueue, Refuse, Discard, Channels, SubStep,
              RunInv, PhaseAt
<1>2. ASSUME NEW s \in Runs, Execution(s)
      PROVE  RunKept(r)
  <2> USE DEF WorkerMoves
  <2>1. /\ UNCHANGED <<sub[r], channel[r], phase>>
        /\ status[r] # "absent" => status'[r] # "absent"
    BY <1>2 DEF Execution, PickUp, ReadRow, MarkRunning, Build, FinishBuildFailure,
                RefreshRow, SubmitToCore, PollTimeout, PollWrite, PollRaises, Harvest,
                FinishSuccess, FinishError, Release, Deliver, Return, Cancelling
  <2>2. worker[r] \in {"idle", "done"} => UNCHANGED <<worker[r], core[r]>>
    BY <1>2 DEF Execution, PickUp, ReadRow, MarkRunning, Build, FinishBuildFailure,
                RefreshRow, SubmitToCore, PollTimeout, PollWrite, PollRaises, Harvest,
                FinishSuccess, FinishError, Release, Deliver, Return
  <2> QED  BY <2>1, <2>2 DEF RunInv, PhaseAt
<1>3. ASSUME NEW s \in Runs, CoreStep(s)
      PROVE  RunKept(r)
  BY <1>3 DEF CoreStep, CoreStarts, CoreEnds, RunInv, PhaseAt
<1>4. ASSUME NEW c \in Cancellers, Cancellation(c)
      PROVE  RunKept(r)
  <2>1. ASSUME NEW s \in Runs, CancelQueued(c, s) \/ CancelThroughCore(c, s)
        PROVE  RunKept(r)
    BY <2>1 DEF CancelQueued, CancelThroughCore, CoreAfterCancel, RunInv, PhaseAt
  <2>2. CASE CancelCommit(c)
    BY <2>2 DEF CancelCommit, RunInv, PhaseAt
  <2> QED  BY <1>4, <2>1, <2>2 DEF Cancellation
<1>5. CASE Startup
  BY <1>5 DEF Startup, RunInv, PhaseAt
<1>6. CASE Crash
  BY <1>6 DEF Crash, LoseProcess, CoreLive
<1> QED  BY <1>1, <1>2, <1>3, <1>4, <1>5, <1>6 DEF Background

-----------------------------------------------------------------------------
(* The inductive invariant.                                                *)

LEMMA SubmissionInitInv == SubmissionInit => SInv
<1> SUFFICES ASSUME SubmissionInit
             PROVE  SInv
  OBVIOUS
<1>1. SubmissionTypeOK
  BY FS_EmptySet, LifeAssumption DEF SubmissionInit, SubmissionTypeOK, Mapping, InFlight, Ended
<1>2. LockInv /\ MappingInv /\ OwnerInv
  BY DEF SubmissionInit, Init, LockInv, MappingInv, OwnerInv, Holding
<1>3. TimeInv
  BY DEF SubmissionInit, TimeInv, InFlight
<1>4. \A q \in Requests : RequestInv(q)
  BY DEF SubmissionInit, RequestInv, MadeAt, StartedAt, AnswerAt, LivesAt, RestsAt, Holding
<1>5. \A p, q \in Requests : Agree(p, q)
  BY DEF SubmissionInit, Agree, Accepted
<1> QED  BY <1>1, <1>2, <1>3, <1>4, <1>5 DEF SInv

\* The shape of the lock and of the mapping gives their number.
LEMMA AtMostOneIsCounted ==
  ASSUME NEW S, S = {} \/ \E x : S = {x}
  PROVE  Cardinality(S) <= 1
<1>1. CASE S = {}
  BY <1>1, FS_EmptySet
<1>2. ASSUME NEW x, S = {x}
      PROVE  Cardinality(S) <= 1
  <2>1. Cardinality({x}) = 1
    BY FS_Singleton
  <2> QED  BY <1>2, <2>1
<1> QED  BY <1>1, <1>2

LEMMA ArriveStep ==
  ASSUME SInv, NEW q \in Requests, Arrive(q)
  PROVE  SInv'
<1> USE DEF SInv, Arrive, Becomes, vars
<1>1. /\ stage' = [stage EXCEPT ![q] = "waiting"] /\ stage[q] = "new"
      /\ now' = [now EXCEPT ![q] = clock]
      /\ stage \in [Requests -> {"new"} \union InFlight \union Ended]
      /\ now \in [Requests -> 0..MaxClock] /\ clock \in 0..MaxClock
  BY DEF SubmissionTypeOK
<1>2. SubmissionTypeOK'
  BY <1>1 DEF SubmissionTypeOK, InFlight
<1>3. LockInv' /\ OwnerInv' /\ MappingInv'
  <2>1. \A p \in Requests :
          stage[p] \in Holding \union {"accepted", "lost"} => stage'[p] = stage[p] /\ now'[p] = now[p]
    BY <1>1 DEF Holding
  <2>2. \A p \in Requests : stage'[p] \in Holding => stage[p] \in Holding
    BY <1>1 DEF Holding
  <2>3. LockInv'
    BY <1>1, <2>1, <2>2 DEF LockInv, Holding
  <2>4. OwnerInv'
    BY <1>1, <2>1 DEF OwnerInv
  <2>5. MappingInv'
    <3>1. \A p \in Requests : stage'[p] = "prepared" => stage[p] = "prepared"
      BY <1>1
    <3>2. UNCHANGED <<mapping, made, body, keyed, status>>
      OBVIOUS
    <3>3. \A m \in mapping : \E p \in Requests :
            /\ stage'[p] \in {"mapped", "refused", "accepted", "lost"}
            /\ made[p] = {m.run} /\ body[p] = m.body /\ m.expires = now'[p] + Life
            /\ status[m.run] # "absent"
      <4>1. SUFFICES ASSUME NEW m \in mapping
                     PROVE  \E p \in Requests :
                              /\ stage'[p] \in {"mapped", "refused", "accepted", "lost"}
                              /\ made[p] = {m.run} /\ body[p] = m.body /\ m.expires = now'[p] + Life
                              /\ status[m.run] # "absent"
        OBVIOUS
      <4>2. PICK p \in Requests :
              /\ stage[p] \in {"mapped", "refused", "accepted", "lost"}
              /\ made[p] = {m.run} /\ body[p] = m.body /\ m.expires = now[p] + Life
              /\ status[m.run] # "absent"
        BY DEF MappingInv
      <4>3. stage'[p] = stage[p] /\ now'[p] = now[p]
        BY <2>1, <4>2 DEF Holding
      <4> QED  BY <4>2, <4>3
    <3>4. \A p \in Requests : stage'[p] = "prepared" /\ keyed[p] => mapping = {}
      BY <3>1 DEF MappingInv
    <3> QED  BY <3>2, <3>3, <3>4 DEF MappingInv
  <2> QED  BY <2>3, <2>4, <2>5
<1>4. TimeInv'
  BY <1>1 DEF TimeInv, InFlight
<1>5. ASSUME NEW p \in Requests
      PROVE  RequestInv(p)'
  BY <1>1, <1>5 DEF RequestInv, MadeAt, StartedAt, AnswerAt, LivesAt, RestsAt, Holding, Ended
<1>6. ASSUME NEW p \in Requests, NEW o \in Requests
      PROVE  Agree(p, o)'
  BY <1>1, <1>6 DEF Agree, Accepted, Near
<1> QED  BY <1>2, <1>3, <1>4, <1>5, <1>6

\* A request that ends without a Run of its own.
LEMMA RefusedStep ==
  ASSUME SInv, NEW q \in Requests, Conflict(q) \/ NotReady(q)
  PROVE  SInv'
<1> USE DEF SInv, Conflict, NotReady, Becomes, vars
<1>1. /\ \E s \in {"conflict", "not_ready"} : stage' = [stage EXCEPT ![q] = s]
      /\ stage[q] = "waiting"
      /\ stage \in [Requests -> {"new"} \union InFlight \union Ended]
      /\ UNCHANGED <<vars, clock, lock, body, keyed, now, made, answer, mapping>>
  BY DEF SubmissionTypeOK
<1>2. SubmissionTypeOK'
  BY <1>1 DEF SubmissionTypeOK, Ended
<1>3. LockInv' /\ OwnerInv' /\ MappingInv'
  BY <1>1 DEF LockInv, OwnerInv, MappingInv, Holding
<1>4. TimeInv'
  BY <1>1 DEF TimeInv, InFlight
<1>5. ASSUME NEW p \in Requests
      PROVE  RequestInv(p)'
  BY <1>1, <1>5 DEF RequestInv, MadeAt, StartedAt, AnswerAt, LivesAt, RestsAt, Holding, Ended
<1>6. ASSUME NEW p \in Requests, NEW o \in Requests
      PROVE  Agree(p, o)'
  BY <1>1, <1>6 DEF Agree, Accepted, Near
<1> QED  BY <1>2, <1>3, <1>4, <1>5, <1>6

\* The mapping that answers a retry is of an accepted or an interrupted
\* request: nobody holds the lock.
LEMMA ExistingStep ==
  ASSUME SInv, IInv, NEW q \in Requests, Existing(q)
  PROVE  SInv'
<1> USE DEF SInv, Existing, Becomes
<1>1. PICK m \in mapping : /\ m.expires > now[q] /\ keyed[q] /\ m.body = body[q]
                           /\ answer' = [answer EXCEPT ![q] = {m.run}]
  BY DEF Found
<1>2. /\ stage' = [stage EXCEPT ![q] = "accepted"] /\ stage[q] = "waiting"
      /\ lock = {}
      /\ stage \in [Requests -> {"new"} \union InFlight \union Ended]
      /\ UNCHANGED <<vars, clock, lock, body, keyed, now, made, mapping>>
  BY DEF SubmissionTypeOK
<1>3. PICK o \in Requests :
        /\ stage[o] \in {"mapped", "refused", "accepted", "lost"}
        /\ made[o] = {m.run} /\ body[o] = m.body /\ m.expires = now[o] + Life
        /\ status[m.run] # "absent"
  BY <1>1 DEF MappingInv
<1>4. m.run \in Runs /\ m \in Mapping
  BY <1>1 DEF SubmissionTypeOK, Mapping
<1>5. stage[o] \in {"accepted", "lost"} /\ sub[m.run] = "done"
  BY <1>2, <1>3 DEF LockInv, RequestInv, MadeAt, Holding, Ended
<1>6. made[q] = {} /\ mapping = {m}
  BY <1>1, <1>2 DEF RequestInv, MadeAt, MappingInv
<1>7. SubmissionTypeOK'
  BY <1>1, <1>2, <1>4 DEF SubmissionTypeOK, Ended, vars
<1>8. LockInv' /\ OwnerInv' /\ MappingInv'
  BY <1>2 DEF LockInv, OwnerInv, MappingInv, Holding, vars
<1>9. TimeInv'
  BY <1>2 DEF TimeInv, InFlight
<1>10. ASSUME NEW p \in Requests
       PROVE  RequestInv(p)'
  <2>1. CASE p # q
    BY <1>1, <1>2, <2>1 DEF RequestInv, MadeAt, StartedAt, AnswerAt, LivesAt, RestsAt,
                            SubmissionTypeOK, vars
  <2>2. CASE p = q
    <3>1. answer'[q] = {m.run}
      BY <1>1 DEF SubmissionTypeOK
    <3>2. AnswerAt(q)'
      BY <1>1, <1>2, <1>3, <1>4, <1>5, <3>1 DEF AnswerAt, vars
    <3> QED  BY <1>1, <1>2, <1>6, <2>2, <3>1, <3>2
             DEF RequestInv, MadeAt, StartedAt, LivesAt, RestsAt, Holding
  <2> QED  BY <2>1, <2>2
<1>11. ASSUME NEW p \in Requests, NEW x \in Requests
       PROVE  Agree(p, x)'
  <2>1. p \in Accepted' /\ made'[p] # {} => p # q /\ p \in Accepted
    BY <1>2, <1>6 DEF Accepted
  <2>2. CASE x # q
    BY <1>1, <1>2, <2>1, <2>2 DEF Agree, Accepted, Near, SubmissionTypeOK
  <2>3. CASE x = q
    <3> SUFFICES ASSUME p \in Accepted, p # q, made[p] # {},
                        now[p] < now[q], now[q] <= now[p] + Life - 2
                 PROVE  answer'[p] = answer'[q]
      BY <1>2, <1>6, <2>1, <2>3 DEF Agree
    <3>1. clock < now[p] + Life
      BY <1>2, LifeAssumption DEF TimeInv, InFlight, SubmissionTypeOK
    <3>2. made[p] = {m.run}
      BY <1>6, <3>1, LifeAssumption
         DEF RequestInv, LivesAt, MadeAt, Accepted, SubmissionTypeOK
    <3>3. m.run \in made[p] /\ stage[p] = "accepted"
      BY <3>2 DEF Accepted
    <3>4. answer[p] = {m.run}
      BY <3>2, <3>3 DEF RequestInv, MadeAt
    <3>5. answer'[p] = answer[p] /\ answer'[q] = {m.run}
      BY <1>1 DEF SubmissionTypeOK
    <3> QED  BY <3>4, <3>5
  <2> QED  BY <2>2, <2>3
<1> QED  BY <1>7, <1>8, <1>9, <1>10, <1>11

LEMMA TickStep ==
  ASSUME SInv, Tick
  PROVE  SInv'
<1> USE DEF SInv, Tick, requestVars
<1>1. clock \in Nat /\ now \in [Requests -> Nat]
  BY LifeAssumption DEF SubmissionTypeOK
<1>2. SubmissionTypeOK'
  BY LifeAssumption DEF SubmissionTypeOK
<1>3. LockInv' /\ OwnerInv' /\ MappingInv'
  BY DEF LockInv, OwnerInv, MappingInv, vars
<1>4. TimeInv'
  BY <1>1 DEF TimeInv
<1>5. ASSUME NEW p \in Requests
      PROVE  RequestInv(p)'
  BY <1>1, <1>5, LifeAssumption
     DEF RequestInv, MadeAt, StartedAt, AnswerAt, LivesAt, RestsAt, vars
<1>6. ASSUME NEW p \in Requests, NEW o \in Requests
      PROVE  Agree(p, o)'
  BY <1>6 DEF Agree, Accepted, Near
<1> QED  BY <1>2, <1>3, <1>4, <1>5, <1>6

\* The Run is in its maker's hands only, and an expired mapping is gone.
LEMMA PrepareStep ==
  ASSUME SInv, IInv, IInv', NEW q \in Requests, NEW r \in Runs, PrepareRun(q, r)
  PROVE  SInv'
<1> USE DEF SInv, PrepareRun, Becomes
<1>1. /\ stage' = [stage EXCEPT ![q] = "prepared"] /\ stage[q] = "waiting"
      /\ lock = {} /\ lock' = {q}
      /\ made' = [made EXCEPT ![q] = {r}]
      /\ mapping' = {m \in mapping : ~keyed[q]}
      /\ stage \in [Requests -> {"new"} \union InFlight \union Ended]
      /\ made \in [Requests -> SUBSET Runs]
      /\ UNCHANGED <<clock, body, keyed, now, answer>>
  BY DEF SubmissionTypeOK
<1>2. /\ sub[r] = "none" /\ sub'[r] = "prepared"
      /\ channel'[r] = "public" /\ status'[r] = "pending"
      /\ UNCHANGED <<worker, core>>
  BY DEF Prepare, SetStatus, IInv, TypeOK
<1>3. \A s \in Runs : s # r =>
        UNCHANGED <<status[s], sub[s], channel[s], worker[s], core[s]>>
  BY OthersKept, <1>2 DEF IInv, Channels
<1>4. \A p \in Requests : r \notin made[p] /\ r \notin answer[p]
  BY <1>2 DEF RequestInv, MadeAt, AnswerAt, SubmissionTypeOK, InFlight, Ended, Holding
<1>5. \A m \in mapping : m.run # r /\ m.run \in Runs
  BY <1>4 DEF MappingInv, SubmissionTypeOK, Mapping
<1>6. SubmissionTypeOK'
  <2>1. Cardinality(lock') <= 1 /\ Cardinality(mapping') <= 1
    <3>1. mapping' = {} \/ mapping' = mapping
      BY <1>1
    <3>2. lock' = {} \/ \E x : lock' = {x}
      BY <1>1
    <3>3. Cardinality(lock') <= 1
      BY <3>2, AtMostOneIsCounted
    <3>4. Cardinality({}) <= 1
      BY FS_EmptySet
    <3> QED  BY <3>1, <3>3, <3>4 DEF SubmissionTypeOK
  <2> QED  BY <1>1, <2>1 DEF SubmissionTypeOK, InFlight
<1>7. LockInv'
  BY <1>1 DEF LockInv, Holding
<1>8. OwnerInv'
  BY <1>1, <1>2, <1>3, <1>4 DEF OwnerInv, LockInv, Holding
<1>9. MappingInv'
  <2>1. \A p \in Requests : stage'[p] = "prepared" /\ keyed[p] => mapping' = {}
    BY <1>1 DEF LockInv, Holding
  <2>2. CASE mapping' = {}
    BY <2>1, <2>2 DEF MappingInv
  <2>3. CASE mapping' = mapping
    <3>1. ASSUME NEW m \in mapping
          PROVE  \E p \in Requests :
                   /\ stage'[p] \in {"mapped", "refused", "accepted", "lost"}
                   /\ made'[p] = {m.run} /\ body'[p] = m.body
                   /\ m.expires = now'[p] + Life /\ status'[m.run] # "absent"
      <4>1. PICK p \in Requests :
              /\ stage[p] \in {"mapped", "refused", "accepted", "lost"}
              /\ made[p] = {m.run} /\ body[p] = m.body
              /\ m.expires = now[p] + Life /\ status[m.run] # "absent"
        BY DEF MappingInv
      <4>2. stage'[p] = stage[p] /\ made'[p] = made[p] /\ status'[m.run] = status[m.run]
        BY <1>1, <1>3, <1>5, <4>1
      <4> QED  BY <1>1, <4>1, <4>2
    <3> QED  BY <2>1, <2>3, <3>1 DEF MappingInv
  <2> QED  BY <1>1, <2>2, <2>3
<1>10. TimeInv'
  BY <1>1 DEF TimeInv, InFlight
<1>11. ASSUME NEW p \in Requests
       PROVE  RequestInv(p)'
  <2>1. CASE p # q
    <3>1. MadeAt(p)' /\ StartedAt(p)'
      BY <1>1, <1>3, <1>4, <2>1 DEF RequestInv, MadeAt, StartedAt, SubmissionTypeOK
    <3>2. AnswerAt(p)'
      BY <1>1, <1>3, <1>4, <2>1 DEF RequestInv, AnswerAt, MadeAt, SubmissionTypeOK
    <3>3. \A m \in mapping : m.expires <= clock \/ m \in mapping'
      BY <1>1 DEF Found, TimeInv, SubmissionTypeOK, Mapping
    <3>4. LivesAt(p)'
      <4>1. ASSUME NEW m \in mapping, m.run \in made[p]
            PROVE  m.expires = now[p] + Life
        BY <4>1 DEF MappingInv, OwnerInv
      <4> QED  BY <1>1, <2>1, <3>3, <4>1 DEF RequestInv, LivesAt
    <3>5. RestsAt(p)'
      BY <1>1, <2>1, <3>3 DEF RequestInv, RestsAt, SubmissionTypeOK, Mapping
    <3> QED  BY <3>1, <3>2, <3>4, <3>5 DEF RequestInv
  <2>2. CASE p = q
    <3>1. worker'[r] = "idle" /\ core'[r] = "none"
      BY <1>2 DEF IInv, RunInv, SubmitterAt, CoreAt
    <3> QED  BY <1>1, <1>2, <2>2, <3>1
             DEF RequestInv, MadeAt, StartedAt, AnswerAt, LivesAt, RestsAt, Holding, Ended
  <2> QED  BY <2>1, <2>2
<1>12. ASSUME NEW p \in Requests, NEW o \in Requests
       PROVE  Agree(p, o)'
  BY <1>1, <1>12 DEF Agree, Accepted, Near
<1> QED  BY <1>6, <1>7, <1>8, <1>9, <1>10, <1>11, <1>12

\* The request that holds the lock has one Run, and no other holds it.
LEMMA HolderFacts ==
  ASSUME SInv, NEW q \in Requests, stage[q] \in Holding
  PROVE  /\ lock = {q}
         /\ \A p \in Requests : p # q => stage[p] \notin Holding
         /\ \E r \in Runs : /\ made[q] = {r} /\ channel[r] = "public"
                            /\ \A p \in Requests : r \in made[p] => p = q
<1>1. lock = {q} /\ \A p \in Requests : p # q => stage[p] \notin Holding
  BY DEF SInv, LockInv
<1>2. PICK r \in Runs : made[q] = {r}
  BY DEF SInv, RequestInv, MadeAt
<1>3. channel[r] = "public" /\ \A p \in Requests : r \in made[p] => p = q
  BY <1>2 DEF SInv, RequestInv, MadeAt, OwnerInv
<1> QED  BY <1>1, <1>2, <1>3

LEMMA MapStep ==
  ASSUME SInv, IInv, NEW q \in Requests, MapKey(q)
  PROVE  SInv'
<1> USE DEF SInv, MapKey, Becomes
<1>1. /\ stage' = [stage EXCEPT ![q] = "mapped"] /\ stage[q] = "prepared"
      /\ stage \in [Requests -> {"new"} \union InFlight \union Ended]
      /\ UNCHANGED <<vars, clock, lock, body, keyed, now, made, answer>>
  BY DEF SubmissionTypeOK
<1>2. PICK r \in Runs : /\ made[q] = {r} /\ channel[r] = "public"
                        /\ \A p \in Requests : r \in made[p] => p = q
  BY <1>1, HolderFacts DEF Holding
<1> DEFINE m == [run |-> r, body |-> body[q], expires |-> now[q] + Life]
<1>3. m \in Mapping
  BY LifeAssumption DEF Mapping, SubmissionTypeOK
<1>4. sub[r] = "prepared" /\ status[r] # "absent"
  BY <1>1, <1>2 DEF RequestInv, MadeAt, IInv, RunInv, SubmitterAt
<1>5. IF keyed[q] THEN mapping = {} /\ mapping' = {m} ELSE mapping' = mapping
  BY <1>1, <1>2 DEF Maps, MappingInv
<1>6. SubmissionTypeOK'
  <2>1. Cardinality({m}) <= 1
    BY AtMostOneIsCounted
  <2>2. mapping' \in SUBSET Mapping /\ Cardinality(mapping') <= 1
    BY <1>3, <1>5, <2>1 DEF SubmissionTypeOK
  <2> QED  BY <1>1, <2>2 DEF SubmissionTypeOK, InFlight, vars
<1>7. LockInv' /\ OwnerInv'
  BY <1>1 DEF LockInv, OwnerInv, Holding, vars
<1>8. MappingInv'
  <2>1. ASSUME NEW p \in Requests, stage'[p] = "prepared"
        PROVE  FALSE
    BY <1>1, <2>1, HolderFacts DEF Holding
  <2>2. CASE keyed[q]
    <3>1. /\ stage'[q] = "mapped" /\ made'[q] = {m.run} /\ body'[q] = m.body
          /\ m.expires = now'[q] + Life /\ status'[m.run] # "absent"
      BY <1>1, <1>2, <1>4 DEF vars
    <3>2. mapping' = {m}
      BY <1>5, <2>2
    <3> HIDE DEF m
    <3> QED  BY <1>3, <2>1, <3>1, <3>2 DEF MappingInv
  <2>3. CASE ~keyed[q]
    BY <1>1, <1>5, <2>1, <2>3 DEF MappingInv, vars
  <2> QED  BY <2>2, <2>3
<1>9. TimeInv'
  BY <1>1 DEF TimeInv, InFlight
<1>10. \A p \in Requests : keyed[q] /\ p # q => LivesAt(p)' /\ RestsAt(p)'
  BY <1>1, <1>5 DEF RequestInv, LivesAt, RestsAt
<1>11. ASSUME NEW p \in Requests
       PROVE  RequestInv(p)'
  <2>1. MadeAt(p)' /\ StartedAt(p)' /\ AnswerAt(p)'
    BY <1>1 DEF RequestInv, MadeAt, StartedAt, AnswerAt, Holding, Ended, vars
  <2>2. CASE p # q \/ ~keyed[q]
    BY <1>1, <1>5, <1>10, <2>1, <2>2 DEF RequestInv, LivesAt, RestsAt
  <2>3. CASE p = q /\ keyed[q]
    <3>1. m \in mapping' /\ m.run = r
      BY <1>5, <2>3
    <3>2. LivesAt(q)'
      BY <1>1, <1>2, <3>1 DEF LivesAt
    <3>3. RestsAt(q)'
      BY <1>1 DEF RestsAt
    <3> QED  BY <2>1, <2>3, <3>2, <3>3 DEF RequestInv
  <2> QED  BY <2>2, <2>3
<1>12. ASSUME NEW p \in Requests, NEW o \in Requests
       PROVE  Agree(p, o)'
  BY <1>1, <1>12 DEF Agree, Accepted, Near
<1> QED  BY <1>6, <1>7, <1>8, <1>9, <1>11, <1>12

\* The coordinator is full: nothing but the submitter's progress changes.
LEMMA NoCapacityStep ==
  ASSUME SInv, IInv, NEW q \in Requests, NoCapacity(q)
  PROVE  SInv'
<1> USE DEF SInv, NoCapacity, Becomes
<1>1. /\ stage' = [stage EXCEPT ![q] = "refused"] /\ stage[q] = "mapped"
      /\ stage \in [Requests -> {"new"} \union InFlight \union Ended]
      /\ UNCHANGED <<clock, lock, body, keyed, now, made, answer, mapping>>
  BY DEF SubmissionTypeOK
<1>2. PICK r \in Runs : /\ made[q] = {r} /\ channel[r] = "public"
                        /\ \A p \in Requests : r \in made[p] => p = q
  BY <1>1, HolderFacts DEF Holding
<1>3. /\ sub' = [sub EXCEPT ![r] = "refused"] /\ sub[r] = "prepared" /\ Refuse(r)
      /\ UNCHANGED <<status, channel, worker, core>>
  BY <1>2 DEF Refuse
<1>4. sub \in [Runs -> SubStep]
  BY DEF IInv, TypeOK
<1>5. SubmissionTypeOK'
  BY <1>1 DEF SubmissionTypeOK, InFlight
<1>6. LockInv' /\ MappingInv'
  BY <1>1, <1>3 DEF LockInv, MappingInv, Holding
<1>7. OwnerInv'
  BY <1>1, <1>3, <1>4 DEF OwnerInv, Holding
<1>8. TimeInv'
  BY <1>1 DEF TimeInv, InFlight
<1>9. ASSUME NEW p \in Requests
      PROVE  RequestInv(p)'
  <2>1. \A s \in answer[p] : s # r
    BY <1>3 DEF RequestInv, AnswerAt
  <2>2. AnswerAt(p)'
    BY <1>1, <1>3, <1>4, <2>1 DEF RequestInv, AnswerAt
  <2>3. MadeAt(p)' /\ StartedAt(p)'
    BY <1>1, <1>2, <1>3, <1>4 DEF RequestInv, MadeAt, StartedAt, Holding, Ended, SubmissionTypeOK
  <2> QED  BY <1>1, <2>2, <2>3 DEF RequestInv, LivesAt, RestsAt
<1>10. ASSUME NEW p \in Requests, NEW o \in Requests
       PROVE  Agree(p, o)'
  BY <1>1, <1>10 DEF Agree, Accepted, Near
<1> QED  BY <1>5, <1>6, <1>7, <1>8, <1>9, <1>10

\* The row goes, and its mapping with it; nobody has been given it.
LEMMA WithdrawStep ==
  ASSUME SInv, IInv, NEW q \in Requests, Withdraw(q)
  PROVE  SInv'
<1> USE DEF SInv, Withdraw, Becomes
<1>1. /\ stage' = [stage EXCEPT ![q] = "capacity"] /\ stage[q] = "refused"
      /\ stage \in [Requests -> {"new"} \union InFlight \union Ended]
      /\ lock' = {}
      /\ UNCHANGED <<clock, body, keyed, now, made, answer>>
  BY DEF SubmissionTypeOK
<1>2. PICK r \in Runs : /\ made[q] = {r} /\ channel[r] = "public"
                        /\ \A p \in Requests : r \in made[p] => p = q
  BY <1>1, HolderFacts DEF Holding
<1>3. /\ sub[r] = "refused" /\ sub'[r] = "done" /\ Discard(r)
      /\ mapping' = {m \in mapping : m.run # r}
      /\ UNCHANGED <<channel, worker, core>>
  BY <1>2 DEF Discard, IInv, TypeOK
<1>4. \A s \in Runs : s # r => UNCHANGED <<status[s], sub[s]>>
  BY <1>3, OthersKept DEF IInv
<1>5. worker[r] = "idle" /\ core[r] = "none"
  BY <1>3 DEF IInv, RunInv, SubmitterAt, CoreAt
<1>6. mapping' = mapping \/ mapping' = {}
  BY <1>3 DEF MappingInv
<1>7. SubmissionTypeOK'
  <2>1. Cardinality({}) <= 1
    BY FS_EmptySet
  <2>2. mapping' \in SUBSET Mapping /\ Cardinality(mapping') <= 1
    BY <1>6, <2>1 DEF SubmissionTypeOK
  <2> QED  BY <1>1, <2>1, <2>2 DEF SubmissionTypeOK, Ended
<1>8. LockInv'
  BY <1>1, HolderFacts DEF LockInv, Holding
<1>9. OwnerInv'
  BY <1>1, <1>2, <1>3, <1>4 DEF OwnerInv, Holding
<1>10. MappingInv'
  <2>1. ASSUME NEW p \in Requests, stage'[p] = "prepared"
        PROVE  FALSE
    BY <1>1, <2>1, HolderFacts DEF Holding
  <2>2. CASE mapping' = {}
    BY <2>1, <2>2 DEF MappingInv
  <2>3. CASE mapping' = mapping
    <3>1. ASSUME NEW m \in mapping
          PROVE  \E p \in Requests :
                   /\ stage'[p] \in {"mapped", "refused", "accepted", "lost"}
                   /\ made'[p] = {m.run} /\ body'[p] = m.body
                   /\ m.expires = now'[p] + Life /\ status'[m.run] # "absent"
      <4>1. PICK p \in Requests :
              /\ stage[p] \in {"mapped", "refused", "accepted", "lost"}
              /\ made[p] = {m.run} /\ body[p] = m.body
              /\ m.expires = now[p] + Life /\ status[m.run] # "absent"
        BY DEF MappingInv
      <4>2. m.run # r /\ m.run \in Runs
        BY <1>3, <2>3 DEF SubmissionTypeOK, Mapping
      <4>3. p # q
        BY <1>2, <4>1, <4>2
      <4> QED  BY <1>1, <1>4, <4>1, <4>2, <4>3
    <3> QED  BY <2>1, <2>3, <3>1 DEF MappingInv
  <2> QED  BY <1>6, <2>2, <2>3
<1>11. TimeInv'
  BY <1>1 DEF TimeInv, InFlight
<1>12. ASSUME NEW p \in Requests
       PROVE  RequestInv(p)'
  <2>1. \A s \in answer[p] : s # r
    BY <1>3 DEF RequestInv, AnswerAt
  <2>2. AnswerAt(p)'
    BY <1>1, <1>4, <2>1 DEF RequestInv, AnswerAt, SubmissionTypeOK
  <2>3. MadeAt(p)' /\ StartedAt(p)'
    BY <1>1, <1>2, <1>3, <1>4, <1>5
       DEF RequestInv, MadeAt, StartedAt, Holding, Ended, SubmissionTypeOK
  <2>4. LivesAt(p)'
    BY <1>1, <1>2, <1>3 DEF RequestInv, LivesAt, SubmissionTypeOK
  <2>5. RestsAt(p)'
    BY <1>1, <1>3, <2>1 DEF RequestInv, RestsAt
  <2> QED  BY <2>2, <2>3, <2>4, <2>5 DEF RequestInv
<1>13. ASSUME NEW p \in Requests, NEW o \in Requests
       PROVE  Agree(p, o)'
  BY <1>1, <1>13 DEF Agree, Accepted, Near
<1> QED  BY <1>7, <1>8, <1>9, <1>10, <1>11, <1>12, <1>13

LEMMA MappingLives ==
  ASSUME SInv, NEW p \in Requests, NEW r \in made[p], keyed[p],
         stage[p] \in {"mapped", "refused", "accepted"}, clock < now[p] + Life
  PROVE  \E m \in mapping : m.run = r
<1>1. clock \in Nat /\ now[p] \in Nat /\ Life \in Nat
  BY LifeAssumption DEF SInv, SubmissionTypeOK
<1>2. LivesAt(p)
  BY DEF SInv, RequestInv
<1> QED  BY <1>1, <1>2 DEF LivesAt

\* The coordinator takes the Run; the caller learns its id.
LEMMA HandOverStep ==
  ASSUME SInv, IInv, NEW q \in Requests, HandOver(q)
  PROVE  SInv'
<1> USE DEF SInv, HandOver, Becomes
<1>1. /\ stage' = [stage EXCEPT ![q] = "accepted"] /\ stage[q] = "mapped"
      /\ stage \in [Requests -> {"new"} \union InFlight \union Ended]
      /\ answer' = [answer EXCEPT ![q] = made[q]]
      /\ answer \in [Requests -> SUBSET Runs]
      /\ lock' = {}
      /\ UNCHANGED <<clock, body, keyed, now, made, mapping>>
  BY DEF SubmissionTypeOK
<1>2. PICK r \in Runs : /\ made[q] = {r} /\ channel[r] = "public"
                        /\ \A p \in Requests : r \in made[p] => p = q
  BY <1>1, HolderFacts DEF Holding
<1>3. /\ sub[r] = "prepared" /\ sub'[r] = "done" /\ Enqueue(r)
      /\ UNCHANGED <<channel, core, status>>
  BY <1>2 DEF Enqueue, IInv, TypeOK
<1>4. \A s \in Runs : s # r => UNCHANGED <<sub[s], worker[s]>>
  BY <1>3, OthersKept DEF IInv
<1>5. status[r] # "absent"
  BY <1>3 DEF IInv, RunInv, SubmitterAt
<1>6. SubmissionTypeOK'
  <2>1. Cardinality({}) <= 1
    BY FS_EmptySet
  <2> QED  BY <1>1, <2>1 DEF SubmissionTypeOK, Ended
<1>7. LockInv'
  BY <1>1, HolderFacts DEF LockInv, Holding
<1>8. OwnerInv'
  BY <1>1, <1>2, <1>3, <1>4 DEF OwnerInv, Holding
<1>9. MappingInv'
  BY <1>1, <1>3 DEF MappingInv
<1>10. TimeInv'
  BY <1>1 DEF TimeInv, InFlight
<1>11. ASSUME NEW p \in Requests
       PROVE  RequestInv(p)'
  <2>1. CASE p = q
    <3>1. answer'[q] = {r} /\ stage'[q] = "accepted" /\ made'[q] = {r}
      BY <1>1, <1>2
    <3>2. MadeAt(q)' /\ StartedAt(q)'
      BY <1>2, <1>3, <3>1 DEF MadeAt, StartedAt, Holding
    <3>3. AnswerAt(q)'
      BY <1>1, <1>3, <1>5, <3>1 DEF AnswerAt
    <3>4. LivesAt(q)'
      BY <1>1, <3>1 DEF RequestInv, LivesAt
    <3>5. RestsAt(q)'
      <4> SUFFICES ASSUME keyed[q], clock <= now[q]
                   PROVE  \E m \in mapping : {r} = {m.run} /\ m.expires > now[q]
        BY <1>1, <3>1 DEF RestsAt, SubmissionTypeOK
      <4>1. PICK m \in mapping : m.run = r
        <5>1. clock < now[q] + Life
          BY LifeAssumption DEF SubmissionTypeOK
        <5> QED  BY <1>1, <1>2, <5>1, MappingLives
      <4>2. m.expires = now[q] + Life
        BY <1>2, <4>1 DEF MappingInv
      <4> QED  BY <4>1, <4>2, LifeAssumption DEF SubmissionTypeOK
    <3> QED  BY <2>1, <3>2, <3>3, <3>4, <3>5 DEF RequestInv
  <2>2. CASE p # q
    <3>1. \A s \in answer[p] : s # r
      BY <1>3 DEF RequestInv, AnswerAt
    <3>2. r \notin made[p]
      BY <1>2, <2>2
    <3> QED  BY <1>1, <1>3, <1>4, <2>2, <3>1, <3>2
             DEF RequestInv, MadeAt, StartedAt, AnswerAt, LivesAt, RestsAt, SubmissionTypeOK
  <2> QED  BY <2>1, <2>2
<1>12. ASSUME NEW p \in Requests, NEW o \in Requests
       PROVE  Agree(p, o)'
  <2>1. CASE p # q /\ o # q
    BY <1>1, <2>1 DEF Agree, Accepted, Near
  \* Both mappings would have to be in the table, but there is one.
  <2>2. ASSUME NEW x \in Requests, x # q, x \in Accepted, keyed[q], made[x] # {},
               now[q] <= now[x] + Life - 2
        PROVE  FALSE
    <3>1. PICK s \in Runs : made[x] = {s}
      BY <2>2 DEF RequestInv, MadeAt
    <3>2. clock < now[x] + Life /\ clock < now[q] + Life
      BY <1>1, <2>2, LifeAssumption DEF TimeInv, InFlight, SubmissionTypeOK
    <3>3. PICK m \in mapping : m.run = s
      BY <2>2, <3>1, <3>2, MappingLives DEF Accepted
    <3>4. PICK k \in mapping : k.run = r
      BY <1>1, <1>2, <2>2, <3>2, MappingLives
    <3>5. s = r
      BY <3>3, <3>4 DEF MappingInv
    <3> QED  BY <1>2, <2>2, <3>1, <3>5
  <2>3. CASE p = q /\ o # q
    <3> SUFFICES ASSUME o \in Accepted, keyed[q]
                 PROVE  Agree(q, o)'
      BY <1>1, <2>3 DEF Agree, Accepted
    <3>1. ASSUME made[o] # {}, Near(q, o)
          PROVE  FALSE
      BY <2>2, <2>3, <3>1, LifeAssumption DEF Near, SubmissionTypeOK
    <3>2. ASSUME now[q] < now[o]
          PROVE  answer'[q] = answer'[o]
      <4>1. clock = now[o] /\ clock < now[q] + Life
        BY <1>1, <3>2, LifeAssumption DEF TimeInv, InFlight, SubmissionTypeOK
      <4>2. PICK m \in mapping : answer[o] = {m.run}
        BY <4>1 DEF RequestInv, RestsAt, Accepted, SubmissionTypeOK
      <4>3. PICK k \in mapping : k.run = r
        BY <1>1, <1>2, <4>1, MappingLives
      <4>4. m = k
        BY DEF MappingInv
      <4> QED  BY <1>1, <1>2, <2>3, <4>2, <4>3, <4>4
    <3> QED  BY <1>1, <3>1, <3>2 DEF Agree, Near
  <2>4. CASE p # q /\ o = q
    <3> SUFFICES ASSUME p \in Accepted, keyed[q], made[p] # {}
                 PROVE  Agree(p, q)'
      BY <1>1, <2>4 DEF Agree, Accepted
    <3>1. now[q] <= now[p] + Life - 2 => FALSE
      BY <2>2, <2>4
    <3>2. ~Near(p, q)
      BY <3>1, LifeAssumption DEF Near, SubmissionTypeOK
    <3> QED  BY <1>1, <3>1, <3>2 DEF Agree, Near
  <2>5. CASE p = q /\ o = q
    BY <1>1, <2>5 DEF Agree, SubmissionTypeOK
  <2> QED  BY <2>1, <2>3, <2>4, <2>5
<1> QED  BY <1>6, <1>7, <1>8, <1>9, <1>10, <1>11, <1>12

\* What happens to the Runs behind the requests' backs changes none of this.
LEMMA OutsideStep ==
  ASSUME SInv, IInv, IInv', Background \/ LoseRequests
  PROVE  SInv'
<1> USE DEF SInv
<1>1. /\ stage \in [Requests -> {"new"} \union InFlight \union Ended]
      /\ \/ Background /\ UNCHANGED <<stage, lock>> /\ (phase' = phase \/ phase' = "up")
         \/ /\ Crash /\ phase' # phase /\ phase' = "crashed" /\ lock' = {}
            /\ stage' = [q \in Requests |-> IF stage[q] \in InFlight THEN "lost" ELSE stage[q]]
      /\ UNCHANGED <<clock, body, keyed, now, made, answer, mapping>>
  <2>1. Background => phase' = phase \/ phase' = "up"
    <3>1. ASSUME NEW r \in Runs, StudioSubmit(r) \/ CoreStep(r)
          PROVE  phase' = phase
      BY <3>1 DEF StudioSubmit, Prepare, Enqueue, Refuse, Discard, CoreStep, CoreStarts,
                  CoreEnds, procVars
    <3>2. ASSUME NEW r \in Runs, Execution(r)
          PROVE  phase' = phase
      BY <3>2 DEF Execution, PickUp, ReadRow, MarkRunning, Build, FinishBuildFailure,
                  RefreshRow, SubmitToCore, PollTimeout, PollWrite, PollRaises, Harvest,
                  FinishSuccess, FinishError, Release, Deliver, Return, procVars
    <3>3. ASSUME NEW c \in Cancellers, Cancellation(c)
          PROVE  phase' = phase
      BY <3>3 DEF Cancellation, CancelQueued, CancelThroughCore, CancelCommit, procVars
    <3> QED  BY <3>1, <3>2, <3>3 DEF Background, Startup
  <2> QED  BY <2>1 DEF Background, LoseRequests, Crash, keyVars, requestVars,
                       SubmissionTypeOK
<1>2. \A r \in Runs : RunKept(r)
  BY <1>1, BackgroundKeeps
<1>3. \A p \in Requests : made[p] \subseteq Runs /\ answer[p] \subseteq Runs
  BY DEF SubmissionTypeOK
<1>4. SubmissionTypeOK'
  <2>1. Cardinality({}) <= 1
    BY FS_EmptySet
  <2> QED  BY <1>1, <2>1 DEF SubmissionTypeOK, Ended
<1>5. LockInv'
  BY <1>1 DEF LockInv, Holding, InFlight, Ended
<1>6. OwnerInv'
  BY <1>1, <1>2 DEF OwnerInv, RunKept, Holding, InFlight, Ended
<1>7. MappingInv'
  <2>1. ASSUME NEW p \in Requests
        PROVE  /\ stage'[p] = "prepared" => stage[p] = "prepared"
               /\ stage[p] \in {"mapped", "refused", "accepted", "lost"} =>
                    stage'[p] \in {"mapped", "refused", "accepted", "lost"}
    BY <1>1 DEF InFlight
  <2>2. ASSUME NEW m \in mapping
        PROVE  status'[m.run] # "absent"
    <3>1. PICK p \in Requests :
            made[p] = {m.run} /\ stage[p] \in {"mapped", "refused", "accepted", "lost"}
      BY DEF MappingInv
    <3>2. m.run \in Runs /\ channel[m.run] = "public"
      BY <1>3, <3>1 DEF RequestInv, MadeAt
    <3>3. CASE sub[m.run] = "done"
      BY <1>2, <3>2, <3>3 DEF RunKept, MappingInv
    <3>4. CASE sub[m.run] # "done"
      <4>1. sub[m.run] \in {"prepared", "refused"}
        BY <3>1, <3>4 DEF RequestInv, MadeAt, Ended
      <4>2. channel'[m.run] = "public"
            /\ ((sub'[m.run] = "done" /\ Crash) \/ sub'[m.run] = sub[m.run])
        BY <1>1, <1>2, <3>2, <4>1 DEF RunKept
      <4>3. Crash => status' = status
        BY DEF Crash
      <4> QED  BY <3>2, <4>1, <4>2, <4>3 DEF IInv, RunInv, SubmitterAt, MappingInv
    <3> QED  BY <3>3, <3>4
  <2> QED  BY <1>1, <2>1, <2>2 DEF MappingInv
<1>8. TimeInv'
  BY <1>1 DEF TimeInv, InFlight, Ended
<1>9. ASSUME NEW p \in Requests
      PROVE  RequestInv(p)'
  <2>1. MadeAt(p)'
    BY <1>1, <1>2, <1>3 DEF RequestInv, MadeAt, RunKept, Holding, InFlight, Ended
  <2>2. StartedAt(p)'
    <3> SUFFICES ASSUME stage'[p] # "accepted", NEW r \in made[p]
                 PROVE  worker'[r] \in {"idle", "done"} /\ core'[r] = "none"
      BY <1>1 DEF StartedAt
    <3>1. /\ r \in Runs /\ channel[r] = "public"
          /\ worker[r] \in {"idle", "done"} /\ core[r] = "none"
          /\ sub[r] \in {"prepared", "refused", "done"}
      <4>1. r \in Runs /\ channel[r] = "public" /\ stage[p] # "accepted"
        <5>1. stage[p] = "accepted" => stage'[p] = "accepted"
          BY <1>1 DEF InFlight
        <5> QED  BY <1>3, <5>1 DEF RequestInv, MadeAt
      <4>2. worker[r] \in {"idle", "done"} /\ core[r] = "none"
        BY <4>1 DEF RequestInv, StartedAt
      <4>3. stage[p] \in Holding \union Ended
        BY <1>1 DEF RequestInv, MadeAt, InFlight, Holding, Ended
      <4> QED  BY <4>1, <4>2, <4>3 DEF RequestInv, MadeAt, Holding
    <3>2. CASE sub[r] = "done"
      BY <1>2, <3>1, <3>2 DEF RunKept
    <3>3. CASE sub[r] # "done" /\ (phase' = phase \/ phase' = "up")
      <4>1. sub'[r] \in {"prepared", "refused"}
        BY <1>2, <3>1, <3>3 DEF RunKept
      <4>2. SubmitterAt(r)' /\ CoreAt(r)'
        BY <3>1 DEF IInv, RunInv
      <4> QED  BY <4>1, <4>2 DEF SubmitterAt, CoreAt
    <3>4. CASE Crash
      BY <3>1, <3>4 DEF Crash, LoseProcess, CoreLive
    <3> QED  BY <1>1, <3>2, <3>3, <3>4
  <2>3. AnswerAt(p)'
    BY <1>1, <1>2, <1>3 DEF RequestInv, AnswerAt, RunKept, InFlight, Ended
  <2>4. LivesAt(p)' /\ RestsAt(p)'
    BY <1>1 DEF RequestInv, LivesAt, RestsAt, InFlight, Ended
  <2> QED  BY <2>1, <2>2, <2>3, <2>4 DEF RequestInv
<1>10. ASSUME NEW p \in Requests, NEW o \in Requests
       PROVE  Agree(p, o)'
  BY <1>1, <1>10 DEF Agree, Accepted, Near, InFlight, Ended
<1> QED  BY <1>4, <1>5, <1>6, <1>7, <1>8, <1>9, <1>10

LEMMA SubmissionStutters ==
  ASSUME SInv, UNCHANGED submissionVars
  PROVE  SInv'
<1> USE DEF submissionVars, vars, keyVars, requestVars
<1>1. SubmissionTypeOK' /\ LockInv' /\ OwnerInv' /\ MappingInv' /\ TimeInv'
  BY DEF SInv, SubmissionTypeOK, LockInv, OwnerInv, MappingInv, TimeInv
<1>2. ASSUME NEW p \in Requests
      PROVE  RequestInv(p)'
  BY DEF SInv, RequestInv, MadeAt, StartedAt, AnswerAt, LivesAt, RestsAt
<1>3. ASSUME NEW p \in Requests, NEW o \in Requests
      PROVE  Agree(p, o)'
  BY DEF SInv, Agree, Accepted, Near
<1> QED  BY <1>1, <1>2, <1>3 DEF SInv

LEMMA SubmissionInvStep ==
  ASSUME SInv, IInv, [SubmissionNext]_submissionVars
  PROVE  SInv' /\ IInv'
<1>1. IInv'
  BY StepIsLifecycle, InvStep DEF SInv
<1>2. SInv'
  BY <1>1, SubmissionStutters, ArriveStep, RefusedStep, ExistingStep, TickStep,
     PrepareStep, MapStep, NoCapacityStep, WithdrawStep, HandOverStep, OutsideStep
     DEF SubmissionNext, Submit
<1> QED  BY <1>1, <1>2

\* The requests' invariant holds of every behaviour, with that of the life
\* cycle.
THEOREM SubmissionInductive == SubmissionSpec => [](SInv /\ IInv)
<1>1. SubmissionInit => SInv /\ IInv
  BY SubmissionInitInv, InitInv DEF SubmissionInit
<1>2. (SInv /\ IInv) /\ [SubmissionNext]_submissionVars => (SInv /\ IInv)'
  BY SubmissionInvStep
<1> QED  BY <1>1, <1>2, PTL DEF SubmissionSpec

\* Retry-safe submission is a use of the life cycle: every behaviour of it is
\* one of RunLifecycle, whose theorems therefore hold of it.
THEOREM SubmissionIsLifecycle == SubmissionSpec => Spec
<1>1. SubmissionInit => Init
  BY DEF SubmissionInit
<1>2. SInv /\ [SubmissionNext]_submissionVars => [Next]_vars
  BY StepIsLifecycle DEF SInv
<1> QED  BY <1>1, <1>2, SubmissionInductive, PTL DEF SubmissionSpec, Spec

-----------------------------------------------------------------------------
(* The safety properties of Submission.                                    *)

\* An accepted retry within the life of the mapping names the Run of the
\* request it repeats, and no caller is given the Run of another body.
THEOREM RetriesAgree == SubmissionSpec => []AnswersAgree
<1>1. SInv => AnswersAgree
  <2> SUFFICES ASSUME SInv, NEW p \in Accepted, NEW q \in Accepted
               PROVE  /\ (made[p] # {} /\ Near(p, q) /\ (now[p] < now[q] \/ made[q] # {}))
                           => answer[p] = answer[q]
                      /\ answer[p] = answer[q] => body[p] = body[q]
    BY DEF AnswersAgree
  <2>1. p \in Requests /\ q \in Requests /\ keyed[p] /\ keyed[q]
        /\ stage[p] = "accepted" /\ stage[q] = "accepted"
    BY DEF Accepted
  <2>2. (made[p] # {} /\ Near(p, q) /\ (now[p] < now[q] \/ made[q] # {}))
          => answer[p] = answer[q]
    <3>1. now[p] \in Nat /\ now[q] \in Nat /\ Life \in Nat
      BY <2>1, LifeAssumption DEF SInv, SubmissionTypeOK
    <3>2. Near(p, q) => now[q] <= now[p] + Life - 2
      BY <3>1 DEF Near
    <3> QED  BY <2>1, <3>2 DEF SInv, Agree
  <2>3. answer[p] = answer[q] => body[p] = body[q]
    <3>1. PICK r \in answer[p] : TRUE
      BY <2>1 DEF SInv, RequestInv, AnswerAt
    <3>2. \A x \in {p, q} : r \in answer[x] =>
            \E o \in Requests : r \in made[o] /\ body[o] = body[x]
      BY <2>1 DEF SInv, RequestInv, AnswerAt
    <3> QED  BY <3>1, <3>2 DEF SInv, OwnerInv
  <2> QED  BY <2>2, <2>3
<1> QED  BY <1>1, SubmissionInductive, PTL

\* A Run that a caller was told of is on record for good, and no way out of
\* the handler keeps the lock.
THEOREM AcceptanceLasts == SubmissionSpec => []AcceptedIsDurable
<1>1. SInv => AcceptedIsDurable
  BY DEF SInv, RequestInv, AnswerAt, AcceptedIsDurable
<1> QED  BY <1>1, SubmissionInductive, PTL

\* Of the Runs that requests with the key make within the life of a mapping
\* at most one gets to a worker.
THEOREM RetriesRunOnce == SubmissionSpec => []JobRunsOnce
<1>1. SInv => JobRunsOnce
  <2> SUFFICES ASSUME SInv, NEW p \in Requests, NEW q \in Requests, p # q,
                      keyed[p], keyed[q], Started(p), Started(q)
               PROVE  ~Near(p, q)
    BY DEF JobRunsOnce
  <2>1. \A x \in {p, q} : stage[x] = "accepted" /\ made[x] # {}
    <3> SUFFICES ASSUME NEW x \in {p, q}
                 PROVE  stage[x] = "accepted" /\ made[x] # {}
      OBVIOUS
    <3>1. PICK r \in made[x] : core[r] # "none" \/ worker[r] \in Executing
      BY DEF Started
    <3> QED  BY <3>1 DEF SInv, RequestInv, StartedAt, Executing, BeforeCore,
                        WithCore, AfterWrite
  <2> QED  BY <2>1 DEF SInv, Agree, Accepted
<1> QED  BY <1>1, SubmissionInductive, PTL

-----------------------------------------------------------------------------
(* RunEvents: numbered logs and their pages.                               *)

\* The events are numbered a + 1, ..., n, each number once.
Numbered(S, a, n) ==
  Seqs(S) = (a + 1)..n /\ \A e, f \in S : e.seq = f.seq => e = f

LEMMA CountNumbered ==
  ASSUME NEW S, NEW a \in Nat, NEW n \in Nat, Numbered(S, a, n), a <= n
  PROVE  IsFiniteSet(S) /\ Cardinality(S) = n - a
<1> DEFINE T == (a + 1)..n
           f == [e \in S |-> e.seq]
<1>1. f \in Bijection(S, T)
  <2>1. f \in [S -> T] /\ \A t \in T : \E e \in S : f[e] = t
    BY DEF Numbered, Seqs
  <2>2. \A x, y \in S : f[x] = f[y] => x = y
    BY DEF Numbered
  <2> HIDE DEF f, T
  <2> QED  BY <2>1, <2>2, Fun_IsBij DEF Surjection
<1>2. ExistsBijection(T, S)
  <2>1. ExistsBijection(S, T)
    BY <1>1 DEF ExistsBijection
  <2> QED  BY <2>1, Fun_ExistsBijSymmetric
<1>3. IsFiniteSet(T) /\ Cardinality(T) = n - a
  <2>1. a + 1 \in Int /\ n \in Int
    OBVIOUS
  <2>2. IsFiniteSet(T) /\ Cardinality(T) = IF a + 1 > n THEN 0 ELSE n - (a + 1) + 1
    BY ONLY <2>1, FS_Interval
  <2> QED  BY <2>2
<1> QED  BY <1>2, <1>3, FS_Bijection

LEMMA FirstOfNumbered ==
  ASSUME NEW S, NEW a \in Nat, NEW n \in Nat, Numbered(S, a, n), NEW k \in Nat
  PROVE  First(k, S) = {e \in S : e.seq <= a + k}
<1> SUFFICES ASSUME NEW e \in S
             PROVE  Cardinality({f \in S : f.seq < e.seq}) = e.seq - 1 - a
                    /\ e.seq \in (a + 1)..n
  BY DEF First
<1> DEFINE T == {f \in S : f.seq < e.seq}
<1>1. e.seq \in (a + 1)..n
  BY DEF Numbered, Seqs
<1>2. Numbered(T, a, e.seq - 1)
  <2>1. Seqs(T) = (a + 1)..(e.seq - 1)
    BY <1>1 DEF Numbered, Seqs
  <2> QED  BY <2>1 DEF Numbered
<1> HIDE DEF T
<1>3. Cardinality(T) = e.seq - 1 - a
  <2>1. e.seq - 1 \in Nat /\ a <= e.seq - 1
    BY <1>1
  <2> QED  BY <1>2, <2>1, CountNumbered
<1> QED  BY <1>1, <1>3 DEF T

\* The number of an event, and the event of a number.
LEMMA NumberedFacts ==
  ASSUME NEW S, NEW n \in Nat
  PROVE  Numbered(S, 0, n) <=>
           /\ \A e \in S : e.seq \in 1..n
           /\ \A x \in 1..n : \E e \in S : e.seq = x
           /\ \A e, f \in S : e.seq = f.seq => e = f
<1>1. (0 + 1)..n = 1..n
  OBVIOUS
<1>2. Seqs(S) = 1..n <=>
        (\A e \in S : e.seq \in 1..n) /\ (\A x \in 1..n : \E e \in S : e.seq = x)
  <2>1. Seqs(S) = 1..n => \A e \in S : e.seq \in 1..n
    BY DEF Seqs
  <2>2. Seqs(S) = 1..n => \A x \in 1..n : \E e \in S : e.seq = x
    BY DEF Seqs
  <2>3. (\A e \in S : e.seq \in 1..n) /\ (\A x \in 1..n : \E e \in S : e.seq = x)
          => Seqs(S) = 1..n
    BY DEF Seqs
  <2> QED  BY <2>1, <2>2, <2>3
<1> QED  BY <1>1, <1>2 DEF Numbered

LEMMA LastOfNumbered ==
  ASSUME NEW S, NEW n \in Nat, Numbered(S, 0, n)
  PROVE  LastSeq(S) = n
BY DEF LastSeq, Numbered, Max

\* What follows the last number is a numbered log again.
LEMMA AfterOfNumbered ==
  ASSUME NEW S, NEW a \in Nat, NEW n \in Nat, Numbered(S, 0, n)
  PROVE  Numbered(After(S, a), a, n)
BY DEF After, Numbered, Seqs

\* The events behind one number up to another.
Stretch(S, b, t) == {e \in S : b < e.seq /\ e.seq <= t}

\* A log that is extended keeps its events, and numbers the new ones behind.
Grows(S, T) == S \subseteq T /\ \A e \in T \ S : LastSeq(S) < e.seq

Whole0(S) == \E n \in Nat : Numbered(S, 0, n)

LEMMA IngestGrows ==
  ASSUME NEW S, NEW C, NEW P, NEW n \in Nat, NEW m \in Nat, NEW b \in Nat, NEW t \in Nat,
         Numbered(S, 0, n), Numbered(C, 0, m), b <= n,
         P = {e \in C : b < e.seq /\ e.seq <= t}
  PROVE  Whole0(Ingest(S, P)) /\ Grows(S, Ingest(S, P))
<1> DEFINE top == IF t < m THEN t ELSE m
           k   == IF n < top THEN top ELSE n
           I   == Ingest(S, P)
<1>1. /\ \A e \in S : e.seq \in 1..n
      /\ \A x \in 1..n : \E e \in S : e.seq = x
      /\ \A e, f \in S : e.seq = f.seq => e = f
  BY NumberedFacts
<1>2. /\ \A e \in C : e.seq \in 1..m
      /\ \A x \in 1..m : \E e \in C : e.seq = x
      /\ \A e, f \in C : e.seq = f.seq => e = f
  BY NumberedFacts
<1>3. I = S \union {e \in P : e.seq \notin 1..n}
  <2>1. Seqs(S) = 1..n
    BY <1>1 DEF Seqs
  <2> QED  BY <2>1 DEF Ingest
<1>4. \A e \in I \ S : e \in C /\ e.seq \in Nat /\ n < e.seq /\ e.seq <= k
  BY <1>2, <1>3
<1>5. k \in Nat /\ n <= k /\ (k > n => k <= m /\ k <= t)
  OBVIOUS
<1>6. Numbered(I, 0, k)
  <2>1. \A e \in I : e.seq \in 1..k
    BY <1>1, <1>4, <1>5
  <2>2. ASSUME NEW x \in 1..k
        PROVE  \E e \in I : e.seq = x
    <3>1. CASE x \in 1..n
      BY <1>1, <1>3, <3>1
    <3>2. CASE x \notin 1..n
      <4>1. x \in 1..m /\ x <= t /\ b < x
        BY <1>5, <3>2
      <4>2. PICK e \in C : e.seq = x
        BY <1>2, <4>1
      <4> QED  BY <1>3, <3>2, <4>1, <4>2
    <3> QED  BY <3>1, <3>2
  <2>3. \A e, f \in I : e.seq = f.seq => e = f
    BY <1>1, <1>2, <1>3, <1>4
  <2> HIDE DEF k, I
  <2> QED  BY <1>5, <2>1, <2>2, <2>3, NumberedFacts
<1>7. Grows(S, I)
  BY <1>3, <1>4, LastOfNumbered DEF Grows
<1> QED  BY <1>5, <1>6, <1>7 DEF Whole0

LEMMA AppendGrows ==
  ASSUME NEW S, Whole0(S), NEW kind
  PROVE  Whole0(Append(S, kind)) /\ Grows(S, Append(S, kind))
<1>1. PICK n \in Nat : Numbered(S, 0, n)
  BY DEF Whole0
<1>2. LastSeq(S) = n
  BY <1>1, LastOfNumbered
<1>3. CASE \E e \in S : e.kind = kind
  BY <1>3 DEF Append, Grows
<1>4. CASE ~ \E e \in S : e.kind = kind
  <2> DEFINE new == [seq |-> n + 1, kind |-> kind]
             T == S \union {new}
  <2>1. Append(S, kind) = T
    BY <1>2, <1>4 DEF Append
  <2>2. new.seq = n + 1
    OBVIOUS
  <2> HIDE DEF new
  <2>3. /\ \A e \in S : e.seq \in 1..n
        /\ \A x \in 1..n : \E e \in S : e.seq = x
        /\ \A e, f \in S : e.seq = f.seq => e = f
    BY <1>1, NumberedFacts
  <2>4. /\ \A e \in T : e.seq \in 1..(n + 1)
        /\ \A x \in 1..(n + 1) : \E e \in T : e.seq = x
        /\ \A e, f \in T : e.seq = f.seq => e = f
    BY <2>2, <2>3
  <2>5. Numbered(T, 0, n + 1)
    <3> HIDE DEF T
    <3>1. n + 1 \in Nat
      OBVIOUS
    <3> QED  BY <2>4, <3>1, NumberedFacts
  <2> QED  BY <1>2, <2>1, <2>2, <2>5 DEF Whole0, Grows
<1> QED  BY <1>3, <1>4

LEMMA LastGrows ==
  ASSUME NEW S, NEW T, Whole0(S), Whole0(T), Grows(S, T)
  PROVE  /\ LastSeq(S) \in Nat /\ LastSeq(T) \in Nat /\ LastSeq(S) <= LastSeq(T)
         /\ \A e \in T : e.seq \in Nat
<1>1. PICK n \in Nat : Numbered(S, 0, n)
  BY DEF Whole0
<1>2. PICK m \in Nat : Numbered(T, 0, m)
  BY DEF Whole0
<1>3. LastSeq(S) = n /\ LastSeq(T) = m
  BY <1>1, <1>2, LastOfNumbered
<1>4. n <= m
  <2>1. CASE n = 0
    BY <2>1
  <2>2. CASE n # 0
    <3>1. PICK e \in S : e.seq = n
      BY <1>1, <2>2 DEF Numbered, Seqs
    <3> QED  BY <1>2, <3>1 DEF Grows, Numbered, Seqs
  <2> QED  BY <2>1, <2>2
<1> QED  BY <1>2, <1>3, <1>4, NumberedFacts

LEMMA GrowsOn ==
  ASSUME NEW S, NEW T, NEW U, Whole0(S), Whole0(T), Whole0(U), Grows(S, T), Grows(T, U)
  PROVE  Grows(S, U)
<1>1. PICK n \in Nat : Numbered(S, 0, n)
  BY DEF Whole0
<1>2. PICK m \in Nat : Numbered(T, 0, m)
  BY DEF Whole0
<1>3. LastSeq(S) = n /\ LastSeq(T) = m
  BY <1>1, <1>2, LastOfNumbered
<1>4. n <= m
  BY <1>3, LastGrows
<1>5. ASSUME NEW e \in U \ S
      PROVE  n < e.seq
  <2>1. CASE e \in T
    BY <1>3, <1>5, <2>1 DEF Grows
  <2>2. CASE e \notin T
    <3>1. m < e.seq
      BY <1>3, <1>5, <2>2 DEF Grows
    <3>2. e.seq \in Nat
      BY <1>5 DEF Whole0, Numbered, Seqs
    <3> QED  BY <1>4, <3>1, <3>2
  <2> QED  BY <2>1, <2>2
<1> QED  BY <1>3, <1>5 DEF Grows

LEMMA CoreLogNumbered ==
  ASSUME EventsTypeOK, NEW r \in Runs
  PROVE  Numbered(CoreLog(r), 0, emitted[r])
<1>1. emitted[r] \in Nat
  BY LimitsAssumption DEF EventsTypeOK
<1>2. \A e \in CoreLog(r) : e.seq \in 1..emitted[r]
  BY DEF CoreLog
<1>3. ASSUME NEW x \in 1..emitted[r]
      PROVE  \E e \in CoreLog(r) : e.seq = x
  <2> DEFINE e == [seq |-> x, kind |-> IF x = emitted[r] /\ core[r] \in CoreTerminal
                                       THEN core[r] ELSE "progress"]
  <2>1. e \in CoreLog(r) /\ e.seq = x
    BY DEF CoreLog
  <2> QED  BY <2>1
<1>4. \A e, f \in CoreLog(r) : e.seq = f.seq => e = f
  BY DEF CoreLog
<1> QED  BY <1>1, <1>2, <1>3, <1>4, NumberedFacts

-----------------------------------------------------------------------------
(* The composition is a life cycle.                                        *)

LEMMA EventsAreLifecycle == [EventsNext]_allVars => [Next]_vars
<1> SUFFICES ASSUME [EventsNext]_allVars
             PROVE  [Next]_vars
  OBVIOUS
<1>1. CASE LogStep
  <2>1. ASSUME NEW r \in Runs, WorkerEvents(r)
        PROVE  Execution(r)
    BY <2>1 DEF WorkerEvents, SubmitEvents, PollEvents, SuccessEvents, ErrorEvents,
                QuietExecution, Execution
  <2>2. ASSUME NEW r \in Runs, CoreStartEvents(r) \/ CoreEndEvents(r)
        PROVE  CoreStep(r)
    BY <2>2 DEF CoreStartEvents, CoreEndEvents, CoreStep
  <2>3. ASSUME NEW r \in Runs, CoreRecords(r)
        PROVE  UNCHANGED vars
    BY <2>3 DEF CoreRecords
  <2>4. ASSUME NEW c \in Cancellers, NEW r \in Runs,
               CancelEvents(c, r) \/ CancelQueuedEvents(c, r)
        PROVE  Cancellation(c)
    BY <2>4 DEF CancelEvents, CancelQueuedEvents, Cancellation
  <2> QED  BY <1>1, <2>1, <2>2, <2>3, <2>4
           DEF LogStep, StartupEvents, EndOfRequests, Cancellation, Next
<1> QED  BY <1>1 DEF EventsNext, LoseConnections, Next, allVars

\* Every behaviour of the event log is one of RunLifecycle, whose theorems
\* therefore hold of it.
THEOREM EventsImplyLifecycle == EventsSpec => Spec
<1>1. EventsInit => Init
  BY DEF EventsInit
<1> QED  BY <1>1, EventsAreLifecycle, PTL DEF EventsSpec, Spec

-----------------------------------------------------------------------------
(* The log.                                                                *)

\* How much an execution can have recorded.
EmittedAt(r) ==
  /\ core[r] = "none" => emitted[r] = 0
  /\ core[r] = "queued" => emitted[r] <= 1
  /\ core[r] \in {"running", "cancellation_requested"} => emitted[r] <= MaxEvents - 1

\* The worker has made its last write.
Past(r) == worker[r] \in AfterWrite \union {"done"}

Closed(r) ==
  /\ CoreLog(r) \subseteq stored[r]
  /\ \E e \in stored[r] : e.kind = "output" /\ e.seq = LastSeq(stored[r])

LogInv(r) ==
  /\ Whole0(stored[r])
  /\ EmittedAt(r)
  /\ ~Past(r) => stored[r] \subseteq CoreLog(r)
  /\ MaxEvents <= FinalLimit /\ status[r] = "completed" => Closed(r)

\* Unless somebody asks to cancel it, a Run that is not active has seen its
\* last event.
Over(r) == Past(r) \/ (worker[r] = "idle" /\ sub[r] = "done")
AskedInv(r) == r \notin asked /\ status[r] = "cancelled" => Over(r)
CancelsAreAsked ==
  \A k \in Cancellers : cancel[k] # Idle => cancel[k].run \in asked
Quiet(r) == r \notin asked /\ status[r] \notin ActiveStatus /\ sub[r] # "none"

LEMMA QuietIsOver ==
  ASSUME IInv, NEW r \in Runs, AskedInv(r), Quiet(r)
  PROVE  Over(r)
BY DEF IInv, TypeOK, RunInv, StatusAt, SubmitterAt, AskedInv, Quiet, Over, Past,
       ActiveStatus, TerminalStatus, Status, WorkerStep, Executing, BeforeCore, WithCore,
       AfterWrite, SubStep

\* A step of the system, seen from its events.
LogMoves ==
  \/ LogStep
  \/ (Crash \/ FinishShutdown) /\ UNCHANGED logVars
  \/ UNCHANGED <<vars, logVars>>

LEMMA LogMovesAre ==
  ASSUME [EventsNext]_allVars
  PROVE  LogMoves
BY DEF EventsNext, LogMoves, LoseConnections, allVars, clientVars

\* What a step does to Core's log of a Run.
LEMMA EmitStep ==
  ASSUME EventsTypeOK, IInv, LogMoves, NEW r \in Runs, EmittedAt(r)
  PROVE  /\ emitted'[r] \in 0..MaxEvents
         /\ EmittedAt(r)'
         /\ \/ core'[r] = core[r] /\ emitted'[r] = emitted[r]
            \/ /\ core[r] \notin CoreTerminal
               /\ emitted[r] <= emitted'[r]
               /\ emitted'[r] = emitted[r] => core'[r] \notin CoreTerminal
<1> USE LimitsAssumption DEF EventsTypeOK, TypeOK, EmittedAt
<1>1. emitted[r] \in 0..MaxEvents
  OBVIOUS
<1>2. ASSUME core'[r] = core[r], emitted'[r] = emitted[r]
      PROVE  EmittedAt(r)'
  BY <1>2
<1>3. ASSUME NEW q \in Runs, SubmitEvents(q)
      PROVE  \/ core'[r] = core[r] /\ emitted'[r] = emitted[r]
             \/ core[r] = "none" /\ core'[r] = "queued" /\ emitted'[r] = emitted[r] + 1
  <2>1. core[q] = "none" /\ q \in Runs
    BY <1>3 DEF SubmitEvents, SubmitToCore, WorkerMoves, IInv, RunInv, CoreAt, BeforeCore
  <2>2. CASE core' = [core EXCEPT ![q] = "queued"]
    BY <1>3, <2>1, <2>2 DEF SubmitEvents, Emits
  <2>3. CASE UNCHANGED core
    BY <1>3, <2>3 DEF SubmitEvents, Emits
  <2> QED  BY <1>3, <2>2, <2>3 DEF SubmitEvents, SubmitToCore
<1>4. ASSUME NEW q \in Runs, CoreStartEvents(q) \/ CoreEndEvents(q)
      PROVE  \/ core'[r] = core[r] /\ emitted'[r] = emitted[r]
             \/ /\ emitted'[r] = emitted[r] + 1
                /\ \/ core[r] = "queued" /\ core'[r] = "running"
                   \/ core[r] \in {"running", "cancellation_requested"}
                        /\ core'[r] \in CoreTerminal
  BY <1>4 DEF CoreStartEvents, CoreEndEvents, CoreStarts, CoreEnds, Emits,
              CoreTerminal
<1>5. ASSUME NEW q \in Runs, CoreRecords(q)
      PROVE  \/ core'[r] = core[r] /\ emitted'[r] = emitted[r]
             \/ /\ core[r] \in {"running", "cancellation_requested"} /\ core'[r] = core[r]
                /\ emitted'[r] = emitted[r] + 1 /\ emitted[r] < MaxEvents - 1
  BY <1>5 DEF CoreRecords, Emits, vars
<1>6. ASSUME NEW c \in Cancellers, NEW q \in Runs, CancelEvents(c, q)
      PROVE  \/ core'[r] = core[r] /\ emitted'[r] = emitted[r]
             \/ core[r] = "queued" /\ core'[r] = "cancelled" /\ emitted'[r] = emitted[r] + 1
             \/ core[r] = "running" /\ core'[r] = "cancellation_requested"
                  /\ emitted'[r] = emitted[r]
  BY <1>6 DEF CancelEvents, CancelThroughCore, CoreAfterCancel, Emits, CoreTerminal
<1>7. ASSUME Crash \/ FinishShutdown, UNCHANGED logVars
      PROVE  /\ emitted'[r] = emitted[r]
             /\ core'[r] = core[r] \/ (core[r] \in CoreLive /\ core'[r] = "lost")
  <2>1. LoseProcess
    BY <1>7 DEF Crash, FinishShutdown
  <2>2. core' = [q \in Runs |-> IF core[q] \in CoreLive THEN "lost" ELSE core[q]]
    BY <2>1 DEF LoseProcess
  <2>3. emitted' = emitted
    BY <1>7 DEF logVars
  <2> QED  BY <2>2, <2>3
<1>8. ASSUME NEW q \in Runs, PollEvents(q) \/ SuccessEvents(q) \/ ErrorEvents(q)
               \/ (QuietExecution(q) /\ UNCHANGED logVars)
               \/ (Submission(q) /\ UNCHANGED logVars)
      PROVE  UNCHANGED <<core, emitted>>
  BY <1>8 DEF PollEvents, SuccessEvents, ErrorEvents, QuietExecution, PickUp, ReadRow,
              MarkRunning, Build, FinishBuildFailure, RefreshRow, PollTimeout, PollRaises,
              Harvest, Release, Deliver, Return, PollWrite, FinishSuccess, FinishError,
              Submission, Prepare, Invoke, Enqueue, Refuse, Discard, logVars
<1>9. ASSUME \/ \E c \in Cancellers, q \in Runs : CancelQueuedEvents(c, q)
             \/ StartupEvents
             \/ (\E c \in Cancellers : CancelCommit(c)) /\ UNCHANGED logVars
             \/ EndOfRequests /\ UNCHANGED logVars
             \/ UNCHANGED <<vars, logVars>>
      PROVE  UNCHANGED <<core, emitted>>
  BY <1>9 DEF CancelQueuedEvents, CancelQueued, StartupEvents, Startup, CancelCommit,
              EndOfRequests, BeginShutdown, logVars, vars
<1>10. \/ core'[r] = core[r] /\ emitted'[r] = emitted[r]
       \/ core[r] = "none" /\ core'[r] = "queued" /\ emitted'[r] = emitted[r] + 1
       \/ /\ emitted'[r] = emitted[r] + 1
          /\ \/ core[r] = "queued" /\ core'[r] \in {"running", "cancelled"}
             \/ core[r] \in {"running", "cancellation_requested"} /\ core'[r] \in CoreTerminal
       \/ /\ core[r] \in {"running", "cancellation_requested"} /\ core'[r] = core[r]
          /\ emitted'[r] = emitted[r] + 1 /\ emitted[r] < MaxEvents - 1
       \/ core[r] = "running" /\ core'[r] = "cancellation_requested" /\ emitted'[r] = emitted[r]
       \/ core[r] \in CoreLive /\ core'[r] = "lost" /\ emitted'[r] = emitted[r]
  BY <1>3, <1>4, <1>5, <1>6, <1>7, <1>8, <1>9 DEF LogMoves, LogStep, WorkerEvents
<1> QED  BY <1>1, <1>2, <1>10 DEF CoreTerminal, CoreLive

\* Core never takes back what it has recorded.
LEMMA CoreLogKept ==
  ASSUME EventsTypeOK, IInv, LogMoves, NEW r \in Runs, EmittedAt(r)
  PROVE  CoreLog(r) \subseteq CoreLog(r)'
<1>1. emitted[r] \in Nat /\ emitted'[r] \in Nat
  BY EmitStep, LimitsAssumption DEF EventsTypeOK
<1>2. CASE core'[r] = core[r] /\ emitted'[r] = emitted[r]
  BY <1>2 DEF CoreLog
<1>3. CASE /\ core[r] \notin CoreTerminal /\ emitted[r] <= emitted'[r]
           /\ emitted'[r] = emitted[r] => core'[r] \notin CoreTerminal
  <2> SUFFICES ASSUME NEW n \in 1..emitted[r]
               PROVE  [seq |-> n, kind |-> "progress"] \in CoreLog(r)'
    BY <1>3 DEF CoreLog
  <2>1. n \in 1..emitted'[r] /\ (n = emitted'[r] => core'[r] \notin CoreTerminal)
    BY <1>1, <1>3
  <2> QED  BY <2>1 DEF CoreLog
<1> QED  BY <1>2, <1>3, EmitStep

\* The writes of a step to the log of one Run.
LEMMA StoreStep ==
  ASSUME EventsTypeOK, IInv, LogMoves, NEW r \in Runs
  PROVE  \/ stored'[r] = stored[r]
         \/ /\ worker[r] \in {"tick", "success", "error"} /\ stored'[r] \in {Polled(r), Finalised(r)}
            /\ ~(status'[r] = "completed")
         \/ /\ worker[r] = "success" /\ worker'[r] = "release" /\ status'[r] = "completed"
            /\ core'[r] = core[r] /\ emitted'[r] = emitted[r]
            /\ stored'[r] = Append(Finalised(r), "output")
         \/ /\ Startup /\ status[r] \in ActiveStatus /\ status'[r] = "failed"
            /\ stored'[r] = Append(stored[r], "failed")
<1> USE DEF EventsTypeOK, TypeOK
<1>1. ASSUME NEW q \in Runs, PollEvents(q)
      PROVE  \/ stored'[r] = stored[r]
             \/ /\ worker[r] = "tick" /\ stored'[r] = Polled(r)
                /\ ~(status'[r] = "completed")
  <2>1. q = r => worker[r] = "tick" /\ ~(status'[r] = "completed")
    BY <1>1 DEF PollEvents, PollWrite, WorkerMoves, SetStatus, Cancelling
  <2> QED  BY <1>1, <2>1 DEF PollEvents, Stores
<1>2. ASSUME NEW q \in Runs, SuccessEvents(q)
      PROVE  \/ stored'[r] = stored[r]
             \/ /\ worker[r] = "success" /\ stored'[r] = Finalised(r)
                /\ ~(status'[r] = "completed")
             \/ /\ worker[r] = "success" /\ worker'[r] = "release" /\ status'[r] = "completed"
                /\ core'[r] = core[r] /\ emitted'[r] = emitted[r]
                /\ stored'[r] = Append(Finalised(r), "output")
  <2>1. q = r => /\ worker[r] = "success" /\ worker'[r] = "release"
                 /\ UNCHANGED <<core, emitted>>
    BY <1>2 DEF SuccessEvents, FinishSuccess, WorkerMoves
  <2> QED  BY <1>2, <2>1 DEF SuccessEvents, Stores
<1>3. ASSUME NEW q \in Runs, ErrorEvents(q)
      PROVE  \/ stored'[r] = stored[r]
             \/ /\ worker[r] = "error" /\ stored'[r] = Finalised(r)
                /\ ~(status'[r] = "completed")
  <2>1. q = r => worker[r] = "error" /\ ~(status'[r] = "completed")
    BY <1>3 DEF ErrorEvents, FinishError, WorkerMoves, SetStatus
  <2> QED  BY <1>3, <2>1 DEF ErrorEvents, Stores
<1>4. ASSUME StartupEvents
      PROVE  \/ stored'[r] = stored[r]
             \/ /\ Startup /\ status[r] \in ActiveStatus /\ status'[r] = "failed"
                /\ stored'[r] = Append(stored[r], "failed")
  BY <1>4 DEF StartupEvents, Startup
<1>5. ASSUME UNCHANGED stored
      PROVE  stored'[r] = stored[r]
  BY <1>5
<1> QED  BY <1>1, <1>2, <1>3, <1>4, <1>5
         DEF LogMoves, LogStep, WorkerEvents, SubmitEvents, CoreStartEvents, CoreEndEvents,
             CoreRecords, CancelEvents, CancelQueuedEvents, logVars

\* What is copied from Core is a stretch of Core's log.
LEMMA CopiedGrows ==
  ASSUME EventsTypeOK, NEW r \in Runs, Whole0(stored[r]), NEW S \in {Polled(r), Finalised(r)}
  PROVE  /\ Whole0(S) /\ Grows(stored[r], S)
         /\ S \subseteq stored[r] \union CoreLog(r)
<1>1. PICK n \in Nat : Numbered(stored[r], 0, n)
  BY DEF Whole0
<1>2. emitted[r] \in Nat /\ Numbered(CoreLog(r), 0, emitted[r])
  BY CoreLogNumbered, LimitsAssumption DEF EventsTypeOK
<1>3. PollLimit \in Nat /\ FinalLimit \in Nat
  BY LimitsAssumption
<1>4. First(PollLimit, After(CoreLog(r), n))
        = {e \in CoreLog(r) : n < e.seq /\ e.seq <= n + PollLimit}
  <2>1. Numbered(After(CoreLog(r), n), n, emitted[r])
    BY <1>2, AfterOfNumbered
  <2>2. First(PollLimit, After(CoreLog(r), n))
          = {e \in After(CoreLog(r), n) : e.seq <= n + PollLimit}
    BY <1>2, <1>3, <2>1, FirstOfNumbered
  <2> QED  BY <2>2 DEF After
<1>5. First(FinalLimit, CoreLog(r)) = {e \in CoreLog(r) : 0 < e.seq /\ e.seq <= FinalLimit}
  <2>1. First(FinalLimit, CoreLog(r)) = {e \in CoreLog(r) : e.seq <= 0 + FinalLimit}
    BY <1>2, <1>3, FirstOfNumbered
  <2>2. \A e \in CoreLog(r) : 0 < e.seq
    BY <1>2, NumberedFacts
  <2> QED  BY <1>3, <2>1, <2>2
<1>6. CASE S = Polled(r)
  <2> DEFINE P == First(PollLimit, After(CoreLog(r), n))
  <2>1. S = Ingest(stored[r], P)
    BY <1>1, <1>6, LastOfNumbered DEF Polled
  <2>2. n + PollLimit \in Nat
    BY <1>3
  <2> HIDE DEF P
  <2>3. Whole0(Ingest(stored[r], P)) /\ Grows(stored[r], Ingest(stored[r], P))
    BY <1>1, <1>2, <1>4, <2>2, IngestGrows DEF P
  <2> QED  BY <1>4, <2>1, <2>3 DEF Ingest, P
<1>7. CASE S = Finalised(r)
  <2> DEFINE P == First(FinalLimit, CoreLog(r))
  <2>1. S = Ingest(stored[r], P)
    BY <1>7 DEF Finalised
  <2> HIDE DEF P
  <2>2. Whole0(Ingest(stored[r], P)) /\ Grows(stored[r], Ingest(stored[r], P))
    BY <1>1, <1>2, <1>3, <1>5, IngestGrows DEF P
  <2> QED  BY <1>5, <2>1, <2>2 DEF Ingest, P
<1> QED  BY <1>6, <1>7

-----------------------------------------------------------------------------
(* The inductive invariant.                                                *)

\* What the server has read for a client and not yet sent follows its cursor
\* without a gap.
PageInv(c, log) ==
  \E p \in Nat :
    /\ p <= LastSeq(log)
    /\ page[c] = Stretch(log, cursor[c], p)

\* What the server has read of a Run that may yet be cancelled, it may not
\* rely on; of any other, it is final.
StreamInv(c, r) ==
  /\ at[c] \in {"latest", "send"} /\ closing[c] => Quiet(r)
  /\ at[c] = "send" /\ closing[c] => latest[c] = LastSeq(stored[r])
  /\ at[c] = "closed" => Quiet(r) /\ cursor[c] = LastSeq(stored[r])

FollowInv(c, r) ==
  /\ r \in Runs /\ sub[r] # "none"
  /\ cursor[c] \in Nat /\ cursor[c] <= LastSeq(stored[r])
  /\ seen[c] = {e \in stored[r] : e.seq <= cursor[c]}
  /\ PageInv(c, stored[r])
  /\ at[c] \in {"rows", "off", "closed"} => page[c] = {}
  /\ r \notin asked => StreamInv(c, r)

ClientInv(c) ==
  /\ at[c] = "new" => cursor[c] = 0 /\ seen[c] = {} /\ page[c] = {}
  /\ at[c] # "new" => FollowInv(c, follows[c])

EInv ==
  /\ EventsTypeOK
  /\ IInv
  /\ \A r \in Runs : LogInv(r) /\ AskedInv(r)
  /\ CancelsAreAsked
  /\ \A c \in Clients : ClientInv(c)

-----------------------------------------------------------------------------
(* Threads and requests, as the log depends on them.                       *)

\* A worker that has made its last write makes no other, and a Run that is
\* submitted stays so.
ThreadMoves(r) ==
  /\ Past(r) => Past(r)'
  /\ worker[r] = "idle" /\ sub[r] = "done" => Over(r)'
  /\ sub[r] # "none" => sub'[r] # "none"

LEMMA ThreadStep ==
  ASSUME IInv, [Next]_vars, NEW r \in Runs
  PROVE  ThreadMoves(r)
<1> USE DEF IInv, TypeOK, RunInv, SubmitterAt, ThreadMoves, Over, Past, AfterWrite
<1>1. ASSUME NEW q \in Runs, Submission(q)
      PROVE  ThreadMoves(r)
  BY <1>1 DEF Submission, Prepare, Invoke, Enqueue, Refuse, Discard
<1>2. ASSUME NEW q \in Runs, Execution(q)
      PROVE  ThreadMoves(r)
  <2>1. UNCHANGED sub
    BY <1>2 DEF Execution, PickUp, ReadRow, MarkRunning, Build, FinishBuildFailure,
                RefreshRow, SubmitToCore, PollTimeout, PollWrite, PollRaises, Harvest,
                FinishSuccess, FinishError, Release, Deliver, Return
  <2>2. worker[q] # "idle" /\ (Past(q) => worker'[q] \in AfterWrite \union {"done"})
        /\ \A x \in Runs : x # q => worker'[x] = worker[x]
    BY <1>2 DEF Execution, PickUp, ReadRow, MarkRunning, Build, FinishBuildFailure,
                RefreshRow, SubmitToCore, PollTimeout, PollWrite, PollRaises, Harvest,
                FinishSuccess, FinishError, Release, Deliver, Return, WorkerMoves
  <2> QED  BY <2>1, <2>2
<1>3. CASE LoseProcess
  BY <1>3 DEF LoseProcess
<1>4. CASE UNCHANGED <<sub, worker>>
  BY <1>4
<1> QED  BY <1>1, <1>2, <1>3, <1>4
         DEF Next, Cancellation, CancelQueued, CancelThroughCore, CancelCommit, CoreStep,
             CoreStarts, CoreEnds, Crash, BeginShutdown, FinishShutdown, Startup, vars

\* The row of a withdrawn submission does not come back.
LEMMA WithdrawnStays ==
  ASSUME IInv, [Next]_vars, NEW r \in Runs, status[r] = "absent", sub[r] # "none"
  PROVE  status'[r] # "pending"
<1> USE DEF IInv, TypeOK, SetStatus
<1>1. ASSUME NEW q \in Runs, Submission(q)
      PROVE  status'[r] # "pending"
  BY <1>1 DEF Submission, Prepare, Invoke, Enqueue, Refuse, Discard
<1>2. ASSUME NEW q \in Runs, Execution(q)
      PROVE  status'[r] # "pending"
  BY <1>2 DEF Execution, PickUp, ReadRow, MarkRunning, Build, FinishBuildFailure,
              RefreshRow, SubmitToCore, PollTimeout, PollWrite, PollRaises, Harvest,
              FinishSuccess, FinishError, Release, Deliver, Return, Cancelling
<1>3. ASSUME NEW c \in Cancellers, Cancellation(c)
      PROVE  status'[r] # "pending"
  BY <1>3 DEF Cancellation, CancelQueued, CancelThroughCore, CancelCommit, CancellerInv
<1>4. CASE Startup
  BY <1>4 DEF Startup, ActiveStatus
<1>5. CASE UNCHANGED status
  BY <1>5
<1> QED  BY <1>1, <1>2, <1>3, <1>4, <1>5
         DEF Next, CoreStep, CoreStarts, CoreEnds, Crash, BeginShutdown,
             FinishShutdown, vars

\* A Run is cancelled at somebody's request, by its worker's last write, or
\* by the caller that was refused.
LEMMA CancelledStep ==
  ASSUME EventsTypeOK, IInv, LogMoves, CancelsAreAsked,
         NEW r \in Runs, status[r] # "cancelled", status'[r] = "cancelled"
  PROVE  r \in asked' \/ Over(r)'
<1> USE DEF EventsTypeOK, IInv, TypeOK, RunInv, SetStatus, Over, Past, AfterWrite
<1>1. ASSUME NEW q \in Runs, Submission(q)
      PROVE  Over(r)'
  BY <1>1 DEF Submission, Prepare, Invoke, Enqueue, Refuse, Discard, SubmitterAt
<1>2. ASSUME NEW q \in Runs, WorkerEvents(q)
      PROVE  Over(r)'
  <2>1. Execution(q)
    BY <1>2 DEF WorkerEvents, SubmitEvents, PollEvents, SuccessEvents, ErrorEvents,
                QuietExecution, Execution
  <2>2. CASE FinishBuildFailure(q) \/ FinishSuccess(q) \/ FinishError(q)
    <3>1. worker'[q] \in AfterWrite /\ (q # r => status'[r] = status[r])
      BY <2>2 DEF FinishBuildFailure, FinishSuccess, FinishError, WorkerMoves
    <3> QED  BY <3>1
  <2>3. CASE MarkRunning(q) \/ PollWrite(q)
    <3>1. status'[r] \in {status[r], "running", "cancellation_requested"}
      BY <2>3 DEF MarkRunning, PollWrite, Cancelling
    <3> QED  BY <3>1
  <2>4. CASE UNCHANGED status
    BY <2>4
  <2> QED  BY <2>1, <2>2, <2>3, <2>4
           DEF Execution, PickUp, ReadRow, Build, RefreshRow, SubmitToCore, PollTimeout,
               PollRaises, Harvest, Release, Deliver, Return
<1>3. ASSUME NEW c \in Cancellers, NEW q \in Runs,
             CancelEvents(c, q) \/ CancelQueuedEvents(c, q)
      PROVE  r \in asked'
  BY <1>3 DEF CancelEvents, CancelQueuedEvents, CancelThroughCore, CancelQueued
<1>4. ASSUME NEW c \in Cancellers, CancelCommit(c), UNCHANGED logVars
      PROVE  r \in asked'
  BY <1>4 DEF CancelCommit, CancelsAreAsked, logVars
<1>5. CASE Startup
  BY <1>5 DEF Startup
<1>6. CASE UNCHANGED status
  BY <1>6
<1> QED  BY <1>1, <1>2, <1>3, <1>4, <1>5, <1>6
         DEF LogMoves, LogStep, CoreStartEvents, CoreEndEvents, CoreRecords, CoreStarts,
             CoreEnds, StartupEvents, EndOfRequests, BeginShutdown, Crash,
             FinishShutdown, vars

LEMMA AskedGrows ==
  ASSUME EventsTypeOK, LogMoves
  PROVE  asked \subseteq asked' /\ asked' \subseteq Runs
BY DEF EventsTypeOK, LogMoves, LogStep, WorkerEvents, SubmitEvents, PollEvents,
       SuccessEvents, ErrorEvents, CoreStartEvents, CoreEndEvents, CoreRecords,
       CancelEvents, CancelQueuedEvents, StartupEvents, logVars

LEMMA CancelsStep ==
  ASSUME EventsTypeOK, LogMoves, CancelsAreAsked
  PROVE  CancelsAreAsked'
<1> USE DEF EventsTypeOK, TypeOK, CancelsAreAsked
<1>1. ASSUME NEW c \in Cancellers, NEW r \in Runs, CancelEvents(c, r)
      PROVE  CancelsAreAsked'
  <2>1. cancel'[c].run = r /\ \A k \in Cancellers : k # c => cancel'[k] = cancel[k]
    BY <1>1 DEF CancelEvents, CancelThroughCore
  <2> QED  BY <1>1, <2>1 DEF CancelEvents
<1>2. ASSUME NEW c \in Cancellers, CancelCommit(c), UNCHANGED logVars
      PROVE  CancelsAreAsked'
  BY <1>2 DEF CancelCommit, logVars
<1>3. CASE Crash \/ FinishShutdown
  BY <1>3 DEF Crash, FinishShutdown, LoseProcess
<1>4. CASE UNCHANGED cancel
  BY <1>4, AskedGrows
<1>5. ASSUME NEW r \in Runs, QuietExecution(r) \/ Submission(r)
      PROVE  UNCHANGED cancel
  BY <1>5 DEF QuietExecution, PickUp, ReadRow, MarkRunning, Build, FinishBuildFailure,
              RefreshRow, PollTimeout, PollRaises, Harvest, Release, Deliver, Return,
              Submission, Prepare, Invoke, Enqueue, Refuse, Discard
<1>6. ASSUME NEW r \in Runs, SubmitEvents(r) \/ PollEvents(r) \/ SuccessEvents(r)
                              \/ ErrorEvents(r) \/ CoreStartEvents(r)
                              \/ CoreEndEvents(r) \/ CoreRecords(r)
      PROVE  UNCHANGED cancel
  BY <1>6 DEF SubmitEvents, PollEvents, SuccessEvents, ErrorEvents, SubmitToCore,
              PollWrite, FinishSuccess, FinishError, CoreStartEvents, CoreEndEvents,
              CoreRecords, CoreStarts, CoreEnds, vars
<1>7. ASSUME \/ \E c \in Cancellers, r \in Runs : CancelQueuedEvents(c, r)
             \/ StartupEvents \/ EndOfRequests \/ UNCHANGED vars
      PROVE  UNCHANGED cancel
  BY <1>7 DEF CancelQueuedEvents, CancelQueued, StartupEvents, Startup, EndOfRequests,
              BeginShutdown, vars
<1> QED  BY <1>1, <1>2, <1>3, <1>4, <1>5, <1>6, <1>7 DEF LogMoves, LogStep, WorkerEvents

LEMMA AskedStep ==
  ASSUME EventsTypeOK, IInv, LogMoves, [Next]_vars, CancelsAreAsked,
         NEW r \in Runs, AskedInv(r)
  PROVE  AskedInv(r)'
<1> SUFFICES ASSUME r \notin asked', status'[r] = "cancelled"
             PROVE  Over(r)'
  BY DEF AskedInv
<1>1. CASE status[r] = "cancelled"
  <2>1. Over(r)
    BY <1>1, AskedGrows DEF AskedInv
  <2> QED  BY <2>1, ThreadStep DEF ThreadMoves, Over
<1>2. CASE status[r] # "cancelled"
  BY <1>2, CancelledStep
<1> QED  BY <1>1, <1>2

\* What is over stays as it is, as long as nobody asks to cancel it.
LEMMA QuietStays ==
  ASSUME EventsTypeOK, IInv, LogMoves, [Next]_vars,
         NEW r \in Runs, AskedInv(r), Quiet(r), r \notin asked'
  PROVE  Quiet(r)' /\ stored'[r] = stored[r]
<1>1. Over(r)
  BY QuietIsOver
<1>2. status[r] \notin ActiveStatus /\ sub[r] # "none"
  BY DEF Quiet
<1>3. /\ worker[r] \notin {"claim", "tick", "success", "error"}
      /\ sub[r] # "refused"
  BY <1>1 DEF Over, Past, AfterWrite, IInv, RunInv, SubmitterAt
<1>4. stored'[r] = stored[r]
  BY <1>2, <1>3, StoreStep
<1>5. status'[r] = status[r]
  <2>1. CASE Startup
    BY <1>2, <2>1 DEF Startup, IInv, TypeOK
  <2>2. CASE ~ Startup
    BY <1>2, <1>3, <2>2, StatusStep, WithdrawnStays DEF StatusMoves, ActiveStatus
  <2> QED  BY <2>1, <2>2
<1>6. sub'[r] # "none"
  BY <1>2, ThreadStep DEF ThreadMoves
<1> QED  BY <1>2, <1>4, <1>5, <1>6 DEF Quiet

-----------------------------------------------------------------------------
(* A step and the log of one Run.                                          *)

\* A Run is completed by the transaction that takes the rest of Core's log.
LEMMA CompletedStep ==
  ASSUME EventsTypeOK, IInv, LogMoves,
         NEW r \in Runs, status[r] # "completed", status'[r] = "completed"
  PROVE  /\ worker[r] = "success"
         /\ core'[r] = core[r] /\ emitted'[r] = emitted[r]
         /\ stored'[r] = Append(Finalised(r), "output")
<1> USE DEF EventsTypeOK, IInv, TypeOK, SetStatus
<1>1. ASSUME NEW q \in Runs, SuccessEvents(q)
      PROVE  /\ worker[r] = "success"
             /\ core'[r] = core[r] /\ emitted'[r] = emitted[r]
             /\ stored'[r] = Append(Finalised(r), "output")
  <2>1. q = r
    BY <1>1 DEF SuccessEvents, FinishSuccess
  <2> QED  BY <1>1, <2>1 DEF SuccessEvents, FinishSuccess, WorkerMoves, Stores
<1>2. ASSUME NEW q \in Runs, Execution(q), ~ FinishSuccess(q)
      PROVE  FALSE
  BY <1>2 DEF Execution, PickUp, ReadRow, MarkRunning, Build, FinishBuildFailure,
              RefreshRow, SubmitToCore, PollTimeout, PollWrite, PollRaises, Harvest,
              FinishError, Release, Deliver, Return, Cancelling, WorkerMoves
<1>3. ASSUME NEW q \in Runs, WorkerEvents(q), ~ SuccessEvents(q)
      PROVE  FALSE
  <2>1. Execution(q) /\ ~ FinishSuccess(q)
    BY <1>3 DEF WorkerEvents, SubmitEvents, PollEvents, SuccessEvents, ErrorEvents,
                QuietExecution, Execution, SubmitToCore, PollWrite, FinishSuccess,
                FinishError, PickUp, ReadRow, MarkRunning, Build, FinishBuildFailure,
                RefreshRow, PollTimeout, PollRaises, Harvest, Release, Deliver, Return,
                WorkerMoves
  <2> QED  BY <1>2, <2>1
<1>4. ASSUME NEW q \in Runs, Submission(q)
      PROVE  FALSE
  BY <1>4 DEF Submission, Prepare, Invoke, Enqueue, Refuse, Discard
<1>5. ASSUME NEW c \in Cancellers, Cancellation(c)
      PROVE  FALSE
  BY <1>5 DEF Cancellation, CancelQueued, CancelThroughCore, CancelCommit, CancellerInv
<1>6. ASSUME NEW c \in Cancellers, NEW q \in Runs,
             CancelEvents(c, q) \/ CancelQueuedEvents(c, q)
      PROVE  FALSE
  BY <1>5, <1>6 DEF CancelEvents, CancelQueuedEvents, Cancellation
<1>7. ASSUME Startup
      PROVE  FALSE
  BY <1>7 DEF Startup
<1>8. status' # status
  OBVIOUS
<1> QED  BY <1>1, <1>3, <1>4, <1>5, <1>6, <1>7, <1>8
         DEF LogMoves, LogStep, CoreStartEvents, CoreEndEvents, CoreRecords, CoreStarts,
             CoreEnds, StartupEvents, EndOfRequests, BeginShutdown, Cancellation, Crash,
             FinishShutdown, vars

\* When the final page holds Core's whole log, the final transaction closes
\* the Run with it.
LEMMA FinalClosed ==
  ASSUME EventsTypeOK, MaxEvents <= FinalLimit, NEW r \in Runs,
         Whole0(stored[r]), stored[r] \subseteq CoreLog(r),
         NEW S, S = Append(Finalised(r), "output")
  PROVE  CoreLog(r) \subseteq S /\ \E e \in S : e.kind = "output" /\ e.seq = LastSeq(S)
<1> DEFINE F == Finalised(r)
<1>1. emitted[r] \in Nat /\ emitted[r] <= FinalLimit /\ FinalLimit \in Nat
  BY LimitsAssumption DEF EventsTypeOK
<1>2. Numbered(CoreLog(r), 0, emitted[r])
  BY CoreLogNumbered
<1>3. First(FinalLimit, CoreLog(r)) = CoreLog(r)
  <2>1. First(FinalLimit, CoreLog(r)) = {e \in CoreLog(r) : e.seq <= 0 + FinalLimit}
    BY <1>1, <1>2, FirstOfNumbered
  <2>2. \A e \in CoreLog(r) : e.seq \in 1..emitted[r]
    BY <1>1, <1>2, NumberedFacts
  <2> QED  BY <1>1, <2>1, <2>2
<1>4. CoreLog(r) \subseteq F
  <2> SUFFICES ASSUME NEW e \in CoreLog(r), e.seq \in Seqs(stored[r])
               PROVE  e \in stored[r]
    BY <1>3 DEF Finalised, Ingest
  <2>1. PICK f \in stored[r] : f.seq = e.seq
    BY DEF Seqs
  <2> QED  BY <1>2, <2>1 DEF Numbered
<1>5. Whole0(F) /\ F \subseteq CoreLog(r)
  BY CopiedGrows
<1>6. \A e \in F : e.kind # "output"
  BY <1>5 DEF CoreLog, CoreTerminal
<1> HIDE DEF F
<1> DEFINE new == [seq |-> LastSeq(F) + 1, kind |-> "output"]
<1>7. S = F \union {new}
  BY <1>6 DEF Append, F
<1>8. PICK n \in Nat : Numbered(F, 0, n)
  BY <1>5 DEF Whole0
<1>9. LastSeq(F) = n
  BY <1>8, LastOfNumbered
<1>10. new.seq = n + 1 /\ new.kind = "output"
  BY <1>9
<1>11. PICK m \in Nat : Numbered(S, 0, m)
  BY <1>5, AppendGrows DEF Whole0, F
<1>12. LastSeq(S) = m
  BY <1>11, LastOfNumbered
<1> HIDE DEF new
<1>13. m = n + 1
  <2>1. n + 1 \in 1..m
    BY <1>7, <1>10, <1>11, NumberedFacts
  <2>2. CASE m > n + 1
    <3>1. PICK e \in S : e.seq = m
      BY <1>11, <2>1, NumberedFacts
    <3>2. e \in F
      BY <1>7, <1>10, <2>2, <3>1
    <3> QED  BY <1>8, <2>2, <3>1, <3>2, NumberedFacts
  <2> QED  BY <2>1, <2>2
<1> QED  BY <1>4, <1>7, <1>10, <1>12, <1>13

LEMMA LogStepInv ==
  ASSUME EventsTypeOK, IInv, LogMoves, [Next]_vars, NEW r \in Runs, LogInv(r)
  PROVE  LogInv(r)' /\ Grows(stored[r], stored'[r])
<1>1. Whole0(stored[r]) /\ EmittedAt(r)
  BY DEF LogInv
<1>2. CoreLog(r) \subseteq CoreLog(r)'
  BY <1>1, CoreLogKept
<1>3. worker[r] \in {"tick", "success", "error"} => ~Past(r) /\ status[r] # "completed"
  BY DEF Past, AfterWrite, IInv, RunInv, StatusAt, WithCore
<1>4. Whole0(stored'[r]) /\ Grows(stored[r], stored'[r])
  <2>1. CASE stored'[r] = stored[r]
    BY <1>1, <2>1 DEF Grows
  <2>2. CASE stored'[r] \in {Polled(r), Finalised(r)}
    BY <1>1, <2>2, CopiedGrows
  <2>3. CASE stored'[r] = Append(Finalised(r), "output")
    <3>1. Whole0(Finalised(r)) /\ Grows(stored[r], Finalised(r))
      BY <1>1, CopiedGrows
    <3> QED  BY <1>1, <2>3, <3>1, AppendGrows, GrowsOn
  <2>4. CASE stored'[r] = Append(stored[r], "failed")
    BY <1>1, <2>4, AppendGrows
  <2> QED  BY <2>1, <2>2, <2>3, <2>4, StoreStep
<1>5. EmittedAt(r)'
  BY <1>1, EmitStep
<1>6. ASSUME ~Past(r)'
      PROVE  stored'[r] \subseteq CoreLog(r)'
  <2>1. ~Past(r)
    BY <1>6, ThreadStep DEF ThreadMoves
  <2>2. stored[r] \subseteq CoreLog(r)
    BY <2>1 DEF LogInv
  <2>3. CASE stored'[r] \in {Polled(r), Finalised(r)}
    BY <1>1, <1>2, <2>2, <2>3, CopiedGrows
  <2>4. CASE Startup /\ status[r] \in ActiveStatus
    BY <2>1, <2>4 DEF Startup, Past, IInv, TypeOK, RunInv, PhaseAt, StatusAt,
                      SubmitterAt, SubStep, ActiveStatus
  <2>5. worker'[r] # "release"
    BY <1>6 DEF Past, AfterWrite
  <2> QED  BY <1>2, <2>2, <2>3, <2>4, <2>5, StoreStep
<1>7. ASSUME MaxEvents <= FinalLimit, status'[r] = "completed"
      PROVE  Closed(r)'
  <2>1. CASE status[r] = "completed"
    <3>1. core[r] = "completed"
      BY <2>1 DEF IInv, RunInv, CoreAt
    <3>2. core'[r] = core[r] /\ emitted'[r] = emitted[r]
      BY <1>1, <3>1, EmitStep DEF CoreTerminal
    <3>3. CoreLog(r)' = CoreLog(r)
      BY <3>2 DEF CoreLog
    <3>4. stored'[r] = stored[r]
      BY <1>3, <1>7, <2>1, StoreStep DEF ActiveStatus
    <3> QED  BY <1>7, <2>1, <3>3, <3>4 DEF LogInv, Closed
  <2>2. CASE status[r] # "completed"
    <3>1. /\ worker[r] = "success"
          /\ core'[r] = core[r] /\ emitted'[r] = emitted[r]
          /\ stored'[r] = Append(Finalised(r), "output")
      BY <1>7, <2>2, CompletedStep
    <3>2. CoreLog(r)' = CoreLog(r)
      BY <3>1 DEF CoreLog
    <3>3. stored[r] \subseteq CoreLog(r)
      BY <1>3, <3>1 DEF LogInv
    <3> QED  BY <1>1, <1>7, <3>1, <3>2, <3>3, FinalClosed DEF Closed
  <2> QED  BY <2>1, <2>2
<1> QED  BY <1>4, <1>5, <1>6, <1>7 DEF LogInv

-----------------------------------------------------------------------------
(* A client and its cursor.                                                *)

\* A stretch of the log as one of its prefixes: what a growing log adds lies
\* behind it.
LEMMA StretchKept ==
  ASSUME NEW S, NEW T, Whole0(S), Whole0(T), Grows(S, T),
         NEW b \in Nat, NEW t \in Nat, t <= LastSeq(S)
  PROVE  Stretch(T, b, t) = Stretch(S, b, t)
<1>1. \A e \in T \ S : ~ (e.seq <= t)
  BY LastGrows DEF Grows
<1> QED  BY <1>1 DEF Grows, Stretch

LEMMA PrefixKept ==
  ASSUME NEW S, NEW T, Whole0(S), Whole0(T), Grows(S, T), NEW t \in Nat, t <= LastSeq(S)
  PROVE  {e \in T : e.seq <= t} = {e \in S : e.seq <= t}
<1>1. \A e \in T \ S : ~ (e.seq <= t)
  BY LastGrows DEF Grows
<1> QED  BY <1>1 DEF Grows

\* A stretch that follows the cursor: its numbers, and where the cursor stands
\* when the client has received it.
LEMMA StretchNumbered ==
  ASSUME NEW S, NEW b \in Nat, NEW t \in Nat, Whole0(S), b <= LastSeq(S), t <= LastSeq(S)
  PROVE  \E top \in Nat : /\ top = IF t < b THEN b ELSE t
                         /\ b <= top /\ top <= LastSeq(S) /\ Numbered(Stretch(S, b, t), b, top)
<1> DEFINE P   == Stretch(S, b, t)
           top == IF t < b THEN b ELSE t
<1>1. PICK n \in Nat : Numbered(S, 0, n) /\ LastSeq(S) = n
  BY LastOfNumbered DEF Whole0
<1>2. top \in Nat /\ b <= top /\ top <= n
  BY <1>1
<1>3. Numbered(P, b, top)
  <2>1. \A e \in P : e.seq \in (b + 1)..top
    BY <1>1, <1>2, NumberedFacts DEF Stretch
  <2>2. \A x \in (b + 1)..top : \E e \in P : e.seq = x
    BY <1>1, <1>2, NumberedFacts DEF Stretch
  <2>3. \A e, f \in P : e.seq = f.seq => e = f
    BY <1>1, NumberedFacts DEF Stretch
  <2> HIDE DEF Numbered
  <2> QED  BY <2>1, <2>2, <2>3 DEF Numbered, Seqs
<1> QED  BY <1>1, <1>2, <1>3

LEMMA StretchEnds ==
  ASSUME NEW P, NEW b \in Nat, NEW top \in Nat, b <= top, Numbered(P, b, top)
  PROVE  LastSeq(P \union {[seq |-> b, kind |-> "progress"]}) = top
<1> DEFINE own == [seq |-> b, kind |-> "progress"]
           Q   == P \union {own}
<1>1. Seqs(Q) = Seqs(P) \union {b}
  <2>1. own.seq = b
    OBVIOUS
  <2> HIDE DEF own
  <2>2. \A x : x \in Seqs(Q) <=> x \in Seqs(P) \/ x = b
    BY <2>1 DEF Seqs
  <2> QED  BY <2>2
<1>2. {0} \union Seqs(Q) = {0, b} \union (b + 1)..top
  BY <1>1 DEF Numbered
<1>3. LastSeq(Q) = Max({0, b} \union (b + 1)..top)
  BY <1>2 DEF LastSeq
<1>4. Max({0, b} \union (b + 1)..top) = top
  BY DEF Max
<1> QED  BY <1>3, <1>4

\* A page by a cursor is the stretch behind it.
LEMMA PageIsStretch ==
  ASSUME NEW S, Whole0(S), NEW b \in Nat, b <= LastSeq(S), NEW k \in Nat
  PROVE  \E t \in Nat : /\ t <= LastSeq(S)
                       /\ First(k, After(S, b)) = Stretch(S, b, t)
<1>1. PICK n \in Nat : Numbered(S, 0, n) /\ LastSeq(S) = n
  BY LastOfNumbered DEF Whole0
<1>2. Numbered(After(S, b), b, n)
  BY <1>1, AfterOfNumbered
<1>3. First(k, After(S, b)) = {e \in After(S, b) : e.seq <= b + k}
  BY <1>1, <1>2, FirstOfNumbered
<1>4. \A e \in S : e.seq \in 1..n
  BY <1>1, NumberedFacts
<1> DEFINE t == IF b + k < n THEN b + k ELSE n
<1>5. t \in Nat /\ t <= n
  BY <1>1
<1>6. First(k, After(S, b)) = Stretch(S, b, t)
  BY <1>1, <1>3, <1>4 DEF After, Stretch
<1> QED  BY <1>1, <1>5, <1>6

\* The client of a log that grows, of a Run that goes on.
LEMMA FollowKept ==
  ASSUME EventsTypeOK, IInv, LogMoves, [Next]_vars, NEW c \in Clients, NEW r \in Runs,
         LogInv(r), AskedInv(r), FollowInv(c, r),
         UNCHANGED <<cursor[c], seen[c], page[c], closing[c], latest[c], at[c]>>
  PROVE  FollowInv(c, r)'
<1>1. Whole0(stored[r]) /\ Whole0(stored'[r]) /\ Grows(stored[r], stored'[r])
  BY LogStepInv DEF LogInv
<1>2. cursor[c] \in Nat /\ cursor'[c] = cursor[c]
  BY DEF EventsTypeOK
<1>3. sub'[r] # "none"
  BY ThreadStep DEF ThreadMoves, FollowInv
<1>4. cursor'[c] \in Nat /\ cursor'[c] <= LastSeq(stored'[r])
  BY <1>1, <1>2, LastGrows DEF FollowInv
<1>5. seen'[c] = {e \in stored'[r] : e.seq <= cursor'[c]}
  BY <1>1, <1>2, PrefixKept DEF FollowInv
<1>6. PageInv(c, stored[r])'
  <2>1. PICK p \in Nat : /\ p <= LastSeq(stored[r])
                         /\ page[c] = Stretch(stored[r], cursor[c], p)
    BY DEF FollowInv, PageInv
  <2>2. page'[c] = Stretch(stored'[r], cursor'[c], p)
    BY <1>1, <1>2, <2>1, StretchKept
  <2>3. p <= LastSeq(stored'[r])
    BY <1>1, <2>1, LastGrows
  <2> QED  BY <2>2, <2>3 DEF PageInv
<1>7. ASSUME r \notin asked'
      PROVE  StreamInv(c, r)'
  <2>1. r \notin asked
    BY <1>7, AskedGrows
  <2>2. StreamInv(c, r)
    BY <2>1 DEF FollowInv
  <2>3. Quiet(r) => Quiet(r)' /\ stored'[r] = stored[r]
    BY <1>7, QuietStays
  <2> QED  BY <2>2, <2>3 DEF StreamInv
<1>8. at'[c] \in {"rows", "off", "closed"} => page'[c] = {}
  BY DEF FollowInv
<1> QED  BY <1>3, <1>4, <1>5, <1>6, <1>7, <1>8 DEF FollowInv

\* The events a client receives are the next stretch behind its cursor.
\* The two facts, for the cursor of a client.
LEMMA PageOf ==
  ASSUME NEW S, Whole0(S), NEW b, b \in Nat, b <= LastSeq(S)
  PROVE  \E t \in Nat : /\ t <= LastSeq(S)
                       /\ First(PageLimit, After(S, b)) = Stretch(S, b, t)
<1>1. PICK x \in Nat : x = b
  OBVIOUS
<1>2. PICK k \in Nat : k = PageLimit
  BY LimitsAssumption
<1>3. \E t \in Nat : /\ t <= LastSeq(S)
                    /\ First(k, After(S, x)) = Stretch(S, x, t)
  BY <1>1, PageIsStretch
<1> QED  BY <1>1, <1>2, <1>3

LEMMA FrameOf ==
  ASSUME NEW S, Whole0(S), NEW b, b \in Nat, b <= LastSeq(S), NEW t \in Nat, t <= LastSeq(S)
  PROVE  First(1, Stretch(S, b, t)) = {e \in Stretch(S, b, t) : e.seq <= b + 1}
<1>1. PICK x \in Nat : x = b
  OBVIOUS
<1>2. PICK top \in Nat : Numbered(Stretch(S, x, t), x, top)
  BY <1>1, StretchNumbered
<1>3. First(1, Stretch(S, x, t)) = {e \in Stretch(S, x, t) : e.seq <= x + 1}
  <2>1. 1 \in Nat
    OBVIOUS
  <2> QED  BY <1>2, <2>1, FirstOfNumbered
<1> QED  BY <1>1, <1>3

LEMMA ReceiveStep ==
  ASSUME EventsTypeOK, NEW c \in Clients, NEW S, Whole0(S), UNCHANGED stored,
         cursor[c] <= LastSeq(S), seen[c] = {e \in S : e.seq <= cursor[c]},
         NEW t, t \in Nat, t <= LastSeq(S), Receives(c, Stretch(S, cursor[c], t))
  PROVE  /\ cursor'[c] = IF t < cursor[c] THEN cursor[c] ELSE t
         /\ cursor'[c] <= LastSeq(S)
         /\ seen'[c] = {e \in S : e.seq <= cursor'[c]}
<1> DEFINE P == Stretch(S, cursor[c], t)
<1>1. cursor[c] \in Nat
  BY DEF EventsTypeOK
<1>2. cursor'[c] = LastSeq(P \union {[seq |-> cursor[c], kind |-> "progress"]})
      /\ seen'[c] = seen[c] \union P
  BY DEF Receives, EventsTypeOK
<1>3. cursor'[c] = (IF t < cursor[c] THEN cursor[c] ELSE t) /\ cursor'[c] <= LastSeq(S)
  <2>1. PICK b \in Nat : b = cursor[c]
    BY <1>1
  <2>2. PICK top \in Nat : /\ top = IF t < b THEN b ELSE t
                           /\ b <= top /\ top <= LastSeq(S) /\ Numbered(P, b, top)
    BY <2>1, StretchNumbered
  <2>3. LastSeq(P \union {[seq |-> b, kind |-> "progress"]}) = top
    BY <2>2, StretchEnds
  <2> QED  BY <1>2, <2>1, <2>2, <2>3
<1>4. \A e \in S : e.seq \in Nat
  <2>1. Grows(S, S)
    BY DEF Grows
  <2> QED  BY <2>1, LastGrows
<1>5. seen'[c] = {e \in S : e.seq <= cursor'[c]}
  <2>1. seen'[c] = {e \in S : e.seq <= cursor[c] \/ (cursor[c] < e.seq /\ e.seq <= t)}
    BY <1>2 DEF Stretch
  <2>2. \A e \in S : (e.seq <= cursor[c] \/ (cursor[c] < e.seq /\ e.seq <= t))
                      <=> e.seq <= cursor'[c]
    BY <1>1, <1>3, <1>4
  <2> QED  BY <2>1, <2>2
<1> QED  BY <1>3, <1>5

LEMMA ClientStepInv ==
  ASSUME EInv, NEW c \in Clients, ClientStep(c), UNCHANGED <<vars, logVars>>
  PROVE  ClientInv(c)'
<1> DEFINE r == follows[c]
           S == stored[r]
<1>1. EventsTypeOK /\ IInv /\ ClientInv(c)
  BY DEF EInv
<1>2. UNCHANGED <<status, sub, stored, asked>>
  BY DEF vars, logVars
<1>3. at[c] # "new" => /\ FollowInv(c, r) /\ r \in Runs
                       /\ Whole0(S) /\ LastSeq(S) \in Nat /\ cursor[c] \in Nat
  <2> SUFFICES ASSUME at[c] # "new"
               PROVE  /\ FollowInv(c, r) /\ r \in Runs
                      /\ Whole0(S) /\ LastSeq(S) \in Nat /\ cursor[c] \in Nat
    OBVIOUS
  <2>1. FollowInv(c, r) /\ r \in Runs
    BY <1>1 DEF ClientInv, FollowInv
  <2>2. Whole0(S)
    BY <2>1 DEF EInv, LogInv
  <2> QED  BY <1>1, <2>1, <2>2, LastGrows DEF Grows, EventsTypeOK
<1>4. ASSUME NEW q \in Runs, Connect(c, q)
      PROVE  ClientInv(c)'
  <2>1. /\ at'[c] = "rows" /\ follows'[c] = q
        /\ UNCHANGED <<cursor, page, closing, latest, seen>>
    BY <1>1, <1>4 DEF Connect, EventsTypeOK
  <2>2. CASE at[c] = "new"
    <3>1. sub[q] # "none"
      BY <1>1, <1>4, <2>2 DEF Connect, IInv, RunInv, SubmitterAt
    <3>2. cursor[c] = 0 /\ seen[c] = {} /\ page[c] = {}
      BY <1>1, <2>2 DEF ClientInv
    <3>3. PICK n \in Nat : Numbered(stored[q], 0, n) /\ LastSeq(stored[q]) = n
      BY LastOfNumbered DEF EInv, LogInv, Whole0
    <3>4. \A e \in stored[q] : e.seq \in 1..n
      BY <3>3, NumberedFacts
    <3>5. {e \in stored[q] : e.seq <= 0} = {} /\ Stretch(stored[q], 0, 0) = {}
      BY <3>4 DEF Stretch
    <3>6. PageInv(c, stored[q])'
      BY <1>2, <2>1, <3>2, <3>3, <3>5 DEF PageInv
    <3>7. FollowInv(c, q)'
      BY <1>2, <2>1, <3>1, <3>2, <3>3, <3>5, <3>6 DEF FollowInv, StreamInv
    <3> QED  BY <2>1, <3>7 DEF ClientInv
  <2>3. CASE at[c] = "off" /\ r = q
    <3>1. FollowInv(c, q)'
      BY <1>2, <1>3, <2>1, <2>3 DEF FollowInv, StreamInv, PageInv
    <3> QED  BY <2>1, <3>1 DEF ClientInv
  <2> QED  BY <1>4, <2>2, <2>3 DEF Connect
<1>5. CASE ReadRows(c)
  <2>1. /\ at[c] = "rows" /\ at'[c] = "run" /\ follows'[c] = r
        /\ page'[c] = First(PageLimit, After(S, cursor[c]))
        /\ UNCHANGED <<cursor, seen>>
    BY <1>1, <1>5 DEF ReadRows, EventsTypeOK
  <2>3. FollowInv(c, r) /\ Whole0(S) /\ cursor[c] \in Nat /\ cursor[c] <= LastSeq(S)
    BY <1>3, <2>1 DEF FollowInv
  <2>4. \E t \in Nat : /\ t <= LastSeq(S)
                      /\ page'[c] = Stretch(S, cursor[c], t)
    <3> HIDE DEF S
    <3> QED  BY <2>1, <2>3, PageOf
  <2>5. PageInv(c, stored[r])'
    BY <1>2, <2>1, <2>4 DEF PageInv
  <2>6. FollowInv(c, r)'
    BY <1>2, <2>1, <2>3, <2>5 DEF FollowInv, StreamInv
  <2> QED  BY <2>1, <2>6 DEF ClientInv
<1>6. CASE ReadRun(c)
  <2>1. /\ at[c] = "run" /\ at'[c] = "latest" /\ follows'[c] = r
        /\ closing'[c] = (status[r] \notin ActiveStatus)
        /\ UNCHANGED <<cursor, page, seen>>
    BY <1>1, <1>6 DEF ReadRun, EventsTypeOK
  <2>2. FollowInv(c, r)
    BY <1>3, <2>1
  <2>3. FollowInv(c, r)'
    BY <1>2, <2>1, <2>2 DEF FollowInv, StreamInv, PageInv, Quiet
  <2> QED  BY <2>1, <2>3 DEF ClientInv
<1>7. CASE ReadLatest(c)
  <2>1. /\ at[c] = "latest" /\ at'[c] = "send" /\ follows'[c] = r
        /\ latest'[c] = LastSeq(S)
        /\ UNCHANGED <<cursor, page, seen, closing>>
    BY <1>1, <1>7 DEF ReadLatest, EventsTypeOK
  <2>2. FollowInv(c, r)
    BY <1>3, <2>1
  <2>3. FollowInv(c, r)'
    BY <1>2, <2>1, <2>2 DEF FollowInv, StreamInv, PageInv, Quiet
  <2> QED  BY <2>1, <2>3 DEF ClientInv
<1>8. CASE SendFrame(c)
  <2>1. PICK e \in First(1, page[c]) :
          /\ Receives(c, {e})
          /\ page' = [page EXCEPT ![c] = @ \ {e}]
          /\ at' = [at EXCEPT ![c] = IF e.kind \in CoreTerminal THEN "ended" ELSE "send"]
    BY <1>8 DEF SendFrame
  <2>2. /\ at[c] = "send" /\ follows' = follows /\ UNCHANGED <<closing, latest>>
        /\ page'[c] = page[c] \ {e}
        /\ at'[c] \in {"ended", "send"}
    BY <1>1, <1>8, <2>1 DEF SendFrame, EventsTypeOK
  <2>3. /\ FollowInv(c, r) /\ Whole0(S) /\ cursor[c] \in Nat
        /\ cursor[c] <= LastSeq(S) /\ seen[c] = {f \in S : f.seq <= cursor[c]}
    BY <1>3, <2>2 DEF FollowInv
  <2>4. PICK p \in Nat : /\ p <= LastSeq(S)
                         /\ page[c] = Stretch(S, cursor[c], p)
    BY <2>3 DEF FollowInv, PageInv
  <2>5. e \in page[c] /\ e.seq <= cursor[c] + 1
    <3>1. First(1, page[c]) = {f \in page[c] : f.seq <= cursor[c] + 1}
      <4> HIDE DEF S
      <4> QED  BY <2>3, <2>4, FrameOf
    <3> QED  BY <2>1, <3>1
  <2>6. /\ e \in S /\ e.seq = cursor[c] + 1 /\ e.seq <= p
        /\ \A f \in S : f.seq \in Nat
        /\ \A f \in S : f.seq = e.seq => f = e
    <3>1. PICK n \in Nat : Numbered(S, 0, n)
      BY <2>3 DEF Whole0
    <3>2. e \in S /\ cursor[c] < e.seq /\ e.seq <= p /\ e.seq <= cursor[c] + 1
      BY <2>4, <2>5 DEF Stretch
    <3>3. \A f \in S : f.seq \in Nat
      BY <3>1, NumberedFacts
    <3>4. \A f \in S : f.seq = e.seq => f = e
      BY <3>1, <3>2, NumberedFacts
    <3>5. e.seq = cursor[c] + 1
      BY <2>3, <3>2, <3>3
    <3> QED  BY <3>2, <3>3, <3>4, <3>5
  <2>7. {e} = Stretch(S, cursor[c], cursor[c] + 1)
    BY <2>3, <2>6 DEF Stretch
  <2>8. cursor[c] + 1 \in Nat /\ cursor[c] + 1 <= LastSeq(S)
    BY <1>3, <2>2, <2>3, <2>4, <2>6
  <2>9. /\ cursor'[c] = IF cursor[c] + 1 < cursor[c] THEN cursor[c] ELSE cursor[c] + 1
        /\ cursor'[c] <= LastSeq(S) /\ seen'[c] = {f \in S : f.seq <= cursor'[c]}
    <3>1. Receives(c, Stretch(S, cursor[c], cursor[c] + 1))
      BY <2>1, <2>7
    <3> QED  BY <1>1, <1>2, <2>3, <2>8, <3>1, ReceiveStep
  <2>10. cursor'[c] = cursor[c] + 1
    BY <2>3, <2>9
  <2>11. page'[c] = Stretch(S, cursor'[c], p)
    BY <2>2, <2>3, <2>4, <2>6, <2>10 DEF Stretch
  <2>12. PageInv(c, stored[r])'
    BY <1>2, <2>2, <2>4, <2>11 DEF PageInv
  <2>13. FollowInv(c, r)'
    BY <1>2, <2>2, <2>3, <2>9, <2>10, <2>12 DEF FollowInv, StreamInv, Quiet
  <2> QED  BY <2>2, <2>13 DEF ClientInv
<1>9. CASE EndPass(c)
  <2>1. /\ at[c] = "send" /\ page[c] = {} /\ follows'[c] = r
        /\ at'[c] = IF closing[c] /\ cursor[c] >= latest[c] THEN "closed" ELSE "rows"
        /\ UNCHANGED <<cursor, page, closing, latest, seen>>
    BY <1>1, <1>9 DEF EndPass, EventsTypeOK
  <2>2. FollowInv(c, r) /\ cursor[c] \in Nat /\ LastSeq(S) \in Nat
    BY <1>3, <2>1
  <2>3. ASSUME r \notin asked
        PROVE  StreamInv(c, r)'
    <3>1. CASE at'[c] = "closed"
      <4>1. closing[c] /\ cursor[c] >= latest[c]
        BY <2>1, <3>1
      <4>2. Quiet(r) /\ latest[c] = LastSeq(S)
        BY <2>1, <2>2, <2>3, <4>1 DEF FollowInv, StreamInv
      <4>3. cursor[c] = LastSeq(S)
        BY <2>2, <4>1, <4>2 DEF FollowInv
      <4> QED  BY <1>2, <2>1, <3>1, <4>2, <4>3 DEF StreamInv, Quiet
    <3>2. CASE at'[c] = "rows"
      BY <3>2 DEF StreamInv
    <3> QED  BY <2>1, <3>1, <3>2
  <2>4. FollowInv(c, r)'
    BY <1>2, <2>1, <2>2, <2>3 DEF FollowInv, PageInv
  <2> QED  BY <2>1, <2>4 DEF ClientInv
<1>10. CASE Reopen(c) \/ Drop(c)
  <2>1. /\ at[c] # "new" /\ at'[c] = "off" /\ follows'[c] = r /\ UNCHANGED <<cursor, seen>>
        /\ page'[c] = {}
    BY <1>1, <1>3, <1>10 DEF Reopen, Drop, Connected, EventsTypeOK, FollowInv
  <2>2. FollowInv(c, r) /\ cursor[c] \in Nat /\ LastSeq(S) \in Nat /\ Whole0(S)
    BY <1>3, <2>1
  <2>3. Stretch(S, cursor[c], 0) = {}
    <3>1. \A e \in S : e.seq \in Nat
      BY <2>2, LastGrows DEF Grows
    <3> QED  BY <2>2, <3>1 DEF Stretch
  <2>4. PageInv(c, stored[r])'
    BY <1>2, <2>1, <2>2, <2>3 DEF PageInv
  <2>5. FollowInv(c, r)'
    BY <1>2, <2>1, <2>2, <2>4 DEF FollowInv, StreamInv
  <2> QED  BY <2>1, <2>5 DEF ClientInv
<1>11. CASE GetEvents(c)
  <2> DEFINE P == First(PageLimit, After(S, cursor[c]))
  <2>1. /\ at[c] \in {"off", "closed"} /\ Receives(c, P)
        /\ UNCHANGED <<at, follows, page, closing, latest>>
    BY <1>11 DEF GetEvents
  <2>2. /\ FollowInv(c, r) /\ Whole0(S) /\ cursor[c] \in Nat /\ LastSeq(S) \in Nat
        /\ cursor[c] <= LastSeq(S) /\ seen[c] = {f \in S : f.seq <= cursor[c]}
        /\ page[c] = {}
    BY <1>3, <2>1 DEF FollowInv
  <2>4. PICK t \in Nat : t <= LastSeq(S) /\ P = Stretch(S, cursor[c], t)
    <3> HIDE DEF S
    <3> QED  BY <2>2, PageOf DEF P
  <2> HIDE DEF P
  <2>5. /\ cursor'[c] = IF t < cursor[c] THEN cursor[c] ELSE t
        /\ cursor'[c] <= LastSeq(S) /\ seen'[c] = {e \in S : e.seq <= cursor'[c]}
    <3>1. Receives(c, Stretch(S, cursor[c], t))
      BY <2>1, <2>4
    <3> QED  BY <1>1, <1>2, <2>2, <2>4, <3>1, ReceiveStep
  <2>6. cursor'[c] \in Nat /\ cursor[c] <= cursor'[c]
    BY <2>2, <2>4, <2>5
  <2>7. Stretch(S, cursor'[c], 0) = {}
    <3>1. \A e \in S : e.seq \in Nat
      BY <2>2, LastGrows DEF Grows
    <3> QED  BY <2>6, <3>1 DEF Stretch
  <2>8. PageInv(c, stored[r])'
    BY <1>2, <2>1, <2>2, <2>7 DEF PageInv
  <2>9. r \notin asked => StreamInv(c, r)'
    <3>1. at[c] = "closed" /\ r \notin asked => Quiet(r) /\ cursor[c] = LastSeq(S)
      BY <2>2 DEF FollowInv, StreamInv
    <3> QED  BY <1>2, <2>1, <2>2, <2>5, <2>6, <3>1 DEF StreamInv, Quiet
  <2>10. FollowInv(c, r)'
    BY <1>2, <2>1, <2>2, <2>5, <2>6, <2>8, <2>9 DEF FollowInv
  <2> QED  BY <2>1, <2>10 DEF ClientInv
<1> QED  BY <1>4, <1>5, <1>6, <1>7, <1>8, <1>9, <1>10, <1>11 DEF ClientStep, ServeClient

LEMMA LoseInv ==
  ASSUME EInv, NEW c \in Clients, LoseConnections
  PROVE  ClientInv(c)'
<1> DEFINE r == follows[c]
<1>1. EventsTypeOK /\ IInv /\ ClientInv(c)
  BY DEF EInv
<1>2. LogMoves /\ [Next]_vars /\ asked' = asked /\ stored' = stored
  BY DEF LoseConnections, LogMoves, logVars, Next
<1>3. /\ at'[c] \in {"off", at[c]} /\ (at[c] \in Connected => at'[c] = "off")
      /\ (at[c] \notin Connected => at'[c] = at[c])
      /\ page'[c] = {} /\ UNCHANGED <<follows, cursor, closing, latest, seen>>
  BY DEF LoseConnections
<1>4. CASE at[c] = "new"
  BY <1>1, <1>3, <1>4 DEF ClientInv, Connected
<1>5. CASE at[c] # "new"
  <2> HIDE DEF r
  <2> PICK q \in Runs : q = r /\ FollowInv(c, q)
    BY <1>1, <1>5 DEF ClientInv, FollowInv, r
  <2>1. FollowInv(c, q)
    OBVIOUS
  <2>2. Whole0(stored[q]) /\ AskedInv(q)
    BY <2>1 DEF EInv, LogInv
  <2>3. sub'[q] # "none"
    BY <1>1, <1>2, <2>1, ThreadStep DEF ThreadMoves, FollowInv
  <2>4. Stretch(stored[q], cursor[c], 0) = {} /\ 0 <= LastSeq(stored[q])
    <3>1. Grows(stored[q], stored[q])
      BY DEF Grows
    <3>2. LastSeq(stored[q]) \in Nat /\ \A e \in stored[q] : e.seq \in Nat
      BY <2>2, <3>1, LastGrows
    <3>3. cursor[c] \in Nat
      BY <1>1 DEF EventsTypeOK
    <3> QED  BY <3>2, <3>3 DEF Stretch
  <2>5. PageInv(c, stored[q])'
    BY <1>2, <1>3, <2>4 DEF PageInv
  <2>6. ASSUME q \notin asked
        PROVE  StreamInv(c, q)'
    <3>1. CASE at'[c] = "off"
      BY <3>1 DEF StreamInv
    <3>2. CASE at'[c] = at[c] /\ at[c] \notin Connected
      <4>1. at[c] = "closed" => Quiet(q) /\ cursor[c] = LastSeq(stored[q])
        BY <2>1, <2>6 DEF FollowInv, StreamInv
      <4>2. Quiet(q) => Quiet(q)'
        BY <1>1, <1>2, <2>1, <2>2, <2>6, QuietStays
      <4> QED  BY <1>2, <1>3, <3>2, <4>1, <4>2 DEF StreamInv, Connected
    <3> QED  BY <1>3, <3>1, <3>2
  <2>7. FollowInv(c, q)'
    BY <1>2, <1>3, <2>1, <2>3, <2>5, <2>6 DEF FollowInv
  <2> QED  BY <1>3, <1>5, <2>7 DEF ClientInv, r
<1> QED  BY <1>4, <1>5

LEMMA ClientsInv ==
  ASSUME EInv, [EventsNext]_allVars, NEW c \in Clients
  PROVE  ClientInv(c)'
<1>1. EventsTypeOK /\ IInv /\ ClientInv(c) /\ LogMoves /\ [Next]_vars
  BY EventsAreLifecycle, LogMovesAre DEF EInv
<1>2. CASE LoseConnections
  BY <1>2, LoseInv
<1>3. CASE ClientStep(c) /\ UNCHANGED <<vars, logVars>>
  BY <1>3, ClientStepInv
<1>4. CASE UNCHANGED <<cursor[c], seen[c], page[c], closing[c], latest[c], at[c], follows[c]>>
  <2>1. CASE at[c] = "new"
    BY <1>1, <1>4, <2>1 DEF ClientInv
  <2>2. CASE at[c] # "new"
    <3>1. PICK r \in Runs : r = follows[c] /\ FollowInv(c, r)
      BY <1>1, <2>2 DEF ClientInv, FollowInv
    <3>2. LogInv(r) /\ AskedInv(r)
      BY DEF EInv
    <3>3. FollowInv(c, r)'
      BY <1>1, <1>4, <3>1, <3>2, FollowKept
    <3> QED  BY <1>4, <2>2, <3>1, <3>3 DEF ClientInv
  <2> QED  BY <2>1, <2>2
<1>5. ASSUME NEW k \in Clients, ClientStep(k), k # c
      PROVE  UNCHANGED <<cursor[c], seen[c], page[c], closing[c], latest[c], at[c], follows[c]>>
  BY <1>1, <1>5 DEF ClientStep, ServeClient, Connect, ReadRows, ReadRun, ReadLatest, SendFrame,
                    EndPass, Reopen, Drop, GetEvents, Receives, EventsTypeOK
<1> QED  BY <1>2, <1>3, <1>4, <1>5 DEF EventsNext, clientVars, allVars

LEMMA EventsTypeStep ==
  ASSUME EInv, [EventsNext]_allVars
  PROVE  EventsTypeOK'
<1>1. EventsTypeOK /\ IInv /\ LogMoves /\ [Next]_vars
  BY EventsAreLifecycle, LogMovesAre DEF EInv
<1>2. TypeOK'
  BY <1>1, TypeStep DEF EventsTypeOK
<1>3. asked' \subseteq Runs
  BY <1>1, AskedGrows
<1>4. emitted' \in [Runs -> 0..MaxEvents]
  <2>1. \A r \in Runs : emitted'[r] \in 0..MaxEvents
    BY <1>1, EmitStep DEF EInv, LogInv
  <2>2. DOMAIN emitted' = Runs /\ emitted' = [r \in DOMAIN emitted' |-> emitted'[r]]
    BY <1>1 DEF EventsTypeOK, LogMoves, LogStep, WorkerEvents, SubmitEvents, PollEvents,
                SuccessEvents, ErrorEvents, CoreStartEvents, CoreEndEvents, CoreRecords,
                CancelEvents, CancelQueuedEvents, StartupEvents, logVars, Emits
  <2> QED  BY <2>1, <2>2
<1>5. stored' \in [Runs -> SUBSET Event]
  <2>1. DOMAIN stored' = Runs /\ stored' = [r \in DOMAIN stored' |-> stored'[r]]
    BY <1>1 DEF EventsTypeOK, LogMoves, LogStep, WorkerEvents, SubmitEvents, PollEvents,
                SuccessEvents, ErrorEvents, CoreStartEvents, CoreEndEvents, CoreRecords,
                CancelEvents, CancelQueuedEvents, StartupEvents, logVars, Stores
  <2>2. ASSUME NEW r \in Runs
        PROVE  stored'[r] \subseteq Event
    <3>1. Whole0(stored[r]) /\ stored[r] \subseteq Event
      BY <1>1 DEF EInv, LogInv, EventsTypeOK
    <3>2. CoreLog(r) \subseteq Event
      <4>1. 1..emitted[r] \subseteq Nat
        BY <1>1, LimitsAssumption DEF EventsTypeOK
      <4> QED  BY <4>1 DEF CoreLog, Event, Kind
    <3>3. Polled(r) \subseteq Event /\ Finalised(r) \subseteq Event
      BY <1>1, <3>1, <3>2, CopiedGrows
    <3>4. \A S, kind : S \subseteq Event /\ Whole0(S) /\ kind \in {"output", "failed"}
                        => Append(S, kind) \subseteq Event
      <4> SUFFICES ASSUME NEW S, NEW kind, S \subseteq Event, Whole0(S),
                          kind \in {"output", "failed"}
                   PROVE  [seq |-> LastSeq(S) + 1, kind |-> kind] \in Event
        BY DEF Append
      <4>1. Grows(S, S)
        BY DEF Grows
      <4>2. LastSeq(S) \in Nat
        BY <4>1, LastGrows
      <4> QED  BY <4>2 DEF Event, Kind, CoreTerminal
    <3>5. Whole0(Finalised(r))
      BY <1>1, <3>1, CopiedGrows
    <3> QED  BY <1>1, <3>1, <3>3, <3>4, <3>5, StoreStep
  <2> QED  BY <2>1, <2>2
<1>6. /\ at' \in [Clients -> ClientAt]
      /\ follows' \in [Clients -> Runs \union {NoOne}]
      /\ closing' \in [Clients -> BOOLEAN]
      /\ drops' \in [Clients -> 0..MaxDrops]
  <2> USE <1>1 DEF EventsTypeOK, ClientAt, Connected
  <2>1. CASE UNCHANGED clientVars
    BY <2>1 DEF clientVars
  <2>2. CASE LoseConnections
    BY <2>2 DEF LoseConnections
  <2>3. ASSUME NEW c \in Clients, ClientStep(c)
        PROVE  /\ at' \in [Clients -> ClientAt]
               /\ follows' \in [Clients -> Runs \union {NoOne}]
               /\ closing' \in [Clients -> BOOLEAN]
               /\ drops' \in [Clients -> 0..MaxDrops]
    <3>1. ASSUME NEW r \in Runs, Connect(c, r)
          PROVE  /\ at' \in [Clients -> ClientAt]
                 /\ follows' \in [Clients -> Runs \union {NoOne}]
                 /\ closing' = closing /\ drops' = drops
      BY <3>1 DEF Connect
    <3>2. CASE ReadRows(c) \/ ReadRun(c) \/ ReadLatest(c) \/ EndPass(c)
      BY <3>2 DEF ReadRows, ReadRun, ReadLatest, EndPass
    <3>3. CASE SendFrame(c)
      BY <3>3 DEF SendFrame
    <3>4. CASE Reopen(c) \/ Drop(c)
      <4>1. drops[c] \in 0..MaxDrops /\ drops[c] < MaxDrops /\ MaxDrops \in Nat
        BY <3>4, LimitsAssumption DEF Reopen, Drop
      <4> QED  BY <3>4, <4>1 DEF Reopen, Drop
    <3>5. CASE GetEvents(c)
      BY <3>5 DEF GetEvents
    <3> QED  BY <2>3, <3>1, <3>2, <3>3, <3>4, <3>5 DEF ClientStep, ServeClient
  <2> QED  BY <2>1, <2>2, <2>3 DEF EventsNext, allVars
<1>7. /\ cursor' \in [Clients -> Nat]
      /\ page' \in [Clients -> SUBSET Event]
      /\ seen' \in [Clients -> SUBSET Event]
      /\ latest' \in [Clients -> Nat]
  <2>1. /\ DOMAIN cursor' = Clients /\ cursor' = [c \in DOMAIN cursor' |-> cursor'[c]]
        /\ DOMAIN page' = Clients /\ page' = [c \in DOMAIN page' |-> page'[c]]
        /\ DOMAIN seen' = Clients /\ seen' = [c \in DOMAIN seen' |-> seen'[c]]
    BY <1>1 DEF EventsTypeOK, EventsNext, ClientStep, ServeClient, Connect, ReadRows,
                ReadRun, ReadLatest, SendFrame, EndPass, Reopen, Drop, GetEvents,
                Receives, LoseConnections, clientVars, allVars
  <2>2. ASSUME NEW c \in Clients
        PROVE  cursor'[c] \in Nat /\ page'[c] \subseteq Event /\ seen'[c] \subseteq Event
    <3>1. ClientInv(c)'
      BY ClientsInv
    <3>2. CASE at'[c] = "new"
      BY <3>1, <3>2 DEF ClientInv
    <3>3. CASE at'[c] # "new"
      <4>1. FollowInv(c, follows[c])'
        BY <3>1, <3>3 DEF ClientInv
      <4>2. stored'[follows'[c]] \subseteq Event
        BY <1>5, <4>1 DEF FollowInv
      <4> QED  BY <4>1, <4>2 DEF FollowInv, PageInv, Stretch
    <3> QED  BY <3>2, <3>3
  <2>3. latest' \in [Clients -> Nat]
    <3>1. ASSUME NEW c \in Clients, ReadLatest(c)
          PROVE  latest' \in [Clients -> Nat]
      <4>1. FollowInv(c, follows[c])
        BY <3>1 DEF ReadLatest, EInv, ClientInv
      <4>2. Whole0(stored[follows[c]])
        BY <4>1 DEF FollowInv, EInv, LogInv
      <4>3. LastSeq(stored[follows[c]]) \in Nat
        BY <4>2, LastOfNumbered DEF Whole0
      <4> QED  BY <1>1, <3>1, <4>3 DEF ReadLatest, EventsTypeOK
    <3>2. CASE UNCHANGED latest
      BY <1>1, <3>2 DEF EventsTypeOK
    <3> QED  BY <3>1, <3>2
             DEF EventsNext, ClientStep, ServeClient, Connect, ReadRows, ReadRun, SendFrame,
                 EndPass, Reopen, Drop, GetEvents, LoseConnections, clientVars, allVars
  <2> QED  BY <2>1, <2>2, <2>3
<1> QED  BY <1>2, <1>3, <1>4, <1>5, <1>6, <1>7 DEF EventsTypeOK

LEMMA EventsInitInv == EventsInit => EInv
<1> SUFFICES ASSUME EventsInit
             PROVE  EInv
  OBVIOUS
<1>1. Init /\ TypeOK /\ IInv
  BY TypeInit, InitInv DEF EventsInit
<1>2. EventsTypeOK
  BY <1>1, LimitsAssumption DEF EventsInit, EventsTypeOK, ClientAt
<1>3. ASSUME NEW r \in Runs
      PROVE  LogInv(r) /\ AskedInv(r)
  <2>1. stored[r] = {} /\ emitted[r] = 0 /\ core[r] = "none" /\ status[r] = "absent"
    BY DEF EventsInit, Init
  <2>2. Numbered({}, 0, 0)
    BY NumberedFacts
  <2> QED  BY <2>1, <2>2 DEF LogInv, AskedInv, Whole0, EmittedAt
<1>4. CancelsAreAsked
  BY DEF EventsInit, Init, CancelsAreAsked
<1>5. \A c \in Clients : ClientInv(c)
  BY DEF EventsInit, ClientInv
<1> QED  BY <1>1, <1>2, <1>3, <1>4, <1>5 DEF EInv

LEMMA EventsInvStep == EInv /\ [EventsNext]_allVars => EInv'
<1> SUFFICES ASSUME EInv, [EventsNext]_allVars
             PROVE  EInv'
  OBVIOUS
<1>1. EventsTypeOK /\ IInv /\ CancelsAreAsked /\ LogMoves /\ [Next]_vars
  BY EventsAreLifecycle, LogMovesAre DEF EInv
<1>2. EventsTypeOK'
  BY EventsTypeStep
<1>3. IInv'
  BY <1>1, InvStep
<1>4. ASSUME NEW r \in Runs
      PROVE  LogInv(r)' /\ AskedInv(r)'
  BY <1>1, LogStepInv, AskedStep DEF EInv
<1>5. CancelsAreAsked'
  BY <1>1, CancelsStep
<1>6. \A c \in Clients : ClientInv(c)'
  BY ClientsInv
<1> QED  BY <1>2, <1>3, <1>4, <1>5, <1>6 DEF EInv

\* The inductive invariant holds in every reachable state: what a log holds of
\* Core's, who may still cancel a Run, and what each client has read.
THEOREM EventsInductive == EventsSpec => []EInv
BY EventsInitInv, EventsInvStep, PTL DEF EventsSpec

-----------------------------------------------------------------------------
(* What the log and its streams promise.                                   *)

LEMMA CountWhole ==
  ASSUME NEW S, Whole0(S)
  PROVE  Seqs(S) = 1..Cardinality(S)
<1>1. PICK n \in Nat : Numbered(S, 0, n)
  BY DEF Whole0
<1>2. Cardinality(S) = n - 0
  BY <1>1, CountNumbered
<1>3. Seqs(S) = (0 + 1)..n
  BY <1>1 DEF Numbered
<1> QED  BY <1>2, <1>3

\* Every log is numbered 1, 2, ... without a gap or a double, and as long as
\* Core's log fits the page of the final transaction, a completed Run has all
\* of it, with Studio's own event at its end.
THEOREM LogsAreWhole ==
  ASSUME MaxEvents <= FinalLimit
  PROVE  EventsSpec => []LogIsWhole
<1>1. EInv => LogIsWhole
  BY CountWhole DEF EInv, LogIsWhole, LogInv, Closed
<1> QED  BY <1>1, EventsInductive, PTL

\* Whatever the limits, the numbers of a log have no gap and no double, and a
\* worker that may still write has stored nothing but Core's own events.
LogIsNumbered ==
  \A r \in Runs : /\ Seqs(stored[r]) = 1..Cardinality(stored[r])
                 /\ ~Past(r) => stored[r] \subseteq CoreLog(r)
THEOREM LogsAreNumbered == EventsSpec => []LogIsNumbered
<1>1. EInv => LogIsNumbered
  BY CountWhole DEF EInv, LogIsNumbered, LogInv
<1> QED  BY <1>1, EventsInductive, PTL

\* No step stores an event behind the last number of its log.
THEOREM LogsGrow == EventsSpec => [][\A r \in Runs : Grows(stored[r], stored'[r])]_allVars
<1>1. EInv /\ [EventsNext]_allVars => \A r \in Runs : Grows(stored[r], stored'[r])
  BY EventsAreLifecycle, LogMovesAre, LogStepInv DEF EInv
<1> QED  BY <1>1, EventsInductive, PTL DEF EventsSpec

\* A client has exactly the events up to its cursor, after any sequence of
\* passes, reconnects and restarts.
THEOREM ReplaysAreComplete == EventsSpec => []ReplayIsComplete
<1>1. EInv => ReplayIsComplete
  BY DEF EInv, ReplayIsComplete, ClientInv, FollowInv
<1> QED  BY <1>1, EventsInductive, PTL

\* When the server ends the stream of a Run nobody asked to cancel, its client
\* has the whole log.
THEOREM StreamEndsAreComplete == EventsSpec => []StreamEndIsComplete
<1>1. EInv => StreamEndIsComplete
  <2> SUFFICES ASSUME EInv, NEW c \in Clients, at[c] = "closed", follows[c] \notin asked
               PROVE  seen[c] = stored[follows[c]]
    BY DEF StreamEndIsComplete, Whole
  <2> DEFINE r == follows[c]
  <2>1. FollowInv(c, r)
    BY DEF EInv, ClientInv
  <2>2. PICK n \in Nat : Numbered(stored[r], 0, n) /\ LastSeq(stored[r]) = n
    BY <2>1, LastOfNumbered DEF EInv, LogInv, Whole0, FollowInv
  <2>3. \A e \in stored[r] : e.seq \in 1..n
    BY <2>2, NumberedFacts
  <2>4. cursor[c] = n /\ seen[c] = {e \in stored[r] : e.seq <= cursor[c]}
    BY <2>1, <2>2 DEF FollowInv, StreamInv
  <2> QED  BY <2>3, <2>4
<1> QED  BY <1>1, EventsInductive, PTL
=============================================================================
