----------------------------- MODULE RunEvents -----------------------------
(***************************************************************************)
(* The durable event log of a Run on top of RunLifecycle: the worker copies *)
(* Core's log into trace_events in the transactions that also write the    *)
(* row, Studio appends events of its own, and clients follow the log over  *)
(* SSE or by polling, each with a cursor of its own.                        *)
(*                                                                         *)
(* A pass of the SSE loop makes three reads that see three different       *)
(* committed states: the rows after the cursor, the Run, the latest event. *)
(***************************************************************************)
EXTENDS RunLifecycle, FiniteSetsExt

CONSTANTS
  Clients,      \* subscribers of one Run each
  MaxEvents,    \* bound: events Core records of one execution
  PollLimit,    \* handle.events(limit=500) of the polling loop
  FinalLimit,   \* handle.events(limit=1000) of the final transaction
  PageLimit,    \* events of one pass of the SSE loop, or of one page
  MaxDrops      \* bound: connections a client loses

ASSUME LimitsAssumption ==
  /\ MaxEvents \in Nat /\ MaxEvents > 2   \* an execution is submitted, starts and ends
  /\ {PollLimit, FinalLimit, PageLimit} \subseteq Nat \ {0}
  /\ MaxDrops \in Nat

VARIABLES
  emitted,    \* length of Core's own log of the execution
  stored,     \* trace_events with a core_sequence
  asked,      \* Runs somebody has asked to cancel
  at,         \* progress of each client's connection
  follows,    \* the Run a client has subscribed to
  cursor,     \* the client's latest durable sequence
  page,       \* rows the server has read and not yet sent
  closing,    \* the server's read of the Run found it terminal
  latest,     \* the server's read of the latest sequence
  seen,       \* events the client has received
  drops       \* connections the client has lost

logVars    == <<emitted, stored, asked>>
clientVars == <<at, follows, cursor, page, closing, latest, seen, drops>>
allVars    == <<vars, logVars, clientVars>>

Kind  == {"progress", "output"} \union CoreTerminal
Event == [seq : Nat, kind : Kind]

Connected == {"rows", "run", "latest", "send"}
ClientAt  == {"new", "off", "closed", "ended"} \union Connected

Seqs(log)   == {e.seq : e \in log}
LastSeq(log) == Max({0} \union Seqs(log))
After(log, n) == {e \in log : e.seq > n}
First(k, log) == {e \in log : Cardinality({f \in log : f.seq < e.seq}) < k}

\* Core's log: numbered from 1, closed by the event of the terminal state.
CoreLog(r) ==
  {[seq |-> n, kind |-> IF n = emitted[r] /\ core[r] \in CoreTerminal
                        THEN core[r] ELSE "progress"] : n \in 1..emitted[r]}

EventsInit ==
  /\ Init
  /\ emitted = [r \in Runs |-> 0]
  /\ stored = [r \in Runs |-> {}]
  /\ asked = {}
  /\ at = [c \in Clients |-> "new"]
  /\ follows = [c \in Clients |-> NoOne]
  /\ cursor = [c \in Clients |-> 0]
  /\ page = [c \in Clients |-> {}]
  /\ closing = [c \in Clients |-> FALSE]
  /\ latest = [c \in Clients |-> 0]
  /\ seen = [c \in Clients |-> {}]
  /\ drops = [c \in Clients |-> 0]

EventsTypeOK ==
  /\ TypeOK
  /\ emitted \in [Runs -> 0..MaxEvents]
  /\ stored \in [Runs -> SUBSET Event]
  /\ asked \subseteq Runs
  /\ at \in [Clients -> ClientAt]
  /\ follows \in [Clients -> Runs \union {NoOne}]
  /\ cursor \in [Clients -> Nat]
  /\ page \in [Clients -> SUBSET Event]
  /\ closing \in [Clients -> BOOLEAN]
  /\ latest \in [Clients -> Nat]
  /\ seen \in [Clients -> SUBSET Event]
  /\ drops \in [Clients -> 0..MaxDrops]

-----------------------------------------------------------------------------
(* Ingestion.                                                              *)

\* RunService._ingest_core_events: a record whose sequence is stored already
\* is skipped.
Ingest(log, records) == log \union {e \in records : e.seq \notin Seqs(log)}

\* Variant: the event takes the latest number, not the next.
AppendAtLatest(log, kind) ==
  IF \E e \in log : e.kind = kind THEN log
  ELSE log \union {[seq |-> LastSeq(log), kind |-> kind]}

\* RunService._append_public_event: at most one event of a type.
Append(log, kind) ==
  IF \E e \in log : e.kind = kind THEN log
  ELSE log \union {[seq |-> LastSeq(log) + 1, kind |-> kind]}

\* The polling loop asks for what follows the latest sequence it stored, the
\* final transaction for the log from its beginning.
Polled(r)    == Ingest(stored[r], First(PollLimit, After(CoreLog(r), LastSeq(stored[r]))))
Finalised(r) == Ingest(stored[r], First(FinalLimit, CoreLog(r)))

Stores(r, log) == stored' = [stored EXCEPT ![r] = log]
Emits(r)       == emitted' = [emitted EXCEPT ![r] = @ + 1]

\* What each step of the life cycle does to the log.
SubmitEvents(r) ==
  /\ SubmitToCore(r)
  /\ IF core'[r] = core[r] THEN UNCHANGED emitted ELSE Emits(r)
  /\ UNCHANGED <<stored, asked>>

PollEvents(r) ==
  /\ PollWrite(r)
  /\ Stores(r, Polled(r))
  /\ UNCHANGED <<emitted, asked>>

SuccessEvents(r) ==
  /\ FinishSuccess(r)
  /\ Stores(r, IF status'[r] = "completed" THEN Append(Finalised(r), "output")
               ELSE Finalised(r))
  /\ UNCHANGED <<emitted, asked>>

\* Without the registry entry the handler finds no handle to ask.
ErrorEvents(r) ==
  /\ FinishError(r)
  /\ Stores(r, IF r \in active THEN Finalised(r) ELSE stored[r])
  /\ UNCHANGED <<emitted, asked>>

CancelEvents(c, r) ==
  /\ CancelThroughCore(c, r)
  /\ IF core'[r] \in CoreTerminal /\ core[r] \notin CoreTerminal
     THEN Emits(r) ELSE UNCHANGED emitted
  /\ asked' = asked \union {r}
  /\ UNCHANGED stored

CoreStartEvents(r) == CoreStarts(r) /\ Emits(r) /\ UNCHANGED <<stored, asked>>
CoreEndEvents(r)   == CoreEnds(r) /\ Emits(r) /\ UNCHANGED <<stored, asked>>

\* One place of the bound is kept for the terminal event.
CoreRecords(r) ==
  /\ core[r] \in {"running", "cancellation_requested"}
  /\ emitted[r] < MaxEvents - 1
  /\ Emits(r)
  /\ UNCHANGED <<vars, stored, asked>>

\* reconcile_interrupted_runs leaves a durable failure event.
StartupEvents ==
  /\ Startup
  /\ stored' = [r \in Runs |-> IF status[r] \in ActiveStatus
                               THEN Append(stored[r], "failed") ELSE stored[r]]
  /\ UNCHANGED <<emitted, asked>>

\* The server has finished its requests, the streams among them.
EndOfRequests == BeginShutdown /\ \A c \in Clients : at[c] \notin Connected

\* Steps that touch no event.
QuietExecution(r) ==
  \/ PickUp(r) \/ ReadRow(r) \/ MarkRunning(r) \/ Build(r)
  \/ FinishBuildFailure(r) \/ RefreshRow(r) \/ PollTimeout(r) \/ PollRaises(r)
  \/ Harvest(r) \/ Release(r) \/ Deliver(r) \/ Return(r)

CancelQueuedEvents(c, r) ==
  /\ CancelQueued(c, r)
  /\ asked' = asked \union {r}
  /\ UNCHANGED <<emitted, stored>>

WorkerEvents(r) ==
  \/ SubmitEvents(r) \/ PollEvents(r) \/ SuccessEvents(r) \/ ErrorEvents(r)
  \/ QuietExecution(r) /\ UNCHANGED logVars

LogStep ==
  \/ \E r \in Runs :
       \/ WorkerEvents(r)
       \/ CoreStartEvents(r) \/ CoreEndEvents(r) \/ CoreRecords(r)
  \/ \E c \in Cancellers, r \in Runs : CancelEvents(c, r) \/ CancelQueuedEvents(c, r)
  \/ StartupEvents
  \/ /\ \/ \E r \in Runs : Submission(r)
        \/ \E c \in Cancellers : CancelCommit(c)
        \/ EndOfRequests
     /\ UNCHANGED logVars

-----------------------------------------------------------------------------
(* The SSE generator and its client.                                       *)

Connect(c, r) ==
  /\ phase = "up"
  /\ \/ at[c] = "new" /\ status[r] # "absent"
     \/ at[c] = "off" /\ follows[c] = r
  /\ at' = [at EXCEPT ![c] = "rows"]
  /\ follows' = [follows EXCEPT ![c] = r]
  /\ UNCHANGED <<cursor, page, closing, latest, seen, drops>>

ReadRows(c) ==
  /\ at[c] = "rows"
  /\ at' = [at EXCEPT ![c] = "run"]
  /\ page' = [page EXCEPT ![c] = First(PageLimit, After(stored[follows[c]], cursor[c]))]
  /\ UNCHANGED <<follows, cursor, closing, latest, seen, drops>>

ReadRun(c) ==
  /\ at[c] = "run"
  /\ at' = [at EXCEPT ![c] = "latest"]
  /\ closing' = [closing EXCEPT ![c] = status[follows[c]] \notin ActiveStatus]
  /\ UNCHANGED <<follows, cursor, page, latest, seen, drops>>

ReadLatest(c) ==
  /\ at[c] = "latest"
  /\ at' = [at EXCEPT ![c] = "send"]
  /\ latest' = [latest EXCEPT ![c] = LastSeq(stored[follows[c]])]
  /\ UNCHANGED <<follows, cursor, page, closing, seen, drops>>

\* Variant: the page hands out the Run's latest sequence as its cursor.
ReceivesLatest(c, events) ==
  /\ cursor' = [cursor EXCEPT ![c] = LastSeq(stored[follows[c]])]
  /\ seen' = [seen EXCEPT ![c] = @ \union events]

\* The client advances its cursor and leaves on the frame of a terminal event.
Receives(c, events) ==
  /\ cursor' = [cursor EXCEPT ![c] = LastSeq(events \union {[seq |-> @, kind |-> "progress"]})]
  /\ seen' = [seen EXCEPT ![c] = @ \union events]

SendFrame(c) ==
  /\ at[c] = "send"
  /\ \E e \in First(1, page[c]) :
       /\ Receives(c, {e})
       /\ page' = [page EXCEPT ![c] = @ \ {e}]
       /\ at' = [at EXCEPT ![c] = IF e.kind \in CoreTerminal THEN "ended" ELSE "send"]
  /\ UNCHANGED <<follows, closing, latest, drops>>

\* Variant: the stream ends on the Run's status alone.
EndPassOnStatus(c) ==
  /\ at[c] = "send"
  /\ page[c] = {}
  /\ at' = [at EXCEPT ![c] = IF closing[c] THEN "closed" ELSE "rows"]
  /\ UNCHANGED <<follows, cursor, page, closing, latest, seen, drops>>

\* Variant: the cursor has to pass the latest sequence.
EndPassBeyond(c) ==
  /\ at[c] = "send"
  /\ page[c] = {}
  /\ at' = [at EXCEPT ![c] = IF closing[c] /\ cursor[c] > latest[c]
                             THEN "closed" ELSE "rows"]
  /\ UNCHANGED <<follows, cursor, page, closing, latest, seen, drops>>

EndPass(c) ==
  /\ at[c] = "send"
  /\ page[c] = {}
  /\ at' = [at EXCEPT ![c] = IF closing[c] /\ cursor[c] >= latest[c]
                             THEN "closed" ELSE "rows"]
  /\ UNCHANGED <<follows, cursor, page, closing, latest, seen, drops>>

\* The body ended without a terminal frame: the client will connect again.
Reopen(c) ==
  /\ at[c] = "closed"
  /\ drops[c] < MaxDrops
  /\ at' = [at EXCEPT ![c] = "off"]
  /\ drops' = [drops EXCEPT ![c] = @ + 1]
  /\ UNCHANGED <<follows, cursor, page, closing, latest, seen>>

Drop(c) ==
  /\ at[c] \in Connected
  /\ drops[c] < MaxDrops
  /\ at' = [at EXCEPT ![c] = "off"]
  /\ page' = [page EXCEPT ![c] = {}]
  /\ drops' = [drops EXCEPT ![c] = @ + 1]
  /\ UNCHANGED <<follows, cursor, closing, latest, seen>>

\* GET /events: one page by the same cursor, without a connection.
GetEvents(c) ==
  /\ phase = "up"
  /\ at[c] \in {"off", "closed"}
  /\ LET rows == First(PageLimit, After(stored[follows[c]], cursor[c]))
     IN rows # {} /\ Receives(c, rows)
  /\ UNCHANGED <<at, follows, page, closing, latest, drops>>

ServeClient(c) ==
  \/ ReadRows(c) \/ ReadRun(c) \/ ReadLatest(c) \/ SendFrame(c) \/ EndPass(c)

ClientStep(c) ==
  \/ \E r \in Runs : Connect(c, r)
  \/ phase = "up" /\ ServeClient(c)
  \/ Reopen(c) \/ Drop(c) \/ GetEvents(c)

\* The process takes its connections with it.
LoseConnections ==
  /\ Crash \/ FinishShutdown
  /\ at' = [c \in Clients |-> IF at[c] \in Connected THEN "off" ELSE at[c]]
  /\ page' = [c \in Clients |-> {}]
  /\ UNCHANGED <<logVars, follows, cursor, closing, latest, seen, drops>>

EventsNext ==
  \/ LogStep /\ UNCHANGED clientVars
  \/ (\E c \in Clients : ClientStep(c)) /\ UNCHANGED <<vars, logVars>>
  \/ LoseConnections

EventsSpec == EventsInit /\ [][EventsNext]_allVars

\* The server keeps serving an open connection, a client that lost its
\* connection connects again, and the worker and the process go on as in
\* RunLifecycle.
ClientFairness ==
  /\ \A c \in Clients :
       /\ WF_allVars(phase = "up" /\ ServeClient(c) /\ UNCHANGED <<vars, logVars>>)
       /\ WF_allVars((at[c] = "off" /\ \E r \in Runs : Connect(c, r)) /\ UNCHANGED <<vars, logVars>>)
  /\ \A r \in Runs :
       /\ SF_allVars(WorkerEvents(r) /\ UNCHANGED clientVars)
       /\ WF_allVars((CoreStartEvents(r) \/ CoreEndEvents(r)) /\ UNCHANGED clientVars)
       /\ WF_allVars((Enqueue(r) \/ Refuse(r)) /\ UNCHANGED <<logVars, clientVars>>)
       /\ SF_allVars(Discard(r) /\ UNCHANGED <<logVars, clientVars>>)
  /\ \A k \in Cancellers : WF_allVars(CancelCommit(k) /\ UNCHANGED <<logVars, clientVars>>)
  /\ WF_allVars(FinishShutdown /\ LoseConnections)
  /\ WF_allVars(StartupEvents /\ UNCHANGED clientVars)

EventsFairSpec == EventsSpec /\ ClientFairness

-----------------------------------------------------------------------------
(* Properties.                                                             *)

\* The durable log is numbered 1, 2, ... without gaps or doubles, although
\* polls, final ingestions, Studio's own events and the restart all extend it;
\* and a completed Run has its whole Core log, closed by Core's terminal event
\* and Studio's own, as long as that log fits the final page.
\* (The state keeps its shape: checked with it.)
LogIsWhole ==
  EventsTypeOK /\ \A r \in Runs :
    /\ Seqs(stored[r]) = 1..Cardinality(stored[r])
    /\ status[r] = "completed" =>
         /\ CoreLog(r) \subseteq stored[r]
         /\ \E e \in stored[r] : e.kind = "output" /\ e.seq = LastSeq(stored[r])

\* A cursor says exactly what its client has: no event is stored behind a
\* cursor a client has passed, across passes, reconnects and restarts.
ReplayIsComplete ==
  \A c \in Clients : at[c] # "new" =>
    seen[c] = {e \in stored[follows[c]] : e.seq <= cursor[c]}

\* When the server ends the stream of a Run that nobody asked to cancel, the
\* client has all the Run will ever have, although the rows, the Run and the
\* latest number are read one after the other.  Of a Run under cancellation it
\* does not hold: cancel_run closes the row before the worker has stored the
\* last events.
Whole(c) == seen[c] = stored[follows[c]]
StreamEndIsComplete ==
  \A c \in Clients : (at[c] = "closed" /\ follows[c] \notin asked) => Whole(c)

\* A client that still follows a closed Run gets to the end of its stream: it
\* sees a terminal frame, or the server ends the stream.
Follows(c)   == at[c] \in Connected \union {"off"}
FollowerCatchesUp ==
  \A c \in Clients :
    (Follows(c) /\ status[follows[c]] \in TerminalStatus) ~> at[c] \in {"ended", "closed"}
=============================================================================
