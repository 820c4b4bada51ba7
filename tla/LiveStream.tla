----------------------------- MODULE LiveStream -----------------------------
(***************************************************************************)
(* The transient side of a Run's SSE stream: the connection slots of one   *)
(* API token, and for each connection the pump thread that takes output    *)
(* deltas from a Core subscription and the generator that sends them.  The *)
(* durable events of the same stream are in RunEvents.                     *)
(*                                                                         *)
(* The two threads share the queue, which has a lock, and the counter      *)
(* local_dropped, which has none.  They interleave here where the build,   *)
(* CPython 3.12 (backend/Dockerfile), can switch threads: at calls and at  *)
(* the end of a loop's round.  The pump's "local_dropped += 1" and the     *)
(* generator's read of the counter with its reset in the next line hold    *)
(* neither, so each of the two is one step; on an interpreter without a    *)
(* global lock a count could be lost between the read and the reset.       *)
(***************************************************************************)
EXTENDS Integers, Sequences, FiniteSets

CONSTANTS
  Conns,       \* requests for the stream of one Run with one token
  SlotLimit,   \* acquire_sse(limit=4)
  QueueSize,   \* Queue(maxsize=64)
  CoreSize,    \* bound of a Core subscription
  MaxDeltas    \* bound: deltas the execution produces

VARIABLES
  run,       \* "queued", "live", "ended" in Core, "closed" in the database
  emitted,   \* deltas produced
  slots,     \* _connections[token]
  at,        \* progress of each request and its generator
  closing,   \* the generator's last read found the Run terminal
  stop,      \* connections whose stop event is set
  pump,      \* progress of the pump thread
  coreQ,     \* the connection's Core subscription
  hold,      \* the delta the pump has taken
  deltas,    \* the queue between pump and generator
  taken,     \* the delta the generator has taken and not yet sent
  dropped,   \* local_dropped
  due,       \* deltas produced while the connection was subscribed
  got,       \* deltas sent to the client
  told       \* sum of the dropped_before of what was sent

coreVars == <<run, emitted>>
genVars  == <<slots, at, closing, stop>>
pumpVars == <<pump, coreQ, hold>>
sentVars == <<taken, got, told>>
vars == <<coreVars, genVars, pumpVars, deltas, dropped, due, sentVars>>

Delta == [seq : 1..MaxDeltas, before : Nat]
Open  == {c \in Conns : at[c] \in {"pass", "drain"}}
Subscribed(c) == pump[c] \in {"iterate", "put", "full", "discard", "again"}

TypeOK ==
  /\ run \in {"queued", "live", "ended", "closed"}
  /\ emitted \in 0..MaxDeltas
  /\ slots \in Nat
  /\ at \in [Conns -> {"new", "granted", "refused", "pass", "drain", "gone"}]
  /\ closing \in [Conns -> BOOLEAN]
  /\ stop \subseteq Conns
  /\ \A c \in Conns :
       pump[c] \in {"none", "loop", "iterate", "put", "full", "discard", "again", "done"}
  /\ \A c \in Conns : coreQ[c] \in Seq(Delta) /\ Len(coreQ[c]) <= CoreSize
  /\ \A c \in Conns : deltas[c] \in Seq(Delta) /\ Len(deltas[c]) <= QueueSize
  /\ hold \in [Conns -> SUBSET Delta] /\ taken \in [Conns -> SUBSET Delta]
  /\ dropped \in [Conns -> Nat]
  /\ due \in [Conns -> SUBSET (1..MaxDeltas)]
  /\ got \in [Conns -> SUBSET (1..MaxDeltas)]
  /\ told \in [Conns -> Nat]

Init ==
  /\ run = "queued"
  /\ emitted = 0
  /\ slots = 0
  /\ at = [c \in Conns |-> "new"]
  /\ closing = [c \in Conns |-> FALSE]
  /\ stop = {}
  /\ pump = [c \in Conns |-> "none"]
  /\ coreQ = [c \in Conns |-> <<>>]
  /\ hold = [c \in Conns |-> {}]
  /\ deltas = [c \in Conns |-> <<>>]
  /\ taken = [c \in Conns |-> {}]
  /\ dropped = [c \in Conns |-> 0]
  /\ due = [c \in Conns |-> {}]
  /\ got = [c \in Conns |-> {}]
  /\ told = [c \in Conns |-> 0]

Goes(c, from, to) == at[c] = from /\ at' = [at EXCEPT ![c] = to]
Pumps(c, from, to) == pump[c] = from /\ pump' = [pump EXCEPT ![c] = to]

-----------------------------------------------------------------------------
(* The Run, and Core's bounded, future-only subscriptions.                 *)

\* A full subscription drops its oldest delta and counts it on the next one.
Push(q, s) ==
  LET new == Append(q, [seq |-> s, before |-> 0])
  IN IF Len(q) < CoreSize THEN new
     ELSE [Tail(new) EXCEPT ![1].before = @ + 1 + Head(new).before]

Emit ==
  /\ run = "live"
  /\ emitted < MaxDeltas
  /\ emitted' = emitted + 1
  /\ coreQ' = [c \in Conns |-> IF Subscribed(c) THEN Push(coreQ[c], emitted + 1)
                               ELSE coreQ[c]]
  /\ due' = [c \in Conns |-> IF Subscribed(c) THEN due[c] \union {emitted + 1} ELSE due[c]]
  /\ UNCHANGED <<run, genVars, pump, hold, deltas, dropped, sentVars>>

RunMoves ==
  /\ \/ run = "queued" /\ run' \in {"live", "closed"}
     \/ run = "live" /\ run' \in {"ended", "closed"}
     \/ run = "ended" /\ run' = "closed"
  /\ UNCHANGED <<emitted, genVars, pumpVars, deltas, dropped, due, sentVars>>

-----------------------------------------------------------------------------
(* Variants with a mistake in them.                                        *)

\* A full queue is found out without being counted.
CountNothing(c) == Pumps(c, "full", "discard") /\ UNCHANGED dropped

\* The queue has no maximum.
PutAlways(c) ==
  /\ Pumps(c, "put", "iterate")
  /\ \E d \in hold[c] : deltas' = [deltas EXCEPT ![c] = Append(@, d)]
  /\ hold' = [hold EXCEPT ![c] = {}]
  /\ UNCHANGED coreQ

\* One session for the whole stream keeps the Run as it first read it.
QueryCached(c) ==
  /\ Goes(c, "pass", "drain")
  /\ UNCHANGED <<coreVars, slots, closing, stop, pumpVars, deltas, dropped, due, sentVars>>

-----------------------------------------------------------------------------
(* The request: stream_run, _async_stream and the generator _stream.       *)

AcquireSSE(c) ==
  /\ IF slots < SlotLimit
     THEN Goes(c, "new", "granted") /\ slots' = slots + 1
     ELSE Goes(c, "new", "refused") /\ UNCHANGED slots
  /\ UNCHANGED <<coreVars, closing, stop, pumpVars, deltas, dropped, due, sentVars>>

\* The first next_frame in a server thread enters the generator.
Start(c) ==
  /\ Goes(c, "granted", "pass")
  /\ Pumps(c, "none", "loop")
  /\ UNCHANGED <<coreVars, slots, closing, stop, coreQ, hold, deltas, dropped, due, sentVars>>

\* The durable rows and the Run are read (see RunEvents).
Query(c) ==
  /\ Goes(c, "pass", "drain")
  /\ closing' = [closing EXCEPT ![c] = run = "closed"]
  /\ UNCHANGED <<coreVars, slots, stop, pumpVars, deltas, dropped, due, sentVars>>

\* get_nowait; the pump may go on before the delta is sent.
TakeDelta(c) ==
  /\ at[c] = "drain" /\ taken[c] = {}
  /\ deltas[c] # <<>>
  /\ taken' = [taken EXCEPT ![c] = {Head(deltas[c])}]
  /\ deltas' = [deltas EXCEPT ![c] = Tail(@)]
  /\ UNCHANGED <<coreVars, genVars, pumpVars, dropped, due, got, told>>

SendDelta(c) ==
  /\ \E d \in taken[c] :
       /\ got' = [got EXCEPT ![c] = @ \union {d.seq}]
       /\ told' = [told EXCEPT ![c] = @ + d.before + dropped[c]]
  /\ taken' = [taken EXCEPT ![c] = {}]
  /\ dropped' = [dropped EXCEPT ![c] = 0]
  /\ UNCHANGED <<coreVars, genVars, pumpVars, deltas, due>>

\* The generator's finally clause.
Close(c) ==
  /\ at' = [at EXCEPT ![c] = "gone"]
  /\ stop' = stop \union {c}
  /\ slots' = IF slots <= 1 THEN 0 ELSE slots - 1

EndPass(c) ==
  /\ at[c] = "drain" /\ taken[c] = {}
  /\ deltas[c] = <<>>
  /\ IF closing[c] THEN Close(c) ELSE Goes(c, "drain", "pass") /\ UNCHANGED <<stop, slots>>
  /\ UNCHANGED <<coreVars, closing, pumpVars, deltas, dropped, due, sentVars>>

\* iterator.close(), between two frames, runs the finally clause of a generator
\* that has been entered; for one that has not, it does nothing.
Disconnect(c) ==
  /\ \/ c \in Open /\ taken[c] = {} /\ Close(c)
     \/ Goes(c, "granted", "gone") /\ UNCHANGED <<stop, slots>>
  /\ UNCHANGED <<coreVars, closing, pumpVars, deltas, dropped, due, sentVars>>

-----------------------------------------------------------------------------
(* The pump thread.                                                        *)

\* Without a handle (KeyError) it looks at the Run and tries again.
Subscribe(c) ==
  /\ Pumps(c, "loop", IF c \in stop \/ run = "closed" THEN "done"
                      ELSE IF run = "queued" THEN "loop" ELSE "iterate")
  /\ coreQ' = [coreQ EXCEPT ![c] = <<>>]
  /\ UNCHANGED hold

Take(c) ==
  /\ coreQ[c] # <<>>
  /\ Pumps(c, "iterate", IF c \in stop THEN "done" ELSE "put")
  /\ hold' = [hold EXCEPT ![c] = {Head(coreQ[c])}]
  /\ coreQ' = [coreQ EXCEPT ![c] = Tail(@)]

\* No delta within the timeout, or Core has ended the subscription.
Idle(c) ==
  /\ coreQ[c] = <<>>
  /\ Pumps(c, "iterate", IF run = "closed" THEN "done" ELSE "loop")
  /\ UNCHANGED <<coreQ, hold>>

Puts(c) ==
  /\ \E d \in hold[c] : deltas' = [deltas EXCEPT ![c] = Append(@, d)]
  /\ hold' = [hold EXCEPT ![c] = {}]

Put(c) ==
  /\ IF Len(deltas[c]) < QueueSize
     THEN Pumps(c, "put", "iterate") /\ Puts(c)
     ELSE Pumps(c, "put", "full") /\ UNCHANGED <<deltas, hold>>
  /\ UNCHANGED coreQ

Count(c) == Pumps(c, "full", "discard") /\ dropped' = [dropped EXCEPT ![c] = @ + 1]

\* get_nowait, which may find that the generator has emptied the queue.
Discard(c) ==
  /\ Pumps(c, "discard", "again")
  /\ deltas' = [deltas EXCEPT ![c] = IF @ = <<>> THEN @ ELSE Tail(@)]
  /\ UNCHANGED <<coreQ, hold>>

Again(c) == Pumps(c, "again", "iterate") /\ Puts(c) /\ UNCHANGED coreQ

Pump(c) ==
  /\ \/ (Subscribe(c) \/ Take(c) \/ Idle(c)) /\ UNCHANGED <<deltas, dropped>>
     \/ (Put(c) \/ Discard(c) \/ Again(c)) /\ UNCHANGED dropped
     \/ Count(c) /\ UNCHANGED <<coreQ, hold, deltas>>
  /\ UNCHANGED <<coreVars, genVars, due, sentVars>>

Serve(c) == Query(c) \/ TakeDelta(c) \/ SendDelta(c) \/ EndPass(c)

Next ==
  \/ Emit \/ RunMoves
  \/ \E c \in Conns : AcquireSSE(c) \/ Start(c) \/ Serve(c) \/ Disconnect(c) \/ Pump(c)

Spec == Init /\ [][Next]_vars

\* Threads run; nobody has to disconnect and the Run need not end.
FairSpec == Spec /\ \A c \in Conns : WF_vars(Pump(c)) /\ WF_vars(Start(c) \/ Serve(c))

-----------------------------------------------------------------------------
(* Properties.                                                             *)

\* The token never has more streams than its limit, however connections end:
\* no slot is given back twice.
LimitHolds ==
  /\ Cardinality(Open) <= SlotLimit
  /\ slots >= Cardinality(Open)

\* A client that has never been told of a drop has every delta its
\* subscription produced before the latest one it has.
Missing(c) == {s \in due[c] \ got[c] : \E g \in got[c] : s < g}
GapsAreSignalled == \A c \in Conns : told[c] = 0 => Missing(c) = {}

\* Again and again there is no stream of a Run that is closed, whatever the
\* pumps still deliver, and no pump thread of a connection that is gone, also
\* when its Run never starts.
StreamsEnd ==
  []<>(/\ run = "closed" => Open = {}
       /\ \A c \in Conns : at[c] = "gone" => pump[c] \in {"none", "done"})

\* docs/public-api-v2.md: "Each API token may hold four SSE connections per
\* backend process": a slot in use belongs to a connection.
SlotsAreHeld ==
  slots = Cardinality(Open \union {c \in Conns : at[c] = "granted"})
=============================================================================
