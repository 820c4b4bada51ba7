---- MODULE RunJournal ----
(***************************************************************************)
(* What the Playground and the execution page read out of a Run's events:  *)
(* which operations of which Agent are unfinished (reduceExecution and     *)
(* projectJournal), which provider requests wait (waitingProviderRequests),*)
(* and which events are told as activities (traceActivities).              *)
(***************************************************************************)
EXTENDS Integers, Sequences, SequencesExt, FiniteSets

CONSTANTS
    Operations,   \* [agent, key] records: the operations Core may run
    TreeAgents,   \* the Agents of the pinned Tree version
    Requests,     \* provider requests of the traffic layer
    MaxJournal    \* bound: events of the Run

VARIABLES
    jnLog,        \* the Run's events, in the order of their sequence numbers
    jnEnd,        \* its status: "running", or the terminal one
    jnJournal     \* the page's fold: cursor, state and phase per Agent, unfinished operations

jnVars == <<jnLog, jnEnd, jnJournal>>

Owners == {o.agent : o \in Operations}
NoAgent == "none"
Lifecycle == {"started", "ended"}
Finishing == {"committed", "reused"}   \* a reconciled operation is treated as a committed one
Breaking == {"failed", "cancelled"}

OpEvent(type, o) == [type |-> type, agent |-> o.agent, key |-> o.key]
Traffic(type, r) == [type |-> type, agent |-> NoAgent, key |-> r]
Mile(type, agent) == [type |-> type, agent |-> agent, key |-> "none"]

--------------------------------------------------------------------------
(* The journal: reduceExecution, one event at a time. *)

Unstarted == "unseen"
Empty == [cursor |-> 0, states |-> [a \in Owners |-> Unstarted],
          phases |-> [a \in Owners |-> "none"], active |-> [a \in Owners |-> <<>>]]

\* Variant with a mistake: the operation that ended is taken to be the newest.
WithoutNewest(keys, k) == IF Contains(keys, k) THEN Front(keys) ELSE keys

Without(keys, k) == FoldLeft(LAMBDA left, x : IF x = k THEN left ELSE Append(left, x), <<>>, keys)

\* state of an Agent after event e, its unfinished operations being left.
After(state, e, left) ==
    CASE e.type = "in_flight" -> "running"
      [] e.type = "prepared" -> IF state = Unstarted THEN "queued" ELSE state
      [] e.type \in Finishing -> IF left # <<>> THEN "running" ELSE "completed"
      [] e.type \in Breaking -> e.type

\* The phase is the newest operation still running, else the one that ended.
PhaseAfter(phase, e, left) ==
    CASE e.type = "in_flight" -> e.key
      [] e.type \in Finishing -> IF left # <<>> THEN Last(left) ELSE e.key
      [] OTHER -> phase

reduceExecution(journal, e, sequence) ==
    IF sequence <= journal.cursor THEN journal
    ELSE IF e.agent \notin Owners \/ e.type \notin {"prepared", "in_flight"} \cup Finishing \cup Breaking
    THEN [journal EXCEPT !.cursor = sequence]
    ELSE LET open == journal.active[e.agent]
             left == IF e.type = "in_flight" THEN IF Contains(open, e.key) THEN open ELSE Append(open, e.key)
                     ELSE IF e.type = "prepared" THEN open ELSE Without(open, e.key)
         IN [journal EXCEPT !.cursor = sequence, !.active[e.agent] = left,
                !.states[e.agent] = After(@, e, left), !.phases[e.agent] = PhaseAfter(@, e, left)]

\* projectJournal: what the graph draws; a terminal status settles what is unfinished.
Settled(state) == IF state \notin {"running", "queued"} THEN state
                  ELSE IF jnEnd \in Breaking THEN jnEnd ELSE "idle"
Drawn == [a \in TreeAgents |->
            LET state == IF a \in Owners THEN jnJournal.states[a] ELSE Unstarted IN
            [state |-> IF jnEnd = "running" THEN state ELSE Settled(state),
             phase |-> IF jnEnd = "running" /\ a \in Owners THEN jnJournal.phases[a] ELSE "none"]]

\* waitingProviderRequests: a fold over the events shown.
Waits == {"wait_started", "retry_scheduled", "rate_limited"}
Resumes == {"wait_resumed", "dispatched", "request_completed", "request_failed", "wait_deferred"}
waitingProviderRequests(events) ==
    FoldLeft(LAMBDA waiting, e : IF e.type \in Waits THEN waiting \cup {e.key}
                                 ELSE IF e.type \in Resumes THEN waiting \ {e.key} ELSE waiting,
             {}, events)

\* traceActivities: of each kind of lifecycle event one is told, the first that
\* names an Agent or else the first; bookkeeping is not told.  (The code also drops an
\* event with the content and the time of an earlier one: here their times differ.)
Bookkeeping == {"prepared", "in_flight", "committed", "reused"}
Represents(events, i) ==
    LET same == {j \in 1..Len(events) : events[j].type = events[i].type}
        named == {j \in same : events[j].agent # NoAgent}
    IN \A j \in (IF named = {} THEN same ELSE named) : i \in (IF named = {} THEN same ELSE named) /\ i <= j
traceActivities(events) ==
    {i \in 1..Len(events) :
        /\ events[i].type \in Lifecycle => Represents(events, i)
        /\ events[i].type \notin Bookkeeping}

--------------------------------------------------------------------------
(* The Run stores an event; the page ingests events, some of them twice. *)

OpenAt(n, o) ==
    \E i \in 1..n : /\ jnLog[i] = OpEvent("in_flight", o)
                    /\ \A j \in (i + 1)..n : \A t \in Finishing \cup Breaking : jnLog[j] # OpEvent(t, o)

JournalInit == jnLog = <<>> /\ jnEnd = "running" /\ jnJournal = Empty

Records(e) ==
    /\ jnEnd = "running" /\ Len(jnLog) < MaxJournal
    /\ jnLog' = Append(jnLog, e)
    /\ UNCHANGED <<jnEnd, jnJournal>>

\* Core's operations: external, as the test of the journal uses them.
OperationRecorded(o) ==
    \/ ~OpenAt(Len(jnLog), o) /\ \E t \in {"prepared", "in_flight", "reused"} : Records(OpEvent(t, o))
    \/ OpenAt(Len(jnLog), o) /\ \E t \in {"committed", "failed", "cancelled"} : Records(OpEvent(t, o))

RunSettles ==
    /\ jnEnd = "running" /\ jnEnd' \in {"completed", "failed", "cancelled"}
    /\ UNCHANGED <<jnLog, jnJournal>>

\* A replayed page, or the stream after a reconnection, starts at any event shown.
Ingest(n) ==
    /\ n <= jnJournal.cursor + 1
    /\ jnJournal' = reduceExecution(jnJournal, jnLog[n], n)
    /\ UNCHANGED <<jnLog, jnEnd>>

JournalNext ==
    \/ \E o \in Operations : OperationRecorded(o)
    \/ \E r \in Requests, t \in {"wait_started", "wait_resumed", "request_completed"} : Records(Traffic(t, r))
    \/ \E t \in Lifecycle, a \in TreeAgents \cup {NoAgent} : Records(Mile(t, a))
    \/ RunSettles
    \/ \E n \in 1..Len(jnLog) : Ingest(n)

JournalSpec == JournalInit /\ [][JournalNext]_jnVars

--------------------------------------------------------------------------
Shown == SubSeq(jnLog, 1, jnJournal.cursor)

JournalTypeOK ==
    /\ jnJournal.cursor \in 0..Len(jnLog) /\ Len(jnLog) <= MaxJournal
    /\ jnEnd \in {"running", "completed", "failed", "cancelled"}
    /\ jnJournal.states \in [Owners -> {Unstarted, "queued", "running", "completed", "failed", "cancelled"}]

\* Whatever is replayed twice, the journal holds exactly the operations that the
\* events shown leave unfinished, an Agent reads as running only while it has
\* one and as completed only when it has none, the requests that wait are those
\* whose last traffic event is a wait, and every kind of lifecycle event that
\* happened is told exactly once, with its Agent when any of its events names
\* one (playground-execution.ts, trace-activity.ts).
Unfinished(a) == {o.key : o \in {p \in Operations : p.agent = a /\ OpenAt(jnJournal.cursor, p)}}
AgentsAreExact ==
    \A a \in Owners :
        /\ ToSet(jnJournal.active[a]) = Unfinished(a)
        /\ Len(jnJournal.active[a]) = Cardinality(Unfinished(a))
        /\ jnJournal.states[a] = "running" => Unfinished(a) # {} /\ jnJournal.phases[a] # "none"
        /\ jnJournal.states[a] = "completed" => Unfinished(a) = {}
WaitsAreExact ==
    waitingProviderRequests(Shown) =
        {r \in Requests : \E i \in 1..Len(Shown) :
            /\ Shown[i].key = r /\ Shown[i].type \in Waits
            /\ \A j \in (i + 1)..Len(Shown) : Shown[j].key = r => Shown[j].type \in Waits}
MilestonesAreTold ==
    \A t \in Lifecycle :
        LET all == {i \in 1..Len(Shown) : Shown[i].type = t}
            told == all \cap traceActivities(Shown)
        IN /\ all # {} => Cardinality(told) = 1
           /\ (\E i \in all : Shown[i].agent # NoAgent) => \A i \in told : Shown[i].agent # NoAgent
JournalIsExact == AgentsAreExact /\ WaitsAreExact /\ MilestonesAreTold
====
