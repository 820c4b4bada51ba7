-------------------------------- MODULE Live --------------------------------
(***************************************************************************)
(* Everything that follows work done elsewhere: the live stream of the     *)
(* server, the Run view and the journal of the Playground, the page of one *)
(* execution, and the Providers page with its verifications.  A browser    *)
(* shows one of the pages and the stream serves several of them at once,   *)
(* without state of theirs; so one part moves and the others stay as they  *)
(* started.  Each part is an instance of its own module, over the state    *)
(* declared here; its fairness holds while it is the part that moves.      *)
(***************************************************************************)
EXTENDS Integers, FiniteSets

CONSTANTS
  Conns, SlotLimit, QueueSize, CoreSize, MaxDeltas,   \* LiveStream
  MaxShown,                                           \* RunLive
  MaxLog, PageSize, MaxFails,                         \* RunView
  MaxRunEvents, EventPage, Loads, MaxTrouble,         \* RunConsole
  Operations, TreeAgents, Requests, MaxJournal,       \* RunJournal
  Catalogued, MaxMounts, MaxLost, MaxFlows            \* ProvidersPage

ASSUME LiveAssumption ==
  /\ IsFiniteSet(Conns)
  /\ {SlotLimit, QueueSize, CoreSize, PageSize, EventPage, MaxMounts} \subseteq Nat \ {0}
  /\ {MaxShown, MaxLog, MaxRunEvents} \subseteq Nat \ {0}
  /\ {MaxDeltas, MaxFails, MaxTrouble, MaxJournal, MaxLost, MaxFlows} \subseteq Nat

\* An operation is its Agent and its key.  The key of an event stands for two
\* fields of the code, the operation and the request: no name is in both.
ASSUME JournalAssumption ==
  /\ \A o \in Operations : o = [agent |-> o.agent, key |-> o.key]
  /\ {o.key : o \in Operations} \intersect Requests = {}
  /\ "none" \notin {o.key : o \in Operations} \union Requests

VARIABLES
  part,                                                        \* the part that moves
  run, emitted, slots, at, closing, stop, pump, coreQ, hold, deltas, taken, dropped, due, gotDeltas, told,
  log, closed, last, ending, active, denied, busy, refresh, refreshAt, start, startAt, fetched, got,
  pending, stream, sent, fails,
  rcRun, rcPage, rcLoads, rcTrouble,
  jnLog, jnEnd, jnJournal,
  provider, pvPage, pvFlow, pvRefs, pvStops, pvLost, pvFlows, pvSince

Stream    == INSTANCE LiveStream WITH got <- gotDeltas
View      == INSTANCE RunView
Console   == INSTANCE RunConsole
Journal   == INSTANCE RunJournal
Providers == INSTANCE ProvidersPage

streamVars == <<run, emitted, slots, at, closing, stop, pump, coreQ, hold, deltas, taken, dropped, due,
                gotDeltas, told>>
viewVars == <<log, closed, last, ending, active, denied, busy, refresh, refreshAt, start, startAt,
              fetched, got, pending, stream, sent, fails>>
consoleVars == <<rcRun, rcPage, rcLoads, rcTrouble>>
journalVars == <<jnLog, jnEnd, jnJournal>>
providersVars == <<provider, pvPage, pvFlow, pvRefs, pvStops, pvLost, pvFlows, pvSince>>
vars == <<part, streamVars, viewVars, consoleVars, journalVars, providersVars>>

Init ==
  /\ part \in {"stream", "view", "console", "journal", "providers"}
  /\ Stream!Init /\ View!Init /\ Console!ConsoleInit /\ Journal!JournalInit
  /\ Providers!ProvidersInit
  /\ provider.exists => part = "providers"

StreamMoves ==
  /\ part = "stream" /\ Stream!Next
  /\ UNCHANGED <<part, viewVars, consoleVars, journalVars, providersVars>>

ViewMoves ==
  /\ part = "view" /\ View!Next
  /\ UNCHANGED <<part, streamVars, consoleVars, journalVars, providersVars>>

ConsoleMoves ==
  /\ part = "console" /\ Console!ConsoleNext
  /\ UNCHANGED <<part, streamVars, viewVars, journalVars, providersVars>>

JournalMoves ==
  /\ part = "journal" /\ Journal!JournalNext
  /\ UNCHANGED <<part, streamVars, viewVars, consoleVars, providersVars>>

ProvidersMove ==
  /\ part = "providers" /\ Providers!ProvidersNext
  /\ UNCHANGED <<part, streamVars, viewVars, consoleVars, journalVars>>

Next == StreamMoves \/ ViewMoves \/ ConsoleMoves \/ JournalMoves \/ ProvidersMove

\* The threads of the stream run.
StreamIsFair ==
  \A c \in Conns :
    /\ WF_streamVars(part = "stream" /\ Stream!Pump(c))
    /\ WF_streamVars(part = "stream" /\ (Stream!Start(c) \/ Stream!Serve(c)))

\* The requests of the Run view are answered and its timers fire.
ViewIsFair ==
  /\ WF_viewVars(part = "view" /\ View!Interval)
  /\ WF_viewVars(part = "view" /\ View!Refreshing)
  /\ WF_viewVars(part = "view" /\ View!Starting)
  /\ WF_viewVars(part = "view" /\ View!Connected)
  /\ WF_viewVars(part = "view" /\ View!Frame)
  /\ WF_viewVars(part = "view" /\ View!BodyEnds)
  /\ WF_viewVars(part = "view" /\ View!Retry)
  /\ WF_viewVars(part = "view" /\ View!Publish)

\* Every request of the Providers page is answered or fails, and the server
\* ends what it verifies.
ProvidersAreFair ==
  /\ WF_providersVars(part = "providers" /\ Providers!LoadReads)
  /\ WF_providersVars(part = "providers" /\ Providers!LoadAnswered)
  /\ \A n \in 1..MaxMounts : WF_providersVars(part = "providers" /\ Providers!Replies(n))
  /\ \A m \in Catalogued : WF_providersVars(part = "providers" /\ Providers!VerificationEnds(m))

Spec == Init /\ [][Next]_vars /\ StreamIsFair /\ ViewIsFair /\ ProvidersAreFair

-----------------------------------------------------------------------------
(* Properties; each is explained in the module it comes from.  The part    *)
(* that moves is the only one that can have gone wrong.                    *)

\* The part that moves keeps its shape, and a token its limit of streams.
LiveTypeOK ==
  /\ part = "stream" => Stream!TypeOK /\ Stream!LimitHolds
  /\ part = "view" => View!TypeOK
  /\ part = "console" => Console!ConsoleTypeOK
  /\ part = "journal" => Journal!JournalTypeOK
  /\ part = "providers" => Providers!ProvidersTypeOK

\* A client of the stream that was told of no drop has missed none.
GapsAreSignalled == part = "stream" => Stream!GapsAreSignalled

\* Streams and pump threads end, also when the Run never starts.
StreamsEnd == Stream!StreamsEnd

\* The Playground's view has no gap, is up to date when final, and shows nothing
\* once it is denied.
ViewIsTrue == part = "view" => View!ViewIsTrue

\* A mounted view comes to show the result of an ended Run.
ResultIsShown == View!ResultIsShown

\* The page of an execution has no gap either, and shows the end and the
\* output once it has stopped asking, as long as it has its access.
ConsoleSettles == part = "console" => Console!ConsoleSettles

\* The journal holds exactly what is unfinished, what waits and what is told.
JournalIsExact == part = "journal" => Journal!JournalIsExact

\* The Providers page becomes free again, whatever is lost.
ProvidersSettle == Providers!ProvidersSettle
=============================================================================
