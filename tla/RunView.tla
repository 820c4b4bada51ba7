------------------------------ MODULE RunView -------------------------------
(***************************************************************************)
(* The browser's view of one Run in the Playground: usePlaygroundRun and   *)
(* the stream loop it opens.  One JavaScript thread, in which a periodic   *)
(* refresh, the start-up sequence, the stream and a timer that publishes   *)
(* batches take turns at every await.  Each step is what runs between two  *)
(* awaits.                                                                 *)
(***************************************************************************)
EXTENDS RunLive

CONSTANTS
  MaxLog,      \* bound: durable events of the Run
  PageSize,    \* getLiveEvents limit
  MaxFails     \* bound: requests that fail and connections that break

VARIABLES
  log,        \* durable events stored, numbered from 1
  closed,     \* the Run is terminal
  last,       \* how many of them were stored when it became terminal
  ending,     \* sequence of its terminal event, 0 if it has none
  active,     \* the effect is mounted
  denied,     \* access was lost
  busy,       \* refresh is under way
  refresh,    \* where it awaits: see Refreshing
  refreshAt,  \* the cursor of its page request
  start,      \* where start() awaits
  startAt,    \* the cursor of its page request
  fetched,    \* terminalFetched
  got,        \* events of the model, see RunLive
  pending,    \* events received and not yet published
  stream,     \* the loop of openRunStream
  sent,       \* how far the server has got on this connection
  fails

serverVars  == <<log, closed, last, ending>>
flagVars    == <<active, denied, fails>>
refreshVars == <<busy, refresh, refreshAt>>
startVars   == <<start, startAt>>
streamVars  == <<stream, sent>>
modelVars   == <<fetched, got, pending>>
vars == <<serverVars, flagVars, refreshVars, startVars, streamVars, modelVars>>

Streaming == {"connect", "body", "pause"}

TypeOK ==
  /\ {log, last, ending} \subseteq 0..MaxLog
  /\ {closed, active, denied, busy, fetched} \subseteq BOOLEAN
  /\ refresh \in {"idle", "run", "page", "results"}
  /\ start \in {"first", "detail", "page", "done"}
  /\ {refreshAt, startAt, sent} \subseteq 0..MaxLog
  /\ got \subseteq 1..MaxLog /\ pending \subseteq 1..MaxLog
  /\ stream \in {"none", "ended", "closed"} \union Streaming
  /\ fails \in 0..MaxFails
  /\ busy <=> refresh # "idle"

\* The effect calls start(), which calls refresh().
Init ==
  /\ log = 0 /\ closed = FALSE /\ last = 0 /\ ending = 0
  /\ active = TRUE /\ denied = FALSE /\ fails = 0
  /\ busy = TRUE /\ refresh = "run" /\ refreshAt = 0
  /\ start = "first" /\ startAt = 0
  /\ stream = "none" /\ sent = 0
  /\ fetched = FALSE /\ got = {} /\ pending = {}

Page(after) == {n \in 1..log : n > after /\ n <= after + PageSize}
HasMore(after) == log > after + PageSize
Gone == ~active \/ denied

\* close(): nothing before start() has opened the stream.
Closes == stream' = IF stream \in Streaming THEN "closed" ELSE stream

\* refresh() ends; start() goes on if this was the refresh it awaits.
Settles ==
  /\ busy' = FALSE
  /\ refresh' = "idle"
  /\ start' = IF start # "first" THEN start
              ELSE IF Gone \/ fetched' THEN "done" ELSE "detail"
  /\ UNCHANGED <<refreshAt, startAt>>

-----------------------------------------------------------------------------
(* The server: RunLifecycle and RunEvents seen through the API.            *)

\* The worker of a cancelled Run stores events after its row is terminal.
Store ==
  /\ log < MaxLog
  /\ log' = log + 1
  /\ ending' \in (IF ending = 0 THEN {0, log + 1} ELSE {ending})
  /\ UNCHANGED <<closed, last, flagVars, refreshVars, startVars, streamVars, modelVars>>

CloseRun ==
  /\ ~closed
  /\ closed' = TRUE /\ last' = log
  /\ UNCHANGED <<log, ending, flagVars, refreshVars, startVars, streamVars, modelVars>>

-----------------------------------------------------------------------------
(* Variants with a mistake in them.                                        *)

\* No finally clause: after a failed refresh busy stays set.
FailsBusy ==
  /\ busy /\ refresh # "idle" /\ fails < MaxFails
  /\ fails' = fails + 1
  /\ refresh' = "idle"
  /\ start' = IF start = "first" THEN "detail" ELSE start
  /\ UNCHANGED <<serverVars, active, denied, busy, refreshAt, startAt, streamVars, modelVars>>

\* The next page is asked for by count, not from the cursor.
StartPageSkipping ==
  /\ start = "page" /\ ~Gone
  /\ got' = Newest(got \union Page(startAt))
  /\ IF HasMore(startAt)
     THEN startAt' = startAt + PageSize + 1 /\ UNCHANGED <<start, streamVars>>
     ELSE /\ start' = "done" /\ stream' = "connect" /\ sent' = Cursor(got')
          /\ UNCHANGED startAt
  /\ UNCHANGED <<serverVars, flagVars, refreshVars, fetched, pending>>

-----------------------------------------------------------------------------
(* refresh(): by start(), by the interval, by a terminal event.            *)

Calls == IF Gone \/ busy THEN UNCHANGED <<busy, refresh>>
         ELSE busy' = TRUE /\ refresh' = "run"

Interval ==
  /\ active /\ ~fetched /\ ~busy /\ ~denied
  /\ Calls
  /\ UNCHANGED <<serverVars, flagVars, refreshAt, startVars, streamVars, modelVars>>

RefreshRun ==
  /\ refresh = "run" /\ ~Gone
  /\ IF closed /\ ~fetched
     THEN /\ Closes
          /\ refresh' = "page" /\ refreshAt' = Cursor(got)
          /\ UNCHANGED <<busy, startVars, modelVars>>
     ELSE UNCHANGED <<stream, modelVars>> /\ Settles
  /\ UNCHANGED <<serverVars, flagVars, sent>>

RefreshPage ==
  /\ refresh = "page" /\ ~Gone
  /\ got' = Newest(got \union Page(refreshAt))
  /\ IF HasMore(refreshAt) THEN refreshAt' = Cursor(got') /\ UNCHANGED refresh
                           ELSE refresh' = "results" /\ UNCHANGED refreshAt
  /\ UNCHANGED <<serverVars, flagVars, busy, startVars, streamVars, fetched, pending>>

RefreshResults ==
  /\ refresh = "results" /\ ~Gone
  /\ fetched' = TRUE
  /\ Settles
  /\ UNCHANGED <<serverVars, flagVars, streamVars, got, pending>>

RefreshFails ==
  /\ busy /\ fails < MaxFails
  /\ fails' = fails + 1
  /\ UNCHANGED modelVars
  /\ Settles
  /\ UNCHANGED <<serverVars, active, denied, streamVars>>

\* An answer that comes after the effect is gone is dropped.
RefreshDropped ==
  /\ busy /\ Gone
  /\ UNCHANGED modelVars
  /\ Settles
  /\ UNCHANGED <<serverVars, flagVars, streamVars>>

\* 401, 403 or 404, of a refresh or of the stream: nothing is kept.
Deny ==
  /\ ~Gone
  /\ busy \/ stream = "connect"
  /\ denied' = TRUE
  /\ got' = {} /\ pending' = {}
  /\ stream' = IF stream \in Streaming THEN "closed" ELSE stream
  /\ UNCHANGED <<serverVars, active, fails, refreshVars, startVars, sent, fetched>>

-----------------------------------------------------------------------------
(* start().                                                                *)

StartDetail ==
  /\ start = "detail"
  /\ start' = "page" /\ startAt' = Cursor(got)
  /\ UNCHANGED <<serverVars, flagVars, refreshVars, streamVars, modelVars>>

\* Without an await in between, the stream is opened after the last page.
Opens(events) ==
  /\ start' = "done"
  /\ IF fetched THEN UNCHANGED streamVars
     ELSE stream' = "connect" /\ sent' = Cursor(events)
  /\ UNCHANGED startAt

StartPage ==
  /\ start = "page" /\ ~Gone
  /\ got' = Newest(got \union Page(startAt))
  /\ IF HasMore(startAt)
     THEN startAt' = Cursor(got') /\ UNCHANGED <<start, streamVars>>
     ELSE Opens(got')
  /\ UNCHANGED <<serverVars, flagVars, refreshVars, fetched, pending>>

StartPageFails ==
  /\ start = "page" /\ ~Gone /\ fails < MaxFails
  /\ fails' = fails + 1
  /\ Opens(got)
  /\ UNCHANGED <<serverVars, active, denied, refreshVars, modelVars>>

StartDropped ==
  /\ start = "page" /\ Gone
  /\ start' = "done"
  /\ UNCHANGED <<serverVars, flagVars, refreshVars, startAt, streamVars, modelVars>>

-----------------------------------------------------------------------------
(* openRunStream and the batches.                                          *)

Connected ==
  /\ stream = "connect"
  /\ stream' = "body"
  /\ UNCHANGED <<serverVars, flagVars, refreshVars, startVars, sent, modelVars>>

\* The frame of the terminal event ends the loop and calls refresh().
Frame ==
  /\ stream = "body" /\ sent < log
  /\ sent' = sent + 1
  /\ pending' = pending \union {sent + 1}
  /\ IF sent + 1 = ending THEN stream' = "ended" /\ Calls
                          ELSE UNCHANGED <<stream, busy, refresh>>
  /\ UNCHANGED <<serverVars, flagVars, refreshAt, startVars, fetched, got>>

\* The server ends the body of a terminal Run that has no more events.
BodyEnds ==
  /\ stream = "body" /\ closed /\ sent >= log
  /\ stream' = "pause"
  /\ UNCHANGED <<serverVars, flagVars, refreshVars, startVars, sent, modelVars>>

Breaks ==
  /\ stream \in {"connect", "body"} /\ fails < MaxFails
  /\ fails' = fails + 1
  /\ stream' = "pause"
  /\ UNCHANGED <<serverVars, active, denied, refreshVars, startVars, sent, modelVars>>

Retry ==
  /\ stream = "pause"
  /\ stream' = "connect" /\ sent' = Cursor(got)
  /\ UNCHANGED <<serverVars, flagVars, refreshVars, startVars, modelVars>>

Publish ==
  /\ pending # {} /\ ~Gone
  /\ got' = Newest(got \union pending)
  /\ pending' = {}
  /\ UNCHANGED <<serverVars, flagVars, refreshVars, startVars, streamVars, fetched>>

Unmount ==
  /\ active
  /\ active' = FALSE
  /\ Closes
  /\ UNCHANGED <<serverVars, denied, fails, refreshVars, startVars, sent, modelVars>>

-----------------------------------------------------------------------------
Refreshing == RefreshRun \/ RefreshPage \/ RefreshResults \/ RefreshDropped
Starting   == StartDetail \/ StartPage \/ StartDropped
Looping    == Connected \/ Frame \/ BodyEnds \/ Retry

Next ==
  \/ Store \/ CloseRun
  \/ Interval \/ Refreshing \/ RefreshFails \/ Deny
  \/ Starting \/ StartPageFails
  \/ Looping \/ Breaks \/ Publish \/ Unmount

Spec == Init /\ [][Next]_vars

\* Requests are answered and timers fire.  The Run need not end.
FairSpec ==
  /\ Spec
  /\ WF_vars(Interval) /\ WF_vars(Refreshing) /\ WF_vars(Starting)
  /\ WF_vars(Connected) /\ WF_vars(Frame) /\ WF_vars(BodyEnds) /\ WF_vars(Retry)
  /\ WF_vars(Publish)

-----------------------------------------------------------------------------
(* Properties.                                                             *)

\* The model shows the newest events up to its cursor and has no gap among
\* them, although pages of start(), pages of refresh() and batches of the stream
\* are ingested in any order; a view that declares itself final has been given
\* every event there was when the Run became terminal, whatever the worker of a
\* cancelled Run stores later; and an effect that is gone has no stream, one
\* that lost its access shows nothing, whatever answers were under way
\* (use-playground-run.ts, run-live.ts).
ViewIsTrue ==
  /\ got = Newest(1..Cursor(got))
  /\ fetched /\ ~Gone => Cursor(got) >= last
  /\ Gone => stream \notin Streaming
  /\ denied => got = {} /\ pending = {}

\* A view that stays mounted shows the result of a Run that has ended, also
\* when the stream never sends a terminal frame.
ResultIsShown == closed ~> (fetched \/ Gone)

\* docs/live-view-v2.md: "Terminal Runs use persisted result and artifacts and
\* do not maintain a live stream."
TerminalHasNoStream == fetched ~> stream \notin Streaming
=============================================================================
