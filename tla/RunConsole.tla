---- MODULE RunConsole ----
(***************************************************************************)
(* The page of one execution (pages/runs/run-detail.tsx).  Its start-up    *)
(* sequence, a timer, the stream and the Cancel button all read the Run;   *)
(* loadState has no busy flag, so its requests overlap and their answers   *)
(* come back in any order.  Output text and artifact lists are left out.   *)
(***************************************************************************)
EXTENDS RunLive

CONSTANTS
    MaxRunEvents,  \* bound: durable events of the Run
    EventPage,     \* getLiveEvents limit
    Loads,         \* bound: requests of loadState on their way at once
    MaxTrouble     \* bound: requests that fail or are denied, connections that break

VARIABLES
    rcRun,         \* the server: events stored, whether the Run is terminal, and
                   \* the sequence of the event that says so (0 if there is none)
    rcPage,        \* the page
    rcLoads,       \* each loadState: "idle", asked, served, or fetching the result
    rcTrouble      \* failures so far, and whether one was a result that nobody asks for again

rcVars == <<rcRun, rcPage, rcLoads, rcTrouble>>

Free == [at |-> "idle", ended |-> FALSE]
ConsoleInit ==
    /\ rcRun = [log |-> 0, ended |-> FALSE, ending |-> 0]
    /\ rcPage = [boot |-> "run", first |-> FALSE,                 \* boot(): awaited request, state read
                 cursor |-> 0,                                    \* cursor.current
                 ended |-> FALSE,                                 \* currentStatus is terminal
                 shown |-> "nothing", output |-> FALSE,           \* run.status, run.final_output
                 got |-> {}, stream |-> "none",
                 cancelling |-> "no", lost |-> FALSE]
    /\ rcLoads = [l \in Loads |-> Free]
    /\ rcTrouble = [count |-> 0, stuck |-> FALSE]

Events(after) == {n \in 1..rcRun.log : after < n /\ n <= after + EventPage}
Streams == {"open", "pause"}
Closed(stream) == IF stream \in Streams THEN "closed" ELSE stream

\* Variant with a mistake: a terminal status, once read, is never unread.
ShowsRunLatched(ended) ==
    [rcPage EXCEPT !.ended = @ \/ ended, !.shown = IF ended THEN "ended" ELSE "live", !.output = FALSE]

\* What setRun of a fresh status does to the page.
ShowsRun(ended) == [rcPage EXCEPT !.ended = ended, !.shown = IF ended THEN "ended" ELSE "live", !.output = FALSE]

\* loadState() is called: in any of its calls that is free.
Calls(l) == rcLoads[l] = Free /\ rcLoads' = [rcLoads EXCEPT ![l].at = "asked"]

--------------------------------------------------------------------------
(* The Run: see RunLifecycle and RunEvents. *)

\* The worker of a cancelled Run stores events after its row is terminal.
Stores ==
    /\ rcRun.log < MaxRunEvents
    /\ \E last \in BOOLEAN :
         rcRun' = [rcRun EXCEPT !.log = @ + 1,
                                !.ending = IF @ = 0 /\ last THEN rcRun.log + 1 ELSE @]
    /\ UNCHANGED <<rcPage, rcLoads, rcTrouble>>

Ends ==
    /\ ~rcRun.ended
    /\ rcRun' = [rcRun EXCEPT !.ended = TRUE]
    /\ UNCHANGED <<rcPage, rcLoads, rcTrouble>>

--------------------------------------------------------------------------
(* boot(): the status, the tree, the events page by page, then the stream. *)

BootServed ==
    /\ rcPage.boot = "run"
    /\ rcPage' = [rcPage EXCEPT !.boot = "served", !.first = rcRun.ended]
    /\ UNCHANGED <<rcRun, rcLoads, rcTrouble>>

BootShows ==
    /\ rcPage.boot = "served"
    /\ rcPage' = [ShowsRun(rcPage.first) EXCEPT !.boot = "page"]
    /\ UNCHANGED <<rcRun, rcLoads, rcTrouble>>

BootPages ==
    /\ rcPage.boot = "page" /\ rcRun.log > rcPage.cursor + EventPage
    /\ rcPage' = [rcPage EXCEPT !.got = Newest(@ \cup Events(rcPage.cursor)), !.cursor = @ + EventPage]
    /\ UNCHANGED <<rcRun, rcLoads, rcTrouble>>

\* The last page: a Run that was terminal at the start is loaded once more.
BootEnds(l) ==
    /\ rcPage.boot = "page" /\ rcRun.log <= rcPage.cursor + EventPage
    /\ rcPage' = [rcPage EXCEPT !.got = Newest(@ \cup Events(rcPage.cursor)), !.cursor = rcRun.log,
                                !.boot = "done", !.stream = IF rcPage.first THEN @ ELSE "pause"]
    /\ IF rcPage.first THEN Calls(l) ELSE UNCHANGED rcLoads
    /\ UNCHANGED <<rcRun, rcTrouble>>

\* update(): an error is shown and boot() goes no further; nothing calls it again.
BootFails ==
    /\ rcPage.boot \in {"run", "served", "page"} /\ rcTrouble.count < MaxTrouble
    /\ rcPage' = [rcPage EXCEPT !.boot = "done"]
    /\ rcTrouble' = [count |-> rcTrouble.count + 1, stuck |-> rcTrouble.stuck \/ rcPage.ended]
    /\ UNCHANGED <<rcRun, rcLoads>>

--------------------------------------------------------------------------
(* loadState(). *)

LoadServed(l) ==
    /\ rcLoads[l].at = "asked"
    /\ rcLoads' = [rcLoads EXCEPT ![l] = [at |-> "served", ended |-> rcRun.ended]]
    /\ UNCHANGED <<rcRun, rcPage, rcTrouble>>

\* A terminal Run closes the stream, and its result is asked for.
LoadShows(l) ==
    /\ rcLoads[l].at = "served"
    /\ LET ended == rcLoads[l].ended IN
         /\ rcPage' = [ShowsRun(ended) EXCEPT !.stream = IF ended THEN Closed(@) ELSE @]
         /\ rcLoads' = [rcLoads EXCEPT ![l] = IF ended THEN [@ EXCEPT !.at = "result"] ELSE Free]
    /\ UNCHANGED <<rcRun, rcTrouble>>

\* The output is put into whatever Run is shown by then.
ResultShows(l) ==
    /\ rcLoads[l].at = "result"
    /\ rcPage' = IF rcPage.shown = "nothing" THEN [rcPage EXCEPT !.shown = "ended"]
                                            ELSE [rcPage EXCEPT !.output = TRUE]
    /\ rcLoads' = [rcLoads EXCEPT ![l] = Free]
    /\ UNCHANGED <<rcRun, rcTrouble>>

\* After a failed result the status is terminal, and the timer asks no more.
LoadFails(l) ==
    /\ rcLoads[l] # Free /\ rcTrouble.count < MaxTrouble
    /\ rcLoads' = [rcLoads EXCEPT ![l] = Free]
    /\ rcTrouble' = [count |-> rcTrouble.count + 1, stuck |-> rcTrouble.stuck \/ rcPage.ended]
    /\ UNCHANGED <<rcRun, rcPage>>

\* Every three seconds, while the last status read is not terminal.
Tick(l) ==
    /\ ~rcPage.ended
    /\ Calls(l)
    /\ UNCHANGED <<rcRun, rcPage, rcTrouble>>

--------------------------------------------------------------------------
(* The stream. *)

StreamOpens ==
    /\ rcPage.stream = "pause"
    /\ rcPage' = [rcPage EXCEPT !.stream = "open"]
    /\ UNCHANGED <<rcRun, rcLoads, rcTrouble>>

StreamBreaks ==
    /\ rcPage.stream = "open" /\ rcTrouble.count < MaxTrouble
    /\ rcPage' = [rcPage EXCEPT !.stream = "pause"]
    /\ rcTrouble' = [rcTrouble EXCEPT !.count = @ + 1]
    /\ UNCHANGED <<rcRun, rcLoads>>

\* The frame after the cursor.  The execution's end calls loadState and ends
\* the loop; another event may be the final output's, which calls it as well.
onEvent(l) ==
    /\ rcPage.stream = "open" /\ rcPage.cursor < rcRun.log
    /\ LET next == rcPage.cursor + 1 IN
         /\ rcPage' = [rcPage EXCEPT !.cursor = next, !.got = Newest(@ \cup {next}),
                                     !.stream = IF next = rcRun.ending THEN "ended" ELSE @]
         /\ \/ Calls(l)
            \/ next # rcRun.ending /\ UNCHANGED rcLoads
    /\ UNCHANGED <<rcRun, rcTrouble>>

\* The server ends the body of a terminal Run; the loop connects again.
BodyEnds ==
    /\ rcPage.stream = "open" /\ rcRun.ended /\ rcPage.cursor = rcRun.log
    /\ rcPage' = [rcPage EXCEPT !.stream = "pause"]
    /\ UNCHANGED <<rcRun, rcLoads, rcTrouble>>

--------------------------------------------------------------------------
(* A request is answered with 401, 403 or 404. *)

\* What is shown is cleared and a stream closed; requests under way, the timer
\* and boot() go on, and may fill in again what the page no longer shows.
loseAccess(page) ==
    [page EXCEPT !.lost = TRUE, !.shown = "nothing", !.output = FALSE, !.got = {}, !.stream = Closed(@)]

Denies ==
    /\ rcTrouble.count < MaxTrouble
    /\ rcTrouble' = [rcTrouble EXCEPT !.count = @ + 1]
    /\ UNCHANGED rcRun

BootDenied ==
    /\ rcPage.boot \in {"run", "page"} /\ Denies
    /\ rcPage' = [loseAccess(rcPage) EXCEPT !.boot = "done"]
    /\ UNCHANGED rcLoads

LoadDenied(l) ==
    /\ rcLoads[l].at \in {"asked", "result"} /\ Denies
    /\ rcPage' = loseAccess(rcPage)
    /\ rcLoads' = [rcLoads EXCEPT ![l] = Free]

\* The connection, or a request for artifacts that an event has caused.
StreamDenied ==
    /\ rcPage.stream # "none" /\ Denies
    /\ rcPage' = loseAccess(rcPage)
    /\ UNCHANGED rcLoads

--------------------------------------------------------------------------
(* The Cancel button. *)

cancel ==
    /\ rcPage.shown = "live" /\ ~rcPage.lost /\ rcPage.cancelling = "no"
    /\ rcPage' = [rcPage EXCEPT !.cancelling = "asked"]
    /\ UNCHANGED <<rcRun, rcLoads, rcTrouble>>

\* A Run that waits ends at once, one that works ends later.
CancelServed ==
    /\ rcPage.cancelling = "asked"
    /\ rcPage' = [rcPage EXCEPT !.cancelling = "served"]
    /\ \E ended \in BOOLEAN : rcRun' = [rcRun EXCEPT !.ended = @ \/ ended]
    /\ UNCHANGED <<rcLoads, rcTrouble>>

\* It awaits loadState before the button can be pressed again.
CancelAnswered(l) ==
    /\ rcPage.cancelling = "served"
    /\ rcPage' = [rcPage EXCEPT !.cancelling = "reads"]
    /\ Calls(l)
    /\ UNCHANGED <<rcRun, rcTrouble>>

\* That ended, or the request failed: nothing is cleared, whatever it said.
Cancelled ==
    /\ rcPage.cancelling # "no"
    /\ rcPage' = [rcPage EXCEPT !.cancelling = "no"]
    /\ UNCHANGED <<rcRun, rcLoads, rcTrouble>>

ConsoleNext ==
    \/ Stores \/ Ends
    \/ BootServed \/ BootShows \/ BootPages \/ BootFails \/ BootDenied
    \/ StreamOpens \/ StreamBreaks \/ BodyEnds \/ StreamDenied
    \/ cancel \/ CancelServed \/ Cancelled
    \/ \E l \in Loads : \/ BootEnds(l) \/ onEvent(l) \/ CancelAnswered(l)
                        \/ LoadServed(l) \/ LoadShows(l) \/ ResultShows(l) \/ LoadFails(l) \/ LoadDenied(l)
                        \/ Tick(l)

ConsoleSpec == ConsoleInit /\ [][ConsoleNext]_rcVars

--------------------------------------------------------------------------
ConsoleTypeOK ==
    /\ {rcRun.log, rcRun.ending} \subseteq 0..MaxRunEvents /\ rcRun.ended \in BOOLEAN
    /\ rcPage.boot \in {"run", "served", "page", "done"}
    /\ rcPage.shown \in {"nothing", "live", "ended"}
    /\ rcPage.stream \in Streams \cup {"none", "closed", "ended"}
    /\ rcPage.got \subseteq 1..MaxRunEvents /\ rcPage.cursor <= rcRun.log
    /\ \A l \in Loads : rcLoads[l].at \in {"idle", "asked", "served", "result"}

\* A page that has its access shows the newest events up to its cursor with no
\* gap among them, over page loads, broken connections and the closing of the
\* stream; and when nothing is under way and it has given up asking, it shows
\* the finished Run with its output, whatever order the answers came back in.
\* Two exceptions the code has: a failed request after the Run was seen to end
\* is repeated by nothing, and a page that lost its access shows a notice only,
\* behind which boot() and the timer go on (run-detail.tsx loadState, loseAccess,
\* timer; run-live.ts reduceLive).
ConsoleSettles ==
    ~rcPage.lost =>
      /\ rcPage.got = Newest(1..rcPage.cursor)
      /\ (rcPage.ended /\ rcPage.boot = "done" /\ ~rcTrouble.stuck
            /\ \A l \in Loads : rcLoads[l] = Free) =>
              rcPage.shown = "ended" /\ rcPage.output
====
