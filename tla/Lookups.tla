------------------------------- MODULE Lookups -------------------------------
(***************************************************************************)
(* Five views that look something up whenever their query changes, each    *)
(* with a React effect whose clean-up retires the answers still to come:   *)
(*   "runs"          pages/runs/run-list.tsx: filters kept in the URL, a   *)
(*                   delay before the request, rows kept while it runs;    *)
(*   "events"        pages/security-events.tsx: the same without a delay;  *)
(*   "capabilities"  components/tree/capability-selector.tsx: a delay, and *)
(*                   no mark of loading until it is over;                  *)
(*   "models"        components/tree/provider-model-selector.tsx: what was *)
(*                   shown is cleared first;                               *)
(*   "live"          pages/trees/tree-live.tsx: one query, asked again by  *)
(*                   an interval, one request at a time.                   *)
(***************************************************************************)
EXTENDS Integers, FiniteSets, Sequences

CONSTANTS MaxEdits, MaxChanges  \* bounds: edits of the query; changes of what the server has

VARIABLES
  lkPage,   \* the React state: the query, what is shown, the delay
  lkUrl,    \* the URL the router is about to render, the Ref of run-list, earlier URLs
  lkCalls,  \* the requests that wait for an answer
  lkServer  \* how often what the server has was changed

lkVars == <<lkPage, lkUrl, lkCalls, lkServer>>

Views == {"runs", "events", "capabilities", "models", "live"}
Ranges == {"none", "dated", "inverted"}
Blank == [text |-> 0, range |-> "none", page |-> 1]
Unfound == [query |-> Blank, seen |-> -1]

Delayed == lkPage.view \in {"runs", "capabilities"}
Ranged == lkPage.view \in {"runs", "events"}

LookupsInit ==
  /\ \E view \in Views :
       lkPage = [view |-> view, query |-> Blank, found |-> Unfound, error |-> FALSE,
                 loading |-> FALSE, fresh |-> TRUE, timer |-> FALSE, kept |-> FALSE, edits |-> 0]
  /\ lkUrl = [next |-> Blank, pending |-> Blank, typed |-> Blank, past |-> <<Blank>>]
  /\ lkCalls = {} /\ lkServer = 0

-----------------------------------------------------------------------------

\* An effect runs once its component has rendered a new query.
Rendered(page, query) == [page EXCEPT !.query = query, !.fresh = TRUE]
EditsLeft == lkPage.edits < MaxEdits /\ lkPage.view # "live"
Edited == [lkPage EXCEPT !.edits = @ + 1]

\* Any filter but the page puts the page back to the first.
With(query, text, range) == [text |-> text, range |-> range, page |-> 1]
Changes(query) ==
  {With(query, lkPage.edits + 1, query.range)}
    \union IF Ranged THEN {With(query, query.text, r) : r \in Ranges \ {query.range}} ELSE {}

\* update: built on the Ref, for the URL of an earlier edit may not be rendered yet.
update ==
  /\ lkPage.view = "runs" /\ EditsLeft
  /\ \/ \E next \in Changes(lkUrl.pending) :
          lkUrl' = [lkUrl EXCEPT !.next = next, !.pending = next,
                      !.typed = IF next.text # lkUrl.pending.text
                                THEN With(@, next.text, @.range) ELSE With(@, @.text, next.range)]
     \/ /\ lkPage.found.seen >= 0 /\ ~lkPage.loading /\ ~lkPage.error
        /\ LET turned == [lkUrl.pending EXCEPT !.page = 3 - lkPage.query.page] IN
           lkUrl' = [lkUrl EXCEPT !.next = turned, !.pending = turned, !.typed.page = turned.page]
  /\ lkPage' = Edited /\ UNCHANGED <<lkCalls, lkServer>>

clear ==
  /\ lkPage.view = "runs" /\ EditsLeft /\ lkPage' = Edited
  /\ [lkPage.query EXCEPT !.page = 1] # Blank
  /\ lkUrl' = [lkUrl EXCEPT !.next = Blank, !.pending = Blank, !.typed = Blank]
  /\ UNCHANGED <<lkCalls, lkServer>>
\* The browser's Back is rendered within its own event.
Back ==
  /\ lkPage.view = "runs" /\ EditsLeft /\ lkUrl.next = lkPage.query
  /\ \E i \in 1..Len(lkUrl.past) - 1 :
       LET url == lkUrl.past[i] IN
       /\ lkPage' = Rendered(Edited, url)
       /\ lkUrl' = [next |-> url, pending |-> url, typed |-> url, past |-> SubSeq(lkUrl.past, 1, i)]
  /\ UNCHANGED <<lkCalls, lkServer>>
render ==
  /\ lkPage.view = "runs" /\ lkUrl.next # lkPage.query
  /\ lkPage' = Rendered(lkPage, lkUrl.next)
  /\ lkUrl' = [lkUrl EXCEPT !.pending = lkUrl.next, !.past = Append(@, lkUrl.next)]
  /\ UNCHANGED <<lkCalls, lkServer>>

\* The other views keep their query in the component's own state.
setQuery ==
  /\ lkPage.view # "runs" /\ EditsLeft
  /\ \E query \in Changes(lkPage.query) : lkPage' = Rendered(Edited, query)
  /\ UNCHANGED <<lkUrl, lkCalls, lkServer>>

-----------------------------------------------------------------------------

Asks(page) ==
  lkCalls' = {[c EXCEPT !.active = FALSE] : c \in lkCalls} \union
             {[query |-> page.query, seen |-> -1, active |-> TRUE, n |-> page.edits]}

\* The clean-up of the last effect, then this one: at once, or after its delay.
Effect ==
  LET inverted == lkPage.query.range = "inverted"
      begun == [lkPage EXCEPT !.fresh = FALSE, !.error = @ /\ lkPage.view = "capabilities",
                  !.timer = Delayed /\ ~inverted,
                  !.loading = IF lkPage.view = "capabilities" THEN @ ELSE ~inverted,
                  !.found = IF lkPage.view = "models" THEN Unfound ELSE @] IN
  /\ lkPage.fresh /\ lkPage' = begun /\ UNCHANGED <<lkUrl, lkServer>>
  /\ IF Delayed \/ inverted THEN lkCalls' = {[c EXCEPT !.active = FALSE] : c \in lkCalls}
                            ELSE Asks(begun)
TimerFires ==
  /\ lkPage.timer /\ ~lkPage.fresh
  /\ lkPage' = [lkPage EXCEPT !.timer = FALSE, !.loading = TRUE]
  /\ Asks(lkPage) /\ UNCHANGED <<lkUrl, lkServer>>
\* The interval of tree-live: nothing while a request runs.
refresh ==
  /\ lkPage.view = "live" /\ ~lkPage.fresh /\ lkCalls = {}
  /\ Asks(lkPage) /\ UNCHANGED <<lkPage, lkUrl, lkServer>>

Served(c) ==
  /\ c.seen = -1 /\ lkCalls' = (lkCalls \ {c}) \union {[c EXCEPT !.seen = lkServer]}
  /\ UNCHANGED <<lkPage, lkUrl, lkServer>>
Shown(c) ==
  /\ c.seen >= 0 /\ lkCalls' = lkCalls \ {c} /\ UNCHANGED <<lkUrl, lkServer>>
  /\ lkPage' = IF c.active THEN [lkPage EXCEPT !.found = [query |-> c.query, seen |-> c.seen],
                                   !.loading = FALSE, !.kept = FALSE,
                                   !.error = @ /\ lkPage.view # "live"]
                           ELSE lkPage
\* The capabilities of a failed search are none; the others keep what they had.
Failed(c) ==
  /\ lkCalls' = lkCalls \ {c} /\ UNCHANGED <<lkUrl, lkServer>>
  /\ lkPage' = IF c.active THEN [lkPage EXCEPT !.error = lkPage.view # "capabilities",
                                   !.loading = FALSE, !.kept = FALSE,
                                   !.found = IF lkPage.view = "capabilities" THEN Unfound ELSE @]
                           ELSE lkPage
\* The notice of an error is dismissed: the rows of the query before show again.
dismiss ==
  /\ lkPage.view \in {"runs", "live"} /\ lkPage.error
  /\ lkPage' = [lkPage EXCEPT !.error = FALSE, !.kept = TRUE] /\ UNCHANGED <<lkUrl, lkCalls, lkServer>>

ServerChanges ==
  /\ lkServer < MaxChanges /\ lkServer' = lkServer + 1 /\ UNCHANGED <<lkPage, lkUrl, lkCalls>>

-----------------------------------------------------------------------------

LookupsNext ==
  \/ update \/ clear \/ Back \/ render \/ setQuery
  \/ Effect \/ TimerFires \/ refresh \/ dismiss \/ ServerChanges
  \/ \E c \in lkCalls : Served(c) \/ Shown(c) \/ Failed(c)

LookupsSpec == LookupsInit /\ [][LookupsNext]_lkVars

LookupsTypeOK ==
  /\ lkPage.query.range \in Ranges /\ lkPage.query.page \in 1..2
  /\ lkPage.found.seen \in -1..MaxChanges /\ \A c \in lkCalls : c.seen \in -1..MaxChanges

(***************************************************************************)
(* What a view shows once its effect and its delay are over is what the    *)
(* server found for the query on the screen, however many older answers    *)
(* are still on their way and in whatever order they come; rows shown      *)
(* because the notice of a failure was dismissed are the exception.        *)
(***************************************************************************)
Showing == ~lkPage.fresh /\ ~lkPage.timer /\ ~lkPage.loading /\ ~lkPage.error
           /\ lkPage.query.range # "inverted" /\ lkPage.found.seen >= 0
ShownIsAsked == Showing /\ ~lkPage.kept => lkPage.found.query = lkPage.query

(***************************************************************************)
(* No filter of the list of Runs is lost: whatever was typed or cleared,   *)
(* in however quick succession, is in the URL that is rendered last.       *)
(***************************************************************************)
FiltersAreKept == lkPage.view = "runs" => lkUrl.next = lkUrl.typed

=============================================================================
