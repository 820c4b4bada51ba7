------------------------------- MODULE Launch -------------------------------
(***************************************************************************)
(* The Playground of a Tree as the place where Runs are started            *)
(* (pages/trees/tree-playground.tsx): the page reads the Tree once, checks *)
(* it again and submits, follows the Run that was accepted or one of the   *)
(* history, and draws the version that Run is pinned to, while others edit *)
(* the Tree.  How the Run itself is followed is RunView's matter: here it  *)
(* becomes known and, later, ended.                                        *)
(***************************************************************************)
EXTENDS Integers, Sequences, FiniteSets

CONSTANTS MaxVersions, MaxRuns  \* bounds: versions of the Tree; Runs of it

VARIABLES
  lnTree,  \* the server's Tree: its current version and whether it is ready
  lnRuns,  \* the server's Runs of it: pinned version, ended
  lnPage,  \* the React state
  lnCalls, \* requests that wait for an answer
  lnPast   \* history: Runs started since the user last chose one; an answer was lost

lnVars == <<lnTree, lnRuns, lnPage, lnCalls, lnPast>>

NewTest == 0
NoVersion == 0
NoCall == [op |-> "load", at |-> "asked", version |-> NoVersion, ready |-> FALSE,
           run |-> NewTest, active |-> TRUE]

\* The Tree has an earlier Run, which the address may name.
LaunchInit ==
  /\ lnTree = [current |-> 1, ready |-> TRUE]
  /\ lnRuns = <<[version |-> 1, ended |-> TRUE]>>
  /\ \E run \in {NewTest, 1} :
       lnPage = [tree |-> NoVersion, treeReady |-> FALSE, valid |-> FALSE, run |-> run, live |-> "none",
                 version |-> NoVersion, submitting |-> FALSE]
  /\ lnCalls = {NoCall}
  /\ lnPast = [since |-> {}, lost |-> FALSE]

-----------------------------------------------------------------------------
(* What the page makes of its state.                                       *)

active(page) == page.run # NewTest /\ page.live # "ended"
ready(page) == page.valid /\ page.tree # NoVersion /\ page.treeReady

\* The version on the canvas, or none.
pinnedTree ==
  IF lnPage.tree = NoVersion \/ (lnPage.run # NewTest /\ lnPage.live = "none") THEN NoVersion
  ELSE IF lnPage.live = "none" \/ lnRuns[lnPage.run].version = lnPage.tree THEN lnPage.tree
       ELSE lnPage.version

\* Variant with a mistake: the answer for an earlier Run is still shown.
RetiredNever(calls) == calls

\* The effect on the Tree and the followed Run's version, behind a change of either.
Retired(calls) == {IF c.op = "version" THEN [c EXCEPT !.active = FALSE] ELSE c : c \in calls}
Pins(page, calls) ==
  LET pinned == lnRuns[page.run].version
      asks == page.tree # NoVersion /\ page.live # "none" /\ pinned # page.tree IN
  /\ lnPage' = [page EXCEPT !.version = NoVersion]
  /\ lnCalls' = Retired(calls) \union
       IF asks THEN {[NoCall EXCEPT !.op = "version", !.version = pinned]} ELSE {}

\* Another Run in the address: the one followed is forgotten.
Follows(run, calls) == Pins([lnPage EXCEPT !.run = run, !.live = "none"], calls)

-----------------------------------------------------------------------------
(* Loading, following and choosing.                                        *)

LoadServed(c) ==
  /\ c.op = "load" /\ c.at = "asked"
  /\ lnCalls' = (lnCalls \ {c}) \union
       {[c EXCEPT !.at = "served", !.version = lnTree.current, !.ready = lnTree.ready]}
  /\ UNCHANGED <<lnTree, lnRuns, lnPage, lnPast>>
\* The verdict is a request of its own: it may say anything of what changed since.
LoadAnswered(c) ==
  /\ c.op = "load" /\ c.at = "served" /\ UNCHANGED <<lnTree, lnRuns, lnPast>>
  /\ \E valid \in BOOLEAN :
       Pins([lnPage EXCEPT !.tree = c.version, !.treeReady = c.ready, !.valid = valid], lnCalls \ {c})

Followed ==
  /\ lnPage.run # NewTest /\ lnPage.live # "ended" /\ UNCHANGED <<lnTree, lnRuns, lnPast>>
  /\ LET seen == [lnPage EXCEPT !.live = IF lnRuns[lnPage.run].ended THEN "ended" ELSE "active"] IN
     IF lnPage.live = "none" THEN Pins(seen, lnCalls) ELSE lnPage' = seen /\ UNCHANGED lnCalls

\* Only an answer that was not retired is shown.
VersionAnswered(c) ==
  /\ c.op = "version" /\ lnCalls' = lnCalls \ {c} /\ UNCHANGED <<lnTree, lnRuns, lnPast>>
  /\ \E answer \in {c.version, lnPage.version} :   \* or the request fails
       lnPage' = IF c.active THEN [lnPage EXCEPT !.version = answer] ELSE lnPage

\* The history, a new test, or a step back in the browser, which nothing disables.
choose(run) ==
  /\ run # lnPage.run
  /\ Follows(run, lnCalls)
  /\ lnPast' = [lnPast EXCEPT !.since = {}] /\ UNCHANGED <<lnTree, lnRuns>>

-----------------------------------------------------------------------------
(* start.                                                                  *)

\* "ready" is what the page was last rendered with.
start ==
  /\ lnPage.tree # NoVersion /\ ~lnPage.submitting /\ ~active(lnPage)
  /\ lnCalls' = lnCalls \union
       {[NoCall EXCEPT !.op = "start", !.at = "validate", !.ready = ready(lnPage)]}
  /\ lnPage' = [lnPage EXCEPT !.submitting = TRUE]
  /\ UNCHANGED <<lnTree, lnRuns, lnPast>>
Validated(c) ==
  /\ c.op = "start" /\ c.at = "validate" /\ UNCHANGED <<lnTree, lnRuns, lnPast>>
  /\ \E valid \in BOOLEAN :
       LET goes == valid /\ c.ready IN
       /\ lnPage' = [lnPage EXCEPT !.valid = valid, !.submitting = goes]
       /\ lnCalls' = (lnCalls \ {c}) \union IF goes THEN {[c EXCEPT !.at = "submit"]} ELSE {}

\* The service takes the version that is current by now.
Submitted(c) ==
  /\ c.op = "start" /\ c.at = "submit" /\ lnTree.ready /\ Len(lnRuns) < MaxRuns
  /\ lnRuns' = Append(lnRuns, [version |-> lnTree.current, ended |-> FALSE])
  /\ lnCalls' = (lnCalls \ {c}) \union {[c EXCEPT !.at = "accepted", !.run = Len(lnRuns) + 1]}
  /\ lnPast' = [lnPast EXCEPT !.since = @ \union {Len(lnRuns) + 1}] /\ UNCHANGED <<lnTree, lnPage>>
Accepted(c) ==
  /\ c.op = "start" /\ c.at = "accepted" /\ UNCHANGED <<lnTree, lnRuns, lnPast>>
  /\ Pins([lnPage EXCEPT !.run = c.run, !.live = "none", !.submitting = FALSE], lnCalls \ {c})
StartFails(c) ==
  /\ c.op = "start" /\ lnCalls' = lnCalls \ {c} /\ UNCHANGED <<lnTree, lnRuns>>
  /\ lnPage' = [lnPage EXCEPT !.submitting = FALSE]
  /\ lnPast' = [lnPast EXCEPT !.lost = @ \/ c.at = "accepted"]

-----------------------------------------------------------------------------
(* The others: somebody edits the Tree; a Run ends.                        *)

TreeEdited ==
  /\ lnTree.current < MaxVersions
  /\ \E r \in BOOLEAN : lnTree' = [current |-> lnTree.current + 1, ready |-> r]
  /\ UNCHANGED <<lnRuns, lnPage, lnCalls, lnPast>>
RunEnds(run) ==
  /\ lnRuns' = [lnRuns EXCEPT ![run].ended = TRUE] /\ ~lnRuns[run].ended
  /\ UNCHANGED <<lnTree, lnPage, lnCalls, lnPast>>

LaunchNext ==
  \/ Followed \/ start \/ TreeEdited
  \/ \E run \in DOMAIN lnRuns : choose(run) \/ RunEnds(run)
  \/ choose(NewTest)
  \/ \E c \in lnCalls : \/ LoadServed(c) \/ LoadAnswered(c) \/ VersionAnswered(c)
                        \/ Validated(c) \/ Submitted(c) \/ Accepted(c) \/ StartFails(c)

LaunchSpec == LaunchInit /\ [][LaunchNext]_lnVars

LaunchTypeOK ==
  /\ lnTree.current \in 1..MaxVersions /\ Len(lnRuns) <= MaxRuns
  /\ lnPage.run \in {NewTest} \union DOMAIN lnRuns /\ lnPage.live \in {"none", "active", "ended"}
  /\ lnPast.since \subseteq DOMAIN lnRuns

(***************************************************************************)
(* The graph drawn beside a Run is of the version the Run is pinned to,    *)
(* whatever became of the Tree since and whichever Runs were looked at in  *)
(* between: an answer for an earlier Run never reaches the canvas.         *)
(***************************************************************************)
GraphIsOfItsRun ==
  lnPage.run # NewTest /\ pinnedTree # NoVersion => pinnedTree = lnRuns[lnPage.run].version

(***************************************************************************)
(* However often Run is pressed, one submission is on its way and, until   *)
(* the user turns to something else, at most one Run it started is still   *)
(* unfinished, and the page follows the newest; unless the answer of an    *)
(* accepted submission was lost.                                           *)
(***************************************************************************)
OneRunAtATime ==
  /\ Cardinality({c \in lnCalls : c.op = "start"}) <= 1
  /\ ~lnPast.lost => /\ Cardinality({r \in lnPast.since : ~lnRuns[r].ended}) <= 1
                     /\ \A r \in lnPast.since :
                          \/ lnPage.run \in lnPast.since /\ r <= lnPage.run
                          \/ \E c \in lnCalls : c.run \in lnPast.since /\ r <= c.run
=============================================================================
