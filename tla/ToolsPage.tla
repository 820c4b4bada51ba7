------------------------------ MODULE ToolsPage ------------------------------
(***************************************************************************)
(* The page of Tools (pages/tools.tsx), the form that creates or edits one *)
(* (components/tools/tool-form.tsx), and the server's rows as              *)
(* tool_service.py keeps them.  A setup stands for all a Tool is           *)
(* configured with; whether its far end answers is open.  Of the form's    *)
(* steps, the first only asks for a name and is left out, and the two that *)
(* configure, which save alike, are one; assigning and reviewing follow.   *)
(* A request reaches the server as it is sent: coming later, it would only *)
(* read newer rows.                                                        *)
(***************************************************************************)
EXTENDS Integers, FiniteSets

CONSTANTS Setups, Agents,
          MaxTools, MaxOps  \* bounds: rows of Tools; requests the user begins

VARIABLES
  tpTools,  \* the server's rows
  tpPage,   \* the React state
  tpCalls,  \* the page's requests, one slot per operation
  tpProven, \* history: <<tool, setup>> whose far end answered
  tpPast    \* history: see NothingYet

tpVars == <<tpTools, tpPage, tpCalls, tpProven, tpPast>>

ToolIds == 1..MaxTools
Slots == 1..MaxOps
First == CHOOSE s \in Setups : TRUE
NoTool == [setup |-> First, status |-> "none", agents |-> {}]

\* "saved" is the row the form has; 0 while it has none.
NoForm == [saved |-> 0, step |-> 0, mcp |-> FALSE, setup |-> First, enabled |-> TRUE,
           agents |-> {}, busy |-> FALSE]
\* "proof" remembers the setups the dialog's tests found working.
NoPackage == [open |-> FALSE, setup |-> First, tested |-> FALSE, proof |-> {}]
NoBusy == <<"none", 0>>
NoCall == [op |-> "none", tool |-> 0, at |-> "idle", form |-> NoForm, row |-> NoTool]
NothingYet == [made |-> 0, lost |-> FALSE,  \* rows of the open form; a creation's answer was lost
               overtaken |-> FALSE,         \* the mark of an operation was taken while it worked
               untested |-> FALSE]          \* a setup was sent that no test found working

\* Tool 1 is connected and assigned, Tool 2 was never tested.
ToolsInit ==
  /\ tpTools = [t \in ToolIds |->
       CASE t = 1 -> [setup |-> First, status |-> "connected", agents |-> Agents]
         [] t = 2 -> [NoTool EXCEPT !.status = "not_configured"]
         [] OTHER -> NoTool]
  /\ tpPage = [shown |-> tpTools, loading |-> FALSE, busy |-> NoBusy, testing |-> FALSE,
               package |-> NoPackage, form |-> NoForm]
  /\ tpCalls = [k \in Slots |-> NoCall]
  /\ tpProven = {<<1, First>>}
  /\ tpPast = NothingYet

-----------------------------------------------------------------------------

Modal == tpPage.package.open \/ tpPage.form.step # 0
CallIs(k, c) == tpCalls' = [tpCalls EXCEPT ![k] = c]
Over(k) == CallIs(k, [NoCall EXCEPT !.at = "over"])
Shows(page) == tpPage' = page /\ UNCHANGED <<tpTools, tpCalls, tpProven, tpPast>>
Asks(k, call, page) ==
  /\ tpCalls[k] = NoCall /\ \A j \in 1..k - 1 : tpCalls[j] # NoCall
  /\ CallIs(k, [call EXCEPT !.at = "asked"]) /\ tpPage' = page
  /\ UNCHANGED <<tpTools, tpProven>>
FirstNew == {t \in ToolIds : tpTools[t] = NoTool /\ \A u \in 1..t - 1 : tpTools[u] # NoTool}

\* load, after a form was finished; the list may not come.
load(k) ==
  /\ tpCalls[k].op = "list" /\ Over(k)
  /\ \E shown \in {tpTools, tpPage.shown} :
       tpPage' = [tpPage EXCEPT !.shown = shown, !.loading = FALSE]
  /\ UNCHANGED <<tpTools, tpProven, tpPast>>

-----------------------------------------------------------------------------
(* The cards' testConnection and discover.  One string says which card or  *)
(* package is busy, so a second operation takes the first one's mark away. *)

Idle(t) == ~tpPage.loading /\ ~Modal /\ tpPage.shown[t] # NoTool /\ tpPage.busy # <<"card", t>>

testConnection(k) ==
  \E t \in ToolIds :
    /\ Idle(t) /\ tpPage.shown[t].status # "disabled"
    /\ Asks(k, [NoCall EXCEPT !.op = "card", !.tool = t, !.row = tpTools[t]],
            [tpPage EXCEPT !.busy = <<"card", t>>])
    /\ tpPast' = [tpPast EXCEPT !.overtaken = @ \/ tpPage.busy # NoBusy]

\* The server has read the row, calls out, and writes a status that differs from
\* the one it has read.
ConnectionTested(k) ==
  LET c == tpCalls[k] IN
  /\ c.op = "card" /\ Over(k)
  /\ \E status \in IF c.row.status = "disabled" THEN {"disabled"} ELSE {"connected", "error"} :
       /\ tpTools' = IF status = c.row.status THEN tpTools
                     ELSE [tpTools EXCEPT ![c.tool].status = status]
       /\ tpProven' = tpProven \union {<<c.tool, c.row.setup>> : s \in {status} \intersect {"connected"}}
  /\ \E row \in {tpTools'[c.tool], tpPage.shown[c.tool]} :
       tpPage' = [tpPage EXCEPT !.shown[c.tool] = row, !.busy = NoBusy]
  /\ UNCHANGED tpPast

-----------------------------------------------------------------------------
(* A package of the catalogue.                                             *)

openPackage == ~tpPage.loading /\ ~Modal
               /\ Shows([tpPage EXCEPT !.package = [NoPackage EXCEPT !.open = TRUE]])
closePackage == tpPage.package.open /\ Shows([tpPage EXCEPT !.package = NoPackage])

\* Each field, and updatePackageJson, takes the mark away.
editPackage ==
  \E s \in Setups \ {tpPage.package.setup} :
    tpPage.package.open
    /\ Shows([tpPage EXCEPT !.package.setup = s, !.package.tested = FALSE])

testPackage(k) ==
  /\ tpPage.package.open /\ ~tpPage.testing
  /\ Asks(k, [NoCall EXCEPT !.op = "preflight", !.row.setup = tpPage.package.setup],
          [tpPage EXCEPT !.testing = TRUE, !.package.tested = FALSE])
  /\ UNCHANGED tpPast

PackageTested(k) ==
  /\ tpCalls[k].op = "preflight" /\ Over(k)
  /\ \E ok \in BOOLEAN :
       tpPage' = [tpPage EXCEPT !.testing = FALSE, !.package.tested = ok,
                    !.package.proof = @ \union {tpCalls[k].row.setup : y \in {ok} \ {FALSE}}]
  /\ UNCHANGED <<tpTools, tpProven, tpPast>>

addPackageTool(k) ==
  /\ tpPage.package.open /\ tpPage.package.tested /\ tpPage.busy # <<"catalog", 0>>
  /\ Asks(k, [NoCall EXCEPT !.op = "add", !.row.setup = tpPage.package.setup],
          [tpPage EXCEPT !.busy = <<"catalog", 0>>])
  /\ tpPast' = [tpPast EXCEPT !.overtaken = @ \/ tpPage.busy # NoBusy,
                               !.untested = @ \/ tpPage.package.setup \notin tpPage.package.proof]

\* The server tests the setup, creates the Tool and tests it again, or leaves
\* none behind; a success closes the dialog that is open by now.
PackageAdded(k) ==
  LET row == [tpCalls[k].row EXCEPT !.status = "connected"] IN
  /\ tpCalls[k].op = "add" /\ Over(k) /\ UNCHANGED tpPast
  /\ \/ tpPage' = [tpPage EXCEPT !.busy = NoBusy] /\ UNCHANGED <<tpTools, tpProven>>
     \/ \E t \in FirstNew :
          /\ tpTools' = [tpTools EXCEPT ![t] = row]
          /\ tpProven' = tpProven \union {<<t, row.setup>>}
          /\ tpPage' = [tpPage EXCEPT !.busy = NoBusy, !.package = NoPackage, !.shown[t] = row]

-----------------------------------------------------------------------------
(* The form, and the page's openCreate and openEdit, whose effect clears   *)
(* it and asks for the assignments of the Tool.                            *)

openCreate ==
  \E mcp \in BOOLEAN :
    /\ ~Modal /\ tpPast' = [tpPast EXCEPT !.made = 0]
    /\ tpPage' = [tpPage EXCEPT !.form = [NoForm EXCEPT !.step = 1, !.mcp = mcp]]
    /\ UNCHANGED <<tpTools, tpCalls, tpProven>>
openEdit(k) ==
  \E t \in ToolIds :
    LET row == tpPage.shown[t] IN
    /\ Idle(t) /\ tpPast' = [tpPast EXCEPT !.made = 0]
    /\ Asks(k, [NoCall EXCEPT !.op = "assignments", !.tool = t],
            [tpPage EXCEPT !.form = [NoForm EXCEPT !.saved = t, !.step = 1, !.setup = row.setup,
                                                   !.enabled = row.status # "disabled"]])

\* The answer goes into the form that is open by now; a failure is ignored.
AssignmentsAnswer(k) ==
  /\ tpCalls[k].op = "assignments" /\ Over(k)
  /\ \E agents \in {tpTools[tpCalls[k].tool].agents, tpPage.form.agents} :
       tpPage' = [tpPage EXCEPT !.form.agents = agents]
  /\ UNCHANGED <<tpTools, tpProven, tpPast>>

\* The fields of the step shown stay open while it is saved.
editForm ==
  LET f == tpPage.form IN
  \E g \in [saved : {f.saved}, step : {f.step}, mcp : {f.mcp}, setup : Setups,
            enabled : BOOLEAN, agents : SUBSET Agents, busy : {f.busy}] \ {f} :
    /\ f.step \in 1..2
    /\ f.step # 1 => g.setup = f.setup /\ g.enabled = f.enabled
    /\ f.step # 2 => g.agents = f.agents
    /\ Shows([tpPage EXCEPT !.form = g])
back == tpPage.form.step \in 2..3 /\ ~tpPage.form.busy /\ Shows([tpPage EXCEPT !.form.step = @ - 1])
\* Variant with a mistake: the form can be closed while it is being saved.
closeFormAnytime == tpPage.form.step # 0 /\ Shows([tpPage EXCEPT !.form = NoForm])

\* What a closed form still holds is cleared when one is opened; so it is here.
closeForm == tpPage.form.step # 0 /\ ~tpPage.form.busy /\ Shows([tpPage EXCEPT !.form = NoForm])

\* next and finish save; from the Agents' step there is nothing to save.
next ==
  tpPage.form.step = 2 /\ ~tpPage.form.busy /\ Shows([tpPage EXCEPT !.form.step = 3])
Saves(k) ==
  /\ tpPage.form.step \in {1, 3} /\ ~tpPage.form.busy
  /\ Asks(k, [NoCall EXCEPT !.op = "form", !.form = tpPage.form],
          [tpPage EXCEPT !.form.busy = TRUE])
  /\ UNCHANGED tpPast

\* An error is shown in the form, which stays where it was.
FormFails(k) ==
  /\ tpCalls[k].op = "form" /\ Over(k)
  /\ tpPage' = [tpPage EXCEPT !.form.busy = FALSE]
  /\ UNCHANGED <<tpTools, tpProven, tpPast>>

\* createTool, or updateTool of the row the form has; a configuration that was
\* sent has to be tested again.  The row is kept before the next request.
persist(k) ==
  LET c == tpCalls[k]   f == c.form IN
  \E t \in IF f.saved = 0 THEN FirstNew ELSE {f.saved} :
  /\ c.op = "form" /\ c.at = "asked"
  /\ tpTools' = [tpTools EXCEPT ![t].setup = f.setup,
                   ![t].status = IF f.enabled THEN "not_configured" ELSE "disabled"]
  /\ \E heard \in BOOLEAN :
       /\ IF heard THEN /\ tpPage' = [tpPage EXCEPT !.form.saved = t]
                        /\ CallIs(k, [c EXCEPT !.tool = t, !.at =
                             IF f.step = 3 /\ ~f.enabled THEN "assign"
                               ELSE IF f.step = 3 \/ f.mcp THEN "prove" ELSE "done"])
          ELSE tpPage' = [tpPage EXCEPT !.form.busy = FALSE] /\ Over(k)
       /\ tpPast' = IF f.saved # 0 THEN tpPast
                    ELSE [tpPast EXCEPT !.made = @ + 1, !.lost = @ \/ ~heard]
  /\ UNCHANGED tpProven

\* discoverTool of the second step, and testTool of the last.
FormProves(k) ==
  LET c == tpCalls[k]   row == tpTools[c.tool] IN
  /\ c.at = "prove" /\ row.status # "disabled"
  /\ \/ /\ tpTools' = [tpTools EXCEPT ![c.tool].status = "connected"]
        /\ tpProven' = tpProven \union {<<c.tool, row.setup>>}
        /\ CallIs(k, [c EXCEPT !.at = IF c.form.step = 3 THEN "assign" ELSE "done"])
        /\ UNCHANGED tpPage
     \/ /\ tpTools' = [tpTools EXCEPT ![c.tool].status = "error"]
        /\ tpPage' = [tpPage EXCEPT !.form.busy = FALSE] /\ Over(k) /\ UNCHANGED tpProven
  /\ UNCHANGED tpPast

\* Only a connected Tool can be assigned; one that is disabled loses its Agents.
Assigns(k) ==
  LET c == tpCalls[k]   agents == IF c.form.enabled THEN c.form.agents ELSE {} IN
  /\ c.at = "assign"
  /\ agents # {} => tpTools[c.tool].status = "connected"
  /\ tpTools' = [tpTools EXCEPT ![c.tool].agents = agents]
  /\ CallIs(k, [c EXCEPT !.at = "done"]) /\ UNCHANGED <<tpPage, tpProven, tpPast>>

\* finish loads the list again and closes the form.
FormSaved(k) ==
  LET c == tpCalls[k] IN
  /\ c.at = "done"
  /\ IF c.form.step = 3
     THEN /\ tpPage' = [tpPage EXCEPT !.form = NoForm, !.loading = TRUE]
          /\ CallIs(k, [NoCall EXCEPT !.op = "list", !.at = "asked"])
     ELSE tpPage' = [tpPage EXCEPT !.form.busy = FALSE, !.form.step = @ + 1] /\ Over(k)
  /\ UNCHANGED <<tpTools, tpProven, tpPast>>

-----------------------------------------------------------------------------

ToolsNext ==
  \/ openPackage \/ closePackage \/ editPackage
  \/ openCreate \/ editForm \/ back \/ closeForm \/ next
  \/ \E k \in Slots :
       \/ load(k) \/ testConnection(k) \/ ConnectionTested(k)
       \/ testPackage(k) \/ PackageTested(k) \/ addPackageTool(k) \/ PackageAdded(k)
       \/ openEdit(k) \/ AssignmentsAnswer(k)
       \/ Saves(k) \/ FormFails(k) \/ persist(k) \/ FormProves(k) \/ Assigns(k) \/ FormSaved(k)

ToolsSpec == ToolsInit /\ [][ToolsNext]_tpVars

-----------------------------------------------------------------------------

ToolsTypeOK ==
  /\ \A t \in ToolIds : /\ tpTools[t].setup \in Setups /\ tpTools[t].agents \subseteq Agents
                        /\ tpTools[t].status \in
                             {"none", "not_configured", "connected", "error", "disabled"}
  /\ tpPage.form.step \in 0..3 /\ tpPage.package.proof \subseteq Setups
  /\ tpProven \subseteq ToolIds \X Setups

(***************************************************************************)
(* "Connected" is said of the setup a Tool has: a change takes it away,    *)
(* and no test of an older setup brings it back, unless another operation  *)
(* has hidden that the card's own is still working.                        *)
(***************************************************************************)
ConnectedIsProven ==
  ~tpPast.overtaken
    => \A t \in ToolIds : tpTools[t].status = "connected" => <<t, tpTools[t].setup>> \in tpProven

(***************************************************************************)
(* A form makes one Tool, whichever of its requests fail and however often *)
(* its steps are repeated, unless the answer to the creation was lost.     *)
(***************************************************************************)
FormMakesOneTool == ~tpPast.lost => tpPast.made <= 1

(***************************************************************************)
(* A finished form leaves the Tool with what the form held when it was     *)
(* sent, tested when it is enabled and without Agents when it is not.      *)
(***************************************************************************)
FinishedFormIsServed ==
  \A k \in Slots :
    LET c == tpCalls[k]   row == tpTools[c.tool] IN
    c.at = "done" /\ c.form.step = 3
      => /\ row.setup = c.form.setup
         /\ row.agents = IF c.form.enabled THEN c.form.agents ELSE {}
         /\ ~tpPast.overtaken /\ c.form.enabled => row.status = "connected"
         /\ row.agents # {} => <<c.tool, row.setup>> \in tpProven

(***************************************************************************)
(* pages/tool-catalog.test.tsx:33 "requires a successful preflight test    *)
(* before creating the existing ToolConnection": of the setup that is      *)
(* created.                                                                *)
(***************************************************************************)
AddNeedsTest == ~tpPast.untested
=============================================================================
