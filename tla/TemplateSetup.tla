---------------------------- MODULE TemplateSetup ----------------------------
(***************************************************************************)
(* Setting up a Tree made from a Template (pages/trees/template-setup.tsx) *)
(* against the server of template_setup_service.py.  An Agent needs a      *)
(* model, and the Agent Holder needs a Tool; every answer is a snapshot of *)
(* the whole set-up, and answers may arrive in any order.                  *)
(***************************************************************************)
EXTENDS Integers, FiniteSets

CONSTANTS SetupAgents, Holder,
          MaxRequests  \* bound: requests the user begins

VARIABLES
  tsTree,  \* the draft at the server: its Agents, those with a model, with the Tool
  tsPage,  \* the React state
  tsCalls, \* the page's requests, in the order they were begun
  tsPast   \* history: requests overlapped, an answer lost, the set-up shown as completed

tsVars == <<tsTree, tsPage, tsCalls, tsPast>>

Calls == 1..MaxRequests
NoSetup == [agents |-> {}, model |-> {}, tool |-> {}, ready |-> FALSE]
NoAgent == "none"
NoAgentDraft == [agent |-> NoAgent, model |-> FALSE, tool |-> FALSE]
NoRequest == [op |-> "none", at |-> "idle", draft |-> NoAgentDraft, data |-> NoSetup, closure |-> NoAgent,
              before |-> {}]

IsReady(tree) == tree.agents \subseteq tree.model /\ Holder \in tree.tool
DraftOf(tree, a) == [agent |-> a, model |-> a \in tree.model, tool |-> a \in tree.tool]
With(S, a, in) == IF in THEN S \union {a} ELSE S \ {a}

SetupInit ==
  /\ \E model, tool \in SUBSET {Holder} :
       tsTree = [agents |-> {Holder}, model |-> model, tool |-> tool, ready |-> FALSE]
  /\ tsPage = [open |-> TRUE, data |-> NoSetup, selected |-> NoAgent, draft |-> NoAgentDraft,
               package |-> FALSE, adding |-> FALSE, saving |-> "none", finishing |-> FALSE,
               resolvingAll |-> FALSE]
  /\ tsCalls = [k \in Calls |-> IF k = 1 THEN [NoRequest EXCEPT !.at = "reload"]
                                         ELSE NoRequest]
  /\ tsPast = [overlap |-> FALSE, lost |-> FALSE, completed |-> FALSE]

-----------------------------------------------------------------------------
(* Selecting, and the drawer that edits an Agent.                          *)

Loaded == tsPage.open /\ tsPage.data # NoSetup
Drawer == tsPage.selected # NoAgent
Dialog == tsPage.package \/ Drawer
Acts(page) == tsPage' = page /\ UNCHANGED <<tsTree, tsCalls, tsPast>>

selectAgent ==
  \E a \in tsPage.data.agents :
    Loaded /\ ~Dialog
    /\ Acts([tsPage EXCEPT !.selected = a, !.draft = DraftOf(tsPage.data, a)])
closeAgent == Drawer /\ ~tsPage.package
              /\ Acts([tsPage EXCEPT !.selected = NoAgent, !.draft = NoAgentDraft])
editAgent ==
  /\ Drawer /\ ~tsPage.package /\ tsPage.draft # NoAgentDraft
  /\ \/ Acts([tsPage EXCEPT !.draft.model = ~@])
     \/ Acts([tsPage EXCEPT !.draft.tool = ~@])
\* A requirement with a configuration, or with MCP Tools to select, opens a dialog.
openRequirement == Loaded /\ ~tsPage.package /\ Holder \notin tsPage.data.tool
                   /\ Acts([tsPage EXCEPT !.package = TRUE])
closePackageDialog == tsPage.package /\ Acts([tsPage EXCEPT !.package = FALSE])

-----------------------------------------------------------------------------
(* The requests.  Each disables its own button only; the answer is applied *)
(* with the selection there was when the request was begun.                *)

Running(k) == tsCalls[k].at \notin {"idle", "over"}

Begins(k, op, page) ==
  /\ Loaded /\ tsCalls[k] = NoRequest /\ \A j \in 1..k - 1 : tsCalls[j] # NoRequest
  /\ tsCalls' = [tsCalls EXCEPT ![k] = [NoRequest EXCEPT !.op = op, !.at = "asked",
                   !.draft = IF op = "save" THEN tsPage.draft ELSE @, !.closure = tsPage.selected,
                   !.before = IF op = "add" THEN tsPage.data.agents ELSE @]]
  /\ tsPast' = [tsPast EXCEPT !.overlap = @ \/ \E j \in Calls : Running(j)]
  /\ tsPage' = page /\ UNCHANGED tsTree

addAgent(k) == ~Dialog /\ ~tsPage.adding /\ Begins(k, "add", [tsPage EXCEPT !.adding = TRUE])
saveAgentDetails(k) ==
  /\ Drawer /\ ~tsPage.package /\ tsPage.draft # NoAgentDraft /\ tsPage.saving = "none"
  /\ Begins(k, "save", [tsPage EXCEPT !.saving = "agent"])
applyDefault(k) == ~Dialog /\ tsPage.saving # "default"
                   /\ Begins(k, "default", [tsPage EXCEPT !.saving = "default"])
\* From its own button, or from the package dialog, which waits for every save.
resolve(k) ==
  /\ Holder \notin tsPage.data.tool
  /\ IF tsPage.package THEN tsPage.saving = "none" ELSE tsPage.saving # "item"
  /\ Begins(k, "resolve", [tsPage EXCEPT !.saving = "item"])
resolveAllRequired(k) ==
  /\ ~Dialog /\ ~tsPage.resolvingAll /\ Holder \notin tsPage.data.tool
  /\ Begins(k, "resolveAll", [tsPage EXCEPT !.resolvingAll = TRUE])
finishSetup(k) ==
  /\ ~Dialog /\ ~tsPage.finishing /\ IsReady(tsPage.data)
  /\ Begins(k, "finish", [tsPage EXCEPT !.finishing = TRUE])

Released(op) ==
  [tsPage EXCEPT !.adding = @ /\ op # "add", !.finishing = @ /\ op # "finish",
                 !.resolvingAll = @ /\ op # "resolveAll",
                 !.saving = IF op \in {"save", "default", "resolve"} THEN "none" ELSE @]

Moves(k, at, data) == tsCalls' = [tsCalls EXCEPT ![k].at = at, ![k].data = data]
Over(k) == tsCalls' = [tsCalls EXCEPT ![k] = [NoRequest EXCEPT !.at = "over"]]

\* The server answers with the set-up as it is after its own change.  A Tool that was
\* created or configured, and then not assigned because the rest of a resolve failed, is
\* no Agent's and not represented; RequestFails stands for that failure.
SetupServed(k) ==
  LET c == tsCalls[k]
      Serves(tree) == tsTree' = tree /\ Moves(k, "answered", tree) IN
  /\ c.at = "asked" /\ ~tsTree.ready
  /\ \/ \E a \in SetupAgents \ tsTree.agents :
          c.op = "add" /\ Serves([tsTree EXCEPT !.agents = @ \union {a}])
     \/ c.op = "default" /\ Serves([tsTree EXCEPT !.model = tsTree.agents])
     \/ c.op \in {"resolve", "resolveAll"} /\ Serves([tsTree EXCEPT !.tool = @ \union {Holder}])
     \/ c.op \in {"resolve", "resolveAll"} /\ Serves(tsTree)
  /\ UNCHANGED <<tsPage, tsPast>>

\* updateTemplateAgent, then updateTemplateAgentTools when the Tools differ.
AgentServed(k) ==
  LET d == tsCalls[k].draft
      tree == IF tsCalls[k].at = "asked" THEN [tsTree EXCEPT !.model = With(@, d.agent, d.model)]
                                         ELSE [tsTree EXCEPT !.tool = With(@, d.agent, d.tool)] IN
  /\ tsCalls[k].op = "save" /\ tsCalls[k].at \in {"asked", "tools"} /\ ~tsTree.ready
  /\ tsTree' = tree
  /\ Moves(k, IF DraftOf(tree, d.agent).tool = d.tool THEN "answered" ELSE "tools", tree)
  /\ UNCHANGED <<tsPage, tsPast>>

\* validateTree reads the rows, then marks the Tree if they were valid.
SetupValidated(k) ==
  LET c == tsCalls[k] IN
  /\ c.op = "finish"
  /\ \/ c.at = "asked" /\ Moves(k, IF IsReady(tsTree) THEN "valid" ELSE "invalid", tsTree)
        /\ UNCHANGED tsTree
     \/ c.at = "valid" /\ ~c.data.ready /\ tsTree' = [tsTree EXCEPT !.ready = TRUE]
        /\ Moves(k, "answered", tsTree')
  /\ UNCHANGED <<tsPage, tsPast>>

\* load: the first one, or the one a failure asks for.
SetupReloads(k) ==
  /\ tsCalls[k].at = "reload" /\ UNCHANGED tsTree
  /\ \/ Moves(k, "reloaded", tsTree) /\ UNCHANGED <<tsPage, tsPast>>
     \/ Over(k) /\ tsPage' = Released(tsCalls[k].op) /\ tsPast' = [tsPast EXCEPT !.lost = TRUE]
SetupReloaded(k) ==
  /\ tsCalls[k].at = "reloaded" /\ Over(k) /\ UNCHANGED <<tsTree, tsPast>>
  /\ tsPage' = [Released(tsCalls[k].op) EXCEPT !.data = tsCalls[k].data]

\* A request is refused, or its answer is lost after the server has served it.
RequestFails(k) ==
  /\ tsCalls[k].at \in {"asked", "tools", "answered"} /\ Moves(k, "failed", NoSetup)
  /\ tsPast' = [tsPast EXCEPT !.lost = @ \/ tsCalls[k].at = "answered"]
  /\ UNCHANGED <<tsTree, tsPage>>

-----------------------------------------------------------------------------
(* The answers at the page.                                                *)

applyResponse(page, c) ==
  IF c.closure = NoAgent THEN [page EXCEPT !.data = c.data]
  ELSE [page EXCEPT !.data = c.data, !.draft = DraftOf(c.data, c.closure)]

\* What is added is always new, so one of the created is selected.
SetupAnswered(k) ==
  LET c == tsCalls[k]
      freed == applyResponse(Released(c.op), c)
      created == c.data.agents \ c.before IN
  /\ c.at = "answered" /\ c.op # "finish" /\ Over(k) /\ UNCHANGED <<tsTree, tsPast>>
  /\ \/ c.op \in {"default", "resolveAll"} /\ tsPage' = freed
     \/ c.op = "save" /\ tsPage' = [freed EXCEPT !.selected = NoAgent, !.draft = NoAgentDraft]
     \/ c.op = "resolve" /\ tsPage' = [freed EXCEPT !.package = Holder \notin c.data.tool]
     \/ \E a \in created :
          c.op = "add" /\ tsPage' = [freed EXCEPT !.selected = a, !.draft = DraftOf(c.data, a)]

\* Only a save, and a set-up found invalid, load again; the others show a notice.
SetupFailed(k) ==
  LET c == tsCalls[k] IN
  /\ c.at \in {"failed", "invalid"} /\ UNCHANGED <<tsTree, tsPast>>
  /\ IF c.op = "save" \/ c.at = "invalid" THEN Moves(k, "reload", NoSetup) /\ UNCHANGED tsPage
     ELSE Over(k) /\ tsPage' = Released(c.op)

SetupCompleted(k) ==
  /\ tsCalls[k].op = "finish" /\ tsCalls[k].at = "answered" /\ Over(k)
  /\ tsPage' = [Released("finish") EXCEPT !.open = FALSE]
  /\ tsPast' = [tsPast EXCEPT !.completed = TRUE] /\ UNCHANGED tsTree

-----------------------------------------------------------------------------

SetupNext ==
  \/ selectAgent \/ closeAgent \/ editAgent \/ openRequirement \/ closePackageDialog
  \/ \E k \in Calls :
       \/ addAgent(k) \/ saveAgentDetails(k) \/ applyDefault(k) \/ resolve(k)
       \/ resolveAllRequired(k) \/ finishSetup(k)
       \/ SetupReloads(k) \/ SetupReloaded(k) \/ SetupServed(k) \/ AgentServed(k) \/ SetupValidated(k) \/ RequestFails(k)
       \/ SetupAnswered(k) \/ SetupFailed(k) \/ SetupCompleted(k)

SetupSpec == SetupInit /\ [][SetupNext]_tsVars

-----------------------------------------------------------------------------

SetupTypeOK ==
  /\ tsTree \in [agents : SUBSET SetupAgents, model : SUBSET SetupAgents,
                 tool : SUBSET SetupAgents, ready : BOOLEAN]
  /\ tsPage.draft.agent \in SetupAgents \union {NoAgent}
  /\ tsPage.saving \in {"none", "agent", "default", "item"}

(***************************************************************************)
(* A set-up shown as completed is of a Tree the server has marked, and     *)
(* that is ready as it stands, unless something else was sent while it was *)
(* being validated: the mark does not look at the rows again.              *)
(***************************************************************************)
SetupFinishIsReady ==
  tsPast.completed => tsTree.ready /\ (tsPast.overlap \/ IsReady(tsTree))

(***************************************************************************)
(* At rest the page shows what the server holds, also after a save of      *)
(* which only the first request went through; only answers that overlap,   *)
(* or are lost, and a load that fails, leave it behind.                    *)
(***************************************************************************)
SetupShowsServer ==
  Loaded /\ ~tsPast.overlap /\ ~tsPast.lost /\ (\A k \in Calls : ~Running(k))
    => tsPage.data = tsTree
=============================================================================
