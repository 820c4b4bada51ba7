----------------------------- MODULE TreeWizard -----------------------------
(***************************************************************************)
(* The six-step wizard (components/tree/tree-wizard.tsx) and the           *)
(* conversion between a Tree and what it edits (components/tree/types.ts). *)
(* Any step can be chosen at any time, so the step shown is left out; a    *)
(* Manager or a Specialist is edited in a modal dialog which remembers it  *)
(* by its place in the list.                                               *)
(***************************************************************************)
EXTENDS BuilderModel, Sequences, SequencesExt

CONSTANTS MaxChanges,  \* bound: edits and saves begun
          MaxDrafts,   \* bound: saves begun
          NoDraft

VARIABLES
  wzTrees,   \* the server: the document and status of each Tree
  wzPage,    \* the React state
  wzSaves,   \* the coroutine of each save
  wzChanges, \* edits and saves so far
  wzPast     \* history: see NothingPast

wzVars == <<wzTrees, wzPage, wzSaves, wzChanges, wzPast>>

-----------------------------------------------------------------------------
(* types.ts.  An Agent's own fields are left out; its peers and tools are  *)
(* kept for all Agents together.                                           *)

\* The order of the document, which the conversions keep.
InOrder(S) == SetToSeq(S)
InWizard(w) == {w.root} \union UNION {{m.agent} \union ToSet(m.specialists) : m \in ToSet(w.managers)}

\* A Tree without a root gets a new one; Specialists without a Manager are dropped.
wizardFromTree(doc) ==
  LET kept == Roots \cap Members(doc)
      held == Members(doc) \ {a \in Specialists \cap Members(doc) : doc.parent[a] = Nobody} IN
  [named |-> doc.named,
   root |-> IF kept # {} THEN Min(kept) ELSE Min(Roots),
   managers |-> [i \in 1..Cardinality(Managers \cap Members(doc)) |->
     LET m == InOrder(Managers \cap Members(doc))[i] IN
     [agent |-> m, specialists |-> InOrder(Children(doc, {m}))]],
   peers |-> doc.peers,
   tools |-> {t \in doc.tools : t[1] \in held}]

emptyWizard == [named |-> FALSE, root |-> Min(Roots), managers |-> <<>>, peers |-> {}, tools |-> {}]

wizardPayload(w) ==
  [named |-> w.named,
   parent |-> [a \in InWizard(w) |->
     CASE a = w.root -> Nobody
       [] a \in Managers -> w.root
       [] OTHER -> (CHOOSE m \in ToSet(w.managers) : a \in ToSet(m.specialists)).agent],
   peers |-> {p \in w.peers : p[1] \in InWizard(w)},
   tools |-> {t \in w.tools : t[1] \in InWizard(w)}]

-----------------------------------------------------------------------------

DraftIds == 1..MaxDrafts + 1
NoTreeRow == [doc |-> NoDraft, ready |-> FALSE]
NoEditor  == [kind |-> "none", manager |-> 0, specialist |-> 0, agent |-> 0]
NoWrite   == [at |-> "idle", doc |-> NoDraft, tree |-> 0, ready |-> FALSE, new |-> FALSE,
              unique |-> TRUE, check |-> FALSE, mark |-> FALSE]
NothingPast == [lost |-> FALSE,   \* the answer to a creation was lost
                moved |-> FALSE]  \* the lists were replaced under an open editor
FirstDraft == {t \in DraftIds : wzTrees[t] = NoTreeRow /\ \A u \in 1..t - 1 : wzTrees[u] # NoTreeRow}

FreshWizard(route) ==
  [open |-> TRUE, route |-> route, tree |-> route, ready |-> FALSE, state |-> emptyWizard,
   dirty |-> FALSE, loading |-> route # 0, load |-> "asked", read |-> NoTreeRow,
   saving |-> FALSE, editor |-> NoEditor, verdict |-> "none", runnable |-> FALSE]
LeftWizard == [FreshWizard(0) EXCEPT !.open = FALSE, !.load = "idle"]

\* One branch, a second Manager, and a Specialist of no Manager.
WizardStored ==
  [named |-> TRUE,
   parent |-> [a \in {Min(Roots)} \union Managers \union Specialists |->
     CASE a \in Roots -> Nobody [] a \in Managers -> Min(Roots)
       [] a = Min(Specialists) -> Min(Managers) [] OTHER -> Nobody],
   peers |-> {p \in Managers \X Managers : p[1] < p[2]},
   tools |-> Specialists \X Tools]

TreeWizardInit ==
  /\ \E ready \in BOOLEAN :
       wzTrees = [t \in DraftIds |-> IF t = 1 THEN [doc |-> WizardStored, ready |-> ready]
                                              ELSE NoTreeRow]
  /\ \E route \in {0, 1} : wzPage = FreshWizard(route)
  /\ wzSaves = [k \in 1..MaxDrafts |-> NoWrite]
  /\ wzChanges = 0
  /\ wzPast = NothingPast

WzTurns(page) == wzPage' = page /\ UNCHANGED <<wzTrees, wzSaves, wzChanges, wzPast>>

-----------------------------------------------------------------------------
(* The effect that loads the Tree of the address; ?agent= opens an editor. *)

WizardReads ==
  /\ wzPage.load = "asked"
  /\ \E read \in {wzTrees[t] : t \in {wzPage.route} \ {0}} \union {NoTreeRow} :
       WzTurns([wzPage EXCEPT !.load = "answered", !.read = read])

\* The place of the Agent the address names.
Target(w, a) ==
  CASE a = w.root -> NoEditor
    [] a \in Managers ->
         LET i == CHOOSE i \in DOMAIN w.managers : w.managers[i].agent = a IN
         [kind |-> "manager", manager |-> i, specialist |-> 0, agent |-> a]
    [] OTHER ->
         LET i == CHOOSE i \in DOMAIN w.managers : a \in ToSet(w.managers[i].specialists)
             j == CHOOSE j \in DOMAIN w.managers[i].specialists : w.managers[i].specialists[j] = a IN
         [kind |-> "specialist", manager |-> i, specialist |-> j, agent |-> a]

WizardLoaded ==
  /\ wzPage.load = "answered"
  /\ LET done == [wzPage EXCEPT !.load = "idle", !.loading = FALSE, !.read = NoTreeRow]
         w == wizardFromTree(wzPage.read.doc) IN
     IF wzPage.read = NoTreeRow THEN WzTurns(done)
     ELSE /\ \E editor \in {done.editor} \union {Target(w, a) : a \in InWizard(w)} :
               wzPage' = [done EXCEPT !.state = w, !.tree = wzPage.route, !.ready = wzPage.read.ready,
                                      !.editor = editor]
          /\ wzPast' = [wzPast EXCEPT !.moved = @ \/ wzPage.editor # NoEditor]
          /\ UNCHANGED <<wzTrees, wzSaves, wzChanges>>

-----------------------------------------------------------------------------
(* update, and the steps that call it.                                     *)

W == wzPage.state
Typing == wzPage.open /\ ~wzPage.loading

Updated(w, editor) ==
  /\ Typing /\ wzChanges < MaxChanges /\ wzChanges' = wzChanges + 1
  /\ wzPage' = [wzPage EXCEPT !.state = w, !.dirty = TRUE, !.verdict = "none", !.editor = editor]
  /\ UNCHANGED <<wzTrees, wzSaves, wzPast>>
update(w) == wzPage.editor = NoEditor /\ Updated(w, NoEditor)

GeneralStep == update([W EXCEPT !.named = ~@])

\* Variant with a mistake: the peers of a Manager outlive it.
deleteManagerKeepingPeers ==
  \E i \in DOMAIN W.managers : update([W EXCEPT !.managers = RemoveAt(@, i)])

deleteManager ==
  \E i \in DOMAIN W.managers :
    update([W EXCEPT !.managers = RemoveAt(@, i),
                     !.peers = {p \in @ : W.managers[i].agent \notin {p[1], p[2]}}])
choosePeer ==
  \E i, j \in DOMAIN W.managers :
    LET p == <<W.managers[i].agent, W.managers[j].agent>> IN
    i # j /\ update([W EXCEPT !.peers = IF p \in @ THEN @ \ {p} ELSE @ \union {p}])
deleteSpecialist ==
  \E i \in DOMAIN W.managers : \E j \in DOMAIN W.managers[i].specialists :
    update([W EXCEPT !.managers[i].specialists = RemoveAt(@, j)])
ToolsStep ==
  \E t \in InWizard(W) \X Tools :
    update([W EXCEPT !.tools = IF t \in @ THEN @ \ {t} ELSE @ \union {t}])

WzOpens(kind, i, a) ==
  WzTurns([wzPage EXCEPT !.editor = [kind |-> kind, manager |-> i, specialist |-> 0, agent |-> a]])
openEditor ==
  /\ Typing /\ wzPage.editor = NoEditor
  /\ \/ \E a \in Managers \ InWizard(W) : WzOpens("manager", 0, a)
     \/ \E i \in DOMAIN W.managers, a \in Specialists \ InWizard(W) : WzOpens("specialist", i, a)
     \/ \E a \in InWizard(W) \ {W.root} : WzTurns([wzPage EXCEPT !.editor = Target(W, a)])
closeEditor == wzPage.editor # NoEditor /\ WzTurns([wzPage EXCEPT !.editor = NoEditor])

\* The editor's Agent goes back to its place, whoever is there by now; a place
\* that a reload took away throws, and the error page is shown.
saveEditor ==
  LET e == wzPage.editor   i == e.manager   j == e.specialist
      Placed(list) == IF j = 0 THEN Append(list, e.agent)
                      ELSE IF j \in DOMAIN list THEN [list EXCEPT ![j] = e.agent]
                      ELSE Append(list, e.agent)
  IN
  /\ e # NoEditor
  /\ IF e.kind = "manager" /\ i = 0
     THEN Updated([W EXCEPT !.managers = Append(@, [agent |-> e.agent, specialists |-> <<>>])], NoEditor)
     ELSE IF i \notin DOMAIN W.managers THEN WzTurns(LeftWizard)
     ELSE IF e.kind = "manager" THEN Updated([W EXCEPT !.managers[i].agent = e.agent], NoEditor)
     ELSE Updated([W EXCEPT !.managers[i].specialists = Placed(@)], NoEditor)

-----------------------------------------------------------------------------
(* saveDraft, and validate, which saves first.                             *)

\* The server refuses a document in which an Agent appears twice.
OnePlaceEach(w) ==
  /\ \A i, j \in DOMAIN w.managers : w.managers[i].agent = w.managers[j].agent => i = j
  /\ \A i, j \in DOMAIN w.managers :
       \A k \in DOMAIN w.managers[i].specialists, l \in DOMAIN w.managers[j].specialists :
         w.managers[i].specialists[k] = w.managers[j].specialists[l] => i = j /\ k = l

saveDraft(k) ==
  /\ Typing /\ wzPage.editor = NoEditor /\ ~wzPage.saving /\ W.named
  /\ wzSaves[k] = NoWrite /\ \A j \in 1..k - 1 : wzSaves[j] # NoWrite
  /\ wzChanges < MaxChanges /\ wzChanges' = wzChanges + 1
  /\ \E check, mark \in BOOLEAN :
       /\ mark => check
       /\ wzPage.ready /\ check => mark
       /\ wzSaves' = [wzSaves EXCEPT ![k] =
            [at |-> "put", doc |-> wizardPayload(W), tree |-> wzPage.tree, ready |-> wzPage.ready,
             new |-> wzPage.tree = 0, unique |-> OnePlaceEach(W), check |-> check, mark |-> mark]]
  /\ wzPage' = [wzPage EXCEPT !.saving = TRUE]
  /\ UNCHANGED <<wzTrees, wzPast>>

WzMoves(k, save) == wzSaves' = [wzSaves EXCEPT ![k] = save] /\ UNCHANGED <<wzPage, wzChanges>>

\* createTree, saveTreeDraft or replaceReadyTree at the server: the one writes drafts
\* only (_ensure_draft), the other Ready Trees only.
WizardPut(k) ==
  LET c == wzSaves[k] IN
  /\ c.at = "put"
  /\ \/ \E t \in IF c.new THEN FirstDraft ELSE {c.tree} :
          /\ c.unique /\ (c.ready => Valid(c.doc)) /\ (c.new \/ wzTrees[t].ready = c.ready)
          /\ wzTrees' = [wzTrees EXCEPT ![t].doc = c.doc]
          /\ \/ WzMoves(k, [c EXCEPT !.at = "saved", !.tree = t]) /\ UNCHANGED wzPast
             \/ /\ WzMoves(k, [c EXCEPT !.at = "failed"])
                /\ wzPast' = [wzPast EXCEPT !.lost = @ \/ c.new]
     \/ WzMoves(k, [c EXCEPT !.at = "failed"]) /\ UNCHANGED <<wzTrees, wzPast>>

Over(k, at) == wzSaves' = [wzSaves EXCEPT ![k] = IF at = "over" THEN [NoWrite EXCEPT !.at = at]
                                                                 ELSE [@ EXCEPT !.at = at]]
               /\ UNCHANGED <<wzTrees, wzChanges>>

\* A new Tree gets its address, from where the wizard loads again.
DraftSaved(k) ==
  LET c == wzSaves[k]
      kept == [wzPage EXCEPT !.tree = c.tree, !.dirty = FALSE, !.saving = FALSE,
                             !.state = IF c.ready THEN wizardFromTree(c.doc) ELSE @]
  IN
  /\ c.at = "saved" /\ Over(k, IF c.check THEN "validate" ELSE "over")
  /\ wzPage' = IF ~wzPage.open THEN IF c.new THEN FreshWizard(c.tree) ELSE wzPage
               ELSE IF c.new THEN [kept EXCEPT !.route = c.tree, !.load = "asked"] ELSE kept
  /\ wzPast' = [wzPast EXCEPT !.moved = @ \/ (c.ready /\ wzPage.editor # NoEditor)]

DraftFailed(k) ==
  /\ wzSaves[k].at = "failed" /\ Over(k, "over") /\ UNCHANGED wzPast
  /\ wzPage' = IF wzPage.open THEN [wzPage EXCEPT !.saving = FALSE] ELSE wzPage

WizardValidates(k) ==
  LET c == wzSaves[k]   held == wzTrees[c.tree]   marks == c.mark /\ ~c.ready IN
  /\ c.at = "validate"
  /\ wzTrees' = IF marks /\ Valid(held.doc) THEN [wzTrees EXCEPT ![c.tree].ready = TRUE] ELSE wzTrees
  /\ \E answer \in {IF Valid(held.doc) THEN "valid" ELSE "invalid", "none"} :
       WzMoves(k, [c EXCEPT !.at = answer])
  /\ UNCHANGED wzPast

\* A marked Tree is shown on its own page.
WizardValidated(k) ==
  LET c == wzSaves[k] IN
  /\ c.at \in {"valid", "invalid", "none"} /\ Over(k, "over") /\ UNCHANGED wzPast
  /\ wzPage' = IF c.at = "valid" /\ c.mark THEN LeftWizard
               ELSE IF ~wzPage.open \/ c.at = "none" THEN wzPage
               ELSE [wzPage EXCEPT !.verdict = c.at, !.runnable = @ \/ c.at = "valid"]

\* Cancel asks when there are unsaved changes; other links do not.
cancel == wzPage.open /\ WzTurns(LeftWizard)

-----------------------------------------------------------------------------

TreeWizardNext ==
  \/ WizardReads \/ WizardLoaded
  \/ GeneralStep \/ deleteManager \/ choosePeer \/ deleteSpecialist \/ ToolsStep
  \/ openEditor \/ closeEditor \/ saveEditor
  \/ \E k \in 1..MaxDrafts : \/ saveDraft(k) \/ WizardPut(k) \/ DraftSaved(k) \/ DraftFailed(k)
                             \/ WizardValidates(k) \/ WizardValidated(k)
  \/ cancel

TreeWizardSpec == TreeWizardInit /\ [][TreeWizardNext]_wzVars

TreeWizardTypeOK ==
  /\ DOMAIN wzTrees = DraftIds
  /\ wizardPayload(W) \in Documents
  /\ wzPage.verdict \in {"none", "valid", "invalid"}
  /\ \A k \in DOMAIN wzSaves : wzSaves[k].doc \in Documents \union {NoDraft}
  /\ wzPast \in [lost : BOOLEAN, moved : BOOLEAN]

(***************************************************************************)
(* Opening a Tree in the wizard and saving it unchanged keeps it, when it  *)
(* is valid: a Specialist or a Manager that hangs loose is dropped or      *)
(* adopted by the conversion.                                              *)
(***************************************************************************)
WizardKeepsValidTrees ==
  \A t \in DraftIds : wzTrees[t] # NoTreeRow /\ Valid(wzTrees[t].doc)
    => wizardPayload(wizardFromTree(wzTrees[t].doc)) = wzTrees[t].doc

(***************************************************************************)
(* What the wizard sends refers to nothing it has deleted, whatever order  *)
(* Managers, Specialists, peers and tools are edited in.  Left out are     *)
(* lists that an answer replaced while an editor was open: its Agent goes  *)
(* back to the place it remembers, which may be another's.                 *)
(***************************************************************************)
WizardSendsHierarchy ==
  ~wzPast.moved => \A k \in DOMAIN wzSaves : wzSaves[k].at = "put" => IsHierarchy(wzSaves[k].doc)

(***************************************************************************)
(* A visit creates one Tree at most, however saving, validating and        *)
(* reloading overlap, unless the answer to the creation was lost.          *)
(***************************************************************************)
OneTreePerWizard ==
  ~wzPast.lost /\ wzPage.open => Cardinality({t \in DraftIds : wzTrees[t] # NoTreeRow}) <= 2
=============================================================================
