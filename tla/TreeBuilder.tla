---------------------------- MODULE TreeBuilder ----------------------------
(***************************************************************************)
(* The visual builder (pages/trees/tree-builder.tsx): the edited document, *)
(* its undo history, the debounced check by the server, the save and the   *)
(* guard against leaving unsaved work.  One action is what runs between    *)
(* two awaits, or a step of the server.                                    *)
(*                                                                         *)
(* A snapshot is the document and its look: the positions, collapsed       *)
(* Agents and hidden resources, kept in the browser only.                  *)
(***************************************************************************)
EXTENDS BuilderModel, Sequences, SequencesExt

CONSTANTS HistoryLimit,  \* 100 in the code
          MaxWork,      \* bound: recorded commits and saves begun
          MaxSaves,      \* bound: saves begun
          NoDocument

VARIABLES
  tbTrees,  \* the server: document and status of each Tree
  tbPage,   \* the React state and refs
  tbSaves,  \* the coroutine of each save
  tbWork,   \* recorded commits and saves begun
  tbTorn    \* history: how the page may have lost track of the server

tbVars == <<tbTrees, tbPage, tbSaves, tbWork, tbTorn>>

TreeIds == 1..MaxSaves + 1
NoTree  == [doc |-> NoDocument, ready |-> FALSE]
FirstFree == {t \in TreeIds : tbTrees[t] = NoTree /\ \A u \in 1..t - 1 : tbTrees[u] # NoTree}
Snapshot(doc, look) == [doc |-> doc, look |-> look]
Blank   == Snapshot(newDocument, "loaded")
NoSave  == [at |-> "idle", doc |-> NoDocument, mark |-> FALSE, leaving |-> FALSE,
            tree |-> 0, ready |-> FALSE, fresh |-> FALSE]

\* route: the Tree of the address, 0 for a new one; tree: the Tree the page holds.
FreshPage(route) ==
  [open |-> TRUE, route |-> route, tree |-> 0, ready |-> FALSE, snap |-> Blank,
   committed |-> Blank, past |-> <<>>, future |-> <<>>, baseline |-> NoDocument,
   loading |-> TRUE, load |-> "asked", read |-> NoTree, verdict |-> "none",
   check |-> "idle", saving |-> FALSE, blocked |-> FALSE, origin |-> NoDocument]

\* The page once it is unmounted.
Left == [FreshPage(0) EXCEPT !.open = FALSE, !.load = "idle"]

\* A Tree of one branch, which a tool of its Specialists belongs to.
Stored ==
  [newDocument EXCEPT
     !.parent = [a \in {Min(Roots), Min(Managers)} \union Specialists |->
                   CASE a \in Roots -> Nobody [] a \in Managers -> Min(Roots)
                     [] OTHER -> Min(Managers)],
     !.tools = Specialists \X Tools]

TreeBuilderInit ==
  /\ \E ready \in BOOLEAN :
       tbTrees = [t \in TreeIds |-> IF t = 1 THEN [doc |-> Stored, ready |-> ready] ELSE NoTree]
  /\ \E route \in {0, 1} : tbPage = FreshPage(route)
  /\ tbSaves = [k \in 1..MaxSaves |-> NoSave]
  /\ tbWork = 0
  /\ tbTorn = FALSE

-----------------------------------------------------------------------------

Dirty(page) == page.baseline # NoDocument /\ page.snap.doc # page.baseline
Editing     == tbPage.open /\ ~tbPage.loading /\ tbPage.baseline # NoDocument /\ ~tbPage.blocked

\* The effect on a new document: the former check is dropped, a nameless one fails at once.
Rechecked(page) ==
  IF page.snap.doc.named THEN [page EXCEPT !.verdict = "none", !.check = "due"]
                         ELSE [page EXCEPT !.verdict = "invalid", !.check = "idle"]

\* Variant with a mistake: the check of the former document stands.
ShownUnchecked(page, snap) == [page EXCEPT !.snap = snap]

\* commit with and without record.
Shown(page, snap) ==
  IF snap.doc = page.snap.doc THEN [page EXCEPT !.snap = snap]
                              ELSE Rechecked([page EXCEPT !.snap = snap])

\* Variant with a mistake: the history has no end.
RecordedForever(page, snap) ==
  [Shown(page, snap) EXCEPT !.past = Append(@, page.committed), !.future = <<>>, !.committed = snap]

Recorded(page, snap) ==
  IF page.committed = snap THEN Shown(page, snap)
  ELSE [Shown(page, snap) EXCEPT
          !.past = Append(IF Len(@) < HistoryLimit THEN @ ELSE Tail(@), page.committed),
          !.future = <<>>, !.committed = snap]

Becomes(page) == tbPage' = page /\ UNCHANGED <<tbTrees, tbSaves, tbTorn>>
Commits(page) == tbWork < MaxWork /\ tbWork' = tbWork + 1 /\ Becomes(page)
Turns(page)   == UNCHANGED tbWork /\ Becomes(page)

-----------------------------------------------------------------------------
(* load.                                                                   *)

LoadReads ==
  /\ tbPage.load = "asked"
  /\ \E read \in {tbTrees[t] : t \in {tbPage.route} \ {0}} \union {NoTree} :
       Turns([tbPage EXCEPT !.load = "answered", !.read = read])

\* A Tree that could not be read leaves the error page, or the page as it was.
LoadAnswered ==
  /\ tbPage.load = "answered"
  /\ LET done == [tbPage EXCEPT !.load = "idle", !.loading = FALSE, !.read = NoTree] IN
     IF tbPage.route # 0 /\ tbPage.read = NoTree
     THEN Turns(IF tbPage.loading THEN Rechecked(done) ELSE done)
     ELSE LET read == tbPage.read
              doc  == IF tbPage.route = 0 THEN newDocument ELSE read.doc
              snap == Snapshot(doc, "loaded") IN
          /\ tbPage' = Rechecked([done EXCEPT
               !.tree = tbPage.route, !.ready = read.ready, !.snap = snap, !.committed = snap,
               !.baseline = doc, !.past = <<>>, !.future = <<>>])
          /\ tbTorn' = (tbPage.route # 0 /\ read.doc # tbTrees[tbPage.route].doc)
          /\ UNCHANGED <<tbTrees, tbSaves, tbWork>>

-----------------------------------------------------------------------------
(* Editing: the palette, the canvas, the form of an Agent.                 *)

Edited(doc) == Editing /\ Commits(Recorded(tbPage, Snapshot(doc, tbPage.snap.look)))
Doc == tbPage.snap.doc

rename == Edited([Doc EXCEPT !.named = ~@])

\* drop: an Agent on the canvas or on its parent, a tool on an Agent.
drop ==
  \/ \E a \in Agents : CanAdd(Doc, a) /\
       \/ Edited(addAgent(Doc, a))
       \/ \E up \in Members(Doc) : canConnect(addAgent(Doc, a), up, a)
                                   /\ Edited(connectAgents(addAgent(Doc, a), up, a))
  \/ \E a \in Members(Doc), t \in Tools : Edited(attachTool(Doc, a, t))

connect ==
  \/ \E up, a \in Members(Doc) : canConnect(Doc, up, a) /\ Edited(connectAgents(Doc, up, a))
  \/ \E a \in Members(Doc) : Edited([Doc EXCEPT !.parent[a] = Nobody])

disconnectResource == \E t \in Doc.tools : Edited(detachTool(Doc, t[1], t[2]))

togglePeer ==
  \E p \in Managers \X Managers :
    /\ {p[1], p[2]} \subseteq Members(Doc) /\ p[1] # p[2]
    /\ Edited([Doc EXCEPT !.peers = IF p \in @ THEN @ \ {p} ELSE @ \union {p}])

deleteSelection == \E ids \in SUBSET Members(Doc) : ids # {} /\ Edited(deleteAgents(Doc, ids))

\* onPositions while the card is dragged and when it is let go (a collapse and
\* a hidden resource are recorded likewise); the animation stops.
Arrange ==
  /\ Editing
  /\ LET still == [tbPage EXCEPT !.origin = NoDocument] IN
     \/ Turns(Shown(still, Snapshot(Doc, "between")))
     \/ Commits(Recorded(still, Snapshot(Doc, "arranged")))

layout == Editing /\ Turns([tbPage EXCEPT !.origin = Doc])

\* Every frame shows the document of the start again.
Frame ==
  /\ tbPage.open /\ tbPage.origin # NoDocument
  /\ \/ Turns(Shown(tbPage, Snapshot(tbPage.origin, "between")))
     \/ Commits(Recorded([tbPage EXCEPT !.origin = NoDocument], Snapshot(tbPage.origin, "tidy")))

undo ==
  /\ Editing /\ tbPage.past # <<>>
  /\ LET next == Last(tbPage.past) IN
     Turns([Shown(tbPage, next) EXCEPT !.past = Front(@), !.committed = next,
                                       !.future = Append(@, tbPage.snap)])
redo ==
  /\ Editing /\ tbPage.future # <<>>
  /\ LET next == Last(tbPage.future) IN
     Turns([Shown(tbPage, next) EXCEPT !.future = Front(@), !.committed = next,
                                       !.past = Append(@, tbPage.snap)])

-----------------------------------------------------------------------------
(* The check of the shown document, 450 ms after the last change.          *)

CheckAnswered ==
  /\ tbPage.open /\ tbPage.check = "due"
  /\ \E verdict \in {"none", IF Valid(Doc) THEN "valid" ELSE "invalid"} :
       Turns([tbPage EXCEPT !.check = "idle", !.verdict = verdict])

-----------------------------------------------------------------------------
(* save: from the toolbar, or from the dialog that guards leaving.         *)

SaveBegins(k) ==
  /\ tbPage.open /\ ~tbPage.loading /\ tbPage.baseline # NoDocument
  /\ tbSaves[k] = NoSave /\ \A j \in 1..k - 1 : tbSaves[j] # NoSave
  /\ \E mark \in BOOLEAN :
       /\ \/ tbPage.blocked /\ ~mark
          \/ /\ ~tbPage.blocked /\ ~tbPage.saving /\ Doc.named
             /\ mark => tbPage.verdict = "valid" /\ tbPage.check = "idle"
       /\ tbSaves' = [tbSaves EXCEPT ![k] =
            [at |-> "put", doc |-> Doc, mark |-> mark, leaving |-> tbPage.blocked,
             tree |-> tbPage.tree, ready |-> tbPage.ready, fresh |-> tbPage.route = 0]]
  /\ tbPage' = [tbPage EXCEPT !.saving = TRUE]
  /\ tbWork < MaxWork /\ tbWork' = tbWork + 1
  /\ UNCHANGED <<tbTrees, tbTorn>>

Moves(k, save) == tbSaves' = [tbSaves EXCEPT ![k] = save] /\ UNCHANGED <<tbPage, tbWork>>

\* The server writes: a draft as it comes, a Ready Tree only when it stays valid.
Put(k) ==
  LET c == tbSaves[k] IN
  /\ c.at = "put"
  /\ \/ \E t \in IF c.tree # 0 THEN {c.tree} ELSE FirstFree :
          /\ c.doc.named /\ (c.ready => Valid(c.doc)) /\ (c.tree = 0 \/ tbTrees[t].ready = c.ready)
          /\ tbTrees' = [tbTrees EXCEPT ![t].doc = c.doc]
          /\ tbTorn' = (tbTorn \/ t = tbPage.tree)
          /\ \/ Moves(k, [c EXCEPT !.at = IF c.mark /\ ~c.ready THEN "mark" ELSE "done", !.tree = t])
             \/ Moves(k, [c EXCEPT !.at = "failed"])           \* the answer is lost
     \/ Moves(k, [c EXCEPT !.at = "failed"]) /\ UNCHANGED <<tbTrees, tbTorn>>

\* validateTree marks the Tree Ready, then getTree reads it.
Mark(k) ==
  LET c == tbSaves[k]   held == tbTrees[c.tree] IN
  /\ c.at = "mark" /\ UNCHANGED tbTorn
  /\ \/ /\ Valid(held.doc)
        /\ tbTrees' = [tbTrees EXCEPT ![c.tree].ready = TRUE]
        /\ Moves(k, [c EXCEPT !.at = "get"])
     \/ UNCHANGED tbTrees /\ Moves(k, [c EXCEPT !.at = "failed"])
Get(k) ==
  LET c == tbSaves[k] IN
  /\ c.at = "get" /\ UNCHANGED <<tbTrees, tbTorn>>
  /\ \/ Moves(k, [c EXCEPT !.at = "done", !.doc = tbTrees[c.tree].doc])
     \/ Moves(k, [c EXCEPT !.at = "failed"])

Ended(k) == tbSaves' = [tbSaves EXCEPT ![k] = [NoSave EXCEPT !.at = "over"]] /\ UNCHANGED <<tbTrees, tbWork>>

\* What was saved replaces what is shown and ends the history; a new Tree gets
\* its address, from where the page loads again, even if it had been left.
SaveDone(k) ==
  LET c == tbSaves[k]
      snap == Snapshot(c.doc, IF c.ready THEN "tidy" ELSE tbPage.snap.look)
      kept == Rechecked([tbPage EXCEPT
                !.tree = c.tree, !.ready = @ \/ c.mark, !.snap = snap, !.committed = snap,
                !.baseline = c.doc, !.past = <<>>, !.future = <<>>, !.saving = FALSE])
  IN
  /\ c.at = "done" /\ Ended(k)
  /\ tbPage' = IF ~tbPage.open THEN IF c.fresh THEN FreshPage(c.tree) ELSE tbPage
               ELSE IF c.leaving /\ tbPage.blocked THEN Left
               ELSE IF c.fresh
               THEN [kept EXCEPT !.route = c.tree, !.load = "asked", !.blocked = FALSE]
               ELSE kept
  /\ tbTorn' = (c.doc # tbTrees[c.tree].doc)

SaveFailed(k) ==
  /\ tbSaves[k].at = "failed" /\ Ended(k) /\ UNCHANGED tbTorn
  /\ tbPage' = IF tbPage.open THEN [tbPage EXCEPT !.saving = FALSE] ELSE tbPage

-----------------------------------------------------------------------------
(* Leaving: useBlocker(dirty && !saving).                                  *)

Leave ==
  /\ tbPage.open /\ ~tbPage.blocked
  /\ Turns(IF Dirty(tbPage) /\ ~tbPage.saving THEN [tbPage EXCEPT !.blocked = TRUE]
                                               ELSE Left)
Stay    == tbPage.blocked /\ Turns([tbPage EXCEPT !.blocked = FALSE])
Discard == tbPage.blocked /\ Turns(Left)

-----------------------------------------------------------------------------

Saving(k) == SaveBegins(k) \/ Put(k) \/ Mark(k) \/ Get(k) \/ SaveDone(k) \/ SaveFailed(k)

TreeBuilderNext ==
  \/ LoadReads \/ LoadAnswered
  \/ rename \/ drop \/ connect \/ disconnectResource \/ togglePeer \/ deleteSelection
  \/ Arrange \/ layout \/ Frame \/ undo \/ redo
  \/ CheckAnswered
  \/ \E k \in 1..MaxSaves : Saving(k)
  \/ Leave \/ Stay \/ Discard

TreeBuilderSpec == TreeBuilderInit /\ [][TreeBuilderNext]_tbVars

TreeBuilderTypeOK ==
  /\ DOMAIN tbTrees = TreeIds
  /\ tbPage.snap.doc \in Documents /\ tbPage.committed.doc \in Documents
  /\ Len(tbPage.past) <= HistoryLimit /\ Len(tbPage.future) <= HistoryLimit
  /\ tbPage.check \in {"idle", "due"}
  /\ tbTorn \in BOOLEAN

(***************************************************************************)
(* What is shown as saved is what the server holds: the baseline moves     *)
(* only with an answer, and edits made meanwhile are replaced with it.     *)
(* tbTorn names the two ways out: a save that wrote the Tree and then      *)
(* failed in the page, and a reload answered with a Tree already replaced. *)
(***************************************************************************)
CleanIsSaved ==
  tbPage.open /\ tbPage.tree # 0 /\ ~Dirty(tbPage) /\ ~tbTorn
    => tbPage.snap.doc = tbTrees[tbPage.tree].doc

(***************************************************************************)
(* The readiness shown, which opens "Save & mark Ready", is that of the    *)
(* document on screen: no check of an earlier document is taken for it.    *)
(***************************************************************************)
VerdictIsCurrent ==
  tbPage.open /\ ~tbPage.loading /\ tbPage.verdict = "valid" => Valid(Doc)

(***************************************************************************)
(* Undo and redo step through what was shown: the anchor of the history is *)
(* the snapshot on screen, but during a drag or an animation.              *)
(***************************************************************************)
HistoryIsAnchored ==
  tbPage.open /\ tbPage.snap.look # "between" => tbPage.committed = tbPage.snap

(***************************************************************************)
(* Whatever order Agents, parents, peers and tools are added and deleted   *)
(* in, also after undo, the document refers only to what it holds.         *)
(***************************************************************************)
DocumentIsSound == IsHierarchy(Doc)

(***************************************************************************)
(* A document that has been laid out keeps its cards apart.                *)
(***************************************************************************)
LaidOutIsTidy == tbPage.snap.look = "tidy" => IsTidy(Doc)
=============================================================================
