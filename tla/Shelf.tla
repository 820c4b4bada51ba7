-------------------------------- MODULE Shelf --------------------------------
(***************************************************************************)
(* The page of Templates (pages/templates.tsx) and the list of Trees       *)
(* (pages/trees/tree-list.tsx with components/tree/delete-tree-dialog.tsx).*)
(* Neither loads its list again after a change: an answer changes the one  *)
(* row it is about and closes the dialog.  The Templates' dialogs can be   *)
(* closed while they work, and one mark says which row is busy; the Trees' *)
(* dialog stays open while it works.  A row's number stands for its text.  *)
(* Other users change and delete rows too, which the page never learns; a  *)
(* row they add it does not know.                                          *)
(***************************************************************************)
EXTENDS Integers, FiniteSets

CONSTANTS Items,
          MaxChanges  \* bound: changes the user begins

VARIABLES
  shServed, \* the server's rows: a version each, 0 when deleted
  shPage,   \* the React state
  shCalls,  \* the changes that wait for an answer
  shPast    \* history: rows the page may be wrong about; a busy mark was taken

shVars == <<shServed, shPage, shCalls, shPast>>

NoItem == "nobody"
Gone == 0
Theirs == MaxChanges + 2   \* a text of another user's
NoDialog == [kind |-> "none", item |-> NoItem, version |-> Gone]
Kinds == {"edit", "delete"}

\* "trees" has the guarded dialog, and only deletes.
ShelfInit ==
  /\ shServed = [i \in Items |-> 1]
  /\ \E trees \in BOOLEAN :
       shPage = [trees |-> trees, rows |-> [i \in Items |-> Gone], loading |-> TRUE,
                 dialog |-> NoDialog, busy |-> NoItem, changes |-> 0]
  /\ shCalls = {}
  /\ shPast = [wrong |-> {}, overtaken |-> FALSE]

-----------------------------------------------------------------------------

Becomes(page) == shPage' = page /\ UNCHANGED <<shServed, shCalls, shPast>>

\* load; when it fails the page stays empty.
load == shPage.loading /\ Becomes([shPage EXCEPT !.rows = shServed, !.loading = FALSE])
loadFails ==
  /\ shPage.loading /\ shPage' = [shPage EXCEPT !.loading = FALSE]
  /\ shPast' = [shPast EXCEPT !.wrong = Items] /\ UNCHANGED <<shServed, shCalls>>

openDialog(kind) ==
  \E i \in Items :
    /\ shPage.rows[i] # Gone /\ shPage.dialog = NoDialog /\ ~shPage.loading
    /\ shPage.trees => kind = "delete"
    /\ Becomes([shPage EXCEPT !.dialog = [kind |-> kind, item |-> i, version |-> shPage.rows[i]]])

\* The form of an edit: a text not seen before.
typeForm ==
  /\ shPage.dialog.kind = "edit"
  /\ Becomes([shPage EXCEPT !.dialog.version = 2 + shPage.changes])

closeDialog ==
  /\ shPage.dialog # NoDialog
  /\ shPage.trees => shPage.busy = NoItem
  /\ Becomes([shPage EXCEPT !.dialog = NoDialog])

Begins(version) ==
  LET d == shPage.dialog IN
  /\ shPage.changes < MaxChanges
  /\ shCalls' = shCalls \union {[kind |-> d.kind, item |-> d.item, at |-> "asked",
                                 version |-> version]}
  /\ shPage' = [shPage EXCEPT !.busy = d.item, !.changes = @ + 1]
  /\ shPast' = [shPast EXCEPT !.overtaken = @ \/ shPage.busy # NoItem]
  /\ UNCHANGED shServed

saveEdit ==
  /\ shPage.dialog.kind = "edit" /\ shPage.busy # shPage.dialog.item
  /\ Begins(shPage.dialog.version)
\* The Templates' button waits for a change of its own row, the Trees' for any.
deleteUserTemplate ==
  /\ ~shPage.trees /\ shPage.dialog.kind = "delete" /\ shPage.busy # shPage.dialog.item
  /\ Begins(Gone)
remove == shPage.trees /\ shPage.dialog.kind = "delete" /\ shPage.busy = NoItem /\ Begins(Gone)

\* The service knows no row that is gone: such a change can only fail.
Serves(c) ==
  /\ c.at = "asked" /\ shServed[c.item] # Gone
  /\ shServed' = [shServed EXCEPT ![c.item] = c.version]
  /\ shCalls' = (shCalls \ {c}) \union {[c EXCEPT !.at = "served"]}
  /\ UNCHANGED <<shPage, shPast>>

\* Variant with a mistake: the row changed is that of the dialog open by now.
AnsweredByDialog(c, version) ==
  LET i == IF shPage.dialog = NoDialog THEN c.item ELSE shPage.dialog.item IN
  /\ c.at = "served" /\ shCalls' = shCalls \ {c}
  /\ shPage' = [shPage EXCEPT !.rows[i] = version, !.busy = NoItem, !.dialog = NoDialog]
  /\ UNCHANGED <<shServed, shPast>>

\* Whichever dialog of the kind is open closes.
Answered(c, version) ==
  /\ c.at = "served" /\ shCalls' = shCalls \ {c}
  /\ shPage' = [shPage EXCEPT !.rows[c.item] = version, !.busy = NoItem,
                   !.dialog = IF shPage.dialog.kind = c.kind THEN NoDialog ELSE @]
  /\ UNCHANGED <<shServed, shPast>>
\* The rows are mapped: one that was deleted meanwhile does not come back.
Updated(c) ==
  c.kind = "edit" /\ Answered(c, IF shPage.rows[c.item] = Gone THEN Gone ELSE c.version)
Deleted(c) == c.kind = "delete" /\ Answered(c, Gone)

Fails(c) ==
  /\ shCalls' = shCalls \ {c} /\ shPage' = [shPage EXCEPT !.busy = NoItem]
  /\ shPast' = [shPast EXCEPT !.wrong = IF c.at = "served" THEN @ \union {c.item} ELSE @]
  /\ UNCHANGED shServed

\* The page never learns of it; what came before its list was read, the list shows.  Bound:
\* rows the page is not wrong about yet.
OthersChange(i, version) ==
  /\ ~shPage.loading /\ i \notin shPast.wrong
  /\ shServed[i] # Gone /\ shServed' = [shServed EXCEPT ![i] = version]
  /\ shPast' = [shPast EXCEPT !.wrong = @ \union {i}]
  /\ UNCHANGED <<shPage, shCalls>>

-----------------------------------------------------------------------------

ShelfNext ==
  \/ load \/ loadFails \/ typeForm \/ closeDialog
  \/ saveEdit \/ deleteUserTemplate \/ remove
  \/ \E kind \in Kinds : openDialog(kind)
  \/ \E i \in Items, version \in {Theirs, Gone} : OthersChange(i, version)
  \/ \E c \in shCalls : Serves(c) \/ Updated(c) \/ Deleted(c) \/ Fails(c)

ShelfSpec == ShelfInit /\ [][ShelfNext]_shVars

ShelfTypeOK ==
  /\ shServed \in [Items -> 0..Theirs]
  /\ shPage.rows \in [Items -> 0..Theirs] /\ shPage.busy \in Items \union {NoItem}

(***************************************************************************)
(* Though the list is read once and then patched by the answers, a row     *)
(* shown at rest is the server's row.  Not so for a row that another user  *)
(* changed since, after a lost answer, or once a second row's change has   *)
(* taken the busy mark from the first, which lets its dialog send again;   *)
(* the Trees' dialog, which waits, gives no such chance.                   *)
(***************************************************************************)
ShelfIsTrue ==
  /\ shPage.trees => ~shPast.overtaken /\ Cardinality(shCalls) <= 1
  /\ shCalls = {} /\ ~shPage.loading /\ ~shPast.overtaken
       => \A i \in Items \ shPast.wrong : shPage.rows[i] = shServed[i]
=============================================================================
