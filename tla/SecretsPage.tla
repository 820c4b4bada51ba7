----------------------------- MODULE SecretsPage -----------------------------
(***************************************************************************)
(* The page of Secrets (pages/secrets.tsx) and the dialog that deletes one *)
(* (components/resource-dependency-dialog.tsx, which the pages of Tools    *)
(* and of Providers use too), against the rows of secret_service.py.       *)
(* Other users may add a Secret, delete one, give one a use or take its    *)
(* uses away at any time; requests of the page are answered in any order,  *)
(* and may fail.                                                           *)
(***************************************************************************)
EXTENDS Integers, FiniteSets

CONSTANTS MaxSecrets, MaxAsked  \* bounds: Secrets ever made; requests the user begins

VARIABLES
  scStore,  \* the server: rows kept, those in use, rows ever made
  scPage,   \* the React state of the page and of the dialog
  scCalls,  \* the page's requests that wait for an answer
  scPast    \* history: lists overlapped or failed, a dialog closed while it asked, what
            \* others added or deleted since a list was last read

scVars == <<scStore, scPage, scCalls, scPast>>

Secrets == 1..MaxSecrets
Nothing == 0
Unseen == [id |-> Nothing, can |-> FALSE]
Call(op, id, n) == [op |-> op, id |-> id, n |-> n, at |-> "asked", can |-> FALSE, rows |-> {}]

SecretsInit ==
  /\ scStore = [kept |-> {1}, used |-> {}, made |-> 1]
  /\ scPage = [rows |-> {}, loading |-> TRUE, form |-> FALSE, saving |-> FALSE,
               target |-> Nothing, seen |-> Unseen, asking |-> FALSE, deleting |-> FALSE,
               error |-> FALSE, asked |-> 0]
  /\ scCalls = {Call("list", Nothing, 0)}
  /\ scPast = [lists |-> FALSE, left |-> FALSE, others |-> {}]

-----------------------------------------------------------------------------

Becomes(page) == scPage' = page /\ UNCHANGED <<scStore, scCalls, scPast>>
Goes(c, d) == scCalls' = (scCalls \ {c}) \union {d}
Ends(c) == scCalls' = scCalls \ {c}
Counts(page) == scPage' = [page EXCEPT !.asked = @ + 1]
Lists(c) == c.op \in {"list", "saved", "deleted"}

\* loadSecrets, also at the end of a creation and of a deletion.
loadSecrets(page) ==
  /\ scPage' = [page EXCEPT !.loading = TRUE]
  /\ scPast' = [scPast EXCEPT !.lists = @ \/ \E c \in scCalls : Lists(c)]

ListServed(c) ==
  /\ Lists(c) /\ c.at = "asked" /\ Goes(c, [c EXCEPT !.at = "served", !.rows = scStore.kept])
  /\ scPast' = [scPast EXCEPT !.others = {}] /\ UNCHANGED <<scStore, scPage>>

\* A failure is told; then the form is closed, or the dialog, as after a success.
ListShown(c) ==
  /\ Lists(c) /\ Ends(c) /\ UNCHANGED scStore
  /\ \E rows \in {c.rows : x \in {c.at} \ {"asked"}} \union {scPage.rows} :
       scPage' = [scPage EXCEPT !.rows = rows, !.loading = FALSE,
                    !.form = @ /\ c.op # "saved", !.saving = @ /\ c.op # "saved",
                    !.target = IF c.op = "deleted" THEN Nothing ELSE @,
                    !.seen = IF c.op = "deleted" THEN Unseen ELSE @,
                    !.error = @ /\ c.op # "deleted", !.deleting = @ /\ c.op # "deleted"]
  /\ scPast' = [scPast EXCEPT !.lists = @ \/ c.at = "asked" \/ scPage'.rows # c.rows]

-----------------------------------------------------------------------------
(* The form: Add stays enabled, and the dialog can be closed, while a      *)
(* creation runs.                                                          *)

changeDialog == scPage.target = Nothing /\ Becomes([scPage EXCEPT !.form = ~@])

submit ==
  /\ scPage.form /\ ~scPage.saving /\ scPage.asked < MaxAsked
  /\ scCalls' = scCalls \union {Call("create", Nothing, scPage.asked)}
  /\ Counts([scPage EXCEPT !.saving = TRUE]) /\ UNCHANGED <<scStore, scPast>>

\* The row is committed; its answer may be lost, or the name was taken.
SecretCreated(c) ==
  /\ c.op = "create" /\ c.at = "asked" /\ scStore.made < MaxSecrets
  /\ scStore' = [scStore EXCEPT !.made = @ + 1, !.kept = @ \union {scStore.made + 1}]
  /\ Goes(c, [c EXCEPT !.at = "served"]) /\ UNCHANGED <<scPage, scPast>>
CreationAnswered(c) ==
  /\ c.op = "create" /\ UNCHANGED scStore
  /\ \/ /\ c.at = "served" /\ Goes(c, Call("saved", Nothing, c.n)) /\ loadSecrets(scPage)
     \/ /\ Ends(c) /\ scPage' = [scPage EXCEPT !.saving = FALSE]
        /\ scPast' = [scPast EXCEPT !.lists = @ \/ c.at = "served"]

-----------------------------------------------------------------------------
(* The dialog: it looks at the uses of its Secret when it opens, and again *)
(* before it deletes.                                                      *)

Asks(op, page) ==
  /\ scPage.asked < MaxAsked /\ scCalls' = scCalls \union {Call(op, page.target, scPage.asked)}
  /\ Counts(page) /\ UNCHANGED <<scStore, scPast>>

openDelete ==
  \E s \in scPage.rows :
    /\ ~scPage.loading /\ ~scPage.form /\ scPage.target = Nothing
    /\ Asks("refresh", [scPage EXCEPT !.target = s, !.asking = TRUE, !.error = FALSE])
Refresh ==
  /\ scPage.target # Nothing /\ scPage.error /\ scPage.seen.id # scPage.target
  /\ Asks("refresh", [scPage EXCEPT !.asking = TRUE, !.error = FALSE])
closeDelete ==
  /\ scPage.target # Nothing /\ ~scPage.deleting
  /\ scPage' = [scPage EXCEPT !.target = Nothing, !.seen = Unseen, !.error = FALSE]
  /\ scPast' = [scPast EXCEPT !.left = @ \/ \E c \in scCalls : c.op = "refresh"]
  /\ UNCHANGED <<scStore, scCalls>>
confirm ==
  /\ scPage.target # Nothing /\ scPage.seen = [id |-> scPage.target, can |-> TRUE]
  /\ ~scPage.asking /\ ~scPage.deleting
  /\ Asks("confirm", [scPage EXCEPT !.deleting = TRUE, !.error = FALSE])

\* DependencyService.secret
InspectionServed(c) ==
  /\ c.op \in {"refresh", "confirm", "recheck"} /\ c.at = "asked" /\ c.id \in scStore.kept
  /\ Goes(c, [c EXCEPT !.at = "served", !.can = c.id \notin scStore.used])
  /\ UNCHANGED <<scStore, scPage, scPast>>

\* The answer is kept whatever Secret the dialog is about by now.
refreshed(c) ==
  LET shown == [scPage EXCEPT !.seen = [id |-> c.id, can |-> c.can]] IN
  /\ c.op \in {"refresh", "confirm", "recheck"} /\ c.at = "served" /\ UNCHANGED <<scStore, scPast>>
  /\ \/ /\ c.op = "refresh" /\ Ends(c) /\ scPage' = [shown EXCEPT !.asking = FALSE]
     \/ /\ c.op = "recheck" /\ Ends(c)
        /\ scPage' = [shown EXCEPT !.asking = FALSE, !.error = TRUE, !.deleting = FALSE]
     \/ /\ c.op = "confirm" /\ ~c.can /\ Ends(c)
        /\ scPage' = [shown EXCEPT !.error = TRUE, !.deleting = FALSE]
     \/ /\ c.op = "confirm" /\ c.can /\ scPage' = shown
        /\ Goes(c, Call("remove", c.id, c.n))
InspectionFails(c) ==
  /\ c.op \in {"refresh", "confirm", "recheck"} /\ Ends(c) /\ UNCHANGED <<scStore, scPast>>
  /\ scPage' = [scPage EXCEPT !.seen = IF c.op = "confirm" THEN @ ELSE Unseen, !.error = TRUE,
                  !.asking = @ /\ c.op = "confirm", !.deleting = @ /\ c.op = "refresh"]

\* secret_service.delete looks at the uses; the foreign keys look again at the commit.
RemoveChecked(c) ==
  /\ c.op = "remove" /\ c.at = "asked" /\ c.id \in scStore.kept
  /\ Goes(c, [c EXCEPT !.at = IF c.id \in scStore.used THEN "conflict" ELSE "checked"])
  /\ UNCHANGED <<scStore, scPage, scPast>>
\* Variant with a mistake: no foreign key keeps a row that came to be used.
RemoveUnguarded(c) ==
  /\ c.op = "remove" /\ c.at = "checked"
  /\ scStore' = [scStore EXCEPT !.kept = @ \ {c.id}]
  /\ Goes(c, [c EXCEPT !.at = "gone"]) /\ UNCHANGED <<scPage, scPast>>

RemoveCommitted(c) ==
  LET free == c.id \notin scStore.used IN
  /\ c.op = "remove" /\ c.at = "checked"
  /\ scStore' = IF free THEN [scStore EXCEPT !.kept = @ \ {c.id}] ELSE scStore
  /\ Goes(c, [c EXCEPT !.at = IF free THEN "gone" ELSE "conflict"])
  /\ UNCHANGED <<scPage, scPast>>
RemoveAnswered(c) ==
  /\ c.op = "remove" /\ UNCHANGED scStore
  /\ \/ c.at = "gone" /\ Goes(c, Call("deleted", Nothing, c.n)) /\ loadSecrets(scPage)
     \/ /\ c.at = "conflict" /\ Goes(c, Call("recheck", c.id, c.n))
        /\ scPage' = [scPage EXCEPT !.asking = TRUE, !.error = FALSE] /\ UNCHANGED scPast
     \/ /\ Ends(c) /\ scPage' = [scPage EXCEPT !.error = TRUE, !.deleting = FALSE]
        /\ scPast' = [scPast EXCEPT !.lists = @ \/ c.at = "gone"]

\* Another user's page adds a Secret, or deletes one that nothing uses.
OthersChange(s) ==
  /\ \/ /\ s = scStore.made + 1
        /\ scStore' = [scStore EXCEPT !.made = s, !.kept = @ \union {s}]
     \/ /\ s \in scStore.kept \ scStore.used
        /\ scStore' = [scStore EXCEPT !.kept = @ \ {s}]
  /\ scPast' = [scPast EXCEPT !.others = @ \union {s}]
  /\ UNCHANGED <<scPage, scCalls>>

\* A Provider, a Tool or a destination begins or ends to use a Secret.
UsesChange ==
  /\ \E s \in scStore.kept :
       scStore' = [scStore EXCEPT !.used = IF s \in @ THEN @ \ {s} ELSE @ \union {s}]
  /\ UNCHANGED <<scPage, scCalls, scPast>>

-----------------------------------------------------------------------------

SecretsNext ==
  \/ changeDialog \/ submit \/ openDelete \/ Refresh \/ closeDelete \/ confirm \/ UsesChange
  \/ \E s \in Secrets : OthersChange(s)
  \/ \E c \in scCalls :
       \/ ListServed(c) \/ ListShown(c) \/ SecretCreated(c) \/ CreationAnswered(c)
       \/ InspectionServed(c) \/ refreshed(c) \/ InspectionFails(c)
       \/ RemoveChecked(c) \/ RemoveCommitted(c) \/ RemoveAnswered(c)

SecretsSpec == SecretsInit /\ [][SecretsNext]_scVars

SecretsTypeOK ==
  /\ scStore.kept \subseteq Secrets /\ scStore.made \in Secrets
  /\ scPage.rows \subseteq Secrets /\ scPage.target \in Secrets \union {Nothing}

(***************************************************************************)
(* No Secret goes while something uses it, however its uses change between *)
(* the two looks of the dialog, the look of the service and the commit.    *)
(***************************************************************************)
UsedSecretsStay == scStore.used \subseteq scStore.kept

(***************************************************************************)
(* A deletion that runs is of the Secret the dialog shows, there is never  *)
(* a second one, and when it is over a dialog still open says what the     *)
(* server said of its own Secret, or that there was an error; an           *)
(* inspection left behind by an earlier dialog is the exception.           *)
(***************************************************************************)
DialogKnowsItsSecret ==
  LET work == {c \in scCalls : c.op \in {"confirm", "remove", "deleted", "recheck"}} IN
  /\ scPage.deleting <=> work # {}
  /\ Cardinality(work) <= 1
  /\ \A c \in work : scPage.target # Nothing /\ c.id \in {scPage.target, Nothing}
  /\ scPage.target # Nothing /\ scPage.asking = FALSE /\ ~scPast.left
       => scPage.seen.id = scPage.target \/ scPage.error

(***************************************************************************)
(* At rest the page lists what the server keeps, unless lists overlapped,  *)
(* one failed, or the answer to a change was lost; a Secret that another   *)
(* user added or deleted since the last list was read is the exception.    *)
(***************************************************************************)
SecretsAreListed ==
  scCalls = {} /\ ~scPast.lists
    => \A s \in Secrets \ scPast.others : s \in scPage.rows <=> s \in scStore.kept
=============================================================================
