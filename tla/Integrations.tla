---------------------------- MODULE Integrations ----------------------------
(***************************************************************************)
(* Three panels whose rows are read once and then patched by the answers   *)
(* to their own requests:                                                  *)
(*   "keys"          components/account/api-keys-panel.tsx,                *)
(*   "webhooks"      components/tree/webhook-ingress-panel.tsx,            *)
(*   "destinations"  components/tree/connect-tab.tsx.                      *)
(* A row's value is its secret, a fresh number each time one is made, or   *)
(* the configuration of a destination.  What differs is which requests may *)
(* overlap: a creation and a revocation of keys; none of webhooks; and any *)
(* of destinations, where one mark names the row that was touched last.    *)
(* Another user, or another window of the same one, may add, change or     *)
(* delete rows at any time.                                                *)
(***************************************************************************)
EXTENDS Integers, FiniteSets

CONSTANTS MaxRows, MaxSent  \* bounds: rows ever made; requests and changes by others

VARIABLES
  igServed, \* the server's rows, the number of rows and of values ever made
  igPage,   \* the React state of the panel
  igCalls,  \* the panel's requests that wait for an answer
  igPast    \* history: a late list, requests that crossed, rows with a lost answer, rows
            \* others changed since the list was read, values others put an end to

igVars == <<igServed, igPage, igCalls, igPast>>

Rows == 1..MaxRows
Panels == {"keys", "webhooks", "destinations"}
Gone == [value |-> 0, on |-> FALSE]
New == 0
Closed == -1
List == [op |-> "list", id |-> New, to |-> Gone, at |-> "asked", rows |-> [i \in Rows |-> Gone]]

IntegrationsInit ==
  LET first == [i \in Rows |-> IF i = 1 THEN [value |-> 1, on |-> TRUE] ELSE Gone] IN
  /\ igServed = [rows |-> first, made |-> 1, values |-> 1]
  /\ \E panel \in Panels :
       igPage = [panel |-> panel, rows |-> [i \in Rows |-> Gone], loading |-> TRUE,
                 form |-> Closed, raw |-> 0, busy |-> {}, sent |-> 0]
  /\ igCalls = {List}
  /\ igPast = [late |-> FALSE, crossed |-> FALSE, lost |-> {}, others |-> {}, ended |-> {}]

-----------------------------------------------------------------------------

Shows(page) == igPage' = page /\ UNCHANGED <<igServed, igCalls, igPast>>
Ends(c) == igCalls' = igCalls \ {c}
MoreMayCome == igPage.sent + Cardinality(igPast.others) < MaxSent

\* What the mark of a request is: creating or revoking, busy, or the row's id.
Lane(op, id) ==
  CASE igPage.panel = "keys" -> IF op = "create" THEN 1 ELSE 2
    [] igPage.panel = "webhooks" -> 1
    [] igPage.panel = "destinations" -> id

\* Only the keys' two marks are apart; the others' are one, and any answer clears it.
Marked(lane) == IF igPage.panel = "keys" THEN igPage.busy \union {lane} ELSE {lane}
Cleared(c) == IF igPage.panel = "keys" THEN igPage.busy \ {Lane(c.op, c.id)} ELSE {}

ListServed(c) ==
  /\ c.op = "list" /\ c.at = "asked"
  /\ igCalls' = (igCalls \ {c}) \union {[c EXCEPT !.at = "served", !.rows = igServed.rows]}
  /\ UNCHANGED <<igServed, igPage, igPast>>
ListShown(c) ==
  /\ c.op = "list" /\ Ends(c) /\ UNCHANGED igServed
  /\ \/ /\ c.at = "served" /\ igPage' = [igPage EXCEPT !.rows = c.rows, !.loading = FALSE]
        /\ igPast' = [igPast EXCEPT !.late = igPage.sent > 0]
     \/ /\ igPage' = [igPage EXCEPT !.loading = FALSE]
        /\ igPast' = [igPast EXCEPT !.lost = Rows]

-----------------------------------------------------------------------------
(* The forms and the dialog that shows a secret once.                      *)

Idle == igPage.form = Closed /\ igPage.raw = 0
Listed == {i \in Rows : igPage.rows[i] # Gone /\ Idle}

openForm ==
  /\ igPage.panel # "webhooks" /\ Idle
  /\ \E id \in {New} \union IF igPage.panel = "destinations" THEN Listed ELSE {} :
       Shows([igPage EXCEPT !.form = id])
closeDialog ==
  /\ ~Idle
  /\ igPage.panel = "keys" => Lane("create", New) \notin igPage.busy
  /\ Shows([igPage EXCEPT !.form = Closed, !.raw = 0])

Sends(op, id, to) ==
  /\ MoreMayCome /\ Lane(op, id) \notin igPage.busy
  /\ igCalls' = igCalls \union {[op |-> op, id |-> id, to |-> to, at |-> "asked", n |-> igPage.sent]}
  /\ igPage' = [igPage EXCEPT !.busy = Marked(Lane(op, id)), !.sent = @ + 1]
  /\ igPast' = [igPast EXCEPT !.crossed = @ \/ \E c \in igCalls :
                                               "test" \notin {op, c.op} /\ id # New /\ c.id = id]
  /\ UNCHANGED igServed

create ==
  /\ igPage.panel = "keys" /\ igPage.form = New /\ igPage.raw = 0
  /\ Sends("create", New, Gone)
\* The form is part of the panel and waits for the list.
createWebhook ==
  igPage.panel = "webhooks" /\ Idle /\ ~igPage.loading /\ Sends("create", New, Gone)
\* The editor of a destination always sends it enabled.
save ==
  /\ igPage.panel = "destinations" /\ igPage.form # Closed
  /\ Sends(IF igPage.form = New THEN "create" ELSE "edit", igPage.form, [value |-> 0, on |-> TRUE])
rotate == igPage.panel = "webhooks" /\ \E i \in Listed : Sends("rotate", i, Gone)
\* A destination is sent whole, as its row shows it; of a webhook only the switch.
toggle ==
  /\ igPage.panel # "keys"
  /\ \E i \in Listed : Sends("toggle", i, [igPage.rows[i] EXCEPT !.on = ~@])
remove == \E i \in Listed : Sends("delete", i, Gone)
test == igPage.panel = "destinations" /\ \E i \in Listed : Sends("test", i, Gone)

-----------------------------------------------------------------------------
(* The services: a new value for a creation, a rotation and an edit.       *)

Serves(c) ==
  LET id == IF c.op = "create" THEN igServed.made + 1 ELSE c.id
      now == igServed.rows[id]
      fresh == igServed.values + 1
      row == CASE c.op = "create" -> [value |-> fresh, on |-> TRUE]
               [] c.op = "rotate" -> [now EXCEPT !.value = fresh]
               [] c.op = "edit"   -> [c.to EXCEPT !.value = fresh]
               [] c.op = "toggle" -> IF igPage.panel = "webhooks" THEN [now EXCEPT !.on = c.to.on]
                                                                  ELSE c.to
               [] c.op = "delete" -> Gone
               [] c.op = "test"   -> now IN
  /\ c.op # "list" /\ c.at = "asked" /\ id \in Rows
  /\ c.op # "create" => now # Gone
  /\ igServed' = [rows |-> [igServed.rows EXCEPT ![id] = row],
                  made |-> IF c.op = "create" THEN id ELSE igServed.made,
                  values |-> IF c.op \in {"create", "rotate", "edit"} THEN fresh ELSE igServed.values]
  /\ igCalls' = (igCalls \ {c}) \union {[c EXCEPT !.at = "served", !.id = id, !.to = row]}
  /\ UNCHANGED <<igPage, igPast>>

Answered(c, page) ==
  /\ c.op # "list" /\ c.at = "served" /\ Ends(c)
  /\ igPage' = [page EXCEPT !.busy = Cleared(c)] /\ UNCHANGED <<igServed, igPast>>
\* A map over the rows changes one that is there and adds none.
Mapped(c) == IF igPage.rows[c.id] = Gone THEN Gone ELSE c.to

KeyAnswered(c) ==
  /\ igPage.panel = "keys"
  /\ Answered(c, [igPage EXCEPT !.rows[c.id] = c.to,
                                !.raw = IF c.op = "create" THEN c.to.value ELSE @])
\* retain puts in the row of a creation and of a rotation.
WebhookAnswered(c) ==
  /\ igPage.panel = "webhooks"
  /\ Answered(c, IF c.op \in {"create", "rotate"}
                 THEN [igPage EXCEPT !.rows[c.id] = c.to, !.raw = c.to.value]
                 ELSE [igPage EXCEPT !.rows[c.id] = Mapped(c)])
\* An answer to the editor closes the one that is open by then.
DestinationAnswered(c) ==
  /\ igPage.panel = "destinations"
  /\ Answered(c, CASE c.op = "create" -> [igPage EXCEPT !.rows[c.id] = c.to, !.form = Closed]
                   [] c.op = "edit"   -> [igPage EXCEPT !.rows[c.id] = Mapped(c), !.form = Closed]
                   [] c.op = "test"   -> igPage
                   [] OTHER           -> [igPage EXCEPT !.rows[c.id] = Mapped(c)])

Fails(c) ==
  /\ c.op # "list" /\ Ends(c) /\ igPage' = [igPage EXCEPT !.busy = Cleared(c)]
  /\ igPast' = [igPast EXCEPT !.lost = IF c.at = "served" THEN @ \union {c.id} ELSE @]
  /\ UNCHANGED igServed

\* Another page of the application creates the row, deletes it, or gives it a value or a
\* switch; nothing changes in a key.  What came before the list was read, the list shows.
\* Bound: each row once, and MoreMayCome.
OthersChange(i) ==
  LET now == igServed.rows[i]
      fresh == igServed.values + 1
      others == [value : {now.value, fresh}, on : BOOLEAN] \union {Gone} IN
  /\ MoreMayCome /\ i \notin igPast.others /\ \A c \in igCalls : c.op = "list" => c.at = "served"
  /\ \E row \in IF now = Gone THEN {[value |-> fresh, on |-> TRUE]}
                 ELSE IF igPage.panel = "keys" THEN {Gone} ELSE others \ {now} :
       /\ now = Gone => i = igServed.made + 1
       /\ igServed' = [rows |-> [igServed.rows EXCEPT ![i] = row],
                       made |-> IF now = Gone THEN i ELSE igServed.made,
                       values |-> IF row.value = fresh THEN fresh ELSE igServed.values]
       /\ igPast' = [igPast EXCEPT !.others = @ \union {i},
                                   !.ended = IF row.value = now.value THEN @ ELSE @ \union {now.value}]
  /\ UNCHANGED <<igPage, igCalls>>

-----------------------------------------------------------------------------

IntegrationsNext ==
  \/ openForm \/ closeDialog \/ create \/ createWebhook \/ save \/ rotate \/ toggle \/ remove \/ test
  \/ \E i \in Rows : OthersChange(i)
  \/ \E c \in igCalls :
       \/ ListServed(c) \/ ListShown(c) \/ Serves(c) \/ Fails(c)
       \/ KeyAnswered(c) \/ WebhookAnswered(c) \/ DestinationAnswered(c)

IntegrationsSpec == IntegrationsInit /\ [][IntegrationsNext]_igVars

IntegrationsTypeOK ==
  /\ igPage.form \in Rows \union {New, Closed} /\ igServed.made \in Rows
  /\ \A i \in Rows : igPage.rows[i].value \in 0..igServed.values

(***************************************************************************)
(* The secret a dialog shows, which is never shown again, is one the       *)
(* server accepts, unless another page put an end to it: no other request  *)
(* of the panel replaces it or removes its row meanwhile; and its row is   *)
(* listed as it is, unless the first list of the panel was answered after  *)
(* the creation or another page changed the row.                           *)
(***************************************************************************)
ShownSecretIsLive ==
  igPage.raw \notin igPast.ended \union {0} =>
    \E i \in Rows : /\ igServed.rows[i].value = igPage.raw
                    /\ \/ igPast.late \/ i \in igPast.others
                       \/ igPage.rows[i] = igServed.rows[i]

(***************************************************************************)
(* The requests of webhooks never overlap each other nor the list, those   *)
(* of one key never each other; and wherever they do not overlap, the rows *)
(* shown at rest are the server's, except after a lost answer and but for  *)
(* rows that another page changed since the list was read.                 *)
(***************************************************************************)
RowsAreServed ==
  /\ igPage.panel = "webhooks" => Cardinality(igCalls) <= 1 /\ ~igPast.late
  /\ igPage.panel # "destinations" => ~igPast.crossed
  /\ igCalls = {} /\ ~igPast.late /\ ~igPast.crossed
       => \A i \in Rows \ (igPast.lost \union igPast.others) : igPage.rows[i] = igServed.rows[i]
=============================================================================
