---------------------------- MODULE StudioProofs ----------------------------
(***************************************************************************)
(* Theorems about the pages of the Studio, for every bound and every set   *)
(* of users, Agents and Tools.  One page moves at a time, so the invariant *)
(* has a part for each page, which speaks of that page's variables only,   *)
(* and each part has its own lemmas: the initial state, the steps of the   *)
(* page, and what the part says of the page's properties.                  *)
(***************************************************************************)
EXTENDS Studio, TLAPS, FiniteSetTheorems

\* A set whose members are all equal has one at most.
LEMMA OneOrNone ==
  ASSUME NEW S, \A x, y \in S : x = y
  PROVE  S = {} \/ \E x : S = {x}
<1>1. ASSUME NEW x \in S
      PROVE  S = {x}
  BY <1>1
<1> QED  BY <1>1

LEMMA OneOrNoneIsCounted ==
  ASSUME NEW S, \A x, y \in S : x = y
  PROVE  Cardinality(S) <= 1
<1>1. CASE S = {}
  BY <1>1, FS_EmptySet
<1>2. ASSUME NEW x, S = {x}
      PROVE  Cardinality(S) <= 1
  <2>1. Cardinality({x}) = 1
    BY FS_Singleton
  <2> QED  BY <1>2, <2>1
<1> QED  BY <1>1, <1>2, OneOrNone

-----------------------------------------------------------------------------
(* The page of Secrets: the invariant.                                     *)

VaultOps == {"list", "saved", "deleted", "create", "refresh", "confirm", "recheck", "remove"}
VaultCall == [op : VaultOps, id : Vault!Secrets \union {0}, n : Nat,
              at : {"asked", "served", "conflict", "checked", "gone"}, can : BOOLEAN,
              rows : SUBSET Vault!Secrets]
VaultSeen == [id : Vault!Secrets \union {0}, can : BOOLEAN]
VaultPage == [rows : SUBSET Vault!Secrets, loading : BOOLEAN, form : BOOLEAN, saving : BOOLEAN,
              target : Vault!Secrets \union {0},
              seen : VaultSeen, asking : BOOLEAN,
              deleting : BOOLEAN, error : BOOLEAN, asked : Nat]

VaultPast == [lists : BOOLEAN, left : BOOLEAN, others : SUBSET Vault!Secrets]

VaultShape ==
  /\ scStore \in [kept : SUBSET Vault!Secrets, used : SUBSET Vault!Secrets, made : Vault!Secrets]
  /\ scPage \in VaultPage
  /\ scCalls \subseteq VaultCall
  /\ scPast \in VaultPast
  /\ \A c \in scCalls : Vault!Lists(c) => c.at \in {"asked", "served"}

\* One request at most belongs to a deletion, and it is about the dialog's Secret.
Deletes(c) == c.op \in {"confirm", "remove", "deleted", "recheck"}
DeletionInv ==
  /\ scPage.deleting <=> \E c \in scCalls : Deletes(c)
  /\ \A c, d \in scCalls : Deletes(c) /\ Deletes(d) => c = d
  /\ \A c \in scCalls : Deletes(c) =>
       scPage.target # 0 /\ c.id = IF c.op = "deleted" THEN 0 ELSE scPage.target

\* A dialog that was not closed over an inspection waits for it alone.
InspectionInv ==
  ~scPast.left =>
    /\ \A c, d \in scCalls : c.op = "refresh" /\ d.op = "refresh" => c = d
    /\ \A c \in scCalls : c.op = "refresh" =>
         /\ scPage.target # 0 /\ c.id = scPage.target
         /\ scPage.asking /\ ~scPage.error /\ ~scPage.deleting
    /\ scPage.deleting => ~scPage.error
    /\ scPage.target # 0 /\ ~scPage.asking => scPage.seen.id = scPage.target \/ scPage.error

\* The page has not yet asked again after a change it made.
Unlisted(c) == (c.op = "create" /\ c.at = "served") \/ (c.op = "remove" /\ c.at = "gone")
\* Rows that say what the server keeps, but for what others changed since a list was read.
AsKept(rows) == \A s \in Vault!Secrets \ scPast.others : s \in rows <=> s \in scStore.kept
ListInv ==
  ~scPast.lists =>
    /\ \A c, d \in scCalls : Vault!Lists(c) /\ Vault!Lists(d) => c = d
    /\ \/ \E c \in scCalls : Unlisted(c)
       \/ /\ \A c \in scCalls : Vault!Lists(c) /\ c.at = "served" => AsKept(c.rows)
          /\ (\A c \in scCalls : ~Vault!Lists(c)) => AsKept(scPage.rows)

VaultInv == VaultShape /\ Vault!UsedSecretsStay /\ DeletionInv /\ InspectionInv /\ ListInv

LEMMA VaultInit == Vault!SecretsInit => VaultInv
<1> SUFFICES ASSUME Vault!SecretsInit
             PROVE  VaultInv
  OBVIOUS
<1> USE DEF Vault!SecretsInit, Vault!Unseen, Vault!Call, Vault!Nothing
<1>1. 1 \in Vault!Secrets
  BY StudioAssumption DEF Vault!Secrets
<1>2. VaultShape
  BY <1>1 DEF VaultShape, VaultPage, VaultSeen, VaultCall, VaultOps, VaultPast, Vault!Lists
<1>3. DeletionInv /\ InspectionInv
  BY DEF DeletionInv, InspectionInv, Deletes
<1>4. ListInv
  BY DEF ListInv, AsKept, Vault!Lists
<1> QED  BY <1>2, <1>3, <1>4 DEF VaultInv, Vault!UsedSecretsStay

LEMMA CallIs ==
  ASSUME NEW op \in VaultOps, NEW id \in Vault!Secrets \union {0}, NEW n \in Nat
  PROVE  /\ Vault!Call(op, id, n) \in VaultCall
         /\ Vault!Call(op, id, n).op = op /\ Vault!Call(op, id, n).id = id
         /\ Vault!Call(op, id, n).at = "asked"
BY DEF Vault!Call, VaultCall, Vault!Nothing

LEMMA CallsAre ==
  ASSUME NEW c \in VaultCall
  PROVE  /\ c.id \in Vault!Secrets \union {0} /\ c.n \in Nat /\ c.can \in BOOLEAN
         /\ c.rows \in SUBSET Vault!Secrets
         /\ \A op \in {"saved", "deleted"} :
              /\ Vault!Call(op, Vault!Nothing, c.n) \in VaultCall
              /\ Vault!Call(op, Vault!Nothing, c.n).op = op
              /\ Vault!Call(op, Vault!Nothing, c.n).at = "asked"
         /\ \A op \in {"remove", "recheck"} :
              /\ Vault!Call(op, c.id, c.n) \in VaultCall
              /\ Vault!Call(op, c.id, c.n).op = op
              /\ Vault!Call(op, c.id, c.n).at = "asked"
<1>1. c.id \in Vault!Secrets \union {0} /\ c.n \in Nat /\ c.can \in BOOLEAN
      /\ c.rows \in SUBSET Vault!Secrets
  BY DEF VaultCall
<1>2. {"saved", "deleted", "remove", "recheck"} \subseteq VaultOps
      /\ Vault!Nothing \in Vault!Secrets \union {0}
  BY DEF VaultOps, Vault!Nothing
<1> QED  BY <1>1, <1>2, CallIs

\* What the page's state may be set to.
LEMMA PageIs ==
  ASSUME NEW p \in VaultPage, NEW b \in BOOLEAN, NEW d \in BOOLEAN, NEW e \in BOOLEAN,
         NEW r \in SUBSET Vault!Secrets, NEW id \in Vault!Secrets \union {0}, NEW can \in BOOLEAN
  PROVE  /\ [id |-> id, can |-> can] \in VaultSeen /\ [p EXCEPT !.asked = @ + 1] \in VaultPage
         /\ [p EXCEPT !.asking = b] \in VaultPage /\ [p EXCEPT !.deleting = b] \in VaultPage
         /\ [p EXCEPT !.error = b] \in VaultPage /\ [p EXCEPT !.saving = b] \in VaultPage
         /\ [p EXCEPT !.form = b] \in VaultPage /\ [p EXCEPT !.loading = b] \in VaultPage
         /\ [p EXCEPT !.rows = r] \in VaultPage /\ [p EXCEPT !.target = id] \in VaultPage
         /\ [p EXCEPT !.seen = [id |-> id, can |-> can]] \in VaultPage
BY DEF VaultPage, VaultSeen

LEMMA VaultShapeStep ==
  ASSUME VaultShape, Vault!SecretsNext
  PROVE  VaultShape'
<1> USE DEF VaultShape, Vault!Lists, VaultPast
<1>0. MaxAsked \in Nat /\ Vault!Secrets \subseteq Nat
  BY StudioAssumption DEF Vault!Secrets
<1>1. CASE Vault!changeDialog
  BY <1>1 DEF Vault!changeDialog, Vault!Becomes, VaultPage
<1>2. CASE Vault!submit
  <2>0. "create" \in VaultOps /\ Vault!Nothing \in Vault!Secrets \union {0} /\ scPage.asked \in Nat
    BY DEF VaultOps, Vault!Nothing, VaultPage
  <2>1. Vault!Call("create", Vault!Nothing, scPage.asked) \in VaultCall
        /\ Vault!Call("create", Vault!Nothing, scPage.asked).op = "create"
    BY <2>0, CallIs
  <2>2. PICK p \in VaultPage : p = [scPage EXCEPT !.saving = TRUE]
    BY PageIs
  <2>3. [p EXCEPT !.asked = @ + 1] \in VaultPage
    BY PageIs
  <2>4. scPage' \in VaultPage
    BY <1>2, <2>2, <2>3 DEF Vault!submit, Vault!Counts
  <2> QED  BY <1>2, <2>1, <2>4 DEF Vault!submit
<1>3. ASSUME NEW op \in {"refresh", "confirm"}, NEW page \in VaultPage, Vault!Asks(op, page)
      PROVE  VaultShape'
  <2>1. Vault!Call(op, page.target, scPage.asked) \in VaultCall
        /\ Vault!Call(op, page.target, scPage.asked).op = op
    BY CallIs DEF VaultPage, VaultOps
  <2>2. scPage' \in VaultPage
    BY <1>3 DEF Vault!Asks, Vault!Counts, VaultPage
  <2> QED  BY <1>3, <2>1, <2>2 DEF Vault!Asks
<1>4. CASE Vault!openDelete
  <2>1. PICK s \in scPage.rows :
          Vault!Asks("refresh", [scPage EXCEPT !.target = s, !.asking = TRUE, !.error = FALSE])
    BY <1>4 DEF Vault!openDelete
  <2>2. [scPage EXCEPT !.target = s, !.asking = TRUE, !.error = FALSE] \in VaultPage
    BY DEF VaultPage
  <2> QED  BY <1>3, <2>1, <2>2
<1>5. CASE Vault!Refresh
  <2>1. [scPage EXCEPT !.asking = TRUE, !.error = FALSE] \in VaultPage
    BY DEF VaultPage
  <2> QED  BY <1>3, <1>5, <2>1 DEF Vault!Refresh
<1>6. CASE Vault!closeDelete
  <2>1. scPage' \in VaultPage
    BY <1>6 DEF Vault!closeDelete, VaultPage, VaultSeen, Vault!Unseen, Vault!Nothing
  <2> QED  BY <1>6, <2>1 DEF Vault!closeDelete
<1>7. CASE Vault!confirm
  <2>1. [scPage EXCEPT !.deleting = TRUE, !.error = FALSE] \in VaultPage
    BY DEF VaultPage
  <2> QED  BY <1>3, <1>7, <2>1 DEF Vault!confirm
<1>8. CASE Vault!UsesChange
  BY <1>8 DEF Vault!UsesChange
<1>23. ASSUME NEW s \in Vault!Secrets, Vault!OthersChange(s)
       PROVE  VaultShape'
  <2>1. CASE s = scStore.made + 1 /\ scStore' = [scStore EXCEPT !.made = s, !.kept = @ \union {s}]
    BY <1>23, <2>1 DEF Vault!OthersChange
  <2>2. CASE scStore' = [scStore EXCEPT !.kept = @ \ {s}]
    BY <1>23, <2>2 DEF Vault!OthersChange
  <2> QED  BY <1>23, <2>1, <2>2 DEF Vault!OthersChange
<1>9. ASSUME NEW c \in scCalls, NEW d \in VaultCall, Vault!Lists(d) => d.at \in {"asked", "served"},
             Vault!Goes(c, d), scPage' \in VaultPage, UNCHANGED scStore,
             scPast' \in VaultPast
      PROVE  VaultShape'
  BY <1>9 DEF Vault!Goes
<1>10. ASSUME NEW c \in scCalls, Vault!Ends(c), scPage' \in VaultPage, UNCHANGED scStore,
              scPast' \in VaultPast
       PROVE  VaultShape'
  BY <1>10 DEF Vault!Ends
<1>11. ASSUME NEW c \in scCalls, Vault!ListServed(c)
       PROVE  VaultShape'
  <2>1. [c EXCEPT !.at = "served", !.rows = scStore.kept] \in VaultCall
        /\ [c EXCEPT !.at = "served", !.rows = scStore.kept].at = "served"
    BY DEF VaultCall
  <2> QED  BY <1>9, <1>11, <2>1 DEF Vault!ListServed
<1>12. ASSUME NEW c \in scCalls, Vault!ListShown(c)
       PROVE  VaultShape'
  <2>1. scPage' \in VaultPage
    <3>1. PICK f, s, e, d \in BOOLEAN :
            /\ f = (scPage.form /\ c.op # "saved") /\ s = (scPage.saving /\ c.op # "saved")
            /\ e = (scPage.error /\ c.op # "deleted") /\ d = (scPage.deleting /\ c.op # "deleted")
      OBVIOUS
    <3>2. PICK t \in Vault!Secrets \union {0} : t = IF c.op = "deleted" THEN Vault!Nothing ELSE scPage.target
      BY DEF VaultPage, Vault!Nothing
    <3>3. PICK z \in VaultSeen :
            z = IF c.op = "deleted" THEN Vault!Unseen ELSE scPage.seen
      BY DEF VaultPage, VaultSeen, Vault!Unseen, Vault!Nothing
    <3>4. PICK r \in SUBSET Vault!Secrets :
            scPage' = [scPage EXCEPT !.rows = r, !.loading = FALSE,
                        !.form = @ /\ c.op # "saved", !.saving = @ /\ c.op # "saved",
                        !.target = IF c.op = "deleted" THEN Vault!Nothing ELSE @,
                        !.seen = IF c.op = "deleted" THEN Vault!Unseen ELSE @,
                        !.error = @ /\ c.op # "deleted", !.deleting = @ /\ c.op # "deleted"]
      <4>1. PICK r \in {c.rows : x \in {c.at} \ {"asked"}} \union {scPage.rows} :
            scPage' = [scPage EXCEPT !.rows = r, !.loading = FALSE,
                        !.form = @ /\ c.op # "saved", !.saving = @ /\ c.op # "saved",
                        !.target = IF c.op = "deleted" THEN Vault!Nothing ELSE @,
                        !.seen = IF c.op = "deleted" THEN Vault!Unseen ELSE @,
                        !.error = @ /\ c.op # "deleted", !.deleting = @ /\ c.op # "deleted"]
        BY <1>12, Zenon DEF Vault!ListShown
      <4>2. c.rows \in SUBSET Vault!Secrets /\ scPage.rows \in SUBSET Vault!Secrets
        BY CallsAre DEF VaultPage
      <4> QED  BY <4>1, <4>2
    <3>5. PICK p \in VaultPage : p = scPage
      OBVIOUS
    <3>6. PICK q \in VaultPage : q = [p EXCEPT !.rows = r, !.loading = FALSE, !.form = f, !.saving = s]
      <4> HIDE DEF VaultShape
      <4> QED  BY DEF VaultPage
    <3>7. [q EXCEPT !.target = t, !.seen = z, !.error = e, !.deleting = d] \in VaultPage
      <4> HIDE DEF VaultShape
      <4> QED  BY DEF VaultPage
    <3>8. scPage' = [q EXCEPT !.target = t, !.seen = z, !.error = e, !.deleting = d]
      BY <3>1, <3>2, <3>3, <3>4, <3>5, <3>6
    <3> QED  BY <3>7, <3>8
  <2>2. scPast' \in VaultPast
    BY <1>12 DEF Vault!ListShown
  <2> QED  BY <1>10, <1>12, <2>1, <2>2 DEF Vault!ListShown
<1>13. ASSUME NEW c \in scCalls, Vault!SecretCreated(c)
       PROVE  VaultShape'
  <2>1. [c EXCEPT !.at = "served"] \in VaultCall /\ [c EXCEPT !.at = "served"].at = "served"
    BY DEF VaultCall
  <2>2. scStore.made + 1 \in Vault!Secrets
    BY <1>13, StudioAssumption DEF Vault!SecretCreated, Vault!Secrets
  <2>3. scStore' \in [kept : SUBSET Vault!Secrets, used : SUBSET Vault!Secrets, made : Vault!Secrets]
    BY <1>13, <2>2 DEF Vault!SecretCreated
  <2> QED  BY <1>13, <2>1, <2>3 DEF Vault!SecretCreated, Vault!Goes
<1>14. ASSUME NEW page \in VaultPage, Vault!loadSecrets(page)
       PROVE  scPage' \in VaultPage /\ scPast' \in VaultPast
  BY <1>14 DEF Vault!loadSecrets, VaultPage
<1>15. ASSUME NEW c \in scCalls, Vault!CreationAnswered(c)
       PROVE  VaultShape'
  <2>1. CASE Vault!Goes(c, Vault!Call("saved", Vault!Nothing, c.n)) /\ Vault!loadSecrets(scPage)
    <3>1. Vault!Call("saved", Vault!Nothing, c.n) \in VaultCall
          /\ Vault!Call("saved", Vault!Nothing, c.n).at = "asked"
      BY CallsAre
    <3> QED  BY <1>9, <1>14, <1>15, <2>1, <3>1 DEF Vault!CreationAnswered
  <2>2. CASE /\ Vault!Ends(c) /\ scPage' = [scPage EXCEPT !.saving = FALSE]
             /\ scPast' = [scPast EXCEPT !.lists = @ \/ c.at = "served"]
    <3>1. scPage' \in VaultPage /\ scPast' \in VaultPast
      BY <2>2 DEF VaultPage
    <3> QED  BY <1>10, <1>15, <2>2, <3>1 DEF Vault!CreationAnswered
  <2> QED  BY <1>15, <2>1, <2>2 DEF Vault!CreationAnswered
<1>16. ASSUME NEW c \in scCalls, Vault!InspectionServed(c)
       PROVE  VaultShape'
  <2>1. [c EXCEPT !.at = "served", !.can = c.id \notin scStore.used] \in VaultCall
        /\ [c EXCEPT !.at = "served", !.can = c.id \notin scStore.used].at = "served"
    BY DEF VaultCall
  <2> QED  BY <1>9, <1>16, <2>1 DEF Vault!InspectionServed
<1>17. ASSUME NEW c \in scCalls, Vault!refreshed(c)
       PROVE  VaultShape'
  <2>1. Vault!Call("remove", c.id, c.n) \in VaultCall /\ Vault!Call("remove", c.id, c.n).op = "remove"
    BY CallsAre
  <2>2. PICK p \in VaultPage : p = [scPage EXCEPT !.seen = [id |-> c.id, can |-> c.can]]
    BY CallsAre, PageIs
  <2>3. \/ scPage' = p \/ scPage' = [p EXCEPT !.asking = FALSE]
        \/ scPage' = [p EXCEPT !.error = TRUE, !.deleting = FALSE]
        \/ scPage' = [p EXCEPT !.asking = FALSE, !.error = TRUE, !.deleting = FALSE]
    BY <1>17, <2>2 DEF Vault!refreshed
  <2>4. scPage' \in VaultPage
    <3> HIDE DEF VaultShape
    <3> QED  BY <2>3 DEF VaultPage
  <2> QED  BY <1>9, <1>10, <1>17, <2>1, <2>4 DEF Vault!refreshed
<1>18. ASSUME NEW c \in scCalls, Vault!InspectionFails(c)
       PROVE  VaultShape'
  <2>1. scPage' \in VaultPage
    <3>1. PICK a, d \in BOOLEAN :
            a = (scPage.asking /\ c.op = "confirm") /\ d = (scPage.deleting /\ c.op = "refresh")
      OBVIOUS
    <3>2. PICK z \in VaultSeen :
            z = IF c.op = "confirm" THEN scPage.seen ELSE Vault!Unseen
      BY DEF VaultPage, VaultSeen, Vault!Unseen, Vault!Nothing
    <3>3. scPage' = [scPage EXCEPT !.seen = z, !.error = TRUE, !.asking = a, !.deleting = d]
      BY <1>18, <3>1, <3>2 DEF Vault!InspectionFails
    <3> QED  BY <3>3 DEF VaultPage
  <2> QED  BY <1>10, <1>18, <2>1 DEF Vault!InspectionFails
<1>19. ASSUME NEW c \in scCalls, NEW at \in {"conflict", "checked", "gone"}, c.op = "remove"
       PROVE  [c EXCEPT !.at = at] \in VaultCall /\ [c EXCEPT !.at = at].op = "remove"
  BY <1>19 DEF VaultCall
<1>20. ASSUME NEW c \in scCalls, Vault!RemoveChecked(c)
       PROVE  VaultShape'
  BY <1>9, <1>19, <1>20 DEF Vault!RemoveChecked
<1>21. ASSUME NEW c \in scCalls, Vault!RemoveCommitted(c)
       PROVE  VaultShape'
  <2>1. PICK at \in {"conflict", "gone"} : Vault!Goes(c, [c EXCEPT !.at = at])
    BY <1>21 DEF Vault!RemoveCommitted
  <2>2. scStore' \in [kept : SUBSET Vault!Secrets, used : SUBSET Vault!Secrets, made : Vault!Secrets]
    BY <1>21 DEF Vault!RemoveCommitted
  <2> QED  BY <1>19, <1>21, <2>1, <2>2 DEF Vault!RemoveCommitted, Vault!Goes
<1>22. ASSUME NEW c \in scCalls, Vault!RemoveAnswered(c)
       PROVE  VaultShape'
  <2>1. CASE Vault!Goes(c, Vault!Call("deleted", Vault!Nothing, c.n)) /\ Vault!loadSecrets(scPage)
    <3>1. Vault!Call("deleted", Vault!Nothing, c.n) \in VaultCall
          /\ Vault!Call("deleted", Vault!Nothing, c.n).at = "asked"
      BY CallsAre
    <3> QED  BY <1>9, <1>14, <1>22, <2>1, <3>1 DEF Vault!RemoveAnswered
  <2>2. CASE /\ Vault!Goes(c, Vault!Call("recheck", c.id, c.n))
             /\ scPage' = [scPage EXCEPT !.asking = TRUE, !.error = FALSE] /\ UNCHANGED scPast
    <3>1. Vault!Call("recheck", c.id, c.n) \in VaultCall
          /\ Vault!Call("recheck", c.id, c.n).at = "asked"
      BY CallsAre
    <3>2. scPage' \in VaultPage
      BY <2>2 DEF VaultPage
    <3> QED  BY <1>9, <1>22, <2>2, <3>1, <3>2 DEF Vault!RemoveAnswered
  <2>3. CASE /\ Vault!Ends(c) /\ scPage' = [scPage EXCEPT !.error = TRUE, !.deleting = FALSE]
             /\ scPast' = [scPast EXCEPT !.lists = @ \/ c.at = "gone"]
    <3>1. scPage' \in VaultPage /\ scPast' \in VaultPast
      BY <2>3 DEF VaultPage
    <3> QED  BY <1>10, <1>22, <2>3, <3>1 DEF Vault!RemoveAnswered
  <2> QED  BY <1>22, <2>1, <2>2, <2>3 DEF Vault!RemoveAnswered
<1> QED  BY <1>1, <1>2, <1>4, <1>5, <1>6, <1>7, <1>8, <1>11, <1>12, <1>13, <1>15, <1>16, <1>17,
            <1>18, <1>20, <1>21, <1>22, <1>23 DEF Vault!SecretsNext

\* A request that only gets further.
LEMMA GoesFurther ==
  ASSUME VaultShape, DeletionInv, InspectionInv, NEW c \in scCalls, NEW d, d.op = c.op, d.id = c.id,
         Vault!Goes(c, d), UNCHANGED scPage, scPast'.left = scPast.left
  PROVE  DeletionInv' /\ InspectionInv'
<1>1. \A e \in scCalls' : e \in scCalls \/ e = d
  BY DEF Vault!Goes
<1>2. \A e \in scCalls : e = c \/ e \in scCalls'
  BY DEF Vault!Goes
<1>3. d \in scCalls' /\ \A e \in scCalls' : e = c => c = d \/ e # c
  BY DEF Vault!Goes
<1>4. DeletionInv'
  <2>1. Deletes(d) <=> Deletes(c)
    BY DEF Deletes
  <2>2. \A e \in scCalls' : Deletes(e) => e = d \/ (e \in scCalls /\ e # c)
    BY DEF Vault!Goes
  <2> QED  BY <1>1, <1>2, <1>3, <2>1, <2>2 DEF DeletionInv
<1>5. InspectionInv'
  <2>1. \A e \in scCalls' : e = d \/ (e \in scCalls /\ e # c)
    BY DEF Vault!Goes
  <2> QED  BY <1>1, <1>2, <2>1 DEF InspectionInv
<1> QED  BY <1>4, <1>5

\* What the three invariants depend on of the page.
LEMMA VaultRests ==
  ASSUME VaultShape, DeletionInv, InspectionInv, scPage'.deleting = scPage.deleting,
         scPage'.target = scPage.target, scPage'.seen = scPage.seen,
         scPage'.asking = scPage.asking, scPage'.error = scPage.error, scPast'.left = scPast.left,
         \A c \in scCalls' : Deletes(c) \/ c.op = "refresh" => c \in scCalls,
         \A c \in scCalls : Deletes(c) \/ c.op = "refresh" => c \in scCalls'
  PROVE  DeletionInv' /\ InspectionInv'
<1>1. DeletionInv'
  BY DEF DeletionInv
<1>2. InspectionInv'
  BY DEF InspectionInv
<1> QED  BY <1>1, <1>2

\* The list is asked for once more.
LEMMA Reloads ==
  ASSUME VaultShape, ListInv, NEW c \in scCalls, NEW d, Vault!Lists(d), d.at = "asked",
         Vault!Goes(c, d), scPast'.lists = (scPast.lists \/ \E e \in scCalls : Vault!Lists(e))
  PROVE  ListInv'
<1> SUFFICES ASSUME ~scPast'.lists
             PROVE  ListInv'
  BY DEF ListInv
<1>1. \A e \in scCalls : ~Vault!Lists(e)
  OBVIOUS
<1>2. \A e \in scCalls' : e \in scCalls \/ e = d
  BY DEF Vault!Goes
<1>3. d \in scCalls'
  BY DEF Vault!Goes
<1> QED  BY <1>1, <1>2, <1>3 DEF ListInv

\* Requests come and go that are neither lists nor changes.
LEMMA ListRests ==
  ASSUME ListInv, scPage'.rows = scPage.rows, scStore'.kept = scStore.kept,
         scPast'.lists = scPast.lists, scPast'.others = scPast.others,
         \A c \in scCalls' : Vault!Lists(c) => c \in scCalls,
         \A c \in scCalls : Vault!Lists(c) \/ Unlisted(c) => c \in scCalls'
  PROVE  ListInv'
BY DEF ListInv, AsKept

VaultParts == DeletionInv /\ InspectionInv /\ ListInv

\* The form of a new Secret, and the dialog as it opens and closes.
LEMMA FormStep ==
  ASSUME VaultInv, Vault!changeDialog \/ Vault!submit
  PROVE  VaultParts'
<1> USE DEF VaultInv, VaultShape, VaultPage
<1>1. CASE Vault!changeDialog
  <2>1. /\ scPage'.deleting = scPage.deleting /\ scPage'.target = scPage.target
        /\ scPage'.seen = scPage.seen /\ scPage'.asking = scPage.asking
        /\ scPage'.error = scPage.error /\ scPage'.rows = scPage.rows
        /\ UNCHANGED <<scStore, scCalls, scPast>>
    BY <1>1 DEF Vault!changeDialog, Vault!Becomes
  <2> QED  BY <2>1, VaultRests, ListRests DEF VaultParts
<1>2. CASE Vault!submit
  <2> DEFINE d == Vault!Call("create", Vault!Nothing, scPage.asked)
  <2>1. /\ scPage'.deleting = scPage.deleting /\ scPage'.target = scPage.target
        /\ scPage'.seen = scPage.seen /\ scPage'.asking = scPage.asking
        /\ scPage'.error = scPage.error /\ scPage'.rows = scPage.rows
        /\ scCalls' = scCalls \union {d} /\ UNCHANGED <<scStore, scPast>>
    BY <1>2 DEF Vault!submit, Vault!Counts
  <2>2. ~Deletes(d) /\ d.op # "refresh" /\ ~Vault!Lists(d) /\ d.at = "asked"
    BY DEF Vault!Call, Deletes, Vault!Lists
  <2> HIDE DEF d
  <2> QED  BY <2>1, <2>2, VaultRests, ListRests DEF VaultParts
<1> QED  BY <1>1, <1>2

LEMMA DialogStep ==
  ASSUME VaultInv, Vault!openDelete \/ Vault!Refresh \/ Vault!closeDelete \/ Vault!confirm
  PROVE  VaultParts'
<1> USE DEF VaultInv, VaultShape, VaultPage
<1>0. Vault!Nothing = 0 /\ 0 \notin Vault!Secrets
  BY DEF Vault!Nothing, Vault!Secrets
<1>1. ASSUME NEW op \in {"refresh", "confirm"}, NEW page \in VaultPage, Vault!Asks(op, page),
             page.rows = scPage.rows
      PROVE  /\ ListInv'
             /\ \E d : /\ d.op = op /\ d.id = page.target /\ scCalls' = scCalls \union {d}
                       /\ UNCHANGED <<scStore, scPast>> /\ scPage'.target = page.target
                       /\ scPage'.asking = page.asking /\ scPage'.error = page.error
                       /\ scPage'.deleting = page.deleting /\ scPage'.seen = page.seen
  <2> DEFINE d == Vault!Call(op, page.target, scPage.asked)
  <2>1. /\ scCalls' = scCalls \union {d} /\ UNCHANGED <<scStore, scPast>>
        /\ scPage' = [page EXCEPT !.asked = @ + 1]
    BY <1>1 DEF Vault!Asks, Vault!Counts
  <2>2. d.op = op /\ d.id = page.target /\ ~Vault!Lists(d)
    BY DEF Vault!Call, Vault!Lists
  <2>3. scPage'.rows = scPage.rows
    BY <1>1, <2>1
  <2> HIDE DEF d
  <2>4. ListInv'
    BY <2>1, <2>2, <2>3, ListRests
  <2>5. /\ scPage'.target = page.target
        /\ scPage'.asking = page.asking /\ scPage'.error = page.error
        /\ scPage'.deleting = page.deleting /\ scPage'.seen = page.seen
    BY <2>1
  <2> QED  BY <2>1, <2>2, <2>4, <2>5
<1>2. CASE Vault!openDelete
  <2>1. PICK s \in scPage.rows :
          /\ scPage.target = 0
          /\ Vault!Asks("refresh", [scPage EXCEPT !.target = s, !.asking = TRUE, !.error = FALSE])
    BY <1>0, <1>2 DEF Vault!openDelete
  <2>0. PICK page \in VaultPage :
          /\ page = [scPage EXCEPT !.target = s, !.asking = TRUE, !.error = FALSE]
          /\ page.target = s /\ page.asking = TRUE /\ page.error = FALSE
          /\ page.deleting = scPage.deleting /\ page.rows = scPage.rows
    <3> DEFINE page == [scPage EXCEPT !.target = s, !.asking = TRUE, !.error = FALSE]
    <3>1. page \in VaultPage
      OBVIOUS
    <3>2. /\ page.target = s /\ page.asking = TRUE /\ page.error = FALSE
          /\ page.deleting = scPage.deleting /\ page.rows = scPage.rows
      OBVIOUS
    <3> HIDE DEF VaultPage
    <3> QED  BY <3>1, <3>2, Zenon
  <2>7. Vault!Asks("refresh", page) /\ page.rows = scPage.rows
    BY <2>0, <2>1
  <2>2. PICK d : /\ d.op = "refresh" /\ d.id = s /\ scCalls' = scCalls \union {d}
                 /\ UNCHANGED <<scStore, scPast>> /\ scPage'.target = s
                 /\ scPage'.asking = TRUE /\ scPage'.error = FALSE /\ scPage'.deleting = scPage.deleting
    <3> HIDE DEF VaultInv, VaultShape, VaultPage
    <3>1. \E d : /\ d.op = "refresh" /\ d.id = page.target /\ scCalls' = scCalls \union {d}
                /\ UNCHANGED <<scStore, scPast>> /\ scPage'.target = page.target
                /\ scPage'.asking = page.asking /\ scPage'.error = page.error
                /\ scPage'.deleting = page.deleting /\ scPage'.seen = page.seen
      BY <1>1, <2>7
    <3> QED  BY <2>0, <3>1
  <2>3. ListInv'
    BY <1>1, <2>7
  <2>4. s # 0
    BY <1>0
  <2>5. DeletionInv'
    BY <2>1, <2>2 DEF DeletionInv, Deletes
  <2>6. InspectionInv'
    BY <2>1, <2>2, <2>4 DEF InspectionInv, DeletionInv
  <2> QED  BY <2>3, <2>5, <2>6 DEF VaultParts
<1>3. CASE Vault!Refresh
  <2>1. /\ scPage.target # 0 /\ scPage.error
        /\ Vault!Asks("refresh", [scPage EXCEPT !.asking = TRUE, !.error = FALSE])
    BY <1>0, <1>3 DEF Vault!Refresh
  <2>0. PICK page \in VaultPage :
          /\ page = [scPage EXCEPT !.asking = TRUE, !.error = FALSE]
          /\ page.target = scPage.target /\ page.asking = TRUE /\ page.error = FALSE
          /\ page.deleting = scPage.deleting /\ page.rows = scPage.rows
    <3> DEFINE page == [scPage EXCEPT !.asking = TRUE, !.error = FALSE]
    <3>1. page \in VaultPage
      OBVIOUS
    <3>2. /\ page.target = scPage.target /\ page.asking = TRUE /\ page.error = FALSE
          /\ page.deleting = scPage.deleting /\ page.rows = scPage.rows
      OBVIOUS
    <3> HIDE DEF VaultPage
    <3> QED  BY <3>1, <3>2, Zenon
  <2>7. Vault!Asks("refresh", page) /\ page.rows = scPage.rows
    BY <2>0, <2>1
  <2>2. PICK d : /\ d.op = "refresh" /\ d.id = scPage.target /\ scCalls' = scCalls \union {d}
                 /\ UNCHANGED <<scStore, scPast>> /\ scPage'.target = scPage.target
                 /\ scPage'.asking = TRUE /\ scPage'.error = FALSE /\ scPage'.deleting = scPage.deleting
    <3> HIDE DEF VaultInv, VaultShape, VaultPage
    <3>1. \E d : /\ d.op = "refresh" /\ d.id = page.target /\ scCalls' = scCalls \union {d}
                /\ UNCHANGED <<scStore, scPast>> /\ scPage'.target = page.target
                /\ scPage'.asking = page.asking /\ scPage'.error = page.error
                /\ scPage'.deleting = page.deleting /\ scPage'.seen = page.seen
      BY <1>1, <2>7
    <3> QED  BY <2>0, <3>1
  <2>3. ListInv'
    BY <1>1, <2>7
  <2>5. DeletionInv'
    BY <2>1, <2>2 DEF DeletionInv, Deletes
  <2>6. InspectionInv'
    BY <2>1, <2>2 DEF InspectionInv
  <2> QED  BY <2>3, <2>5, <2>6 DEF VaultParts
<1>4. CASE Vault!closeDelete
  <2>1. /\ ~scPage.deleting /\ UNCHANGED <<scStore, scCalls>> /\ scPage'.target = 0
        /\ scPage'.deleting = scPage.deleting /\ scPage'.rows = scPage.rows
        /\ scPast'.left = (scPast.left \/ \E c \in scCalls : c.op = "refresh")
        /\ scPast'.lists = scPast.lists /\ scPast'.others = scPast.others
    BY <1>0, <1>4 DEF Vault!closeDelete, VaultPast
  <2>2. DeletionInv'
    BY <2>1 DEF DeletionInv
  <2>3. InspectionInv'
    BY <2>1 DEF InspectionInv
  <2>4. ListInv'
    BY <2>1, ListRests
  <2> QED  BY <2>2, <2>3, <2>4 DEF VaultParts
<1>5. CASE Vault!confirm
  <2>1. /\ scPage.target # 0 /\ scPage.seen.id = scPage.target /\ ~scPage.asking /\ ~scPage.deleting
        /\ Vault!Asks("confirm", [scPage EXCEPT !.deleting = TRUE, !.error = FALSE])
    BY <1>0, <1>5 DEF Vault!confirm
  <2>0. PICK page \in VaultPage :
          /\ page = [scPage EXCEPT !.deleting = TRUE, !.error = FALSE]
          /\ page.target = scPage.target /\ page.asking = scPage.asking /\ page.error = FALSE
          /\ page.deleting = TRUE /\ page.rows = scPage.rows /\ page.seen = scPage.seen
    <3> DEFINE page == [scPage EXCEPT !.deleting = TRUE, !.error = FALSE]
    <3>1. page \in VaultPage
      OBVIOUS
    <3>2. /\ page.target = scPage.target /\ page.asking = scPage.asking /\ page.error = FALSE
          /\ page.deleting = TRUE /\ page.rows = scPage.rows /\ page.seen = scPage.seen
      OBVIOUS
    <3> HIDE DEF VaultPage
    <3> QED  BY <3>1, <3>2, Zenon
  <2>7. Vault!Asks("confirm", page) /\ page.rows = scPage.rows
    BY <2>0, <2>1
  <2>2. PICK d : /\ d.op = "confirm" /\ d.id = scPage.target /\ scCalls' = scCalls \union {d}
                 /\ UNCHANGED <<scStore, scPast>> /\ scPage'.target = scPage.target
                 /\ scPage'.asking = scPage.asking /\ scPage'.error = FALSE /\ scPage'.deleting = TRUE
                 /\ scPage'.seen = scPage.seen
    <3> HIDE DEF VaultInv, VaultShape, VaultPage
    <3>1. \E d : /\ d.op = "confirm" /\ d.id = page.target /\ scCalls' = scCalls \union {d}
                /\ UNCHANGED <<scStore, scPast>> /\ scPage'.target = page.target
                /\ scPage'.asking = page.asking /\ scPage'.error = page.error
                /\ scPage'.deleting = page.deleting /\ scPage'.seen = page.seen
      BY <1>1, <2>7
    <3> QED  BY <2>0, <3>1
  <2>3. ListInv'
    BY <1>1, <2>7
  <2>5. DeletionInv'
    BY <2>1, <2>2 DEF DeletionInv, Deletes
  <2>6. InspectionInv'
    BY <2>1, <2>2 DEF InspectionInv
  <2> QED  BY <2>3, <2>5, <2>6 DEF VaultParts
<1> QED  BY <1>2, <1>3, <1>4, <1>5

\* Lists and creations, served and answered.
LEMMA ListStep ==
  ASSUME VaultInv, NEW c \in scCalls,
         Vault!ListServed(c) \/ Vault!ListShown(c) \/ Vault!SecretCreated(c) \/ Vault!CreationAnswered(c)
  PROVE  VaultParts'
<1> USE DEF VaultInv, VaultShape
<1>0. c \in VaultCall /\ Vault!Nothing = 0
  BY DEF Vault!Nothing
<1>1. CASE Vault!ListServed(c)
  <2> DEFINE d == [c EXCEPT !.at = "served", !.rows = scStore.kept]
  <2>1. d.op = c.op /\ d.id = c.id /\ d.rows = scStore.kept
    BY <1>0 DEF VaultCall
  <2>2. /\ Vault!Goes(c, d) /\ UNCHANGED <<scStore, scPage>> /\ Vault!Lists(c)
        /\ scPast'.left = scPast.left /\ scPast'.lists = scPast.lists
    BY <1>1 DEF Vault!ListServed, VaultPast
  <2> HIDE DEF d
  <2>3. DeletionInv' /\ InspectionInv'
    BY <2>1, <2>2, GoesFurther
  <2>4. Vault!Lists(d) /\ ~Unlisted(c)
    BY <2>1, <2>2 DEF Vault!Lists, Unlisted
  <2>5. ListInv'
    <3>1. \A e \in scCalls' : e = d \/ (e \in scCalls /\ e # c)
      BY <2>2 DEF Vault!Goes
    <3>2. d \in scCalls' /\ \A e \in scCalls : e = c \/ e \in scCalls'
      BY <2>2 DEF Vault!Goes
    <3>3. \A s : s \in d.rows <=> s \in scStore'.kept
      BY <2>1, <2>2
    <3>4. ~scPast.lists => \A e \in scCalls' : Vault!Lists(e) => e = d
      BY <2>2, <3>1 DEF ListInv
    <3> QED  BY <2>2, <2>4, <3>1, <3>2, <3>3, <3>4 DEF ListInv, AsKept
  <2> QED  BY <2>3, <2>5 DEF VaultParts
<1>2. CASE Vault!ListShown(c)
  <2> USE DEF VaultPage
  <2>1. /\ scCalls' = scCalls \ {c} /\ UNCHANGED scStore /\ Vault!Lists(c)
        /\ scPage'.asking = scPage.asking /\ scPast'.left = scPast.left
        /\ scPast'.lists = (scPast.lists \/ c.at = "asked" \/ scPage'.rows # c.rows)
        /\ scPast'.others = scPast.others
    BY <1>2 DEF Vault!ListShown, Vault!Ends, VaultPast
  <2>2. c.op # "deleted" => /\ scPage'.deleting = scPage.deleting /\ scPage'.target = scPage.target
                            /\ scPage'.seen = scPage.seen /\ scPage'.error = scPage.error
    BY <1>2 DEF Vault!ListShown
  <2>3. c.op = "deleted" => scPage'.deleting = FALSE /\ scPage'.target = 0 /\ scPage'.error = FALSE
    BY <1>0, <1>2 DEF Vault!ListShown
  <2>4. DeletionInv' /\ InspectionInv'
    <3>1. CASE c.op = "deleted"
      <4>1. Deletes(c)
        BY <3>1 DEF Deletes
      <4>2. DeletionInv'
        BY <2>1, <2>3, <3>1, <4>1 DEF DeletionInv
      <4>3. InspectionInv'
        BY <2>1, <2>3, <3>1, <4>1 DEF InspectionInv, DeletionInv
      <4> QED  BY <4>2, <4>3
    <3>2. CASE c.op # "deleted"
      <4>1. ~Deletes(c) /\ c.op # "refresh"
        BY <2>1, <3>2 DEF Deletes, Vault!Lists
      <4> QED  BY <2>1, <2>2, <3>2, <4>1, VaultRests
    <3> QED  BY <3>1, <3>2
  <2>5. ListInv'
    <3>1. ~Unlisted(c)
      BY <2>1 DEF Unlisted, Vault!Lists
    <3> QED  BY <2>1, <3>1 DEF ListInv, AsKept
  <2> QED  BY <2>4, <2>5 DEF VaultParts
<1>3. CASE Vault!SecretCreated(c)
  <2> DEFINE d == [c EXCEPT !.at = "served"]
  <2>1. d.op = c.op /\ d.id = c.id /\ d.at = "served"
    BY <1>0 DEF VaultCall
  <2>2. Vault!Goes(c, d) /\ UNCHANGED <<scPage, scPast>> /\ c.op = "create"
    BY <1>3 DEF Vault!SecretCreated
  <2> HIDE DEF d
  <2>3. DeletionInv' /\ InspectionInv'
    BY <2>1, <2>2, GoesFurther
  <2>4. ListInv'
    <3>1. ~Vault!Lists(d) /\ Unlisted(d)
      BY <2>1, <2>2 DEF Unlisted, Vault!Lists
    <3> QED  BY <2>2, <3>1 DEF ListInv, Vault!Goes
  <2> QED  BY <2>3, <2>4 DEF VaultParts
<1>4. CASE Vault!CreationAnswered(c)
  <2> USE DEF VaultPage
  <2>1. c.op = "create" /\ ~Deletes(c) /\ UNCHANGED scStore /\ ~Vault!Lists(c)
    BY <1>4 DEF Vault!CreationAnswered, Deletes, Vault!Lists
  <2>2. CASE Vault!Goes(c, Vault!Call("saved", Vault!Nothing, c.n)) /\ Vault!loadSecrets(scPage)
    <3> DEFINE d == Vault!Call("saved", Vault!Nothing, c.n)
    <3>1. d.op = "saved" /\ d.at = "asked" /\ Vault!Lists(d) /\ ~Deletes(d)
      BY DEF Vault!Call, Vault!Lists, Deletes
    <3>2. Vault!Goes(c, d)
      BY <2>2
    <3> HIDE DEF d
    <3>3. /\ scPage'.deleting = scPage.deleting /\ scPage'.target = scPage.target
          /\ scPage'.seen = scPage.seen /\ scPage'.asking = scPage.asking
          /\ scPage'.error = scPage.error /\ scPast'.left = scPast.left
          /\ scPast'.lists = (scPast.lists \/ \E e \in scCalls : Vault!Lists(e))
      BY <2>2 DEF Vault!loadSecrets
    <3>4. DeletionInv' /\ InspectionInv'
      BY <2>1, <3>1, <3>2, <3>3, VaultRests DEF Vault!Goes
    <3>5. ListInv'
      BY <3>1, <3>2, <3>3, Reloads
    <3> QED  BY <3>4, <3>5 DEF VaultParts
  <2>3. CASE /\ Vault!Ends(c) /\ scPage' = [scPage EXCEPT !.saving = FALSE]
             /\ scPast' = [scPast EXCEPT !.lists = @ \/ c.at = "served"]
    <3>1. /\ scPage'.deleting = scPage.deleting /\ scPage'.target = scPage.target
          /\ scPage'.seen = scPage.seen /\ scPage'.asking = scPage.asking
          /\ scPage'.error = scPage.error /\ scPast'.left = scPast.left
          /\ scPage'.rows = scPage.rows /\ scCalls' = scCalls \ {c}
          /\ scPast'.lists = (scPast.lists \/ c.at = "served") /\ scPast'.others = scPast.others
      BY <2>3 DEF Vault!Ends, VaultPast
    <3>2. DeletionInv' /\ InspectionInv'
      BY <2>1, <3>1, VaultRests
    <3>3. ListInv'
      <4>1. c.at # "served" => ~Unlisted(c)
        BY <2>1 DEF Unlisted
      <4> QED  BY <2>1, <3>1, <4>1 DEF ListInv, AsKept
    <3> QED  BY <3>2, <3>3 DEF VaultParts
  <2> QED  BY <1>4, <2>2, <2>3 DEF Vault!CreationAnswered
<1> QED  BY <1>1, <1>2, <1>3, <1>4

\* The dialog's looks at the uses of its Secret, answered.
LEMMA LookStep ==
  ASSUME VaultInv, NEW c \in scCalls,
         Vault!InspectionServed(c) \/ Vault!refreshed(c) \/ Vault!InspectionFails(c)
  PROVE  VaultParts'
<1> USE DEF VaultInv, VaultShape
<1>0. /\ c \in VaultCall /\ c.op \in {"refresh", "confirm", "recheck"}
      /\ ~Vault!Lists(c) /\ ~Unlisted(c) /\ (Deletes(c) <=> c.op # "refresh")
  BY DEF Vault!InspectionServed, Vault!refreshed, Vault!InspectionFails, Vault!Lists, Unlisted, Deletes
<1>1. CASE Vault!InspectionServed(c)
  <2> DEFINE d == [c EXCEPT !.at = "served", !.can = c.id \notin scStore.used]
  <2>1. d.op = c.op /\ d.id = c.id
    BY <1>0 DEF VaultCall
  <2>2. Vault!Goes(c, d) /\ UNCHANGED <<scStore, scPage, scPast>>
    BY <1>1 DEF Vault!InspectionServed
  <2> HIDE DEF d
  <2>3. DeletionInv' /\ InspectionInv'
    BY <2>1, <2>2, GoesFurther
  <2>4. ~Vault!Lists(d)
    BY <1>0, <2>1 DEF Vault!Lists
  <2>5. ListInv'
    BY <1>0, <2>2, <2>4, ListRests DEF Vault!Goes
  <2> QED  BY <2>3, <2>5 DEF VaultParts
\* The request is over; the list is not touched.
<1>2. ASSUME Vault!Ends(c), scPage'.rows = scPage.rows, UNCHANGED <<scStore, scPast>>
      PROVE  ListInv'
  BY <1>0, <1>2, ListRests DEF Vault!Ends
<1>3. ASSUME Vault!Ends(c), c.op = "refresh", UNCHANGED <<scStore, scPast>>,
             scPage'.deleting = scPage.deleting, scPage'.target = scPage.target, ~scPage'.asking,
             \/ scPage'.seen.id = c.id /\ scPage'.error = scPage.error
             \/ scPage'.error
      PROVE  DeletionInv' /\ InspectionInv'
  <2>1. scCalls' = scCalls \ {c} /\ ~Deletes(c) /\ scPast'.left = scPast.left
    BY <1>0, <1>3 DEF Vault!Ends
  <2>2. DeletionInv'
    BY <1>3, <2>1 DEF DeletionInv
  <2>3. ~scPast.left => scPage.target = c.id /\ ~scPage.deleting
                        /\ \A e \in scCalls' : e.op # "refresh"
    BY <1>3, <2>1 DEF InspectionInv
  <2>4. InspectionInv'
    BY <1>3, <2>1, <2>3 DEF InspectionInv
  <2> QED  BY <2>2, <2>4
<1>4. ASSUME Vault!Ends(c), c.op # "refresh", UNCHANGED <<scStore, scPast>>,
             scPage'.deleting = FALSE, scPage'.target = scPage.target, scPage'.error
      PROVE  DeletionInv' /\ InspectionInv'
  <2>1. scCalls' = scCalls \ {c} /\ Deletes(c) /\ scPast'.left = scPast.left
    BY <1>0, <1>4 DEF Vault!Ends
  <2>2. DeletionInv'
    BY <1>4, <2>1 DEF DeletionInv
  <2>3. scPage.deleting
    BY <2>1 DEF DeletionInv
  <2>4. ~scPast.left => \A e \in scCalls : e.op # "refresh"
    BY <2>3 DEF InspectionInv
  <2>5. InspectionInv'
    BY <1>4, <2>1, <2>4 DEF InspectionInv
  <2> QED  BY <2>2, <2>5
<1>5. CASE Vault!refreshed(c)
  <2> DEFINE shown == [scPage EXCEPT !.seen = [id |-> c.id, can |-> c.can]]
  <2>0. scPage \in VaultPage
    OBVIOUS
  <2>1. CASE c.op = "refresh" /\ Vault!Ends(c) /\ scPage' = [shown EXCEPT !.asking = FALSE]
    <3>1. /\ scPage'.rows = scPage.rows /\ scPage'.deleting = scPage.deleting
          /\ scPage'.target = scPage.target /\ scPage'.asking = FALSE /\ scPage'.seen.id = c.id
          /\ scPage'.error = scPage.error
      BY <2>0, <2>1 DEF VaultPage
    <3>2. UNCHANGED <<scStore, scPast>>
      BY <1>5 DEF Vault!refreshed
    <3> QED  BY <1>2, <1>3, <2>1, <3>1, <3>2 DEF VaultParts
  <2>2. CASE /\ c.op \in {"recheck", "confirm"} /\ Vault!Ends(c)
             /\ \/ scPage' = [shown EXCEPT !.asking = FALSE, !.error = TRUE, !.deleting = FALSE]
                \/ scPage' = [shown EXCEPT !.error = TRUE, !.deleting = FALSE]
    <3>1. /\ scPage'.rows = scPage.rows /\ scPage'.deleting = FALSE
          /\ scPage'.target = scPage.target /\ scPage'.error = TRUE
      BY <2>0, <2>2 DEF VaultPage
    <3>2. UNCHANGED <<scStore, scPast>>
      BY <1>5 DEF Vault!refreshed
    <3> QED  BY <1>2, <1>4, <2>2, <3>1, <3>2 DEF VaultParts
  <2>3. CASE c.op = "confirm" /\ scPage' = shown /\ Vault!Goes(c, Vault!Call("remove", c.id, c.n))
    <3> DEFINE d == Vault!Call("remove", c.id, c.n)
    <3>1. d.op = "remove" /\ d.id = c.id /\ Deletes(d) /\ ~Vault!Lists(d) /\ ~Unlisted(d)
      BY DEF Vault!Call, Deletes, Vault!Lists, Unlisted
    <3>2. scCalls' = (scCalls \ {c}) \union {d} /\ UNCHANGED <<scStore, scPast>>
      BY <1>5, <2>3 DEF Vault!Goes, Vault!refreshed
    <3> HIDE DEF d
    <3>3. /\ scPage'.rows = scPage.rows /\ scPage'.deleting = scPage.deleting
          /\ scPage'.target = scPage.target /\ scPage'.asking = scPage.asking
          /\ scPage'.seen.id = c.id /\ scPage'.error = scPage.error
      BY <2>0, <2>3 DEF VaultPage
    <3>4. ListInv'
      BY <1>0, <3>1, <3>2, <3>3, ListRests
    <3>5. Deletes(c) /\ c.id = scPage.target /\ scPage.deleting
      BY <1>0, <2>3 DEF DeletionInv
    <3>6. DeletionInv'
      BY <2>3, <3>1, <3>2, <3>3, <3>5 DEF DeletionInv
    <3>7. InspectionInv'
      BY <2>3, <3>1, <3>2, <3>3, <3>5 DEF InspectionInv
    <3> QED  BY <3>4, <3>6, <3>7 DEF VaultParts
  <2> QED  BY <1>5, <2>1, <2>2, <2>3 DEF Vault!refreshed
<1>6. CASE Vault!InspectionFails(c)
  <2>1. /\ scPage'.rows = scPage.rows /\ scPage'.target = scPage.target /\ scPage'.error = TRUE
        /\ scPage'.asking = (scPage.asking /\ c.op = "confirm")
        /\ scPage'.deleting = (scPage.deleting /\ c.op = "refresh")
        /\ Vault!Ends(c) /\ UNCHANGED <<scStore, scPast>>
    BY <1>6 DEF VaultPage, Vault!InspectionFails
  <2>2. CASE c.op = "refresh"
    <3>1. scPage'.deleting = scPage.deleting /\ ~scPage'.asking
      BY <2>1, <2>2 DEF VaultPage
    <3> QED  BY <1>2, <1>3, <2>1, <2>2, <3>1 DEF VaultParts
  <2>3. CASE c.op # "refresh"
    BY <1>2, <1>4, <2>1, <2>3 DEF VaultParts
  <2> QED  BY <2>2, <2>3
<1> QED  BY <1>1, <1>5, <1>6

\* A removal at the server and its answer.
LEMMA RemoveStep ==
  ASSUME VaultInv, NEW c \in scCalls,
         Vault!RemoveChecked(c) \/ Vault!RemoveCommitted(c) \/ Vault!RemoveAnswered(c)
  PROVE  VaultParts'
<1> USE DEF VaultInv, VaultShape
<1>0. c \in VaultCall /\ c.op = "remove" /\ ~Vault!Lists(c) /\ Deletes(c) /\ Vault!Nothing = 0
  BY DEF Vault!RemoveChecked, Vault!RemoveCommitted, Vault!RemoveAnswered, Vault!Lists, Deletes,
         Vault!Nothing
<1>1. scPage.deleting /\ scPage.target # 0 /\ c.id = scPage.target
      /\ \A e \in scCalls : Deletes(e) => e = c
  BY <1>0 DEF DeletionInv
<1>2. ~scPast.left => \A e \in scCalls : e.op # "refresh"
  BY <1>1 DEF InspectionInv
<1>3. CASE Vault!RemoveChecked(c) \/ Vault!RemoveCommitted(c)
  <2>1. PICK at \in {"conflict", "checked", "gone"} :
          /\ Vault!Goes(c, [c EXCEPT !.at = at]) /\ UNCHANGED <<scPage, scPast>>
          /\ at = "gone" \/ UNCHANGED scStore
          /\ c.at # "gone"
    BY <1>3 DEF Vault!RemoveChecked, Vault!RemoveCommitted
  <2> DEFINE d == [c EXCEPT !.at = at]
  <2>2. d.op = c.op /\ d.id = c.id /\ d.at = at
    BY <1>0 DEF VaultCall
  <2>3. Vault!Goes(c, d)
    BY <2>1
  <2> HIDE DEF d
  <2>4. DeletionInv' /\ InspectionInv'
    BY <2>1, <2>2, <2>3, GoesFurther
  <2>5. ~Vault!Lists(d)
    BY <1>0, <2>2 DEF Vault!Lists
  <2>6. CASE at = "gone"
    <3>1. Unlisted(d) /\ d \in scCalls'
      BY <1>0, <2>2, <2>3, <2>6 DEF Unlisted, Vault!Goes
    <3> QED  BY <2>1, <2>3, <2>4, <2>5, <3>1 DEF VaultParts, ListInv, Vault!Goes
  <2>7. CASE UNCHANGED scStore
    <3>1. ~Unlisted(c)
      BY <1>0, <2>1 DEF Unlisted
    <3>2. ListInv'
      BY <1>0, <2>1, <2>3, <2>5, <2>7, <3>1, ListRests DEF Vault!Goes
    <3> QED  BY <2>4, <3>2 DEF VaultParts
  <2> QED  BY <2>1, <2>6, <2>7
<1>4. ASSUME NEW d, Vault!Goes(c, d), Deletes(d), d.op # "refresh",
             d.id = IF d.op = "deleted" THEN 0 ELSE c.id,
             scPage'.deleting = scPage.deleting, scPage'.target = scPage.target
      PROVE  DeletionInv'
  <2>1. scCalls' = (scCalls \ {c}) \union {d}
    BY <1>4 DEF Vault!Goes
  <2> QED  BY <1>1, <1>4, <2>1 DEF DeletionInv
<1>5. CASE Vault!RemoveAnswered(c)
  <2>1. CASE Vault!Goes(c, Vault!Call("deleted", Vault!Nothing, c.n)) /\ Vault!loadSecrets(scPage)
    <3> DEFINE d == Vault!Call("deleted", Vault!Nothing, c.n)
    <3>1. d.op = "deleted" /\ d.id = 0 /\ d.at = "asked" /\ Vault!Lists(d) /\ Deletes(d)
      BY <1>0 DEF Vault!Call, Vault!Lists, Deletes
    <3>2. Vault!Goes(c, d)
      BY <2>1
    <3> HIDE DEF d
    <3>3. /\ scPage'.deleting = scPage.deleting /\ scPage'.target = scPage.target
          /\ scPage'.seen = scPage.seen /\ scPage'.asking = scPage.asking
          /\ scPage'.error = scPage.error /\ scPast'.left = scPast.left
          /\ scPast'.lists = (scPast.lists \/ \E e \in scCalls : Vault!Lists(e))
      BY <2>1 DEF Vault!loadSecrets, VaultPage
    <3>4. DeletionInv'
      BY <1>4, <3>1, <3>2, <3>3
    <3>5. InspectionInv'
      <4>1. scCalls' = (scCalls \ {c}) \union {d}
        BY <3>2 DEF Vault!Goes
      <4> QED  BY <1>2, <3>1, <3>3, <4>1 DEF InspectionInv
    <3>6. ListInv'
      BY <3>1, <3>2, <3>3, Reloads
    <3> QED  BY <3>4, <3>5, <3>6 DEF VaultParts
  <2>2. CASE /\ c.at = "conflict" /\ Vault!Goes(c, Vault!Call("recheck", c.id, c.n))
             /\ scPage' = [scPage EXCEPT !.asking = TRUE, !.error = FALSE] /\ UNCHANGED scPast
    <3> DEFINE d == Vault!Call("recheck", c.id, c.n)
    <3>1. d.op = "recheck" /\ d.id = c.id /\ ~Vault!Lists(d) /\ Deletes(d)
      BY DEF Vault!Call, Vault!Lists, Deletes
    <3>2. Vault!Goes(c, d) /\ UNCHANGED <<scStore, scPast>>
      BY <1>5, <2>2 DEF Vault!RemoveAnswered
    <3> HIDE DEF d
    <3>3. /\ scPage'.deleting = scPage.deleting /\ scPage'.target = scPage.target
          /\ scPage'.rows = scPage.rows /\ scPage'.asking = TRUE /\ scPage'.error = FALSE
      BY <2>2 DEF VaultPage
    <3>4. DeletionInv'
      BY <1>4, <3>1, <3>2, <3>3
    <3>5. scCalls' = (scCalls \ {c}) \union {d}
      BY <3>2 DEF Vault!Goes
    <3>6. InspectionInv'
      BY <1>2, <3>1, <3>2, <3>3, <3>5 DEF InspectionInv
    <3>7. ~Unlisted(c)
      BY <1>0, <2>2 DEF Unlisted
    <3>8. ListInv'
      BY <1>0, <3>1, <3>2, <3>3, <3>5, <3>7, ListRests
    <3> QED  BY <3>4, <3>6, <3>8 DEF VaultParts
  <2>3. CASE /\ Vault!Ends(c) /\ scPage' = [scPage EXCEPT !.error = TRUE, !.deleting = FALSE]
             /\ scPast' = [scPast EXCEPT !.lists = @ \/ c.at = "gone"]
    <3>1. /\ scPage'.deleting = FALSE /\ scPage'.target = scPage.target
          /\ scPage'.rows = scPage.rows /\ scPage'.error = TRUE
          /\ scPast'.left = scPast.left /\ scPast'.lists = (scPast.lists \/ c.at = "gone")
          /\ scPast'.others = scPast.others /\ scCalls' = scCalls \ {c} /\ UNCHANGED scStore
      BY <1>5, <2>3 DEF Vault!Ends, VaultPage, VaultPast, Vault!RemoveAnswered
    <3>2. DeletionInv'
      BY <1>1, <3>1 DEF DeletionInv
    <3>3. InspectionInv'
      BY <1>2, <3>1 DEF InspectionInv
    <3>4. ListInv'
      <4>1. c.at # "gone" => ~Unlisted(c)
        BY <1>0 DEF Unlisted
      <4> QED  BY <1>0, <3>1, <4>1 DEF ListInv, AsKept
    <3> QED  BY <3>2, <3>3, <3>4 DEF VaultParts
  <2> QED  BY <1>5, <2>1, <2>2, <2>3 DEF Vault!RemoveAnswered
<1> QED  BY <1>3, <1>5

\* No step takes a Secret away that is in use.
LEMMA UseStep ==
  ASSUME VaultShape, Vault!UsedSecretsStay, Vault!SecretsNext
  PROVE  Vault!UsedSecretsStay'
<1> USE DEF Vault!UsedSecretsStay, VaultShape
<1>1. CASE Vault!UsesChange
  BY <1>1 DEF Vault!UsesChange
<1>2. ASSUME NEW c \in scCalls, Vault!SecretCreated(c) \/ Vault!RemoveCommitted(c)
      PROVE  Vault!UsedSecretsStay'
  BY <1>2 DEF Vault!SecretCreated, Vault!RemoveCommitted
<1>3. CASE UNCHANGED scStore
  BY <1>3
<1>4. ASSUME NEW s \in Vault!Secrets, Vault!OthersChange(s)
      PROVE  Vault!UsedSecretsStay'
  BY <1>4 DEF Vault!OthersChange
<1> QED  BY <1>1, <1>2, <1>3, <1>4 DEF Vault!SecretsNext, Vault!changeDialog, Vault!Becomes, Vault!submit,
            Vault!openDelete, Vault!Refresh, Vault!closeDelete, Vault!confirm, Vault!Asks,
            Vault!ListServed, Vault!ListShown, Vault!CreationAnswered, Vault!InspectionServed,
            Vault!refreshed, Vault!InspectionFails, Vault!RemoveChecked, Vault!RemoveAnswered

LEMMA VaultStep ==
  ASSUME VaultInv, Vault!SecretsNext
  PROVE  VaultInv'
<1>1. VaultShape' /\ Vault!UsedSecretsStay'
  BY VaultShapeStep, UseStep DEF VaultInv
<1>2. VaultParts'
  <2>1. CASE Vault!UsesChange
    <3>1. UNCHANGED <<scPage, scCalls, scPast>> /\ scStore'.kept = scStore.kept
      BY <2>1 DEF Vault!UsesChange, VaultInv, VaultShape
    <3>2. DeletionInv' /\ InspectionInv'
      BY <3>1 DEF VaultInv, DeletionInv, InspectionInv
    <3>3. ListInv'
      BY <3>1, ListRests DEF VaultInv
    <3> QED  BY <3>2, <3>3 DEF VaultParts
  <2>2. ASSUME NEW s \in Vault!Secrets, Vault!OthersChange(s)
        PROVE  VaultParts'
    <3>1. /\ UNCHANGED <<scPage, scCalls>> /\ scPast'.left = scPast.left /\ scPast'.lists = scPast.lists
          /\ scPast'.others = scPast.others \union {s}
      BY <2>2 DEF Vault!OthersChange, VaultInv, VaultShape, VaultPast
    <3> DEFINE Same == \A t : t # s => (t \in scStore'.kept <=> t \in scStore.kept)
    <3>2. ASSUME s = scStore.made + 1, scStore' = [scStore EXCEPT !.made = s, !.kept = @ \union {s}]
          PROVE  Same
      <4>1. scStore'.kept = scStore.kept \union {s}
        BY <3>2 DEF VaultInv, VaultShape
      <4> QED  BY <4>1
    <3>3. ASSUME scStore' = [scStore EXCEPT !.kept = @ \ {s}]
          PROVE  Same
      <4>1. scStore'.kept = scStore.kept \ {s}
        BY <3>3 DEF VaultInv, VaultShape
      <4> QED  BY <4>1
    <3>4. Same
      BY <2>2, <3>2, <3>3 DEF Vault!OthersChange
    <3>5. DeletionInv' /\ InspectionInv'
      BY <3>1 DEF VaultInv, DeletionInv, InspectionInv
    <3>6. \A rows : AsKept(rows) => AsKept(rows)'
      BY <3>1, <3>4 DEF AsKept
    <3>7. ListInv'
      BY <3>1, <3>6 DEF VaultInv, ListInv, AsKept
    <3> QED  BY <3>5, <3>7 DEF VaultParts
  <2> QED  BY <2>1, <2>2, FormStep, DialogStep, ListStep, LookStep, RemoveStep DEF Vault!SecretsNext
<1> QED  BY <1>1, <1>2 DEF VaultInv, VaultParts

\* The invariant says what the properties of the page say.
LEMMA VaultKnows ==
  ASSUME VaultInv
  PROVE  Vault!SecretsTypeOK /\ Vault!DialogKnowsItsSecret /\ Vault!SecretsAreListed
<1> DEFINE work == {c \in scCalls : c.op \in {"confirm", "remove", "deleted", "recheck"}}
<1>1. \A c : c \in work <=> c \in scCalls /\ Deletes(c)
  BY DEF Deletes
<1>2. Vault!Cardinality(work) <= 1
  <2>1. \A c, d \in work : c = d
    BY <1>1 DEF VaultInv, DeletionInv
  <2>2. \A S : Vault!Cardinality(S) = Cardinality(S)
    BY DEF Vault!Cardinality, Cardinality, Vault!IsFiniteSet, IsFiniteSet
  <2> HIDE DEF work
  <2> QED  BY <2>1, <2>2, OneOrNoneIsCounted
<1>3. Vault!Nothing = 0
  BY DEF Vault!Nothing
<1>4. scPage.deleting <=> work # {}
  BY <1>1 DEF VaultInv, DeletionInv
<1>5. \A c \in work : scPage.target # Vault!Nothing /\ c.id \in {scPage.target, Vault!Nothing}
  BY <1>1, <1>3 DEF VaultInv, DeletionInv
<1>6. scPage.target # Vault!Nothing /\ scPage.asking = FALSE /\ ~scPast.left
        => scPage.seen.id = scPage.target \/ scPage.error
  BY <1>3 DEF VaultInv, InspectionInv
<1>7. Vault!DialogKnowsItsSecret
  BY <1>2, <1>4, <1>5, <1>6 DEF Vault!DialogKnowsItsSecret
<1>8. Vault!SecretsAreListed
  BY DEF Vault!SecretsAreListed, VaultInv, ListInv, AsKept, Unlisted, Vault!Lists
<1>9. Vault!SecretsTypeOK
  BY <1>3 DEF Vault!SecretsTypeOK, VaultInv, VaultShape, VaultPage
<1> QED  BY <1>7, <1>8, <1>9

LEMMA VaultSame ==
  ASSUME VaultInv, UNCHANGED vault
  PROVE  VaultInv'
<1> USE DEF vault
<1>1. VaultShape' /\ Vault!UsedSecretsStay' /\ DeletionInv'
  BY DEF VaultInv, VaultShape, Vault!UsedSecretsStay, DeletionInv
<1>2. InspectionInv' /\ ListInv'
  BY DEF VaultInv, InspectionInv, ListInv, AsKept
<1> QED  BY <1>1, <1>2 DEF VaultInv

-----------------------------------------------------------------------------
(* The Playground: the invariant.                                          *)

Version == 0..MaxVersions
PlayPage == [tree : Version, treeReady : BOOLEAN, valid : BOOLEAN, run : Nat,
             live : {"none", "active", "ended"}, version : Version, submitting : BOOLEAN]
PlayCall == [op : {"load", "version", "start"},
             at : {"asked", "served", "validate", "submit", "accepted"}, version : Version,
             ready : BOOLEAN, run : Nat, active : BOOLEAN]
PlayRun == [version : 1..MaxVersions, ended : BOOLEAN]

PlayShape ==
  /\ lnTree \in [current : 1..MaxVersions, ready : BOOLEAN]
  /\ lnRuns \in Seq(PlayRun) /\ Len(lnRuns) <= MaxRuns
  /\ lnPage \in PlayPage /\ lnPage.run \in {0} \union DOMAIN lnRuns
  /\ lnCalls \subseteq PlayCall
  /\ \A c \in lnCalls : IF c.op = "start" THEN c.at \in {"validate", "submit", "accepted"}
                        ELSE c.run = 0
  /\ lnPast \in [since : SUBSET (DOMAIN lnRuns), lost : BOOLEAN]

\* What is drawn, or may still be, is of the version of the Run followed.
PlayPinned ==
  /\ lnPage.version # 0 => lnPage.run # 0 /\ lnPage.version = lnRuns[lnPage.run].version
  /\ \A c \in lnCalls : c.op = "version" /\ c.active =>
       lnPage.run # 0 /\ c.version = lnRuns[lnPage.run].version

\* The page follows a Run from the time it hears of it.
PlayFollows ==
  /\ lnPage.run = 0 => lnPage.live = "none"
  /\ lnPage.live = "ended" => lnRuns[lnPage.run].ended

\* One submission is on its way, which names its Run when it is accepted.
PlayStarts ==
  /\ \A c, d \in lnCalls : c.op = "start" /\ d.op = "start" => c = d
  /\ lnPage.submitting <=> \E c \in lnCalls : c.op = "start"
  /\ \A c \in lnCalls : c.op = "start" =>
       IF c.at = "accepted" THEN c.run \in DOMAIN lnRuns ELSE c.run = 0

\* Those started have ended; or n is the newest of them, and the others have ended.
AllEnded == \A r \in lnPast.since : lnRuns[r].ended
Newest(n) == n \in lnPast.since
             /\ \A r \in lnPast.since : r <= n /\ (r = n \/ lnRuns[r].ended)
PlaySince ==
  /\ \A c \in lnCalls : c.op = "start" =>
       \/ lnPast.lost \/ lnPast.since = {}
       \/ IF c.at = "accepted" THEN Newest(c.run) ELSE AllEnded
  /\ \/ lnPast.lost \/ lnPast.since = {} \/ Newest(lnPage.run)
     \/ \E c \in lnCalls : c.op = "start" /\ c.at = "accepted"

PlayInv == PlayShape /\ PlayPinned /\ PlayFollows /\ PlayStarts /\ PlaySince

LEMMA PlayBounds == MaxVersions \in Nat /\ MaxVersions >= 1 /\ MaxRuns \in Nat /\ MaxRuns >= 1
BY StudioAssumption

LEMMA PlayInit == Playground!LaunchInit => PlayInv
<1> SUFFICES ASSUME Playground!LaunchInit
             PROVE  PlayInv
  OBVIOUS
<1> USE DEF Playground!LaunchInit, Playground!NoCall, Playground!NewTest, Playground!NoVersion
<1>0. MaxVersions \in Nat /\ MaxVersions >= 1 /\ MaxRuns \in Nat /\ MaxRuns >= 1
  BY PlayBounds
<1>1. lnRuns \in Seq(PlayRun) /\ Len(lnRuns) = 1 /\ DOMAIN lnRuns = {1}
      /\ lnRuns[1] = [version |-> 1, ended |-> TRUE]
  BY <1>0 DEF PlayRun
<1>2. PlayShape
  BY <1>0, <1>1 DEF PlayShape, PlayPage, PlayCall, Version
<1>3. PlayPinned /\ PlayFollows /\ PlayStarts /\ PlaySince
  BY <1>1 DEF PlayPinned, PlayFollows, PlayStarts, PlaySince
<1> QED  BY <1>2, <1>3 DEF PlayInv

\* What the submissions depend on.
LEMMA StartsRest ==
  ASSUME PlayStarts, PlaySince,
         \A c : c.op = "start" => (c \in lnCalls' <=> c \in lnCalls),
         lnPage'.submitting = lnPage.submitting, lnPage'.run = lnPage.run,
         lnPage'.live = lnPage.live \/ (lnPage.live # "ended" /\ lnPage.run # 0),
         UNCHANGED <<lnRuns, lnPast>>
  PROVE  PlayStarts' /\ PlaySince'
<1>1. PlayStarts'
  BY DEF PlayStarts
<1>2. (\A n : Newest(n)' <=> Newest(n)) /\ (AllEnded' <=> AllEnded)
  BY DEF Newest, AllEnded
<1>3. PlaySince'
  BY <1>2 DEF PlaySince
<1> QED  BY <1>1, <1>3

\* The effect that looks for the version of the Run on the page.
LEMMA PinsStep ==
  ASSUME PlayShape, NEW page \in PlayPage, NEW calls, calls \subseteq lnCalls,
         page.run \in {0} \union DOMAIN lnRuns, page.run = 0 => page.live = "none",
         Playground!Pins(page, calls), UNCHANGED lnRuns
  PROVE  /\ lnPage' \in PlayPage /\ lnPage'.run = page.run /\ lnPage'.live = page.live
         /\ lnPage'.submitting = page.submitting
         /\ lnCalls' \subseteq PlayCall
         /\ \A c \in lnCalls' : IF c.op = "start" THEN c.at \in {"validate", "submit", "accepted"}
                                ELSE c.run = 0
         /\ \A c : c.op = "start" => (c \in lnCalls' <=> c \in calls)
         /\ PlayPinned'
<1> USE DEF PlayShape
<1> DEFINE pinned == lnRuns[page.run].version
           asks == page.tree # 0 /\ page.live # "none" /\ pinned # page.tree
           Off(c) == [c EXCEPT !.active = FALSE]
           New == [Playground!NoCall EXCEPT !.op = "version", !.version = pinned]
<1>1. lnPage' = [page EXCEPT !.version = 0]
      /\ lnCalls' = Playground!Retired(calls) \union IF asks THEN {New} ELSE {}
  BY DEF Playground!Pins, Playground!NoVersion
<1>2. lnPage' \in PlayPage /\ lnPage'.run = page.run /\ lnPage'.live = page.live
      /\ lnPage'.submitting = page.submitting /\ lnPage'.version = 0
  <2>1. 0 \in Version
    BY StudioAssumption DEF Version
  <2> QED  BY <1>1, <2>1 DEF PlayPage
<1>3. asks => /\ page.run \in DOMAIN lnRuns /\ New \in PlayCall /\ New.op = "version"
              /\ New.version = pinned /\ New.run = 0
  <2>1. ASSUME asks
        PROVE  page.run \in DOMAIN lnRuns
    BY <2>1
  <2>2. ASSUME asks
        PROVE  pinned \in Version
    <3>1. lnRuns[page.run] \in PlayRun
      BY <2>1, <2>2
    <3> QED  BY <3>1 DEF PlayRun, Version
  <2>3. ASSUME pinned \in Version
        PROVE  New \in PlayCall /\ New.op = "version" /\ New.version = pinned /\ New.run = 0
    BY <2>3 DEF Playground!NoCall, Playground!NewTest, Playground!NoVersion, PlayCall
  <2> QED  BY <2>1, <2>2, <2>3
<1>4. ASSUME NEW c \in calls
      PROVE  /\ Off(c) \in PlayCall /\ Off(c).op = c.op /\ ~Off(c).active
             /\ Off(c).run = c.run /\ Off(c).at = c.at
  <2>1. c \in PlayCall
    OBVIOUS
  <2> QED  BY <2>1 DEF PlayCall
<1> HIDE DEF New
<1>5. \A c \in lnCalls' : \/ \E e \in calls : e.op = "version" /\ c = Off(e)
                          \/ c \in calls /\ c.op # "version"
                          \/ asks /\ c = New
  BY <1>1 DEF Playground!Retired
<1>6. \A c \in calls : c.op # "version" => c \in lnCalls'
  BY <1>1 DEF Playground!Retired
<1> HIDE DEF Off, asks
<1>7. lnCalls' \subseteq PlayCall
  BY <1>3, <1>4, <1>5
<1>8. ASSUME NEW c \in lnCalls'
      PROVE  IF c.op = "start" THEN c.at \in {"validate", "submit", "accepted"} ELSE c.run = 0
  BY <1>3, <1>4, <1>5, <1>8
<1>9. ASSUME NEW c, c.op = "start"
      PROVE  c \in lnCalls' <=> c \in calls
  BY <1>3, <1>4, <1>5, <1>6, <1>9
<1>10. PlayPinned'
  BY <1>2, <1>3, <1>4, <1>5 DEF PlayPinned
<1> QED  BY <1>2, <1>7, <1>8, <1>9, <1>10

\* The page loads the Tree.
LEMMA LoadStep ==
  ASSUME PlayInv, NEW c \in lnCalls, Playground!LoadServed(c) \/ Playground!LoadAnswered(c)
  PROVE  PlayInv'
<1> USE DEF PlayInv, PlayShape
<1>0. c \in PlayCall /\ c.op = "load"
  BY DEF Playground!LoadServed, Playground!LoadAnswered
<1>1. CASE Playground!LoadServed(c)
  <2> DEFINE d == [c EXCEPT !.at = "served", !.version = lnTree.current, !.ready = lnTree.ready]
  <2>1. d \in PlayCall /\ d.op = "load" /\ d.run = c.run
    <3>1. lnTree.current \in 1..MaxVersions /\ lnTree.ready \in BOOLEAN
      OBVIOUS
    <3>2. lnTree.current \in Version
      BY <3>1, PlayBounds DEF Version
    <3> QED  BY <1>0, <3>1, <3>2 DEF PlayCall
  <2>2. lnCalls' = (lnCalls \ {c}) \union {d} /\ UNCHANGED <<lnTree, lnRuns, lnPage, lnPast>>
    BY <1>1 DEF Playground!LoadServed
  <2> HIDE DEF d
  <2>3. PlayShape'
    BY <1>0, <2>1, <2>2
  <2>4. PlayPinned' /\ PlayFollows'
    BY <2>1, <2>2 DEF PlayPinned, PlayFollows
  <2>5. PlayStarts' /\ PlaySince'
    BY <1>0, <2>1, <2>2, StartsRest
  <2> QED  BY <2>3, <2>4, <2>5
<1>2. CASE Playground!LoadAnswered(c)
  <2>1. PICK valid \in BOOLEAN :
          Playground!Pins([lnPage EXCEPT !.tree = c.version, !.treeReady = c.ready, !.valid = valid],
                          lnCalls \ {c})
    BY <1>2 DEF Playground!LoadAnswered
  <2> DEFINE page == [lnPage EXCEPT !.tree = c.version, !.treeReady = c.ready, !.valid = valid]
  <2>2. page \in PlayPage /\ page.run = lnPage.run /\ page.live = lnPage.live
        /\ page.submitting = lnPage.submitting
    <3>1. c.version \in Version /\ c.ready \in BOOLEAN
      BY <1>0 DEF PlayCall
    <3> QED  BY <3>1 DEF PlayPage
  <2>3. UNCHANGED <<lnTree, lnRuns, lnPast>>
    BY <1>2 DEF Playground!LoadAnswered
  <2>4. Playground!Pins(page, lnCalls \ {c})
    BY <2>1
  <2> HIDE DEF page
  <2>5. /\ lnPage' \in PlayPage /\ lnPage'.run = page.run /\ lnPage'.live = page.live
        /\ lnPage'.submitting = page.submitting /\ lnCalls' \subseteq PlayCall
        /\ \A e \in lnCalls' : IF e.op = "start" THEN e.at \in {"validate", "submit", "accepted"}
                               ELSE e.run = 0
        /\ \A e : e.op = "start" => (e \in lnCalls' <=> e \in lnCalls \ {c})
        /\ PlayPinned'
    <3>1. page.run \in {0} \union DOMAIN lnRuns /\ (page.run = 0 => page.live = "none")
      BY <2>2 DEF PlayFollows
    <3> QED  BY <2>2, <2>3, <2>4, <3>1, PinsStep
  <2>6. PlayShape'
    BY <2>2, <2>3, <2>5
  <2>7. PlayFollows'
    BY <2>2, <2>3, <2>5 DEF PlayFollows
  <2>8. PlayStarts' /\ PlaySince'
    BY <1>0, <2>2, <2>3, <2>5, StartsRest
  <2> QED  BY <2>5, <2>6, <2>7, <2>8
<1> QED  BY <1>1, <1>2

\* The page hears of its Run, or of the version that Run is pinned to.
LEMMA FollowStep ==
  ASSUME PlayInv, Playground!Followed
  PROVE  PlayInv'
<1> USE DEF PlayInv, PlayShape
<1> DEFINE page == [lnPage EXCEPT !.live = IF lnRuns[lnPage.run].ended THEN "ended" ELSE "active"]
<1>1. /\ lnPage.run # 0 /\ lnPage.live # "ended" /\ UNCHANGED <<lnTree, lnRuns, lnPast>>
      /\ IF lnPage.live = "none" THEN Playground!Pins(page, lnCalls)
         ELSE lnPage' = page /\ UNCHANGED lnCalls
  BY DEF Playground!Followed, Playground!NewTest
<1>2. page \in PlayPage /\ page.run = lnPage.run /\ page.submitting = lnPage.submitting
      /\ page.version = lnPage.version /\ (page.live = "ended" => lnRuns[lnPage.run].ended)
  BY DEF PlayPage
<1> HIDE DEF page
<1>3. CASE lnPage.live = "none"
  <2>1. /\ lnPage' \in PlayPage /\ lnPage'.run = page.run /\ lnPage'.live = page.live
        /\ lnPage'.submitting = page.submitting /\ lnCalls' \subseteq PlayCall
        /\ \A e \in lnCalls' : IF e.op = "start" THEN e.at \in {"validate", "submit", "accepted"}
                               ELSE e.run = 0
        /\ \A e : e.op = "start" => (e \in lnCalls' <=> e \in lnCalls)
        /\ PlayPinned'
    BY <1>1, <1>2, <1>3, PinsStep
  <2>2. PlayShape'
    BY <1>1, <1>2, <2>1
  <2>3. PlayFollows'
    BY <1>1, <1>2, <2>1 DEF PlayFollows
  <2>4. PlayStarts' /\ PlaySince'
    BY <1>1, <1>2, <2>1, StartsRest
  <2> QED  BY <2>1, <2>2, <2>3, <2>4
<1>4. CASE lnPage.live # "none"
  <2>1. lnPage' = page /\ UNCHANGED lnCalls
    BY <1>1, <1>4
  <2>2. PlayShape'
    BY <1>1, <1>2, <2>1
  <2>3. PlayPinned' /\ PlayFollows'
    BY <1>1, <1>2, <2>1 DEF PlayPinned, PlayFollows
  <2>4. PlayStarts' /\ PlaySince'
    BY <1>1, <1>2, <2>1, StartsRest
  <2> QED  BY <2>2, <2>3, <2>4
<1> QED  BY <1>3, <1>4

LEMMA VersionStep ==
  ASSUME PlayInv, NEW c \in lnCalls, Playground!VersionAnswered(c)
  PROVE  PlayInv'
<1> USE DEF PlayInv, PlayShape
<1>1. /\ c.op = "version" /\ lnCalls' = lnCalls \ {c} /\ UNCHANGED <<lnTree, lnRuns, lnPast>>
      /\ \E answer \in {c.version, lnPage.version} :
           lnPage' = IF c.active THEN [lnPage EXCEPT !.version = answer] ELSE lnPage
  BY DEF Playground!VersionAnswered
<1>2. /\ lnPage' \in PlayPage /\ lnPage'.run = lnPage.run /\ lnPage'.live = lnPage.live
      /\ lnPage'.submitting = lnPage.submitting
      /\ \/ lnPage'.version = lnPage.version
         \/ c.active /\ lnPage'.version = c.version
  <2>1. c.version \in Version
    BY DEF PlayCall
  <2> QED  BY <1>1, <2>1 DEF PlayPage
<1>3. PlayShape'
  BY <1>1, <1>2
<1>4. PlayPinned' /\ PlayFollows'
  BY <1>1, <1>2 DEF PlayPinned, PlayFollows
<1>5. PlayStarts' /\ PlaySince'
  BY <1>1, <1>2, StartsRest
<1> QED  BY <1>3, <1>4, <1>5

\* The history, or a new test.
LEMMA ChooseStep ==
  ASSUME PlayInv, NEW run \in {0} \union DOMAIN lnRuns, Playground!choose(run)
  PROVE  PlayInv'
<1> USE DEF PlayInv, PlayShape
<1> DEFINE page == [lnPage EXCEPT !.run = run, !.live = "none"]
<1>1. /\ Playground!Pins(page, lnCalls) /\ UNCHANGED <<lnTree, lnRuns>>
      /\ lnPast' = [lnPast EXCEPT !.since = {}]
  BY DEF Playground!choose, Playground!Follows
<1>2. page \in PlayPage /\ page.run = run /\ page.live = "none"
      /\ page.submitting = lnPage.submitting
  <2>1. run \in Nat
    OBVIOUS
  <2> QED  BY <2>1 DEF PlayPage
<1> HIDE DEF page
<1>3. /\ lnPage' \in PlayPage /\ lnPage'.run = page.run /\ lnPage'.live = page.live
      /\ lnPage'.submitting = page.submitting /\ lnCalls' \subseteq PlayCall
      /\ \A e \in lnCalls' : IF e.op = "start" THEN e.at \in {"validate", "submit", "accepted"}
                             ELSE e.run = 0
      /\ \A e : e.op = "start" => (e \in lnCalls' <=> e \in lnCalls)
      /\ PlayPinned'
  BY <1>1, <1>2, PinsStep
<1>4. PlayShape'
  BY <1>1, <1>2, <1>3
<1>5. PlayFollows'
  BY <1>2, <1>3 DEF PlayFollows
<1>6. PlayStarts'
  BY <1>1, <1>2, <1>3 DEF PlayStarts
<1>7. PlaySince'
  BY <1>1 DEF PlaySince
<1> QED  BY <1>3, <1>4, <1>5, <1>6, <1>7

\* The others edit the Tree; a Run ends.
LEMMA OthersStep ==
  ASSUME PlayInv,
         Playground!TreeEdited \/ \E run \in DOMAIN lnRuns : Playground!RunEnds(run)
  PROVE  PlayInv'
<1> USE DEF PlayInv, PlayShape
<1>1. CASE Playground!TreeEdited
  <2>1. UNCHANGED <<lnRuns, lnPage, lnCalls, lnPast>>
        /\ lnTree' \in [current : 1..MaxVersions, ready : BOOLEAN]
    BY <1>1, PlayBounds DEF Playground!TreeEdited
  <2>2. PlayShape'
    BY <2>1
  <2>3. PlayPinned' /\ PlayFollows' /\ PlayStarts' /\ PlaySince'
    BY <2>1 DEF PlayPinned, PlayFollows, PlayStarts, PlaySince, Newest, AllEnded
  <2> QED  BY <2>2, <2>3
<1>2. ASSUME NEW run \in DOMAIN lnRuns, Playground!RunEnds(run)
      PROVE  PlayInv'
  <2>1. lnRuns' = [lnRuns EXCEPT ![run].ended = TRUE]
        /\ UNCHANGED <<lnTree, lnPage, lnCalls, lnPast>>
    BY <1>2 DEF Playground!RunEnds
  <2>2. /\ lnRuns' \in Seq(PlayRun) /\ Len(lnRuns') = Len(lnRuns) /\ DOMAIN lnRuns' = DOMAIN lnRuns
        /\ \A r \in DOMAIN lnRuns : /\ lnRuns'[r].version = lnRuns[r].version
                                    /\ lnRuns[r].ended => lnRuns'[r].ended
    <3>1. \A r \in DOMAIN lnRuns : lnRuns[r] \in PlayRun
      OBVIOUS
    <3>2. \A r \in DOMAIN lnRuns : /\ lnRuns'[r] \in PlayRun
                                   /\ lnRuns'[r].version = lnRuns[r].version
                                   /\ lnRuns[r].ended => lnRuns'[r].ended
      BY <2>1, <3>1 DEF PlayRun
    <3>3. lnRuns' \in Seq(PlayRun) /\ Len(lnRuns') = Len(lnRuns) /\ DOMAIN lnRuns' = DOMAIN lnRuns
      <4>1. DOMAIN lnRuns = 1..Len(lnRuns) /\ DOMAIN lnRuns' = DOMAIN lnRuns /\ Len(lnRuns) \in Nat
        BY <2>1
      <4>2. lnRuns' \in [1..Len(lnRuns) -> PlayRun]
        BY <2>1, <3>2, <4>1
      <4> HIDE DEF PlayShape, PlayInv
      <4> QED  BY <4>1, <4>2
    <3> QED  BY <3>2, <3>3
  <2>3. PlayShape'
    BY <2>1, <2>2
  <2>4. PlayPinned'
    BY <2>1, <2>2 DEF PlayPinned
  <2>5. PlayFollows'
    BY <2>1, <2>2 DEF PlayFollows, PlayPage
  <2>6. (\A n : Newest(n) => Newest(n)') /\ (AllEnded => AllEnded')
    BY <2>1, <2>2 DEF Newest, AllEnded
  <2>7. PlayStarts' /\ PlaySince'
    BY <2>1, <2>2, <2>6 DEF PlayStarts, PlaySince
  <2> QED  BY <2>3, <2>4, <2>5, <2>7
<1> QED  BY <1>1, <1>2

\* The submission: checked again, sent, accepted or failed.
LEMMA StartStep ==
  ASSUME PlayInv, Playground!start
  PROVE  PlayInv'
<1> USE DEF PlayInv, PlayShape
<1> DEFINE d == [Playground!NoCall EXCEPT !.op = "start", !.at = "validate",
                                          !.ready = Playground!ready(lnPage)]
<1>1. /\ lnPage.tree # 0 /\ ~lnPage.submitting /\ (lnPage.run = 0 \/ lnPage.live = "ended")
      /\ lnCalls' = lnCalls \union {d} /\ lnPage' = [lnPage EXCEPT !.submitting = TRUE]
      /\ UNCHANGED <<lnTree, lnRuns, lnPast>>
  BY DEF Playground!start, Playground!active, Playground!NoVersion, Playground!NewTest
<1>2. d \in PlayCall /\ d.op = "start" /\ d.at = "validate" /\ d.run = 0
  <2>1. Playground!ready(lnPage) \in BOOLEAN /\ 0 \in Version
    BY PlayBounds DEF Playground!ready, PlayPage, Version
  <2> QED  BY <2>1 DEF Playground!NoCall, Playground!NoVersion, Playground!NewTest, PlayCall
<1> HIDE DEF d
<1>3. lnPage' \in PlayPage /\ lnPage'.run = lnPage.run /\ lnPage'.live = lnPage.live
      /\ lnPage'.version = lnPage.version /\ lnPage'.submitting = TRUE
  BY <1>1 DEF PlayPage
<1>4. PlayShape'
  BY <1>1, <1>2, <1>3
<1>5. PlayPinned' /\ PlayFollows'
  BY <1>1, <1>2, <1>3 DEF PlayPinned, PlayFollows
<1>6. \A c \in lnCalls : c.op # "start"
  BY <1>1 DEF PlayStarts
<1>7. PlayStarts'
  BY <1>1, <1>2, <1>3, <1>6 DEF PlayStarts
<1>8. PlaySince'
  <2>1. (\A n : Newest(n)' <=> Newest(n)) /\ (AllEnded' <=> AllEnded)
    BY <1>1 DEF Newest, AllEnded
  <2>2. lnPast.lost \/ lnPast.since = {} \/ Newest(lnPage.run)
    BY <1>6 DEF PlaySince
  <2>3. ~Newest(0) /\ (Newest(lnPage.run) /\ lnPage.run # 0 => AllEnded)
    BY <1>1 DEF Newest, AllEnded, PlayFollows
  <2> QED  BY <1>1, <1>2, <1>3, <1>6, <2>1, <2>2, <2>3 DEF PlaySince
<1> QED  BY <1>4, <1>5, <1>7, <1>8

LEMMA ValidatedStep ==
  ASSUME PlayInv, NEW c \in lnCalls, Playground!Validated(c)
  PROVE  PlayInv'
<1> USE DEF PlayInv, PlayShape
<1> DEFINE d == [c EXCEPT !.at = "submit"]
<1>1. PICK goes \in BOOLEAN, valid \in BOOLEAN :
        /\ lnPage' = [lnPage EXCEPT !.valid = valid, !.submitting = goes]
        /\ lnCalls' = (lnCalls \ {c}) \union IF goes THEN {d} ELSE {}
  <2>1. PICK valid \in BOOLEAN :
          /\ lnPage' = [lnPage EXCEPT !.valid = valid, !.submitting = valid /\ c.ready]
          /\ lnCalls' = (lnCalls \ {c}) \union IF valid /\ c.ready THEN {d} ELSE {}
    BY DEF Playground!Validated
  <2>2. c.ready \in BOOLEAN
    BY DEF PlayCall
  <2>3. PICK goes \in BOOLEAN : goes = (valid /\ c.ready)
    OBVIOUS
  <2> QED  BY <2>1, <2>3
<1>2. c.op = "start" /\ c.at = "validate" /\ UNCHANGED <<lnTree, lnRuns, lnPast>>
  BY DEF Playground!Validated
<1>3. d \in PlayCall /\ d.op = "start" /\ d.at = "submit" /\ d.run = c.run
  BY <1>2 DEF PlayCall
<1> HIDE DEF d
<1>4. lnPage' \in PlayPage /\ lnPage'.run = lnPage.run /\ lnPage'.live = lnPage.live
      /\ lnPage'.version = lnPage.version /\ lnPage'.submitting = goes
  BY <1>1 DEF PlayPage
<1>5. PlayShape'
  BY <1>1, <1>2, <1>3, <1>4
<1>6. PlayPinned' /\ PlayFollows'
  BY <1>1, <1>2, <1>3, <1>4 DEF PlayPinned, PlayFollows
<1>7. \A e \in lnCalls : e.op = "start" => e = c
  BY <1>2 DEF PlayStarts
<1>8. PlayStarts'
  BY <1>1, <1>2, <1>3, <1>4, <1>7 DEF PlayStarts
<1>9. PlaySince'
  <2>1. (\A n : Newest(n)' <=> Newest(n)) /\ (AllEnded' <=> AllEnded)
    BY <1>2 DEF Newest, AllEnded
  <2> QED  BY <1>1, <1>2, <1>3, <1>4, <1>7, <2>1 DEF PlaySince
<1> QED  BY <1>5, <1>6, <1>8, <1>9

LEMMA SubmittedStep ==
  ASSUME PlayInv, NEW c \in lnCalls, Playground!Submitted(c)
  PROVE  PlayInv'
<1> USE DEF PlayInv, PlayShape
<1>0. PICK n \in Nat : n = Len(lnRuns) + 1
  OBVIOUS
<1> DEFINE d == [c EXCEPT !.at = "accepted", !.run = n]
<1>1. /\ c.op = "start" /\ c.at = "submit" /\ Len(lnRuns) < MaxRuns
      /\ lnRuns' = Append(lnRuns, [version |-> lnTree.current, ended |-> FALSE])
      /\ lnCalls' = (lnCalls \ {c}) \union {d}
      /\ lnPast' = [lnPast EXCEPT !.since = @ \union {n}] /\ UNCHANGED <<lnTree, lnPage>>
  BY <1>0 DEF Playground!Submitted
<1>2. [version |-> lnTree.current, ended |-> FALSE] \in PlayRun
  BY DEF PlayRun
<1>3. /\ lnRuns' \in Seq(PlayRun) /\ Len(lnRuns') = n /\ DOMAIN lnRuns' = 1..n
      /\ DOMAIN lnRuns = 1..Len(lnRuns) /\ Len(lnRuns) \in Nat
      /\ \A r \in DOMAIN lnRuns : lnRuns'[r] = lnRuns[r]
  BY <1>0, <1>1, <1>2
<1>4. d \in PlayCall /\ d.op = "start" /\ d.at = "accepted" /\ d.run = n
  <2>1. c \in PlayCall /\ n \in Nat
    BY <1>3
  <2> HIDE DEF PlayInv, PlayShape
  <2> QED  BY <1>1, <2>1 DEF PlayCall
<1>5. /\ lnPast' \in [since : SUBSET (DOMAIN lnRuns'), lost : BOOLEAN]
      /\ lnPast'.since = lnPast.since \union {n} /\ lnPast'.lost = lnPast.lost
      /\ lnPast.since \subseteq DOMAIN lnRuns
  BY <1>1, <1>3
<1>6. n \in Nat /\ n <= MaxRuns
  BY <1>0, <1>1, <1>3, PlayBounds
<1> HIDE DEF d
<1>7. PlayShape'
  <2>1. lnPage.run \in {0} \union DOMAIN lnRuns'
    BY <1>0, <1>3
  <2> QED  BY <1>1, <1>3, <1>4, <1>5, <1>6, <2>1
<1>8. PlayPinned' /\ PlayFollows'
  BY <1>1, <1>3, <1>4 DEF PlayPinned, PlayFollows, PlayPage
<1>9. \A e \in lnCalls : e.op = "start" => e = c
  BY <1>1 DEF PlayStarts
<1>10. PlayStarts'
  <2>1. d.run \in DOMAIN lnRuns'
    BY <1>0, <1>3, <1>4
  <2> QED  BY <1>1, <1>4, <1>9, <2>1 DEF PlayStarts
\* Everything started so far has ended.
<1>11. lnPast.lost \/ lnPast.since = {} \/ \A r \in lnPast.since : lnRuns[r].ended
  BY <1>1 DEF PlaySince, AllEnded
<1>12. lnPast.lost \/ Newest(n)'
  <2>1. \A r \in lnPast.since : r <= n
    BY <1>0, <1>3, <1>5
  <2>2. ASSUME ~lnPast.lost, NEW r \in lnPast'.since
        PROVE  r <= n /\ (r = n \/ lnRuns'[r].ended)
    <3>1. CASE r = n
      BY <1>6, <3>1
    <3>2. CASE r \in lnPast.since
      BY <1>3, <1>5, <1>11, <2>1, <2>2, <3>2
    <3> QED  BY <1>5, <2>2, <3>1, <3>2
  <2>3. n \in lnPast'.since
    BY <1>5
  <2> QED  BY <2>2, <2>3 DEF Newest
<1>13. PlaySince'
  <2>1. \A e \in lnCalls' : e.op = "start" => e = d
    BY <1>1, <1>9
  <2>2. d \in lnCalls' /\ n \in lnPast'.since
    BY <1>1, <1>5
  <2>3. lnPast'.lost \/ Newest(n)'
    BY <1>5, <1>12
  <2>4. \A e \in lnCalls' : e.op = "start" => e.at = "accepted" /\ (lnPast'.lost \/ Newest(e.run)')
    BY <1>4, <2>1, <2>2, <2>3 DEF Newest
  <2> HIDE DEF PlayInv, PlayShape
  <2> QED  BY <1>4, <2>2, <2>4 DEF PlaySince
<1> QED  BY <1>7, <1>8, <1>10, <1>13

LEMMA AcceptedStep ==
  ASSUME PlayInv, NEW c \in lnCalls, Playground!Accepted(c)
  PROVE  PlayInv'
<1> USE DEF PlayInv, PlayShape
<1> DEFINE page == [lnPage EXCEPT !.run = c.run, !.live = "none", !.submitting = FALSE]
<1>1. /\ c.op = "start" /\ c.at = "accepted" /\ UNCHANGED <<lnTree, lnRuns, lnPast>>
      /\ Playground!Pins(page, lnCalls \ {c})
  BY DEF Playground!Accepted
<1>2. lnPast.lost \/ lnPast.since = {} \/ Newest(c.run)
  BY <1>1 DEF PlaySince
<1>3. c.run \in DOMAIN lnRuns /\ c.run \in Nat
  BY <1>1 DEF PlayStarts
<1>4. page \in PlayPage /\ page.run = c.run /\ page.live = "none" /\ ~page.submitting
  BY <1>3 DEF PlayPage
<1> HIDE DEF page
<1>5. /\ lnPage' \in PlayPage /\ lnPage'.run = page.run /\ lnPage'.live = page.live
      /\ lnPage'.submitting = page.submitting /\ lnCalls' \subseteq PlayCall
      /\ \A e \in lnCalls' : IF e.op = "start" THEN e.at \in {"validate", "submit", "accepted"}
                             ELSE e.run = 0
      /\ \A e : e.op = "start" => (e \in lnCalls' <=> e \in lnCalls \ {c})
      /\ PlayPinned'
  BY <1>1, <1>3, <1>4, PinsStep
<1>6. PlayShape'
  BY <1>1, <1>3, <1>4, <1>5
<1>7. PlayFollows'
  BY <1>4, <1>5 DEF PlayFollows
<1>8. \A e \in lnCalls' : e.op # "start"
  BY <1>1, <1>5 DEF PlayStarts
<1>9. PlayStarts'
  BY <1>4, <1>5, <1>8 DEF PlayStarts
<1>10. PlaySince'
  <2>1. Newest(c.run)' <=> Newest(c.run)
    BY <1>1 DEF Newest
  <2>2. lnPast'.lost = lnPast.lost /\ lnPage'.run = c.run
    BY <1>1, <1>4, <1>5
  <2>3. lnPast'.lost \/ lnPast'.since = {} \/ Newest(lnPage.run)'
    BY <1>1, <1>2, <2>2 DEF Newest
  <2> QED  BY <1>8, <2>3 DEF PlaySince
<1> QED  BY <1>5, <1>6, <1>7, <1>9, <1>10

LEMMA FailsStep ==
  ASSUME PlayInv, NEW c \in lnCalls, Playground!StartFails(c)
  PROVE  PlayInv'
<1> USE DEF PlayInv, PlayShape
<1>1. /\ c.op = "start" /\ lnCalls' = lnCalls \ {c} /\ UNCHANGED <<lnTree, lnRuns>>
      /\ lnPage' = [lnPage EXCEPT !.submitting = FALSE]
      /\ lnPast' = [lnPast EXCEPT !.lost = @ \/ c.at = "accepted"]
  BY DEF Playground!StartFails
<1>2. lnPage' \in PlayPage /\ lnPage'.run = lnPage.run /\ lnPage'.live = lnPage.live
      /\ lnPage'.version = lnPage.version /\ ~lnPage'.submitting
  BY <1>1 DEF PlayPage
<1>3. /\ lnPast' \in [since : SUBSET (DOMAIN lnRuns), lost : BOOLEAN]
      /\ lnPast'.since = lnPast.since /\ lnPast'.lost = (lnPast.lost \/ c.at = "accepted")
  BY <1>1
<1>4. PlayShape'
  BY <1>1, <1>2, <1>3
<1>5. PlayPinned' /\ PlayFollows'
  BY <1>1, <1>2 DEF PlayPinned, PlayFollows
<1>6. \A e \in lnCalls : e.op = "start" => e = c
  BY <1>1 DEF PlayStarts
<1>7. PlayStarts'
  BY <1>1, <1>2, <1>6 DEF PlayStarts
<1>8. PlaySince'
  <2>1. \A n : Newest(n)' <=> Newest(n)
    BY <1>1, <1>3 DEF Newest
  <2> QED  BY <1>1, <1>2, <1>3, <1>6, <2>1 DEF PlaySince
<1> QED  BY <1>4, <1>5, <1>7, <1>8

LEMMA PlayStep ==
  ASSUME PlayInv, Playground!LaunchNext
  PROVE  PlayInv'
BY LoadStep, FollowStep, VersionStep, ChooseStep, OthersStep, StartStep, ValidatedStep,
   SubmittedStep, AcceptedStep, FailsStep DEF Playground!LaunchNext, Playground!NewTest

\* The invariant says what the properties of the page say.
LEMMA PlayKnows ==
  ASSUME PlayInv
  PROVE  Playground!LaunchTypeOK /\ Playground!GraphIsOfItsRun /\ Playground!OneRunAtATime
<1> USE DEF PlayInv, PlayShape, Playground!NewTest, Playground!NoVersion
<1>1. Playground!LaunchTypeOK
  BY DEF Playground!LaunchTypeOK, PlayPage
<1>2. Playground!GraphIsOfItsRun
  BY DEF Playground!GraphIsOfItsRun, Playground!pinnedTree, PlayPinned
<1>3. \A S : Playground!Cardinality(S) = Cardinality(S)
  BY DEF Playground!Cardinality, Cardinality, Playground!IsFiniteSet, IsFiniteSet
<1>4. Playground!Cardinality({c \in lnCalls : c.op = "start"}) <= 1
  <2> DEFINE S == {c \in lnCalls : c.op = "start"}
  <2>1. \A c, d \in S : c = d
    BY DEF PlayStarts
  <2> HIDE DEF S
  <2>2. Playground!Cardinality(S) <= 1
    BY <1>3, <2>1, OneOrNoneIsCounted
  <2> QED  BY <2>2 DEF S
<1>5. ASSUME ~lnPast.lost
      PROVE  Playground!Cardinality({r \in lnPast.since : ~lnRuns[r].ended}) <= 1
  <2> DEFINE S == {r \in lnPast.since : ~lnRuns[r].ended}
  <2>1. AllEnded \/ \E n : Newest(n)
    BY <1>5 DEF PlaySince, AllEnded
  <2>2. \A c, d \in S : c = d
    BY <2>1 DEF Newest, AllEnded
  <2> HIDE DEF S
  <2>3. Playground!Cardinality(S) <= 1
    BY <1>3, <2>2, OneOrNoneIsCounted
  <2> QED  BY <2>3 DEF S
<1>6. ASSUME ~lnPast.lost, NEW r \in lnPast.since
      PROVE  \/ lnPage.run \in lnPast.since /\ r <= lnPage.run
             \/ \E c \in lnCalls : c.run \in lnPast.since /\ r <= c.run
  BY <1>6 DEF PlaySince, Newest
<1>7. Playground!OneRunAtATime
  BY <1>4, <1>5, <1>6 DEF Playground!OneRunAtATime
<1> QED  BY <1>1, <1>2, <1>7

LEMMA PlaySame ==
  ASSUME PlayInv, UNCHANGED playground
  PROVE  PlayInv'
<1> USE DEF playground
<1>1. PlayShape' /\ PlayPinned' /\ PlayFollows' /\ PlayStarts'
  BY DEF PlayInv, PlayShape, PlayPinned, PlayFollows, PlayStarts
<1>2. PlaySince'
  BY DEF PlayInv, PlaySince, Newest, AllEnded
<1> QED  BY <1>1, <1>2 DEF PlayInv

-----------------------------------------------------------------------------
(* The set-up of a template: the invariant.                                *)

SetupRec == [agents : SUBSET SetupAgents, model : SUBSET SetupAgents, tool : SUBSET SetupAgents,
             ready : BOOLEAN]
SetupEdited == [agent : SetupAgents, model : BOOLEAN, tool : BOOLEAN]
SetupDraft == SetupEdited \union {Setup!NoAgentDraft}
SetupNames == SetupAgents \union {Setup!NoAgent}
SetupPage == [open : BOOLEAN, data : SetupRec, selected : SetupNames, draft : SetupDraft,
              package : BOOLEAN, adding : BOOLEAN, saving : {"none", "agent", "default", "item"},
              finishing : BOOLEAN, resolvingAll : BOOLEAN]
SetupOps == {"add", "save", "default", "resolve", "resolveAll", "finish"}
SetupPlaces == {"idle", "asked", "tools", "valid", "invalid", "answered", "failed", "reload",
                "reloaded", "over"}
SetupCall == [op : SetupOps \union {"none"}, at : SetupPlaces, draft : SetupDraft, data : SetupRec,
              closure : SetupNames, before : SUBSET SetupAgents]

SetupShape ==
  /\ tsTree \in SetupRec /\ tsPage \in SetupPage
  /\ tsCalls \in [Setup!Calls -> SetupCall]
  /\ tsPast \in [overlap : BOOLEAN, lost : BOOLEAN, completed : BOOLEAN]

\* Where the requests of each kind can be.
SetupFits ==
  \A k \in Setup!Calls :
    LET c == tsCalls[k] IN
    /\ c.op = "save" => c.draft \in SetupEdited
    /\ c.at = "tools" => c.op = "save"
    /\ c.at \in {"valid", "invalid"} => c.op = "finish"
    /\ c.op = "finish" /\ c.at = "answered" => tsTree.ready

\* What the answer of request k will be, when it is the server's own state.
Answers(k) ==
  \/ tsCalls[k].at \in {"reloaded", "valid", "invalid"}
  \/ tsCalls[k].at = "answered" /\ tsCalls[k].op # "finish"
\* Request k has changed nothing yet, or nothing at all.
Harmless(k) == tsCalls[k].at = "asked" \/ (tsCalls[k].at = "failed" /\ tsCalls[k].op # "save")

SetupAlone ==
  ~tsPast.overlap =>
    /\ \A j, k \in Setup!Calls : Setup!Running(j) /\ Setup!Running(k) => j = k
    /\ \A k \in Setup!Calls : Answers(k) => tsCalls[k].data = tsTree
    /\ \A k \in Setup!Calls : tsCalls[k].at = "valid" => Setup!IsReady(tsTree)
    /\ tsTree.ready => Setup!IsReady(tsTree)
    /\ ~tsPast.lost =>
         /\ \A k \in Setup!Calls : Harmless(k) => tsPage.data = tsTree
         /\ Setup!Loaded /\ (\A k \in Setup!Calls : ~Setup!Running(k)) => tsPage.data = tsTree

SetupInv == SetupShape /\ SetupFits /\ SetupAlone /\ (tsPast.completed => tsTree.ready)

LEMMA SetupNothing ==
  /\ Setup!NoSetup \in SetupRec /\ Setup!NoAgentDraft \in SetupDraft /\ Setup!NoAgent \in SetupNames
  /\ Setup!NoRequest \in SetupCall /\ Setup!NoRequest.op = "none" /\ Setup!NoRequest.at = "idle"
<1>1. Setup!NoSetup \in SetupRec /\ Setup!NoAgentDraft \in SetupDraft /\ Setup!NoAgent \in SetupNames
  BY DEF Setup!NoSetup, SetupRec, SetupDraft, SetupNames
<1>2. /\ Setup!NoRequest.op = "none" /\ Setup!NoRequest.at = "idle"
      /\ Setup!NoRequest.draft = Setup!NoAgentDraft /\ Setup!NoRequest.data = Setup!NoSetup
      /\ Setup!NoRequest.closure = Setup!NoAgent /\ Setup!NoRequest.before = {}
  BY DEF Setup!NoRequest
<1>3. Setup!NoRequest \in SetupCall
  BY <1>1 DEF Setup!NoRequest, SetupCall, SetupPlaces
<1> QED  BY <1>1, <1>2, <1>3

LEMMA SetupInit == Setup!SetupInit => SetupInv
<1> SUFFICES ASSUME Setup!SetupInit
             PROVE  SetupInv
  OBVIOUS
<1>1. Holder \in SetupAgents
  BY StudioAssumption
<1>2. tsTree \in SetupRec /\ ~tsTree.ready
  BY <1>1 DEF Setup!SetupInit, SetupRec
<1>3. tsPage \in SetupPage /\ tsPage.data = Setup!NoSetup
  BY SetupNothing DEF Setup!SetupInit, SetupPage
<1>4. [Setup!NoRequest EXCEPT !.at = "reload"] \in SetupCall
      /\ [Setup!NoRequest EXCEPT !.at = "reload"].op = "none"
      /\ [Setup!NoRequest EXCEPT !.at = "reload"].at = "reload"
  BY SetupNothing DEF SetupCall, SetupPlaces
<1>5. /\ tsCalls \in [Setup!Calls -> SetupCall]
      /\ \A k \in Setup!Calls : tsCalls[k].op = "none"
                                /\ tsCalls[k].at = IF k = 1 THEN "reload" ELSE "idle"
  <2>1. tsCalls = [k \in Setup!Calls |-> IF k = 1 THEN [Setup!NoRequest EXCEPT !.at = "reload"]
                                                  ELSE Setup!NoRequest]
    BY DEF Setup!SetupInit
  <2> QED  BY <1>4, <2>1, SetupNothing
<1>6. SetupShape
  BY <1>2, <1>3, <1>5 DEF SetupShape, Setup!SetupInit
<1>7. SetupFits
  BY <1>5 DEF SetupFits
<1>8. SetupAlone
  BY <1>2, <1>3, <1>5 DEF SetupAlone, Setup!Running, Answers, Harmless, Setup!Loaded
<1> QED  BY <1>6, <1>7, <1>8 DEF SetupInv, Setup!SetupInit

\* The page changes, and nothing the invariant looks at.
LEMMA SetupRests ==
  ASSUME SetupInv, tsPage' \in SetupPage, tsPage'.data = tsPage.data, tsPage'.open = tsPage.open,
         UNCHANGED <<tsTree, tsCalls, tsPast>>
  PROVE  SetupInv'
<1>1. SetupShape' /\ SetupFits'
  BY DEF SetupInv, SetupShape, SetupFits
<1>2. \A k : Answers(k)' = Answers(k) /\ Harmless(k)' = Harmless(k)
             /\ Setup!Running(k)' = Setup!Running(k)
  BY DEF Answers, Harmless, Setup!Running
<1>3. Setup!Loaded' <=> Setup!Loaded
  BY DEF Setup!Loaded
<1>4. Setup!IsReady(tsTree)' <=> Setup!IsReady(tsTree)
  BY DEF Setup!IsReady
<1>5. SetupAlone'
  BY <1>2, <1>3, <1>4 DEF SetupInv, SetupAlone
<1> QED  BY <1>1, <1>5 DEF SetupInv

LEMMA SelectStep ==
  ASSUME SetupInv,
         \/ Setup!selectAgent \/ Setup!closeAgent \/ Setup!editAgent
         \/ Setup!openRequirement \/ Setup!closePackageDialog
  PROVE  SetupInv'
<1>0. tsPage \in SetupPage
  BY DEF SetupInv, SetupShape
<1>1. CASE Setup!selectAgent
  <2>1. PICK a \in tsPage.data.agents :
          Setup!Acts([tsPage EXCEPT !.selected = a, !.draft = Setup!DraftOf(tsPage.data, a)])
    BY <1>1 DEF Setup!selectAgent
  <2>2. a \in SetupNames /\ Setup!DraftOf(tsPage.data, a) \in SetupDraft
    <3>1. a \in SetupAgents
      BY <1>0 DEF SetupPage, SetupRec
    <3> QED  BY <3>1 DEF SetupNames, Setup!DraftOf, SetupDraft, SetupEdited
  <2>3. tsPage' \in SetupPage /\ tsPage'.data = tsPage.data /\ tsPage'.open = tsPage.open
    BY <1>0, <2>1, <2>2 DEF Setup!Acts, SetupPage
  <2> QED  BY <2>1, <2>3, SetupRests DEF Setup!Acts
<1>2. CASE Setup!closeAgent
  <2>1. tsPage' \in SetupPage /\ tsPage'.data = tsPage.data /\ tsPage'.open = tsPage.open
    BY <1>0, <1>2, SetupNothing DEF Setup!closeAgent, Setup!Acts, SetupPage
  <2> QED  BY <1>2, <2>1, SetupRests DEF Setup!closeAgent, Setup!Acts
<1>3. CASE Setup!editAgent
  <2>1. tsPage.draft \in SetupEdited
    BY <1>0, <1>3 DEF Setup!editAgent, SetupPage, SetupDraft
  <2>2. PICK d \in SetupEdited : Setup!Acts([tsPage EXCEPT !.draft = d])
    <3>1. [tsPage.draft EXCEPT !.model = ~@] \in SetupEdited
          /\ [tsPage.draft EXCEPT !.tool = ~@] \in SetupEdited
      BY <2>1 DEF SetupEdited
    <3>2. \/ Setup!Acts([tsPage EXCEPT !.draft.model = ~@])
          \/ Setup!Acts([tsPage EXCEPT !.draft.tool = ~@])
      BY <1>3 DEF Setup!editAgent
    <3>3. [tsPage EXCEPT !.draft.model = ~@]
            = [tsPage EXCEPT !.draft = [tsPage.draft EXCEPT !.model = ~@]]
      BY <1>0 DEF SetupPage
    <3>4. [tsPage EXCEPT !.draft.tool = ~@]
            = [tsPage EXCEPT !.draft = [tsPage.draft EXCEPT !.tool = ~@]]
      BY <1>0 DEF SetupPage
    <3> QED  BY <3>1, <3>2, <3>3, <3>4
  <2>3. tsPage' \in SetupPage /\ tsPage'.data = tsPage.data /\ tsPage'.open = tsPage.open
    BY <1>0, <2>2 DEF Setup!Acts, SetupPage, SetupDraft
  <2> QED  BY <2>2, <2>3, SetupRests DEF Setup!Acts
<1>4. CASE Setup!openRequirement \/ Setup!closePackageDialog
  <2>1. PICK b \in BOOLEAN : Setup!Acts([tsPage EXCEPT !.package = b])
    BY <1>4 DEF Setup!openRequirement, Setup!closePackageDialog
  <2>2. tsPage' \in SetupPage /\ tsPage'.data = tsPage.data /\ tsPage'.open = tsPage.open
    BY <1>0, <2>1 DEF Setup!Acts, SetupPage
  <2> QED  BY <2>1, <2>2, SetupRests DEF Setup!Acts
<1> QED  BY <1>1, <1>2, <1>3, <1>4

\* A request begins.
LEMMA BeginsStep ==
  ASSUME SetupInv, NEW k \in Setup!Calls, NEW op \in SetupOps, NEW page \in SetupPage,
         page.data = tsPage.data, page.open = tsPage.open,
         op = "save" => tsPage.draft \in SetupEdited, Setup!Begins(k, op, page)
  PROVE  SetupInv'
<1> USE DEF SetupInv, SetupShape
<1>1. /\ Setup!Loaded /\ tsCalls[k] = Setup!NoRequest /\ tsPage' = page /\ UNCHANGED tsTree
      /\ tsPast' = [tsPast EXCEPT !.overlap = @ \/ \E j \in Setup!Calls : Setup!Running(j)]
  BY DEF Setup!Begins
<1>2. PICK c \in SetupCall :
        /\ tsCalls' = [tsCalls EXCEPT ![k] = c] /\ c.op = op /\ c.at = "asked"
        /\ op = "save" => c.draft \in SetupEdited
  <2> DEFINE d == IF op = "save" THEN tsPage.draft ELSE Setup!NoRequest.draft
             b == IF op = "add" THEN tsPage.data.agents ELSE Setup!NoRequest.before
             c == [Setup!NoRequest EXCEPT !.op = op, !.at = "asked", !.draft = d,
                     !.closure = tsPage.selected, !.before = b]
  <2>1. Setup!NoRequest \in SetupCall /\ tsPage \in SetupPage
    BY SetupNothing
  <2>2. /\ d \in SetupDraft /\ b \in SUBSET SetupAgents /\ tsPage.selected \in SetupNames
        /\ op = "save" => d \in SetupEdited
    BY <2>1 DEF SetupCall, SetupPage, SetupRec
  <2> HIDE DEF d, b
  <2>3. c \in SetupCall /\ c.op = op /\ c.at = "asked" /\ c.draft = d
    BY <2>1, <2>2 DEF SetupCall, SetupPlaces
  <2>4. tsCalls' = [tsCalls EXCEPT ![k] = c]
    BY DEF Setup!Begins, d, b
  <2> HIDE DEF c
  <2> QED  BY <2>2, <2>3, <2>4
<1>3. tsCalls' \in [Setup!Calls -> SetupCall] /\ tsCalls'[k] = c
      /\ \A j \in Setup!Calls : j # k => tsCalls'[j] = tsCalls[j]
  BY <1>2
<1>4. SetupShape'
  BY <1>1, <1>3
<1>5. SetupFits'
  BY <1>1, <1>2, <1>3 DEF SetupFits
<1>6. tsPast'.lost = tsPast.lost /\ tsPast'.completed = tsPast.completed
      /\ (~tsPast'.overlap => ~tsPast.overlap /\ \A j \in Setup!Calls : ~Setup!Running(j))
  BY <1>1
<1>7. \A j \in Setup!Calls : j # k => /\ Setup!Running(j)' = Setup!Running(j)
                                      /\ Answers(j)' = Answers(j) /\ Harmless(j)' = Harmless(j)
  BY <1>3 DEF Setup!Running, Answers, Harmless
<1>8. ~Answers(k)' /\ Setup!Running(k)'
  BY <1>2, <1>3 DEF Answers, Setup!Running
<1>9. \A j : Harmless(j) => Setup!Running(j)
  BY DEF Harmless, Setup!Running
<1>10. SetupAlone'
  <2>1. SUFFICES ASSUME ~tsPast'.overlap
                 PROVE  SetupAlone'
    BY DEF SetupAlone
  <2>2. \A j \in Setup!Calls : Setup!Running(j)' => j = k
    BY <1>6, <1>7, <2>1
  <2>3. \A j \in Setup!Calls : Answers(j)' => tsCalls'[j].data = tsTree'
    BY <1>1, <1>3, <1>6, <1>7, <1>8, <2>1 DEF SetupAlone
  <2>4. \A j \in Setup!Calls : tsCalls'[j].at = "valid" => Setup!IsReady(tsTree)'
    BY <1>1, <1>2, <1>3, <1>6, <2>1 DEF SetupAlone, Setup!IsReady
  <2>5. tsTree'.ready => Setup!IsReady(tsTree)'
    BY <1>1, <1>6, <2>1 DEF SetupAlone, Setup!IsReady
  <2>6. ~tsPast.lost => tsPage.data = tsTree
    BY <1>1, <1>6, <2>1 DEF SetupAlone
  <2> QED  BY <1>1, <1>6, <1>8, <2>2, <2>3, <2>4, <2>5, <2>6 DEF SetupAlone
<1> QED  BY <1>1, <1>4, <1>5, <1>6, <1>10

LEMMA UserStep ==
  ASSUME SetupInv, NEW k \in Setup!Calls,
         \/ Setup!addAgent(k) \/ Setup!saveAgentDetails(k) \/ Setup!applyDefault(k)
         \/ Setup!resolve(k) \/ Setup!resolveAllRequired(k) \/ Setup!finishSetup(k)
  PROVE  SetupInv'
<1>0. tsPage \in SetupPage
  BY DEF SetupInv, SetupShape
<1>1. /\ [tsPage EXCEPT !.adding = TRUE] \in SetupPage
      /\ [tsPage EXCEPT !.finishing = TRUE] \in SetupPage
      /\ [tsPage EXCEPT !.resolvingAll = TRUE] \in SetupPage
      /\ \A s \in {"agent", "default", "item"} : [tsPage EXCEPT !.saving = s] \in SetupPage
  BY <1>0 DEF SetupPage
<1>2. /\ [tsPage EXCEPT !.adding = TRUE].data = tsPage.data
      /\ [tsPage EXCEPT !.finishing = TRUE].data = tsPage.data
      /\ [tsPage EXCEPT !.resolvingAll = TRUE].data = tsPage.data
      /\ \A s : [tsPage EXCEPT !.saving = s].data = tsPage.data
  BY <1>0 DEF SetupPage
<1>3. /\ [tsPage EXCEPT !.adding = TRUE].open = tsPage.open
      /\ [tsPage EXCEPT !.finishing = TRUE].open = tsPage.open
      /\ [tsPage EXCEPT !.resolvingAll = TRUE].open = tsPage.open
      /\ \A s : [tsPage EXCEPT !.saving = s].open = tsPage.open
  BY <1>0 DEF SetupPage
<1>4. CASE Setup!saveAgentDetails(k)
  <2>1. tsPage.draft \in SetupEdited
    BY <1>0, <1>4 DEF Setup!saveAgentDetails, SetupPage, SetupDraft
  <2> QED  BY <1>1, <1>2, <1>3, <1>4, <2>1, BeginsStep DEF Setup!saveAgentDetails, SetupOps
<1>5. CASE \/ Setup!addAgent(k) \/ Setup!applyDefault(k) \/ Setup!resolve(k)
           \/ Setup!resolveAllRequired(k) \/ Setup!finishSetup(k)
  <2>1. PICK op \in SetupOps \ {"save"}, page \in SetupPage :
          page.data = tsPage.data /\ page.open = tsPage.open /\ Setup!Begins(k, op, page)
    <3>1. ASSUME Setup!addAgent(k)
          PROVE  Setup!Begins(k, "add", [tsPage EXCEPT !.adding = TRUE])
      BY <3>1 DEF Setup!addAgent
    <3>2. ASSUME Setup!applyDefault(k)
          PROVE  Setup!Begins(k, "default", [tsPage EXCEPT !.saving = "default"])
      BY <3>2 DEF Setup!applyDefault
    <3>3. ASSUME Setup!resolve(k)
          PROVE  Setup!Begins(k, "resolve", [tsPage EXCEPT !.saving = "item"])
      BY <3>3 DEF Setup!resolve
    <3>4. ASSUME Setup!resolveAllRequired(k)
          PROVE  Setup!Begins(k, "resolveAll", [tsPage EXCEPT !.resolvingAll = TRUE])
      BY <3>4 DEF Setup!resolveAllRequired
    <3>5. ASSUME Setup!finishSetup(k)
          PROVE  Setup!Begins(k, "finish", [tsPage EXCEPT !.finishing = TRUE])
      BY <3>5 DEF Setup!finishSetup
    <3>6. {"add", "default", "resolve", "resolveAll", "finish"} \subseteq SetupOps \ {"save"}
      BY DEF SetupOps
    <3> QED  BY <1>1, <1>2, <1>3, <1>5, <3>1, <3>2, <3>3, <3>4, <3>5, <3>6, Zenon
  <2> QED  BY <2>1, BeginsStep
<1> QED  BY <1>4, <1>5

\* A request gets further, or ends.
LEMMA CallStep ==
  ASSUME SetupInv, NEW k \in Setup!Calls, Setup!Running(k), NEW c \in SetupCall,
         tsCalls' = [tsCalls EXCEPT ![k] = c],
         tsTree' \in SetupRec, tsPage' \in SetupPage,
         tsPast' \in [overlap : BOOLEAN, lost : BOOLEAN, completed : BOOLEAN],
         tsPast'.overlap = tsPast.overlap,
         c.op = "save" => c.draft \in SetupEdited,
         c.at = "tools" => c.op = "save", c.at \in {"valid", "invalid"} => c.op = "finish",
         c.op = "finish" /\ c.at = "answered" => tsTree'.ready,
         tsTree.ready => tsTree'.ready, tsPast'.completed => tsTree'.ready,
         ~tsPast.overlap =>
           /\ \/ c.at \in {"reloaded", "valid", "invalid"}
              \/ c.at = "answered" /\ c.op # "finish"
              => c.data = tsTree'
           /\ c.at = "valid" \/ tsTree'.ready => Setup!IsReady(tsTree)'
           /\ /\ ~tsPast'.lost
              /\ \/ c.at = "asked" \/ (c.at = "failed" /\ c.op # "save")
                 \/ c.at \in {"idle", "over"} /\ Setup!Loaded'
              => tsPage'.data = tsTree'
  PROVE  SetupInv'
<1> USE DEF SetupInv, SetupShape
<1>1. tsCalls' \in [Setup!Calls -> SetupCall] /\ tsCalls'[k] = c
      /\ \A j \in Setup!Calls : j # k => tsCalls'[j] = tsCalls[j]
  OBVIOUS
<1>2. SetupShape'
  BY <1>1
<1>3. SetupFits'
  BY <1>1 DEF SetupFits
<1>4. SetupAlone'
  <2>1. SUFFICES ASSUME ~tsPast.overlap
                 PROVE  SetupAlone'
    BY DEF SetupAlone
  <2>2. \A j \in Setup!Calls : j # k => ~Setup!Running(j)
    BY <2>1 DEF SetupAlone
  <2>3. \A j \in Setup!Calls : j # k => ~Setup!Running(j)'
    BY <1>1, <2>2 DEF Setup!Running
  <2>4. \A j \in Setup!Calls : Answers(j)' \/ Harmless(j)' \/ tsCalls'[j].at = "valid" => j = k
    BY <2>3 DEF Setup!Running, Answers, Harmless
  <2>5. Answers(k)' <=> \/ c.at \in {"reloaded", "valid", "invalid"}
                        \/ c.at = "answered" /\ c.op # "finish"
    BY <1>1 DEF Answers
  <2>6. Harmless(k)' <=> c.at = "asked" \/ (c.at = "failed" /\ c.op # "save")
    BY <1>1 DEF Harmless
  <2>7. Setup!Running(k)' <=> c.at \notin {"idle", "over"}
    BY <1>1 DEF Setup!Running
  <2>8. \A j \in Setup!Calls : Answers(j)' => tsCalls'[j].data = tsTree'
    BY <1>1, <2>1, <2>4, <2>5
  <2>9. \A j \in Setup!Calls : tsCalls'[j].at = "valid" => Setup!IsReady(tsTree)'
    BY <1>1, <2>1, <2>4
  <2>10. ~tsPast'.lost =>
           /\ \A j \in Setup!Calls : Harmless(j)' => tsPage'.data = tsTree'
           /\ Setup!Loaded' /\ (\A j \in Setup!Calls : ~Setup!Running(j)') => tsPage'.data = tsTree'
    BY <1>1, <2>1, <2>4, <2>6, <2>7
  <2> HIDE DEF SetupInv, SetupShape
  <2> QED  BY <2>1, <2>3, <2>8, <2>9, <2>10 DEF SetupAlone
<1> QED  BY <1>2, <1>3, <1>4

LEMMA MovesIs ==
  ASSUME SetupShape, NEW k \in Setup!Calls, NEW at \in SetupPlaces, NEW data \in SetupRec,
         Setup!Moves(k, at, data)
  PROVE  \E c \in SetupCall :
           /\ tsCalls' = [tsCalls EXCEPT ![k] = c] /\ c.at = at /\ c.data = data
           /\ c.op = tsCalls[k].op /\ c.draft = tsCalls[k].draft
<1> DEFINE c == [tsCalls[k] EXCEPT !.at = at, !.data = data]
<1>1. tsCalls[k] \in SetupCall
  BY DEF SetupShape
<1>2. c \in SetupCall /\ c.at = at /\ c.data = data
      /\ c.op = tsCalls[k].op /\ c.draft = tsCalls[k].draft
  BY <1>1 DEF SetupCall
<1>3. tsCalls' = [tsCalls EXCEPT ![k] = c]
  BY DEF Setup!Moves, SetupShape
<1> HIDE DEF c
<1> QED  BY <1>2, <1>3

LEMMA OverIs ==
  ASSUME SetupShape, NEW k \in Setup!Calls, Setup!Over(k)
  PROVE  \E c \in SetupCall :
           tsCalls' = [tsCalls EXCEPT ![k] = c] /\ c.at = "over" /\ c.op = "none"
<1> DEFINE c == [Setup!NoRequest EXCEPT !.at = "over"]
<1>1. c \in SetupCall /\ c.at = "over" /\ c.op = "none"
  BY SetupNothing DEF SetupCall, SetupPlaces
<1>2. tsCalls' = [tsCalls EXCEPT ![k] = c]
  BY DEF Setup!Over
<1> HIDE DEF c
<1> QED  BY <1>1, <1>2

LEMMA ReleasedIs ==
  ASSUME SetupShape, NEW op
  PROVE  /\ Setup!Released(op) \in SetupPage /\ Setup!Released(op).data = tsPage.data
         /\ Setup!Released(op).open = tsPage.open
<1>1. tsPage \in SetupPage
  BY DEF SetupShape
<1>2. PICK a, f, r \in BOOLEAN : /\ a = (tsPage.adding /\ op # "add")
                                 /\ f = (tsPage.finishing /\ op # "finish")
                                 /\ r = (tsPage.resolvingAll /\ op # "resolveAll")
  OBVIOUS
<1>3. PICK s \in {"none", "agent", "default", "item"} :
        s = IF op \in {"save", "default", "resolve"} THEN "none" ELSE tsPage.saving
  BY <1>1 DEF SetupPage
<1>4. Setup!Released(op) = [tsPage EXCEPT !.adding = a, !.finishing = f, !.resolvingAll = r,
                                          !.saving = s]
  BY <1>2, <1>3 DEF Setup!Released
<1> QED  BY <1>1, <1>4 DEF SetupPage

\* The server serves a request.
LEMMA ServedStep ==
  ASSUME SetupInv, NEW k \in Setup!Calls,
         Setup!SetupServed(k) \/ Setup!AgentServed(k) \/ Setup!SetupValidated(k)
  PROVE  SetupInv'
<1>0. /\ SetupShape /\ SetupFits /\ tsTree \in SetupRec /\ tsPage \in SetupPage
      /\ tsCalls[k] \in SetupCall
      /\ tsPast \in [overlap : BOOLEAN, lost : BOOLEAN, completed : BOOLEAN]
      /\ (tsPast.completed => tsTree.ready)
  BY DEF SetupInv, SetupShape
<1>1. CASE Setup!SetupServed(k)
  <2>1. PICK tree \in SetupRec :
          ~tree.ready /\ tsTree' = tree /\ Setup!Moves(k, "answered", tree)
    <3>1. ~tsTree.ready /\ Holder \in SetupAgents
      BY <1>1, StudioAssumption DEF Setup!SetupServed
    <3>2. \A a \in SetupAgents : [tsTree EXCEPT !.agents = @ \union {a}] \in SetupRec
                                 /\ ~[tsTree EXCEPT !.agents = @ \union {a}].ready
      BY <1>0, <3>1 DEF SetupRec
    <3>3. /\ [tsTree EXCEPT !.model = tsTree.agents] \in SetupRec
          /\ ~[tsTree EXCEPT !.model = tsTree.agents].ready
          /\ [tsTree EXCEPT !.tool = @ \union {Holder}] \in SetupRec
          /\ ~[tsTree EXCEPT !.tool = @ \union {Holder}].ready
      BY <1>0, <3>1 DEF SetupRec
    <3>4. \/ \E a \in SetupAgents : /\ tsTree' = [tsTree EXCEPT !.agents = @ \union {a}]
                                    /\ Setup!Moves(k, "answered", [tsTree EXCEPT !.agents = @ \union {a}])
          \/ /\ tsTree' = [tsTree EXCEPT !.model = tsTree.agents]
             /\ Setup!Moves(k, "answered", [tsTree EXCEPT !.model = tsTree.agents])
          \/ /\ tsTree' = [tsTree EXCEPT !.tool = @ \union {Holder}]
             /\ Setup!Moves(k, "answered", [tsTree EXCEPT !.tool = @ \union {Holder}])
          \/ tsTree' = tsTree /\ Setup!Moves(k, "answered", tsTree)
      BY <1>1 DEF Setup!SetupServed
    <3> QED  BY <1>0, <3>1, <3>2, <3>3, <3>4
  <2>2. /\ UNCHANGED <<tsPage, tsPast>> /\ Setup!Running(k) /\ ~tsTree.ready
        /\ tsCalls[k].op \in {"add", "default", "resolve", "resolveAll"}
    BY <1>1 DEF Setup!SetupServed, Setup!Running
  <2>3. PICK c \in SetupCall : /\ tsCalls' = [tsCalls EXCEPT ![k] = c] /\ c.at = "answered"
                               /\ c.data = tree /\ c.op = tsCalls[k].op
    BY <1>0, <2>1, MovesIs DEF SetupPlaces
  <2> QED  BY <1>0, <2>1, <2>2, <2>3, CallStep
<1>2. CASE Setup!AgentServed(k)
  <2>1. tsCalls[k].op = "save" /\ tsCalls[k].draft \in SetupEdited
        /\ UNCHANGED <<tsPage, tsPast>> /\ Setup!Running(k) /\ ~tsTree.ready
    BY <1>0, <1>2 DEF Setup!AgentServed, Setup!Running, SetupFits
  <2>2. PICK tree \in SetupRec, at \in {"answered", "tools"} :
          ~tree.ready /\ tsTree' = tree /\ Setup!Moves(k, at, tree)
    <3> DEFINE d == tsCalls[k].draft
               tree == IF tsCalls[k].at = "asked"
                       THEN [tsTree EXCEPT !.model = Setup!With(@, d.agent, d.model)]
                       ELSE [tsTree EXCEPT !.tool = Setup!With(@, d.agent, d.tool)]
               at == IF Setup!DraftOf(tree, d.agent).tool = d.tool THEN "answered" ELSE "tools"
    <3>1. d.agent \in SetupAgents
      BY <2>1 DEF SetupEdited
    <3>2. Setup!With(tsTree.model, d.agent, d.model) \in SUBSET SetupAgents
          /\ Setup!With(tsTree.tool, d.agent, d.tool) \in SUBSET SetupAgents
      BY <1>0, <3>1 DEF Setup!With, SetupRec
    <3>3. tree \in SetupRec /\ ~tree.ready
      BY <1>0, <2>1, <3>2 DEF SetupRec
    <3>4. tsTree' = tree /\ Setup!Moves(k, at, tree) /\ at \in {"answered", "tools"}
      BY <1>2 DEF Setup!AgentServed
    <3> HIDE DEF tree, at
    <3> QED  BY <3>3, <3>4
  <2>3. PICK c \in SetupCall : /\ tsCalls' = [tsCalls EXCEPT ![k] = c] /\ c.at = at
                               /\ c.data = tree /\ c.op = "save" /\ c.draft \in SetupEdited
    BY <1>0, <2>1, <2>2, MovesIs DEF SetupPlaces
  <2> QED  BY <1>0, <2>1, <2>2, <2>3, CallStep
<1>3. CASE Setup!SetupValidated(k)
  <2>0. tsCalls[k].op = "finish" /\ UNCHANGED <<tsPage, tsPast>>
    BY <1>3 DEF Setup!SetupValidated
  <2>1. CASE /\ tsCalls[k].at = "asked" /\ UNCHANGED tsTree
             /\ Setup!Moves(k, IF Setup!IsReady(tsTree) THEN "valid" ELSE "invalid", tsTree)
    <3>1. PICK at \in {"valid", "invalid"} :
            Setup!Moves(k, at, tsTree) /\ (at = "valid" => Setup!IsReady(tsTree))
      BY <2>1
    <3>2. PICK c \in SetupCall : /\ tsCalls' = [tsCalls EXCEPT ![k] = c] /\ c.at = at
                                 /\ c.data = tsTree /\ c.op = "finish"
      BY <1>0, <2>0, <3>1, MovesIs DEF SetupPlaces
    <3>3. Setup!IsReady(tsTree)' <=> Setup!IsReady(tsTree)
      BY <2>1 DEF Setup!IsReady
    <3>4. ~tsPast.overlap => (tsTree.ready => Setup!IsReady(tsTree))
      BY DEF SetupInv, SetupAlone
    <3>5. Setup!Running(k)
      BY <2>1 DEF Setup!Running
    <3> QED  BY <1>0, <2>0, <2>1, <3>1, <3>2, <3>3, <3>4, <3>5, CallStep
  <2>2. CASE /\ tsCalls[k].at = "valid" /\ tsTree' = [tsTree EXCEPT !.ready = TRUE]
             /\ Setup!Moves(k, "answered", tsTree')
    <3>1. PICK tree \in SetupRec : /\ tsTree' = tree /\ tree.ready /\ tree.agents = tsTree.agents
                                   /\ tree.model = tsTree.model /\ tree.tool = tsTree.tool
      <4> DEFINE tree == [tsTree EXCEPT !.ready = TRUE]
      <4>1. tree \in SetupRec /\ tree.ready /\ tree.agents = tsTree.agents
            /\ tree.model = tsTree.model /\ tree.tool = tsTree.tool
        BY <1>0 DEF SetupRec
      <4>2. tsTree' = tree
        BY <2>2
      <4> HIDE DEF tree
      <4> QED  BY <4>1, <4>2
    <3>6. Setup!Moves(k, "answered", tree)
      BY <2>2, <3>1 DEF Setup!Moves
    <3>2. PICK c \in SetupCall : /\ tsCalls' = [tsCalls EXCEPT ![k] = c] /\ c.at = "answered"
                                 /\ c.data = tree /\ c.op = "finish"
      BY <1>0, <2>0, <3>6, MovesIs DEF SetupPlaces
    <3>3. Setup!IsReady(tsTree)' <=> Setup!IsReady(tsTree)
      BY <3>1 DEF Setup!IsReady
    <3>4. ~tsPast.overlap => Setup!IsReady(tsTree)
      BY <2>2 DEF SetupInv, SetupAlone
    <3>5. Setup!Running(k)
      BY <2>2 DEF Setup!Running
    <3> QED  BY <1>0, <2>0, <2>2, <3>1, <3>2, <3>3, <3>4, <3>5, CallStep
  <2> QED  BY <1>3, <2>1, <2>2 DEF Setup!SetupValidated
<1> QED  BY <1>1, <1>2, <1>3

\* The page is told, or is not.
LEMMA AnsweredStep ==
  ASSUME SetupInv, NEW k \in Setup!Calls,
         \/ Setup!SetupReloads(k) \/ Setup!SetupReloaded(k) \/ Setup!RequestFails(k)
         \/ Setup!SetupAnswered(k) \/ Setup!SetupFailed(k) \/ Setup!SetupCompleted(k)
  PROVE  SetupInv'
<1>0. /\ SetupShape /\ SetupFits /\ tsTree \in SetupRec /\ tsPage \in SetupPage
      /\ tsCalls[k] \in SetupCall
      /\ tsPast \in [overlap : BOOLEAN, lost : BOOLEAN, completed : BOOLEAN]
      /\ (tsPast.completed => tsTree.ready)
  BY DEF SetupInv, SetupShape
<1>1. ~tsPast.overlap =>
        /\ tsTree.ready => Setup!IsReady(tsTree)
        /\ Answers(k) => tsCalls[k].data = tsTree
        /\ ~tsPast.lost /\ Harmless(k) => tsPage.data = tsTree
  BY DEF SetupInv, SetupAlone
<1>2. tsTree' = tsTree => (Setup!IsReady(tsTree)' <=> Setup!IsReady(tsTree))
  BY DEF Setup!IsReady
<1>3. /\ Setup!NoSetup \in SetupRec
      /\ {"failed", "reload", "reloaded"} \subseteq SetupPlaces
  BY SetupNothing DEF SetupPlaces
<1>4. CASE Setup!SetupReloads(k)
  <2>0. tsCalls[k].at = "reload" /\ UNCHANGED tsTree /\ Setup!Running(k)
    BY <1>4 DEF Setup!SetupReloads, Setup!Running
  <2>1. CASE Setup!Moves(k, "reloaded", tsTree) /\ UNCHANGED <<tsPage, tsPast>>
    <3>1. PICK c \in SetupCall :
            /\ tsCalls' = [tsCalls EXCEPT ![k] = c] /\ c.at = "reloaded" /\ c.data = tsTree
            /\ c.op = tsCalls[k].op /\ c.draft = tsCalls[k].draft
      BY <1>0, <1>3, <2>1, MovesIs
    <3>2. c.op = "save" => c.draft \in SetupEdited
      BY <1>0, <3>1 DEF SetupFits
    <3> QED  BY <1>0, <1>1, <1>2, <2>0, <2>1, <3>1, <3>2, CallStep
  <2>2. CASE /\ Setup!Over(k) /\ tsPage' = Setup!Released(tsCalls[k].op)
             /\ tsPast' = [tsPast EXCEPT !.lost = TRUE]
    <3>1. PICK c \in SetupCall :
            tsCalls' = [tsCalls EXCEPT ![k] = c] /\ c.at = "over" /\ c.op = "none"
      BY <1>0, <2>2, OverIs
    <3>2. tsPage' \in SetupPage
      BY <1>0, <2>2, ReleasedIs
    <3> QED  BY <1>0, <1>1, <1>2, <2>0, <2>2, <3>1, <3>2, CallStep
  <2> QED  BY <1>4, <2>1, <2>2 DEF Setup!SetupReloads
<1>5. CASE Setup!SetupReloaded(k)
  <2>0. /\ tsCalls[k].at = "reloaded" /\ Setup!Running(k) /\ Answers(k) /\ Setup!Over(k)
        /\ UNCHANGED <<tsTree, tsPast>>
        /\ tsPage' = [Setup!Released(tsCalls[k].op) EXCEPT !.data = tsCalls[k].data]
    BY <1>5 DEF Setup!SetupReloaded, Setup!Running, Answers
  <2>1. PICK c \in SetupCall :
          tsCalls' = [tsCalls EXCEPT ![k] = c] /\ c.at = "over" /\ c.op = "none"
    BY <1>0, <2>0, OverIs
  <2>2. tsPage' \in SetupPage /\ tsPage'.data = tsCalls[k].data
    <3>1. PICK p \in SetupPage : p = Setup!Released(tsCalls[k].op)
      BY <1>0, ReleasedIs
    <3>2. tsCalls[k].data \in SetupRec
      BY <1>0 DEF SetupCall
    <3> QED  BY <2>0, <3>1, <3>2 DEF SetupPage
  <2> QED  BY <1>0, <1>1, <1>2, <2>0, <2>1, <2>2, CallStep
<1>6. CASE Setup!RequestFails(k)
  <2>0. /\ tsCalls[k].at \in {"asked", "tools", "answered"} /\ Setup!Running(k)
        /\ Setup!Moves(k, "failed", Setup!NoSetup) /\ UNCHANGED <<tsTree, tsPage>>
        /\ tsPast' = [tsPast EXCEPT !.lost = @ \/ tsCalls[k].at = "answered"]
    BY <1>6 DEF Setup!RequestFails, Setup!Running
  <2>1. PICK c \in SetupCall :
          /\ tsCalls' = [tsCalls EXCEPT ![k] = c] /\ c.at = "failed"
          /\ c.op = tsCalls[k].op /\ c.draft = tsCalls[k].draft
    BY <1>0, <1>3, <2>0, MovesIs
  <2>2. (c.op = "save" => c.draft \in SetupEdited) /\ (tsCalls[k].at = "tools" => c.op = "save")
    BY <1>0, <2>1 DEF SetupFits
  <2>3. ~tsPast'.lost /\ c.op # "save" => Harmless(k) /\ ~tsPast.lost
    BY <1>0, <2>0, <2>1, <2>2 DEF Harmless
  <2>4. /\ tsPast' \in [overlap : BOOLEAN, lost : BOOLEAN, completed : BOOLEAN]
        /\ tsPast'.overlap = tsPast.overlap /\ tsPast'.completed = tsPast.completed
    BY <1>0, <2>0
  <2> QED  BY <1>0, <1>1, <1>2, <2>0, <2>1, <2>2, <2>3, <2>4, CallStep
<1>7. CASE Setup!SetupAnswered(k)
  <2> DEFINE freed == Setup!applyResponse(Setup!Released(tsCalls[k].op), tsCalls[k])
             d == tsCalls[k].data
  <2>0. /\ tsCalls[k].at = "answered" /\ tsCalls[k].op # "finish" /\ Setup!Over(k)
        /\ UNCHANGED <<tsTree, tsPast>> /\ Setup!Running(k) /\ Answers(k)
    BY <1>7 DEF Setup!SetupAnswered, Setup!Running, Answers
  <2>1. PICK c \in SetupCall :
          tsCalls' = [tsCalls EXCEPT ![k] = c] /\ c.at = "over" /\ c.op = "none"
    BY <1>0, <2>0, OverIs
  <2>2. d \in SetupRec /\ tsCalls[k].closure \in SetupNames
    BY <1>0 DEF SetupCall
  <2>3. \A a \in SetupAgents : Setup!DraftOf(d, a) \in SetupDraft
    BY DEF Setup!DraftOf, SetupDraft, SetupEdited
  <2>4. PICK f \in SetupPage : f = freed /\ f.data = d
    <3>1. PICK p \in SetupPage : p = Setup!Released(tsCalls[k].op)
      BY <1>0, ReleasedIs
    <3>2. CASE tsCalls[k].closure = Setup!NoAgent
      <4>1. freed = [p EXCEPT !.data = d]
        BY <3>1, <3>2 DEF Setup!applyResponse
      <4> HIDE DEF freed, d
      <4>2. freed \in SetupPage
        BY <2>2, <3>1, <4>1 DEF SetupPage
      <4>3. freed.data = d
        BY <3>1, <4>1 DEF SetupPage
      <4> QED  BY <4>2, <4>3
    <3>3. CASE tsCalls[k].closure # Setup!NoAgent
      <4>1. PICK e \in SetupDraft : e = Setup!DraftOf(d, tsCalls[k].closure)
        BY <2>2, <2>3, <3>3 DEF SetupNames
      <4>2. freed = [p EXCEPT !.data = d, !.draft = e]
        BY <3>1, <3>3, <4>1 DEF Setup!applyResponse
      <4> HIDE DEF freed, d
      <4>3. freed \in SetupPage
        BY <2>2, <3>1, <4>1, <4>2 DEF SetupPage
      <4>4. freed.data = d
        BY <3>1, <4>2 DEF SetupPage
      <4> QED  BY <4>3, <4>4
    <3> QED  BY <3>2, <3>3
  <2> HIDE DEF freed
  <2>5. \/ tsPage' = f
        \/ \E a \in SetupNames, e \in SetupDraft : tsPage' = [f EXCEPT !.selected = a, !.draft = e]
        \/ \E b \in BOOLEAN : tsPage' = [f EXCEPT !.package = b]
    <3>1. \/ tsPage' = f
          \/ tsPage' = [f EXCEPT !.selected = Setup!NoAgent, !.draft = Setup!NoAgentDraft]
          \/ tsPage' = [f EXCEPT !.package = Holder \notin d.tool]
          \/ \E a \in d.agents \ tsCalls[k].before :
               tsPage' = [f EXCEPT !.selected = a, !.draft = Setup!DraftOf(d, a)]
      BY <1>7, <2>4 DEF Setup!SetupAnswered, freed
    <3>2. d.agents \subseteq SetupAgents
      BY <2>2 DEF SetupRec
    <3>3. \A a \in SetupAgents : a \in SetupNames
      BY DEF SetupNames
    <3>4. (Holder \notin d.tool) \in BOOLEAN
      OBVIOUS
    <3> HIDE DEF d
    <3> QED  BY <2>3, <3>1, <3>2, <3>3, <3>4, SetupNothing
  <2>6. tsPage' \in SetupPage /\ tsPage'.data = d
    <3> HIDE DEF d
    <3> QED  BY <2>4, <2>5 DEF SetupPage
  <2> QED  BY <1>0, <1>1, <1>2, <2>0, <2>1, <2>6, CallStep
<1>8. CASE Setup!SetupFailed(k)
  <2>0. /\ tsCalls[k].at \in {"failed", "invalid"} /\ Setup!Running(k)
        /\ UNCHANGED <<tsTree, tsPast>>
    BY <1>8 DEF Setup!SetupFailed, Setup!Running
  <2>1. CASE Setup!Moves(k, "reload", Setup!NoSetup) /\ UNCHANGED tsPage
    <3>1. PICK c \in SetupCall :
            /\ tsCalls' = [tsCalls EXCEPT ![k] = c] /\ c.at = "reload"
            /\ c.op = tsCalls[k].op /\ c.draft = tsCalls[k].draft
      BY <1>0, <1>3, <2>1, MovesIs
    <3>2. c.op = "save" => c.draft \in SetupEdited
      BY <1>0, <3>1 DEF SetupFits
    <3> QED  BY <1>0, <1>1, <1>2, <2>0, <2>1, <3>1, <3>2, CallStep
  <2>2. CASE /\ tsCalls[k].op # "save" /\ tsCalls[k].at = "failed"
             /\ Setup!Over(k) /\ tsPage' = Setup!Released(tsCalls[k].op)
    <3>1. PICK c \in SetupCall :
            tsCalls' = [tsCalls EXCEPT ![k] = c] /\ c.at = "over" /\ c.op = "none"
      BY <1>0, <2>2, OverIs
    <3>2. tsPage' \in SetupPage /\ tsPage'.data = tsPage.data
      BY <1>0, <2>2, ReleasedIs
    <3>3. Harmless(k)
      BY <2>2 DEF Harmless
    <3> QED  BY <1>0, <1>1, <1>2, <2>0, <2>2, <3>1, <3>2, <3>3, CallStep
  <2> QED  BY <1>8, <2>0, <2>1, <2>2 DEF Setup!SetupFailed
<1>9. CASE Setup!SetupCompleted(k)
  <2>0. /\ tsCalls[k].op = "finish" /\ tsCalls[k].at = "answered" /\ Setup!Over(k)
        /\ tsPage' = [Setup!Released("finish") EXCEPT !.open = FALSE]
        /\ tsPast' = [tsPast EXCEPT !.completed = TRUE] /\ UNCHANGED tsTree /\ Setup!Running(k)
    BY <1>9 DEF Setup!SetupCompleted, Setup!Running
  <2>1. PICK c \in SetupCall :
          tsCalls' = [tsCalls EXCEPT ![k] = c] /\ c.at = "over" /\ c.op = "none"
    BY <1>0, <2>0, OverIs
  <2>2. tsTree.ready
    BY <1>0, <2>0 DEF SetupFits
  <2>3. tsPage' \in SetupPage /\ ~Setup!Loaded'
    <3>1. PICK p \in SetupPage : p = Setup!Released("finish")
      BY <1>0, ReleasedIs
    <3> QED  BY <2>0, <3>1 DEF SetupPage, Setup!Loaded
  <2>4. /\ tsPast' \in [overlap : BOOLEAN, lost : BOOLEAN, completed : BOOLEAN]
        /\ tsPast'.overlap = tsPast.overlap
    BY <1>0, <2>0
  <2> QED  BY <1>0, <1>1, <1>2, <2>0, <2>1, <2>2, <2>3, <2>4, CallStep
<1> QED  BY <1>4, <1>5, <1>6, <1>7, <1>8, <1>9

LEMMA SetupStep ==
  ASSUME SetupInv, Setup!SetupNext
  PROVE  SetupInv'
BY SelectStep, UserStep, ServedStep, AnsweredStep DEF Setup!SetupNext

LEMMA SetupSame ==
  ASSUME SetupInv, UNCHANGED setup
  PROVE  SetupInv'
<1>1. tsPage \in SetupPage
  BY DEF SetupInv, SetupShape
<1> QED  BY <1>1, SetupRests DEF setup

\* The invariant says what the properties of the page say.
LEMMA SetupKnows ==
  ASSUME SetupInv
  PROVE  Setup!SetupTypeOK /\ Setup!SetupShowsServer /\ Setup!SetupFinishIsReady
<1>1. Setup!SetupTypeOK
  <2>1. tsTree \in SetupRec /\ tsPage \in SetupPage
    BY DEF SetupInv, SetupShape
  <2>2. tsPage.draft.agent \in SetupAgents \union {Setup!NoAgent}
    BY <2>1 DEF SetupPage, SetupDraft, SetupEdited, Setup!NoAgentDraft
  <2>3. tsPage.saving \in {"none", "agent", "default", "item"}
    BY <2>1 DEF SetupPage
  <2> QED  BY <2>1, <2>2, <2>3 DEF Setup!SetupTypeOK, SetupRec
<1>2. Setup!SetupShowsServer /\ Setup!SetupFinishIsReady
  BY DEF SetupInv, SetupAlone, Setup!SetupShowsServer, Setup!SetupFinishIsReady
<1> QED  BY <1>1, <1>2

-----------------------------------------------------------------------------
(* Accounts: the invariant.                                                *)

AcRow == People!Row
AcKept == AcRow \union {People!Absent}
AcNames == Accounts \union {"nobody"}
AcUser == [name : Accounts, must : BOOLEAN, grants : SUBSET Grants] \union {People!NoUser}
AcLine == [name : Accounts, active : BOOLEAN, grants : SUBSET Grants]
AcOps == {"me", "login", "page", "logout", "change"}
AcCall == [op : AcOps, at : {"asked", "checked", "served"}, as : 0..MaxLogins, who : AcNames, seen : AcUser]
AcShell == [cookie : 0..MaxLogins, user : AcUser, loading : BOOLEAN, opened : 0..MaxLogins,
            raced : BOOLEAN, slipped : SUBSET (1..MaxLogins), calls : SUBSET AcCall]
AcJobs == {"none", "create", "update", "reset", "delete", "saved", "deleted"}
AcDesk == [rows : SUBSET AcLine, loading : BOOLEAN, list : SUBSET AcLine, listRead : BOOLEAN,
           sel : AcNames, job : AcJobs, who : AcNames, form : AcKept, pass : BOOLEAN, edits : Nat,
           failed : BOOLEAN]

AcShape ==
  /\ acUsers \in [Accounts -> AcKept]
  /\ acSessions \in [1..MaxLogins -> AcNames]
  /\ acShell \in AcShell /\ acDesk \in AcDesk
  /\ acTorn \subseteq Accounts

\* Only accounts the server has hold sessions.
AcHeld == \A s \in 1..MaxLogins : acSessions[s] # "nobody" => acUsers[acSessions[s]] # People!Absent

\* A sign-in that is not committed is alone and will open a session no one holds.
Opening(c) == c.op = "login" /\ c.at # "served"
AcTickets ==
  /\ acShell.cookie <= acShell.opened
  /\ \A c \in acShell.calls : c.as <= acShell.opened /\ (c.op = "login" => c.who \in Accounts)
  /\ \A c, d \in acShell.calls : c.op = "login" /\ d.op = "login" => c = d
  /\ \A c \in acShell.calls : Opening(c) =>
       /\ acShell.cookie < acShell.opened
       /\ \A d \in acShell.calls : d.op # "login" => d.as < acShell.opened

\* What the browser is told, or shows, of a session that lives.
Alive(s) == s \in 1..MaxLogins /\ acSessions[s] # "nobody"
Fits(user, s) ==
  user.name = acSessions[s] /\ (acUsers[acSessions[s]].must => user.must \/ s \in acShell.slipped)
AcAnswers ==
  \A c \in acShell.calls :
    c.at = "served" /\ c.op \in {"me", "login", "change"} /\ c.seen # People!NoUser /\ Alive(c.as)
      => Fits(c.seen, c.as)
AcScreen ==
  ~acShell.raced =>
    /\ \A c \in acShell.calls : c.op \in {"me", "change"} /\ acShell.cookie # 0 => c.as = acShell.cookie
    /\ acShell.user # People!NoUser /\ Alive(acShell.cookie) => Fits(acShell.user, acShell.cookie)

\* The save under way, and what the server has made of it, unless another did since.
AcJob ==
  /\ acDesk.job # "none" => acDesk.who \in Accounts
  /\ acDesk.job \in {"create", "update", "reset", "saved"} => acDesk.form \in AcRow
  /\ acDesk.job \in {"reset", "saved"} /\ acDesk.who \notin acTorn =>
       /\ acUsers[acDesk.who] # People!Absent
       /\ acUsers[acDesk.who].active = acDesk.form.active
       /\ acUsers[acDesk.who].grants = acDesk.form.grants
  /\ acDesk.job = "deleted" /\ acDesk.who \notin acTorn => acUsers[acDesk.who] = People!Absent

\* The rows say of u what the server does.
Truly(rows, u) ==
  \A r \in AcLine : r.name = u =>
    (r \in rows <=> /\ acUsers[u] # People!Absent
                    /\ r.active = acUsers[u].active /\ r.grants = acUsers[u].grants)
None(rows, u) == \A r \in rows : r.name # u
RowOf(u) == Truly(acDesk.rows, u) \/ ((acDesk.loading \/ acDesk.failed) /\ None(acDesk.rows, u))
AcRows ==
  /\ \A u \in Accounts \ acTorn :
       (u = acDesk.who /\ acDesk.job \in {"reset", "saved", "deleted"}) \/ RowOf(u)
  /\ acDesk.loading /\ acDesk.listRead => \A u \in Accounts \ acTorn : Truly(acDesk.list, u)

AcInv == AcShape /\ AcHeld /\ AcTickets /\ AcAnswers /\ AcScreen /\ AcJob /\ AcRows

LEMMA AcBounds == MaxLogins \in Nat /\ "nobody" \notin Accounts /\ "absent" \notin Grants
BY StudioAssumption

LEMMA AcAbsent ==
  /\ People!Absent \notin AcRow
  /\ People!NoUser \in AcUser /\ People!NoUser.name = "nobody"
  /\ \A user \in AcUser : user # People!NoUser => user.name \in Accounts /\ user.must \in BOOLEAN
<1>1. People!Absent \notin AcRow
  <2>1. People!Absent.grants = {"absent"}
    BY DEF People!Absent
  <2>2. \A r \in AcRow : "absent" \notin r.grants
    BY AcBounds DEF AcRow, People!Row
  <2> QED  BY <2>1, <2>2
<1> QED  BY <1>1 DEF AcUser, People!NoUser, People!Anonymous

LEMMA AcInit == People!AccountsInit => AcInv
<1> SUFFICES ASSUME People!AccountsInit
             PROVE  AcInv
  OBVIOUS
<1> USE DEF People!AccountsInit
<1>1. acUsers \in [Accounts -> AcKept]
  BY DEF AcKept, AcRow, People!Row
<1>2. acSessions \in [1..MaxLogins -> AcNames] /\ \A s \in 1..MaxLogins : acSessions[s] = "nobody"
  BY DEF AcNames, People!Anonymous
<1>3. acShell \in AcShell
  <2> DEFINE me == [op |-> "me", at |-> "asked", as |-> 0, who |-> People!Anonymous, seen |-> People!NoUser]
  <2>0. 0 \in 0..MaxLogins
    BY AcBounds
  <2>1. me \in AcCall
    BY <2>0, AcAbsent DEF AcCall, AcOps, AcNames, People!Anonymous
  <2>2. acShell = [cookie |-> 0, user |-> People!NoUser, loading |-> TRUE, opened |-> 0, raced |-> FALSE,
                   slipped |-> {}, calls |-> {me}]
    OBVIOUS
  <2> HIDE DEF me
  <2> QED  BY <2>0, <2>1, <2>2, AcAbsent DEF AcShell
<1>4. acDesk \in AcDesk
  BY DEF AcDesk, AcNames, AcJobs, AcKept, People!Anonymous
<1>5. AcShape /\ AcHeld
  BY <1>1, <1>2, <1>3, <1>4 DEF AcShape, AcHeld
<1>6. AcTickets /\ AcAnswers /\ AcScreen
  BY AcBounds DEF AcTickets, Opening, AcAnswers, AcScreen, Alive
<1>7. AcJob /\ AcRows
  BY DEF AcJob, AcRows, RowOf, None
<1> QED  BY <1>5, <1>6, <1>7 DEF AcInv

\* A step of the browser alone.
LEMMA AcShellStep ==
  ASSUME AcInv, UNCHANGED <<acUsers, acSessions, acDesk, acTorn>>,
         acShell' \in AcShell, AcTickets', AcAnswers', AcScreen'
  PROVE  AcInv'
BY DEF AcInv, AcShape, AcHeld, AcJob, AcRows, RowOf, None, Truly

LEMMA AcAsks ==
  ASSUME AcInv, UNCHANGED <<acUsers, acSessions, acDesk, acTorn>>,
         NEW op \in AcOps, NEW who \in AcNames, op = "login" => who \in Accounts,
         ~(\E c \in acShell.calls : c.op = op),
         NEW user \in AcUser, NEW loading \in BOOLEAN, NEW opened \in 0..MaxLogins, NEW raced \in BOOLEAN,
         NEW slipped \in SUBSET (1..MaxLogins),
         acShell' = [acShell EXCEPT !.user = user, !.loading = loading, !.opened = opened, !.raced = raced,
                                    !.slipped = slipped, !.calls = People!Send(People!Ask(op, who))],
         op = "login" => opened = acShell.opened + 1, op # "login" => opened = acShell.opened,
         \/ user = acShell.user /\ raced = acShell.raced /\ slipped = acShell.slipped
         \/ user = People!NoUser /\ acShell.calls = {}
  PROVE  AcInv'
<1> USE DEF AcInv, AcShape
<1>0. acShell.cookie \in 0..MaxLogins /\ acShell.calls \subseteq AcCall /\ acShell.opened \in Nat
      /\ \A c \in acShell.calls : c.as \in Nat
  BY AcBounds DEF AcShell, AcCall
<1>1. PICK c \in AcCall : /\ c.op = op /\ c.at = "asked" /\ c.as = acShell.cookie /\ c.who = who
                          /\ People!Send(People!Ask(op, who)) = acShell.calls \union {c}
  <2>1. People!Ask(op, who) \in AcCall
    BY <1>0, AcAbsent DEF People!Ask, AcCall
  <2> QED  BY <2>1 DEF People!Ask, People!Send
<1>2. /\ acShell' \in AcShell /\ acShell'.user = user /\ acShell'.cookie = acShell.cookie
      /\ acShell'.opened = opened /\ acShell'.raced = raced /\ acShell'.calls = acShell.calls \union {c}
      /\ acShell'.slipped = slipped
  BY <1>0, <1>1 DEF AcShell
<1> HIDE DEF AcInv, AcShape
<1>3. AcTickets /\ AcAnswers /\ AcScreen
  BY DEF AcInv
<1>4. AcTickets'
  BY <1>0, <1>1, <1>2, <1>3 DEF AcTickets, Opening
<1>5. AcAnswers'
  BY <1>1, <1>2, <1>3 DEF AcAnswers, Alive, Fits
<1>6. AcScreen'
  BY <1>1, <1>2, <1>3 DEF AcScreen, Alive, Fits
<1> QED  BY <1>2, <1>4, <1>5, <1>6, AcShellStep

LEMMA AcBegins ==
  ASSUME AcInv,
         \/ People!Reload \/ People!PageAsks \/ People!signOut \/ People!ChangeSubmit
         \/ \E u \in Accounts : People!LoginSubmit(u)
  PROVE  AcInv'
<1>0. /\ acShell \in AcShell /\ acShell.user \in AcUser /\ acShell.loading \in BOOLEAN
      /\ acShell.opened \in 0..MaxLogins /\ acShell.raced \in BOOLEAN
      /\ acShell.slipped \in SUBSET (1..MaxLogins)
      /\ "nobody" \in AcNames /\ People!Anonymous = "nobody" /\ Accounts \subseteq AcNames
  BY DEF AcInv, AcShape, AcShell, AcNames, People!Anonymous
<1>00. PICK user \in AcUser, loading \in BOOLEAN, opened \in 0..MaxLogins, raced \in BOOLEAN,
            slipped \in SUBSET (1..MaxLogins) :
         /\ user = acShell.user /\ loading = acShell.loading /\ opened = acShell.opened
         /\ raced = acShell.raced /\ slipped = acShell.slipped
  BY <1>0
<1>1. CASE People!Reload
  <2>1. acShell' = [acShell EXCEPT !.user = People!NoUser, !.loading = TRUE, !.opened = acShell.opened,
                       !.raced = FALSE, !.slipped = {}, !.calls = People!Send(People!Ask("me", "nobody"))]
        /\ acShell.calls = {} /\ UNCHANGED <<acUsers, acSessions, acDesk, acTorn>>
    BY <1>0, <1>1 DEF People!Reload, AcShell
  <2> QED  BY <1>0, <2>1, AcAbsent, AcAsks DEF AcOps
<1>2. ASSUME NEW op \in {"page", "logout", "change"}, People!CanAsk(op),
             acShell' = [acShell EXCEPT !.calls = People!Send(People!Ask(op, "nobody"))],
             UNCHANGED <<acUsers, acSessions, acDesk, acTorn>>
      PROVE  AcInv'
  <2>1. acShell' = [acShell EXCEPT !.user = user, !.loading = loading,
                       !.opened = opened, !.raced = raced, !.slipped = slipped,
                       !.calls = People!Send(People!Ask(op, "nobody"))]
    BY <1>0, <1>00, <1>2 DEF AcShell
  <2>2. op \in AcOps /\ op # "login" /\ ~(\E c \in acShell.calls : c.op = op)
    BY <1>2 DEF AcOps, People!CanAsk
  <2>3. op # "login" => opened = acShell.opened
    BY <1>00
  <2>4. "nobody" \in AcNames /\ user = acShell.user /\ raced = acShell.raced /\ slipped = acShell.slipped
    BY <1>0, <1>00
  <2>5. UNCHANGED <<acUsers, acSessions, acDesk, acTorn>>
    BY <1>2
  <2> QED  BY <2>1, <2>2, <2>3, <2>4, <2>5, AcAsks
<1>3. ASSUME NEW u \in Accounts, People!LoginSubmit(u)
      PROVE  AcInv'
  <2>0. acShell.opened < MaxLogins
    BY <1>3 DEF People!LoginSubmit
  <2>1. PICK n \in 0..MaxLogins : n = acShell.opened + 1
    BY <1>00, <2>0, AcBounds
  <2>2. acShell' = [acShell EXCEPT !.user = acShell.user, !.loading = acShell.loading,
                       !.opened = n, !.raced = acShell.raced, !.slipped = acShell.slipped,
                       !.calls = People!Send(People!Ask("login", u))]
    BY <1>0, <1>3, <2>1 DEF People!LoginSubmit, AcShell
  <2>3. ~(\E c \in acShell.calls : c.op = "login") /\ UNCHANGED <<acUsers, acSessions, acDesk, acTorn>>
    BY <1>3 DEF People!LoginSubmit, People!CanAsk
  <2>4. "login" \in AcOps /\ u \in AcNames /\ n = acShell.opened + 1
    BY <1>0, <2>1 DEF AcOps
  <2>5. acShell' = [acShell EXCEPT !.user = user, !.loading = loading, !.opened = n, !.raced = raced,
                       !.slipped = slipped, !.calls = People!Send(People!Ask("login", u))]
    BY <1>00, <2>2
  <2> QED  BY <1>00, <2>3, <2>4, <2>5, AcAsks
<1> QED  BY <1>0, <1>1, <1>2, <1>3 DEF People!PageAsks, People!signOut, People!ChangeSubmit

\* A request answered: what the page shows is nobody, as before, or what the
\* answer said, with the cookie it brought.
LEMMA AcEnds ==
  ASSUME AcInv, UNCHANGED <<acUsers, acSessions, acDesk, acTorn>>, NEW c \in acShell.calls,
         NEW user \in AcUser, NEW cookie \in 0..MaxLogins, NEW loading \in BOOLEAN, NEW raced \in BOOLEAN,
         acShell' = [acShell EXCEPT !.calls = @ \ {c}, !.user = user, !.cookie = cookie,
                                    !.loading = loading, !.raced = raced],
         \/ user = People!NoUser /\ cookie \in {acShell.cookie, 0} /\ raced = acShell.raced
         \/ user = acShell.user /\ cookie = acShell.cookie /\ raced = acShell.raced
         \/ /\ c.at = "served" /\ c.op \in {"me", "change"} /\ user = c.seen
            /\ cookie = acShell.cookie /\ raced = acShell.raced
         \/ /\ c.at = "served" /\ c.op = "login" /\ user = c.seen /\ cookie = c.as
            /\ ~raced => ~acShell.raced /\ ~(\E d \in acShell.calls : d.op \in {"me", "change"})
  PROVE  AcInv'
<1>0. acShell.cookie \in 0..MaxLogins /\ acShell.calls \subseteq AcCall /\ acShell.opened \in 0..MaxLogins
      /\ AcTickets /\ AcAnswers /\ AcScreen /\ acShell \in AcShell
      /\ \A d \in acShell.calls : d.as \in 0..MaxLogins
  BY DEF AcInv, AcShape, AcShell, AcCall
<1>1. /\ acShell' \in AcShell /\ acShell'.user = user /\ acShell'.cookie = cookie
      /\ acShell'.opened = acShell.opened /\ acShell'.raced = raced /\ acShell'.calls = acShell.calls \ {c}
      /\ acShell'.slipped = acShell.slipped
  BY <1>0 DEF AcShell
<1>2. AcTickets'
  <2>1. cookie <= acShell.opened
    BY <1>0, AcBounds DEF AcTickets
  <2>2. ASSUME NEW d \in acShell.calls \ {c}, Opening(d)
        PROVE  cookie < acShell.opened
    BY <1>0, <2>2, AcBounds DEF AcTickets, Opening
  <2> QED  BY <1>0, <1>1, <2>1, <2>2 DEF AcTickets, Opening
<1>3. AcAnswers'
  BY <1>0, <1>1 DEF AcAnswers, Alive, Fits
<1>4. AcScreen'
  <2> SUFFICES ASSUME ~raced
               PROVE  /\ \A d \in acShell.calls \ {c} : d.op \in {"me", "change"} /\ cookie # 0 => d.as = cookie
                      /\ user # People!NoUser /\ Alive(cookie) => Fits(user, cookie)
    BY <1>1 DEF AcScreen, Alive, Fits
  <2>0. ~acShell.raced
    OBVIOUS
  <2>1. \A d \in acShell.calls \ {c} : d.op \in {"me", "change"} /\ cookie # 0 => d.as = cookie
    BY <1>0, <2>0 DEF AcScreen
  <2>2. ASSUME user # People!NoUser, Alive(cookie)
        PROVE  Fits(user, cookie)
    <3>1. cookie # 0
      BY <2>2, AcBounds DEF Alive
    <3>2. CASE user = acShell.user /\ cookie = acShell.cookie
      BY <1>0, <2>0, <2>2, <3>2 DEF AcScreen
    <3>3. CASE c.at = "served" /\ c.op \in {"me", "change"} /\ user = c.seen /\ cookie = acShell.cookie
      <4>1. c.as = cookie
        BY <1>0, <2>0, <3>1, <3>3 DEF AcScreen
      <4> QED  BY <1>0, <2>2, <3>3, <4>1 DEF AcAnswers
    <3>4. CASE c.at = "served" /\ c.op = "login" /\ user = c.seen /\ cookie = c.as
      BY <1>0, <2>2, <3>4 DEF AcAnswers
    <3> QED  BY <2>2, <3>2, <3>3, <3>4
  <2> QED  BY <2>1, <2>2
<1> QED  BY <1>1, <1>2, <1>3, <1>4, AcShellStep

LEMMA AcAnswered ==
  ASSUME AcInv, NEW c \in acShell.calls,
         \/ People!Refused(c) \/ People!expired(c) \/ People!SignedIn(c) \/ People!SignedOut(c)
         \/ People!refresh(c, c.seen) \/ People!refresh(c, People!NoUser)
  PROVE  AcInv'
<1>0. /\ acShell \in AcShell /\ acShell.user \in AcUser /\ acShell.loading \in BOOLEAN
      /\ acShell.cookie \in 0..MaxLogins /\ acShell.raced \in BOOLEAN /\ 0 \in 0..MaxLogins
      /\ c.seen \in AcUser /\ c.as \in 0..MaxLogins /\ People!NoUser \in AcUser
  BY AcAbsent, AcBounds DEF AcInv, AcShape, AcShell, AcCall
<1>00. PICK user0 \in AcUser, loading0 \in BOOLEAN, cookie0 \in 0..MaxLogins, raced0 \in BOOLEAN :
         user0 = acShell.user /\ loading0 = acShell.loading /\ cookie0 = acShell.cookie /\ raced0 = acShell.raced
  BY <1>0
<1>1. UNCHANGED <<acUsers, acSessions, acDesk, acTorn>>
  BY DEF People!Refused, People!expired, People!SignedIn, People!SignedOut, People!refresh
<1>2. CASE People!Refused(c) \/ People!expired(c)
  <2>1. PICK user \in {acShell.user, People!NoUser} :
          acShell' = [acShell EXCEPT !.calls = @ \ {c}, !.user = user]
    BY <1>2 DEF People!Refused, People!expired
  <2>2. acShell' = [acShell EXCEPT !.calls = @ \ {c}, !.user = user, !.cookie = cookie0,
                                   !.loading = loading0, !.raced = raced0]
    BY <1>0, <1>00, <2>1 DEF AcShell
  <2>3. user \in AcUser /\ (user = acShell.user \/ user = People!NoUser)
    BY <1>0, <2>1
  <2> QED  BY <1>0, <1>00, <1>1, <2>2, <2>3, AcEnds, ZenonT(60)
<1>3. CASE People!refresh(c, c.seen) \/ People!refresh(c, People!NoUser)
  <2>1. PICK user \in AcUser :
          /\ user = c.seen \/ user = People!NoUser
          /\ acShell' = [acShell EXCEPT !.calls = @ \ {c}, !.user = user, !.loading = FALSE]
    BY <1>0, <1>00, <1>3 DEF People!refresh
  <2>2. acShell' = [acShell EXCEPT !.calls = @ \ {c}, !.user = user, !.cookie = cookie0,
                                   !.loading = FALSE, !.raced = raced0]
    BY <1>0, <1>00, <2>1 DEF AcShell
  <2>3. c.at = "served" /\ c.op = "me"
    BY <1>3 DEF People!refresh
  <2>4. CASE user = People!NoUser
    BY <1>00, <1>1, <2>2, <2>4, AcEnds, ZenonT(60)
  <2>5. CASE user = c.seen
    BY <1>00, <1>1, <2>2, <2>3, <2>5, AcEnds, ZenonT(60)
  <2> QED  BY <2>1, <2>4, <2>5
<1>4. CASE People!SignedIn(c) /\ c.op = "login"
  <2>1. PICK raced \in BOOLEAN :
          raced = (acShell.raced \/ \E d \in acShell.calls : d.op \in {"me", "change"})
    OBVIOUS
  <2>2. acShell' = [acShell EXCEPT !.calls = @ \ {c}, !.user = c.seen, !.cookie = c.as,
                                   !.loading = loading0, !.raced = raced]
    BY <1>0, <1>00, <1>4, <2>1 DEF AcShell, People!SignedIn
  <2>3. c.at = "served"
    BY <1>4 DEF People!SignedIn
  <2>4. c.op = "login" /\ c.seen \in AcUser /\ c.as \in 0..MaxLogins
    BY <1>0, <1>4
  <2>5. ~raced => ~acShell.raced /\ ~(\E d \in acShell.calls : d.op \in {"me", "change"})
    BY <2>1
  <2> QED  BY <1>00, <1>1, <2>2, <2>3, <2>4, <2>5, AcEnds, ZenonT(60)
<1>5. CASE People!SignedIn(c) /\ c.op # "login"
  <2>1. acShell' = [acShell EXCEPT !.calls = @ \ {c}, !.user = c.seen, !.cookie = cookie0,
                                   !.loading = loading0, !.raced = raced0]
    BY <1>0, <1>00, <1>5 DEF AcShell, People!SignedIn
  <2>2. c.at = "served" /\ c.op = "change"
    BY <1>5 DEF People!SignedIn
  <2> QED  BY <1>0, <1>00, <1>1, <2>1, <2>2, AcEnds, ZenonT(60)
<1>6. CASE People!SignedOut(c)
  <2>1. PICK cookie \in 0..MaxLogins :
          /\ cookie \in {acShell.cookie, 0}
          /\ acShell' = [acShell EXCEPT !.calls = @ \ {c}, !.user = People!NoUser, !.cookie = cookie]
    BY <1>0, <1>00, <1>6 DEF People!SignedOut
  <2>2. acShell' = [acShell EXCEPT !.calls = @ \ {c}, !.user = People!NoUser, !.cookie = cookie,
                                   !.loading = loading0, !.raced = raced0]
    BY <1>0, <1>00, <2>1 DEF AcShell
  <2>3. cookie \in {acShell.cookie, 0} /\ cookie \in 0..MaxLogins /\ raced0 = acShell.raced
    BY <1>00, <2>1
  <2> QED  BY <1>1, <2>2, <2>3, AcAbsent, AcEnds, ZenonT(60)
<1> QED  BY <1>2, <1>3, <1>4, <1>5, <1>6

\* What a change at the server leaves of a session, as far as the browser's
\* knowledge of it goes.
Leaves(s) ==
  Alive(s)' =>
    /\ Alive(s) /\ acSessions'[s] = acSessions[s]
    /\ acUsers'[acSessions[s]].must => acUsers[acSessions[s]].must

\* One request of the browser takes the place of another.
Swapped(c, d) ==
  /\ acShell' \in AcShell /\ acShell'.user = acShell.user /\ acShell'.cookie = acShell.cookie
  /\ acShell'.opened = acShell.opened /\ acShell'.raced = acShell.raced
  /\ acShell'.calls = (acShell.calls \ {c}) \union {d} /\ acShell.slipped \subseteq acShell'.slipped

LEMMA AcSwaps ==
  ASSUME AcInv, NEW c \in acShell.calls, NEW d \in AcCall,
         acShell' = [acShell EXCEPT !.calls = People!Replace(c, d)]
  PROVE  Swapped(c, d)
<1>1. acShell.calls \subseteq AcCall /\ acShell \in AcShell
  BY DEF AcInv, AcShape, AcShell
<1> QED  BY <1>1 DEF Swapped, AcShell, People!Replace

\* A request served: what was known stays known, and its answer is true.
LEMMA AcReplaces ==
  ASSUME AcInv, NEW c \in acShell.calls, NEW d \in AcCall, d.op = c.op, d.who = c.who,
         Swapped(c, d),
         d.as = c.as \/ (Opening(c) /\ d.as = acShell.opened),
         Opening(d) => Opening(c),
         \A s \in 0..MaxLogins : ~(Opening(c) /\ s = acShell.opened) => Leaves(s),
         d.at = "served" /\ d.op \in {"me", "login", "change"} /\ d.seen # People!NoUser /\ Alive(d.as)'
           => Fits(d.seen, d.as)'
  PROVE  acShell' \in AcShell /\ AcTickets' /\ AcAnswers' /\ AcScreen'
<1>0. acShell.cookie \in 0..MaxLogins /\ acShell.calls \subseteq AcCall /\ acShell.opened \in 0..MaxLogins
      /\ AcTickets /\ AcAnswers /\ AcScreen /\ acShell \in AcShell
      /\ \A e \in acShell.calls : e.as \in 0..MaxLogins
  BY DEF AcInv, AcShape, AcShell, AcCall
<1>1. /\ acShell' \in AcShell /\ acShell'.user = acShell.user /\ acShell'.cookie = acShell.cookie
      /\ acShell'.opened = acShell.opened /\ acShell'.raced = acShell.raced
      /\ acShell'.calls = (acShell.calls \ {c}) \union {d} /\ acShell.slipped \subseteq acShell'.slipped
  BY DEF Swapped
<1>2. AcTickets'
  <2>1. d.as <= acShell.opened
    BY <1>0, AcBounds DEF AcTickets
  <2>2. d.op = "login" => d.who \in Accounts
    BY <1>0 DEF AcTickets
  <2>3. \A e \in acShell'.calls : Opening(e) =>
          acShell.cookie < acShell.opened
          /\ \A f \in acShell'.calls : f.op # "login" => f.as < acShell.opened
    <3>1. ASSUME NEW e \in acShell'.calls, Opening(e)
          PROVE  \E g \in acShell.calls : Opening(g)
      BY <1>1, <3>1
    <3>2. ASSUME NEW f \in acShell'.calls, f.op # "login", \E g \in acShell.calls : Opening(g)
          PROVE  f.as < acShell.opened
      <4>1. d.op # "login" => d.as = c.as
        BY DEF Opening
      <4> QED  BY <1>0, <1>1, <3>2, <4>1 DEF AcTickets
    <3> QED  BY <1>0, <3>1, <3>2 DEF AcTickets
  <2> QED  BY <1>0, <1>1, <2>1, <2>2, <2>3 DEF AcTickets, Opening
<1>3. \A e \in acShell.calls \ {c} : Leaves(e.as)
  BY <1>0, AcBounds DEF AcTickets, Opening
<1>4. AcAnswers'
  <2> SUFFICES ASSUME NEW e \in acShell'.calls, e.at = "served", e.op \in {"me", "login", "change"},
                      e.seen # People!NoUser, Alive(e.as)'
               PROVE  Fits(e.seen, e.as)'
    BY DEF AcAnswers, Alive, Fits
  <2>1. CASE e = d
    BY <2>1
  <2>2. CASE e \in acShell.calls \ {c}
    <3>1. Fits(e.seen, e.as)
      BY <1>0, <1>3, <2>2 DEF AcAnswers, Leaves
    <3> QED  BY <1>1, <1>3, <2>2, <3>1 DEF Fits, Leaves
  <2> QED  BY <1>1, <2>1, <2>2
<1>5. AcScreen'
  <2> SUFFICES ASSUME ~acShell.raced
               PROVE  /\ \A e \in acShell'.calls : e.op \in {"me", "change"} /\ acShell.cookie # 0
                                               => e.as = acShell.cookie
                      /\ acShell.user # People!NoUser /\ Alive(acShell.cookie)'
                           => Fits(acShell.user, acShell.cookie)'
    BY <1>1 DEF AcScreen, Alive, Fits
  <2>1. \A e \in acShell'.calls : e.op \in {"me", "change"} /\ acShell.cookie # 0 => e.as = acShell.cookie
    BY <1>0, <1>1 DEF AcScreen, Opening
  <2>2. Leaves(acShell.cookie)
    BY <1>0, AcBounds DEF AcTickets
  <2>3. acShell.user # People!NoUser /\ Alive(acShell.cookie)' => Fits(acShell.user, acShell.cookie)'
    BY <1>0, <1>1, <2>2 DEF AcScreen, Fits, Leaves, Alive
  <2> QED  BY <2>1, <2>3
<1> QED  BY <1>1, <1>2, <1>4, <1>5

LEMMA ServedIs ==
  ASSUME NEW c \in AcCall, NEW user \in AcUser, NEW s \in 0..MaxLogins
  PROVE  \E d \in AcCall : /\ d = People!Served(c, user, s) /\ d.op = c.op /\ d.who = c.who
                           /\ d.as = s /\ d.at = "served" /\ d.seen = user
<1>1. People!Served(c, user, s) \in AcCall
  BY DEF People!Served, AcCall
<1>2. LET d == People!Served(c, user, s) IN
        /\ d.op = c.op /\ d.who = c.who /\ d.as = s /\ d.at = "served" /\ d.seen = user
  BY DEF People!Served, AcCall
<1> QED  BY <1>1, <1>2

\* An account the server has, read for an answer.
LEMMA ReadIs ==
  ASSUME AcInv, NEW u \in Accounts, People!There(u)
  PROVE  acUsers[u] \in AcRow /\ People!Read(u) \in AcUser /\ People!Read(u).name = u
         /\ People!Read(u).must = acUsers[u].must
<1>1. acUsers[u] \in AcRow
  BY DEF AcInv, AcShape, AcKept, People!There
<1> QED  BY <1>1 DEF AcRow, AcUser, People!Row, People!Read

LEMMA ServesIs ==
  ASSUME AcInv, NEW s \in 0..MaxLogins, People!Serves(s)
  PROVE  s \in 1..MaxLogins /\ acSessions[s] \in Accounts /\ People!There(acSessions[s])
BY AcBounds DEF AcInv, AcShape, AcNames, People!Serves, People!Anonymous

LEMMA AcServed ==
  ASSUME AcInv, NEW c \in acShell.calls, People!MeServed(c) \/ People!LoginChecked(c)
  PROVE  AcInv'
<1>0. /\ c \in AcCall /\ c.as \in 0..MaxLogins /\ UNCHANGED <<acUsers, acSessions, acDesk, acTorn>>
      /\ acUsers \in [Accounts -> AcKept] /\ acSessions \in [1..MaxLogins -> AcNames]
  BY DEF AcInv, AcShape, AcShell, AcCall, People!MeServed, People!LoginChecked
<1>1. \A s : Leaves(s)
  BY <1>0 DEF Leaves, Alive
<1>2. CASE People!MeServed(c)
  <2>1. PICK user \in AcUser :
          /\ acShell' = [acShell EXCEPT !.calls = People!Replace(c, People!Served(c, user, c.as))]
          /\ user # People!NoUser => Fits(user, c.as)
    <3>1. CASE People!Serves(c.as)
      <4>1. c.as \in 1..MaxLogins /\ acSessions[c.as] \in Accounts
            /\ acUsers[acSessions[c.as]] \in AcRow
        BY <1>0, <3>1, AcBounds DEF People!Serves, People!There, People!Anonymous, AcNames, AcKept
      <4>2. People!Read(acSessions[c.as]) \in AcUser
        BY <4>1 DEF People!Read, AcUser, AcRow, People!Row
      <4>3. Fits(People!Read(acSessions[c.as]), c.as)
        BY DEF Fits, People!Read
      <4> QED  BY <1>2, <3>1, <4>2, <4>3 DEF People!MeServed
    <3>2. CASE ~People!Serves(c.as)
      BY <1>2, <3>2, AcAbsent DEF People!MeServed
    <3> QED  BY <3>1, <3>2
  <2>2. PICK d \in AcCall : /\ d = People!Served(c, user, c.as) /\ d.op = c.op /\ d.who = c.who
                            /\ d.as = c.as /\ d.at = "served" /\ d.seen = user
    BY <1>0, ServedIs
  <2>3. acShell' = [acShell EXCEPT !.calls = People!Replace(c, d)]
    BY <2>1, <2>2
  <2>4. ~Opening(d) /\ (d.seen # People!NoUser => Fits(d.seen, d.as)')
    BY <1>0, <2>1, <2>2 DEF Opening, Fits
  <2>5. Swapped(c, d)
    BY <2>3, AcSwaps
  <2>6. acShell' \in AcShell /\ AcTickets' /\ AcAnswers' /\ AcScreen'
    BY <1>1, <2>2, <2>4, <2>5, AcReplaces
  <2> QED  BY <1>0, <2>6, AcShellStep
<1>3. CASE People!LoginChecked(c)
  <2>1. PICK user \in AcUser : user = People!Read(c.who)
    <3>1. c.who \in Accounts /\ People!There(c.who)
      BY <1>3 DEF AcInv, AcTickets, People!LoginChecked
    <3> QED  BY <3>1, ReadIs
  <2>2. PICK d \in AcCall : /\ d = [c EXCEPT !.at = "checked", !.seen = user] /\ d.op = c.op
                            /\ d.who = c.who /\ d.as = c.as /\ d.at = "checked"
    <3> DEFINE e == [c EXCEPT !.at = "checked", !.seen = user]
    <3>1. e \in AcCall
      BY <1>0 DEF AcCall
    <3>2. e.op = c.op /\ e.who = c.who /\ e.as = c.as /\ e.at = "checked"
      BY <1>0 DEF AcCall
    <3> QED  BY <3>1, <3>2
  <2>3. acShell' = [acShell EXCEPT !.calls = People!Replace(c, d)] /\ Opening(c)
    BY <1>3, <2>1, <2>2 DEF People!LoginChecked, Opening
  <2>4. Swapped(c, d)
    BY <2>3, AcSwaps
  <2>5. acShell' \in AcShell /\ AcTickets' /\ AcAnswers' /\ AcScreen'
    BY <1>1, <2>2, <2>3, <2>4, AcReplaces
  <2> QED  BY <1>0, <2>5, AcShellStep
<1> QED  BY <1>2, <1>3

\* Nothing the Users page shows or does depends on sessions or on "must change".
SameAccounts ==
  \A u \in Accounts : /\ acUsers'[u] = People!Absent <=> acUsers[u] = People!Absent
                      /\ acUsers'[u].active = acUsers[u].active
                      /\ acUsers'[u].grants = acUsers[u].grants
LEMMA AcDeskSame ==
  ASSUME AcInv, UNCHANGED <<acDesk, acTorn>>, SameAccounts
  PROVE  AcJob' /\ AcRows' /\ acDesk' \in AcDesk /\ acTorn' \subseteq Accounts
<1>1. AcJob /\ AcRows /\ acDesk \in AcDesk /\ acTorn \subseteq Accounts
  BY DEF AcInv, AcShape
<1>2. AcJob'
  BY <1>1 DEF AcJob, SameAccounts
<1>3. \A u \in Accounts : \A rows : Truly(rows, u) => Truly(rows, u)'
  BY DEF Truly, SameAccounts
<1>4. AcRows'
  BY <1>1, <1>3 DEF AcRows, RowOf, None, Truly
<1> QED  BY <1>1, <1>2, <1>4

LEMMA AcCommitted ==
  ASSUME AcInv, NEW c \in acShell.calls, People!LoginCommitted(c)
  PROVE  AcInv'
<1>0. /\ c \in AcCall /\ c.who \in Accounts /\ acShell.opened \in 0..MaxLogins
      /\ c.op = "login" /\ c.at = "checked" /\ People!There(c.who) /\ Opening(c)
      /\ UNCHANGED <<acUsers, acDesk, acTorn>>
      /\ acSessions' = [acSessions EXCEPT ![acShell.opened] = c.who]
      /\ acUsers \in [Accounts -> AcKept] /\ acSessions \in [1..MaxLogins -> AcNames]
  BY DEF AcInv, AcShape, AcShell, AcTickets, People!LoginCommitted, Opening
<1>1. PICK must \in BOOLEAN : must = c.seen.must
  <2>1. c.seen \in AcUser
    BY <1>0 DEF AcCall
  <2>2. CASE c.seen = People!NoUser
    <3>1. c.seen.must = FALSE
      BY <2>2 DEF People!NoUser
    <3> QED  BY <3>1
  <2>3. CASE c.seen # People!NoUser
    BY <2>1, <2>3, AcAbsent
  <2> QED  BY <2>2, <2>3
<1>11. PICK user \in AcUser : user = [People!Read(c.who) EXCEPT !.must = must] /\ user.name = c.who
                               /\ user.must = must
  <2>1. PICK r \in [name : Accounts, must : BOOLEAN, grants : SUBSET Grants] :
          r = People!Read(c.who) /\ r.name = c.who
    BY <1>0, ReadIs DEF People!Read, AcRow, People!Row
  <2>2. [r EXCEPT !.must = must] \in AcUser /\ [r EXCEPT !.must = must].name = c.who
        /\ [r EXCEPT !.must = must].must = must
    BY <2>1 DEF AcUser
  <2> QED  BY <2>1, <2>2
<1>2. PICK d \in AcCall : /\ d = People!Served(c, user, acShell.opened) /\ d.op = c.op /\ d.who = c.who
                          /\ d.as = acShell.opened /\ d.at = "served" /\ d.seen = user
  BY <1>0, ServedIs
<1>3. /\ acShell' = [acShell EXCEPT !.calls = People!Replace(c, d), !.slipped = @ \union People!Slips(c)]
      /\ acShell.opened \in 1..MaxLogins
  <2>1. acShell' = [acShell EXCEPT !.calls = People!Replace(c, d), !.slipped = @ \union People!Slips(c)]
    BY <1>1, <1>11, <1>2 DEF People!LoginCommitted
  <2>2. acShell.cookie \in 0..MaxLogins /\ acShell.cookie < acShell.opened
    BY <1>0 DEF AcInv, AcShape, AcShell, AcTickets
  <2> QED  BY <1>0, <2>1, <2>2, AcBounds
<1>12. /\ Swapped(c, d)
       /\ acUsers[c.who].must /\ ~must => acShell.opened \in acShell'.slipped
  <2>1. People!Slips(c) \subseteq 1..MaxLogins
    BY <1>3 DEF People!Slips
  <2>2. acUsers[c.who].must /\ ~must => acShell.opened \in People!Slips(c)
    BY <1>1 DEF People!Slips
  <2>3. acShell \in AcShell
    BY DEF AcInv, AcShape
  <2>4. /\ acShell' \in AcShell /\ acShell'.user = acShell.user /\ acShell'.cookie = acShell.cookie
        /\ acShell'.opened = acShell.opened /\ acShell'.raced = acShell.raced
        /\ acShell'.calls = (acShell.calls \ {c}) \union {d}
        /\ acShell'.slipped = acShell.slipped \union People!Slips(c)
    <3>1. acShell.slipped \union People!Slips(c) \subseteq 1..MaxLogins
      BY <2>1, <2>3 DEF AcShell
    <3>2. People!Replace(c, d) = (acShell.calls \ {c}) \union {d} /\ People!Replace(c, d) \subseteq AcCall
      BY <2>3 DEF People!Replace, AcShell
    <3> QED  BY <1>3, <2>3, <3>1, <3>2 DEF AcShell
  <2> QED  BY <2>2, <2>4 DEF Swapped
<1>4. \A s \in 0..MaxLogins : s # acShell.opened => Leaves(s)
  BY <1>0 DEF Leaves, Alive
<1>5. Fits(d.seen, d.as)'
  BY <1>0, <1>11, <1>12, <1>2, <1>3 DEF Fits
<1>6. ~Opening(d)
  BY <1>2 DEF Opening
<1>7. acShell' \in AcShell /\ AcTickets' /\ AcAnswers' /\ AcScreen'
  BY <1>0, <1>2, <1>4, <1>5, <1>6, <1>12, AcReplaces
<1>8. acSessions' \in [1..MaxLogins -> AcNames]
  BY <1>0 DEF AcNames
<1>9. AcHeld'
  BY <1>0 DEF AcInv, AcHeld, People!There
<1>10. AcJob' /\ AcRows' /\ acDesk' \in AcDesk /\ acTorn' \subseteq Accounts
  BY <1>0, AcDeskSame DEF SameAccounts
<1> QED  BY <1>0, <1>7, <1>8, <1>9, <1>10 DEF AcInv, AcShape

LEMMA AcLogout ==
  ASSUME AcInv, NEW c \in acShell.calls, People!LogoutServed(c)
  PROVE  AcInv'
<1>0. /\ c \in AcCall /\ c.as \in 0..MaxLogins /\ c.op = "logout"
      /\ UNCHANGED <<acUsers, acDesk, acTorn>>
      /\ acUsers \in [Accounts -> AcKept] /\ acSessions \in [1..MaxLogins -> AcNames]
  BY DEF AcInv, AcShape, AcShell, AcCall, People!LogoutServed
<1>1. \A s \in 1..MaxLogins : acSessions'[s] \in {acSessions[s], "nobody"}
  BY <1>0 DEF People!LogoutServed, People!Anonymous
<1>2. acSessions' \in [1..MaxLogins -> AcNames]
  BY <1>0 DEF People!LogoutServed, People!Anonymous, AcNames
<1>3. PICK user \in AcUser :
        acShell' = [acShell EXCEPT !.calls = People!Replace(c, People!Served(c, user, c.as))]
  <2>1. CASE People!Serves(c.as)
    BY <1>0, <2>1, ServesIs, ReadIs DEF People!LogoutServed
  <2>2. CASE ~People!Serves(c.as)
    BY <2>2, AcAbsent DEF People!LogoutServed
  <2> QED  BY <2>1, <2>2
<1>4. PICK d \in AcCall : /\ d = People!Served(c, user, c.as) /\ d.op = c.op /\ d.who = c.who
                          /\ d.as = c.as /\ d.at = "served" /\ d.seen = user
  BY <1>0, ServedIs
<1>5. \A s : Leaves(s)
  BY <1>0, <1>1 DEF Leaves, Alive
<1>6. acShell' = [acShell EXCEPT !.calls = People!Replace(c, d)] /\ ~Opening(d)
      /\ d.op \notin {"me", "login", "change"}
  BY <1>0, <1>3, <1>4 DEF Opening
<1>10. Swapped(c, d)
  BY <1>6, AcSwaps
<1>7. acShell' \in AcShell /\ AcTickets' /\ AcAnswers' /\ AcScreen'
  BY <1>4, <1>5, <1>6, <1>10, AcReplaces
<1>8. AcHeld'
  BY <1>0, <1>1 DEF AcInv, AcHeld
<1>9. AcJob' /\ AcRows' /\ acDesk' \in AcDesk /\ acTorn' \subseteq Accounts
  BY <1>0, AcDeskSame DEF SameAccounts
<1> QED  BY <1>0, <1>2, <1>7, <1>8, <1>9 DEF AcInv, AcShape

LEMMA AcChanged ==
  ASSUME AcInv, NEW c \in acShell.calls, People!ChangeServed(c)
  PROVE  AcInv'
<1>0. /\ c \in AcCall /\ c.as \in 0..MaxLogins /\ c.op = "change" /\ People!Serves(c.as)
      /\ UNCHANGED <<acDesk, acTorn>>
      /\ acUsers \in [Accounts -> AcKept] /\ acSessions \in [1..MaxLogins -> AcNames]
  BY DEF AcInv, AcShape, AcShell, AcCall, People!ChangeServed
<1>1. PICK u \in Accounts : u = acSessions[c.as] /\ People!There(u) /\ c.as \in 1..MaxLogins
  BY <1>0, ServesIs
<1>2. /\ acUsers' = [acUsers EXCEPT ![u].must = FALSE]
      /\ acSessions' = [s \in 1..MaxLogins |-> IF acSessions[s] = u /\ s # c.as THEN "nobody" ELSE acSessions[s]]
      /\ acShell' = [acShell EXCEPT !.calls =
                        People!Replace(c, People!Served(c, [People!Read(u) EXCEPT !.must = FALSE], c.as))]
  BY <1>0, <1>1 DEF People!ChangeServed, People!Anonymous
<1>3. PICK row \in AcRow : /\ row = [acUsers[u] EXCEPT !.must = FALSE] /\ row.must = FALSE
                           /\ row.active = acUsers[u].active /\ row.grants = acUsers[u].grants
  <2>1. PICK r \in AcRow : r = acUsers[u]
    BY <1>1, ReadIs
  <2>2. [r EXCEPT !.must = FALSE] \in AcRow /\ [r EXCEPT !.must = FALSE].must = FALSE
        /\ [r EXCEPT !.must = FALSE].active = r.active /\ [r EXCEPT !.must = FALSE].grants = r.grants
    BY DEF AcRow, People!Row
  <2> QED  BY <2>1, <2>2
<1>4. acUsers' = [acUsers EXCEPT ![u] = row] /\ acUsers' \in [Accounts -> AcKept]
  BY <1>0, <1>2, <1>3 DEF AcKept
<1>5. acSessions' \in [1..MaxLogins -> AcNames] /\ acSessions'[c.as] = u
      /\ \A s \in 1..MaxLogins : acSessions'[s] \in {acSessions[s], "nobody"}
  BY <1>0, <1>1, <1>2 DEF AcNames
<1>6. PICK user \in AcUser : user = [People!Read(u) EXCEPT !.must = FALSE] /\ user.name = u
  <2>1. People!Read(u) \in [name : Accounts, must : BOOLEAN, grants : SUBSET Grants] /\ People!Read(u).name = u
    BY <1>1, ReadIs DEF People!Read, AcRow, People!Row
  <2>2. PICK r \in [name : Accounts, must : BOOLEAN, grants : SUBSET Grants] :
          r = People!Read(u) /\ r.name = u
    BY <2>1
  <2>3. [r EXCEPT !.must = FALSE] \in AcUser /\ [r EXCEPT !.must = FALSE].name = u
    BY <2>2 DEF AcUser
  <2> QED  BY <2>2, <2>3
<1>7. PICK d \in AcCall : /\ d = People!Served(c, user, c.as) /\ d.op = c.op /\ d.who = c.who
                          /\ d.as = c.as /\ d.at = "served" /\ d.seen = user
  BY <1>0, ServedIs
<1>8. acShell' = [acShell EXCEPT !.calls = People!Replace(c, d)] /\ ~Opening(d)
  BY <1>2, <1>6, <1>7 DEF Opening
<1>9. ~acUsers'[u].must /\ \A v \in Accounts : v # u => acUsers'[v] = acUsers[v]
  BY <1>0, <1>3, <1>4
<1>10. \A s \in 0..MaxLogins : Leaves(s)
  BY <1>0, <1>5, <1>9 DEF Leaves, Alive, AcNames
<1>11. Fits(d.seen, d.as)'
  BY <1>5, <1>6, <1>7, <1>9 DEF Fits
<1>16. Swapped(c, d)
  BY <1>8, AcSwaps
<1>12. acShell' \in AcShell /\ AcTickets' /\ AcAnswers' /\ AcScreen'
  BY <1>7, <1>8, <1>10, <1>11, <1>16, AcReplaces
<1>13. SameAccounts
  BY <1>0, <1>1, <1>3, <1>4, AcAbsent DEF People!There, SameAccounts
<1>14. AcHeld'
  BY <1>0, <1>5, <1>13 DEF AcInv, AcHeld, AcNames, SameAccounts
<1>15. AcJob' /\ AcRows' /\ acDesk' \in AcDesk /\ acTorn' \subseteq Accounts
  BY <1>0, <1>13, AcDeskSame
<1> QED  BY <1>4, <1>5, <1>12, <1>14, <1>15 DEF AcInv, AcShape

-----------------------------------------------------------------------------
(* The Users page.                                                         *)

\* A step of the page alone.
LEMMA AcDeskStep ==
  ASSUME AcInv, UNCHANGED <<acUsers, acSessions, acShell>>, acDesk' \in AcDesk, acTorn' \subseteq Accounts,
         AcJob', AcRows'
  PROVE  AcInv'
BY DEF AcInv, AcShape, AcHeld, AcTickets, Opening, AcAnswers, AcScreen, Alive, Fits

\* A step of the server for the page: sessions may end, and a new password is due
\* from no account that keeps one.
LEMMA AcServerStep ==
  ASSUME AcInv, UNCHANGED acShell, acUsers' \in [Accounts -> AcKept], acSessions' \in [1..MaxLogins -> AcNames],
         \A s \in 1..MaxLogins :
           acSessions'[s] # "nobody" =>
             /\ acSessions'[s] = acSessions[s]
             /\ acUsers'[acSessions[s]] # People!Absent
             /\ acUsers'[acSessions[s]].must => acUsers[acSessions[s]].must,
         acDesk' \in AcDesk, acTorn' \subseteq Accounts, AcJob', AcRows'
  PROVE  AcInv'
<1>1. AcShape' /\ AcHeld'
  BY DEF AcInv, AcShape, AcHeld
<1>2. \A s : Leaves(s)
  BY DEF Leaves, Alive
<1>3. AcTickets'
  BY DEF AcInv, AcTickets, Opening
<1>4. AcAnswers'
  BY <1>2 DEF AcInv, AcAnswers, Leaves, Alive, Fits
<1>5. AcScreen'
  BY <1>2 DEF AcInv, AcScreen, Leaves, Alive, Fits
<1> QED  BY <1>1, <1>3, <1>4, <1>5 DEF AcInv

LEMMA ListedIs == \A u \in Accounts : Truly(People!Listed, u)
<1> SUFFICES ASSUME NEW u \in Accounts, NEW r \in AcLine, r.name = u
             PROVE  r \in People!Listed <=> /\ acUsers[u] # People!Absent
                                            /\ r.active = acUsers[u].active /\ r.grants = acUsers[u].grants
  BY DEF Truly
<1>1. r = [name |-> r.name, active |-> r.active, grants |-> r.grants]
  BY DEF AcLine
<1>2. r \in People!Listed <=> \E v \in Accounts : /\ People!There(v)
                                                  /\ r = [name |-> v, active |-> acUsers[v].active,
                                                          grants |-> acUsers[v].grants]
  BY DEF People!Listed
<1> QED  BY <1>1, <1>2 DEF People!There

LEMMA ListedLines == AcInv => People!Listed \subseteq AcLine
<1> SUFFICES ASSUME AcInv, NEW v \in Accounts, People!There(v)
             PROVE  [name |-> v, active |-> acUsers[v].active, grants |-> acUsers[v].grants] \in AcLine
  BY DEF People!Listed
<1> QED  BY ReadIs DEF AcRow, People!Row, AcLine

LEMMA AcLists ==
  ASSUME AcInv, People!UsersRead \/ People!UsersShown \/ People!UsersFail
  PROVE  AcInv'
<1>0. /\ UNCHANGED <<acUsers, acSessions, acShell, acTorn>> /\ acDesk.loading
      /\ acDesk \in AcDesk /\ acTorn \subseteq Accounts /\ AcJob /\ AcRows
  BY DEF AcInv, AcShape, People!UsersRead, People!UsersShown, People!UsersFail
<1>1. CASE People!UsersRead
  <2>1. PICK list \in SUBSET AcLine : list = People!Listed
    BY ListedLines
  <2>2. acDesk' = [acDesk EXCEPT !.list = list, !.listRead = TRUE]
    BY <1>1, <2>1 DEF People!UsersRead
  <2>3. /\ acDesk' \in AcDesk /\ acDesk'.list = list /\ acDesk'.job = acDesk.job /\ acDesk'.who = acDesk.who
        /\ acDesk'.form = acDesk.form /\ acDesk'.loading /\ acDesk'.rows = acDesk.rows
    BY <1>0, <2>2 DEF AcDesk
  <2>4. AcJob'
    BY <1>0, <2>3 DEF AcJob
  <2>5. \A u \in Accounts : Truly(list, u)
    BY <2>1, ListedIs
  <2>6. AcRows'
    <3>1. \A u \in Accounts : RowOf(u) => RowOf(u)'
      BY <1>0, <2>3 DEF RowOf, None, Truly
    <3> QED  BY <1>0, <2>3, <2>5, <3>1 DEF AcRows, Truly
  <2> QED  BY <1>0, <2>3, <2>4, <2>6, AcDeskStep
<1>2. CASE People!UsersShown
  <2>1. PICK list \in SUBSET AcLine : list = acDesk.list
    BY <1>0 DEF AcDesk
  <2>2. acDesk' = [acDesk EXCEPT !.rows = list, !.loading = FALSE, !.list = {}] /\ acDesk.listRead
    BY <1>2, <2>1 DEF People!UsersShown
  <2>3. /\ acDesk' \in AcDesk /\ acDesk'.rows = list /\ acDesk'.job = acDesk.job /\ acDesk'.who = acDesk.who
        /\ acDesk'.form = acDesk.form /\ ~acDesk'.loading
    BY <1>0, <2>2 DEF AcDesk
  <2>4. AcJob'
    BY <1>0, <2>3 DEF AcJob
  <2>5. \A u \in Accounts \ acTorn : Truly(list, u)
    BY <1>0, <2>1, <2>2 DEF AcRows
  <2>6. AcRows'
    BY <1>0, <2>3, <2>5 DEF AcRows, RowOf, Truly
  <2> QED  BY <1>0, <2>3, <2>4, <2>6, AcDeskStep
<1>3. CASE People!UsersFail
  <2>1. acDesk' = [acDesk EXCEPT !.loading = FALSE, !.list = {}, !.failed = TRUE]
    BY <1>3 DEF People!UsersFail
  <2>2. /\ acDesk' \in AcDesk /\ acDesk'.rows = acDesk.rows /\ acDesk'.job = acDesk.job
        /\ acDesk'.who = acDesk.who /\ acDesk'.form = acDesk.form /\ ~acDesk'.loading /\ acDesk'.failed
    BY <1>0, <2>1 DEF AcDesk
  <2>3. AcJob'
    BY <1>0, <2>2 DEF AcJob
  <2>4. \A u \in Accounts : RowOf(u) => RowOf(u)'
    BY <1>0, <2>2 DEF RowOf, None, Truly
  <2>5. AcRows'
    BY <1>0, <2>2, <2>4 DEF AcRows
  <2> QED  BY <1>0, <2>2, <2>3, <2>5, AcDeskStep
<1> QED  BY <1>1, <1>2, <1>3

\* Choosing, and the start of a save or a deletion.
LEMMA AcStarts ==
  ASSUME AcInv,
         \/ People!remove
         \/ \E u \in Accounts \union {People!Anonymous} : People!choose(u)
         \/ \E u \in Accounts, pass \in BOOLEAN, a \in BOOLEAN, g \in SUBSET Grants :
              People!save(u, [active |-> a, must |-> FALSE, grants |-> g], pass)
  PROVE  AcInv'
<1>0. acDesk \in AcDesk /\ acTorn \subseteq Accounts /\ AcJob /\ AcRows
      /\ People!Anonymous = "nobody" /\ Accounts \subseteq AcNames
  BY DEF AcInv, AcShape, People!Anonymous, AcNames
<1>00. PICK n \in Nat : n = acDesk.edits + 1
  BY <1>0 DEF AcDesk
<1>1. ASSUME NEW u \in Accounts \union {People!Anonymous}, People!choose(u)
      PROVE  AcInv'
  <2>1. acDesk' = [acDesk EXCEPT !.sel = u] /\ u \in AcNames /\ UNCHANGED <<acUsers, acSessions, acShell, acTorn>>
    BY <1>0, <1>1 DEF People!choose, AcNames
  <2>2. /\ acDesk' \in AcDesk /\ acDesk'.list = acDesk.list /\ acDesk'.job = acDesk.job
        /\ acDesk'.who = acDesk.who /\ acDesk'.form = acDesk.form /\ acDesk'.rows = acDesk.rows
        /\ acDesk'.loading = acDesk.loading /\ acDesk'.listRead = acDesk.listRead
        /\ acDesk'.failed = acDesk.failed
    BY <1>0, <2>1 DEF AcDesk
  <2>3. AcJob'
    BY <1>0, <2>1, <2>2 DEF AcJob
  <2>4. AcRows'
    BY <1>0, <2>1, <2>2 DEF AcRows, RowOf, None, Truly
  <2> QED  BY <1>0, <2>1, <2>2, <2>3, <2>4, AcDeskStep
<1>2. ASSUME NEW job \in {"create", "update", "delete"}, NEW u \in Accounts, NEW form \in AcKept,
             NEW pass \in BOOLEAN, job # "delete" => form \in AcRow, acDesk.job = "none",
             acDesk' = [acDesk EXCEPT !.job = job, !.who = u, !.form = form, !.pass = pass, !.edits = n],
             UNCHANGED <<acUsers, acSessions, acShell, acTorn>>
      PROVE  AcInv'
  <2>1. job \in AcJobs /\ u \in AcNames
    BY <1>0 DEF AcJobs
  <2>2. /\ acDesk' \in AcDesk /\ acDesk'.list = acDesk.list /\ acDesk'.job = job
        /\ acDesk'.who = u /\ acDesk'.form = form /\ acDesk'.rows = acDesk.rows
        /\ acDesk'.loading = acDesk.loading /\ acDesk'.listRead = acDesk.listRead
        /\ acDesk'.failed = acDesk.failed
    BY <1>0, <1>2, <2>1 DEF AcDesk
  <2>3. AcJob'
    BY <1>0, <1>2, <2>2 DEF AcJob
  <2>4. AcRows'
    BY <1>0, <1>2, <2>2 DEF AcRows, RowOf, None, Truly
  <2> QED  BY <1>0, <1>2, <2>2, <2>3, <2>4, AcDeskStep
<1>3. CASE People!remove
  <2>1. PICK u \in Accounts, form \in AcKept, pass \in BOOLEAN :
          u = acDesk.sel /\ form = acDesk.form /\ pass = acDesk.pass
    BY <1>0, <1>3 DEF People!remove, AcDesk, AcNames
  <2>2. /\ acDesk' = [acDesk EXCEPT !.job = "delete", !.who = u, !.form = form, !.pass = pass, !.edits = n]
        /\ acDesk.job = "none" /\ UNCHANGED <<acUsers, acSessions, acShell, acTorn>>
    BY <1>0, <1>00, <1>3, <2>1 DEF People!remove, AcDesk
  <2> QED  BY <1>2, <2>2
<1>4. ASSUME NEW u \in Accounts, NEW pass \in BOOLEAN, NEW a \in BOOLEAN, NEW g \in SUBSET Grants,
             People!save(u, [active |-> a, must |-> FALSE, grants |-> g], pass)
      PROVE  AcInv'
  <2>1. PICK form \in AcRow : form = [active |-> a, must |-> FALSE, grants |-> g]
    BY DEF AcRow, People!Row
  <2>2. PICK job \in {"create", "update"} : job = IF acDesk.sel = People!Anonymous THEN "create" ELSE "update"
    OBVIOUS
  <2>3. /\ acDesk' = [acDesk EXCEPT !.job = job, !.who = u, !.form = form, !.pass = pass, !.edits = n]
        /\ acDesk.job = "none" /\ UNCHANGED <<acUsers, acSessions, acShell, acTorn>>
    BY <1>00, <1>4, <2>1, <2>2 DEF People!save
  <2>4. form \in AcKept /\ job \in {"create", "update", "delete"}
    BY DEF AcKept
  <2> QED  BY <1>2, <2>1, <2>3, <2>4
<1> QED  BY <1>1, <1>3, <1>4

\* A change written at the server: the sessions that stay are of accounts there.
SessionsStay ==
  \A s \in 1..MaxLogins :
    acSessions'[s] # "nobody" =>
      /\ acSessions'[s] = acSessions[s]
      /\ acUsers'[acSessions[s]] # People!Absent
      /\ acUsers'[acSessions[s]].must => acUsers[acSessions[s]].must

LEMMA AcWrites ==
  ASSUME AcInv, NEW who \in Accounts, who = acDesk.who, NEW kept \in AcKept, NEW job \in AcJobs,
         job \in {"reset", "saved", "deleted"}, acDesk.job \in {"create", "update", "delete"},
         acUsers' = [acUsers EXCEPT ![who] = kept], acDesk' = [acDesk EXCEPT !.job = job],
         acTorn' = People!Unseen(who), UNCHANGED acShell,
         job # "deleted" => /\ acDesk.form \in AcRow /\ kept # People!Absent
                            /\ kept.active = acDesk.form.active /\ kept.grants = acDesk.form.grants,
         job = "deleted" => kept = People!Absent,
         acSessions' \in [1..MaxLogins -> AcNames], SessionsStay
  PROVE  AcInv'
<1>0. /\ acDesk \in AcDesk /\ acTorn \subseteq Accounts /\ AcJob /\ AcRows
      /\ acUsers \in [Accounts -> AcKept]
  BY DEF AcInv, AcShape
<1>1. /\ acDesk' \in AcDesk /\ acDesk'.list = acDesk.list /\ acDesk'.job = job
      /\ acDesk'.who = who /\ acDesk'.form = acDesk.form /\ acDesk'.rows = acDesk.rows
      /\ acDesk'.loading = acDesk.loading /\ acDesk'.listRead = acDesk.listRead
      /\ acDesk'.failed = acDesk.failed
  BY <1>0 DEF AcDesk
<1>2. acUsers' \in [Accounts -> AcKept] /\ acUsers'[who] = kept
      /\ \A u \in Accounts : u # who => acUsers'[u] = acUsers[u]
  BY <1>0
<1>3. acTorn' \subseteq Accounts /\ acTorn \subseteq acTorn'
      /\ (acDesk.listRead /\ acDesk.loading => who \in acTorn')
  BY <1>0 DEF People!Unseen
<1>4. AcJob'
  BY <1>0, <1>1, <1>2 DEF AcJob
<1>5. AcRows'
  <2>1. \A u \in Accounts : \A rows : u # who /\ Truly(rows, u) => Truly(rows, u)'
    BY <1>2 DEF Truly
  <2>2. ASSUME NEW u \in Accounts \ acTorn', u # who
        PROVE  RowOf(u)'
    <3>1. RowOf(u)
      BY <1>0, <1>3, <2>2 DEF AcRows
    <3> QED  BY <1>1, <2>1, <2>2, <3>1 DEF RowOf, None, Truly
  <2>3. ASSUME acDesk.loading, acDesk.listRead, NEW u \in Accounts \ acTorn'
        PROVE  Truly(acDesk.list, u)'
    BY <1>0, <1>3, <2>1, <2>3 DEF AcRows
  <2> QED  BY <1>1, <2>2, <2>3 DEF AcRows, Truly
<1> QED  BY <1>1, <1>2, <1>3, <1>4, <1>5, AcServerStep DEF SessionsStay

LEMMA AcSaves ==
  ASSUME AcInv, People!create_user \/ People!update_user \/ People!delete_user
  PROVE  AcInv'
<1>0. /\ acDesk \in AcDesk /\ AcJob /\ AcHeld /\ UNCHANGED acShell
      /\ acUsers \in [Accounts -> AcKept] /\ acSessions \in [1..MaxLogins -> AcNames]
      /\ {"saved", "reset", "deleted"} \subseteq AcJobs
  BY DEF AcInv, AcShape, AcJobs, People!create_user, People!update_user, People!delete_user
<1>1. PICK who \in Accounts : who = acDesk.who
  BY <1>0 DEF AcJob, People!create_user, People!update_user, People!delete_user
<1>2. CASE People!create_user
  <2>1. PICK form \in AcRow : form = acDesk.form
    BY <1>0, <1>2 DEF AcJob, People!create_user
  <2>2. PICK kept \in AcRow : kept = [form EXCEPT !.must = TRUE]
                              /\ kept.active = form.active /\ kept.grants = form.grants
    <3>1. [form EXCEPT !.must = TRUE] \in AcRow
      BY DEF AcRow, People!Row
    <3>2. [form EXCEPT !.must = TRUE].active = form.active /\ [form EXCEPT !.must = TRUE].grants = form.grants
      BY DEF AcRow, People!Row
    <3> QED  BY <3>1, <3>2
  <2>3. kept \in AcKept /\ kept # People!Absent
    BY AcAbsent DEF AcKept
  <2>4. /\ acUsers' = [acUsers EXCEPT ![who] = kept] /\ acUsers[who] = People!Absent
        /\ acDesk' = [acDesk EXCEPT !.job = "saved"] /\ acTorn' = People!Unseen(who)
        /\ acDesk.job = "create" /\ UNCHANGED acSessions
    BY <1>1, <1>2, <2>1, <2>2 DEF People!create_user, People!There, People!Put
  <2>5. SessionsStay
    BY <1>0, <2>4 DEF SessionsStay, AcHeld, AcNames
  <2> QED  BY <1>0, <1>1, <2>1, <2>2, <2>3, <2>4, <2>5, AcWrites
<1>3. CASE People!update_user
  <2>1. PICK form \in AcRow : form = acDesk.form
    BY <1>0, <1>3 DEF AcJob, People!update_user
  <2>2. PICK row \in AcRow : row = acUsers[who]
    BY <1>1, <1>3, ReadIs DEF People!update_user
  <2>3. PICK kept \in AcRow : kept = [form EXCEPT !.must = row.must]
                              /\ kept.active = form.active /\ kept.grants = form.grants /\ kept.must = row.must
    <3> DEFINE new == [form EXCEPT !.must = row.must]
    <3>1. new \in AcRow
      BY DEF AcRow, People!Row
    <3>2. new.active = form.active /\ new.grants = form.grants /\ new.must = row.must
      BY DEF AcRow, People!Row
    <3> QED  BY <3>1, <3>2
  <2>4. kept \in AcKept /\ kept # People!Absent
    BY AcAbsent DEF AcKept
  <2>5. PICK job \in {"reset", "saved"} : job = IF acDesk.pass THEN "reset" ELSE "saved"
    OBVIOUS
  <2>6. /\ acUsers' = [acUsers EXCEPT ![who] = kept] /\ acDesk' = [acDesk EXCEPT !.job = job]
        /\ acTorn' = People!Unseen(who) /\ acDesk.job = "update" /\ UNCHANGED acSessions
    BY <1>1, <1>3, <2>1, <2>2, <2>3, <2>5 DEF People!update_user, People!Put
  <2>7. SessionsStay
    BY <1>0, <2>2, <2>3, <2>4, <2>6 DEF SessionsStay, AcHeld, AcNames
  <2> QED  BY <1>0, <1>1, <2>1, <2>3, <2>4, <2>5, <2>6, <2>7, AcWrites
<1>4. CASE People!delete_user
  <2>1. /\ acUsers' = [acUsers EXCEPT ![who] = People!Absent]
        /\ acSessions' = [s \in 1..MaxLogins |-> IF acSessions[s] = who THEN "nobody" ELSE acSessions[s]]
        /\ acDesk' = [acDesk EXCEPT !.job = "deleted"] /\ acTorn' = People!Unseen(who)
        /\ acDesk.job = "delete"
    BY <1>0, <1>1, <1>4 DEF People!delete_user, People!Put, People!EndSessions, People!Anonymous
  <2>2. acSessions' \in [1..MaxLogins -> AcNames]
    BY <1>0, <2>1 DEF AcNames
  <2>3. SessionsStay
    BY <1>0, <2>1 DEF SessionsStay, AcHeld, AcNames
  <2>4. People!Absent \in AcKept
    BY DEF AcKept
  <2> QED  BY <1>0, <1>1, <2>1, <2>2, <2>3, <2>4, AcWrites
<1> QED  BY <1>2, <1>3, <1>4

LEMMA AcReset ==
  ASSUME AcInv, People!reset_password
  PROVE  AcInv'
<1>0. /\ acDesk \in AcDesk /\ AcJob /\ AcRows /\ AcHeld /\ UNCHANGED <<acShell, acTorn>>
      /\ acUsers \in [Accounts -> AcKept] /\ acSessions \in [1..MaxLogins -> AcNames]
      /\ acTorn \subseteq Accounts /\ "saved" \in AcJobs
  BY DEF AcInv, AcShape, AcJobs, People!reset_password
<1>1. PICK who \in Accounts : who = acDesk.who
  BY <1>0 DEF AcJob, People!reset_password
<1>2. PICK row \in AcRow : row = acUsers[who]
  BY <1>1, ReadIs DEF People!reset_password
<1>3. PICK kept \in AcRow : kept = [row EXCEPT !.must = TRUE]
                            /\ kept.active = row.active /\ kept.grants = row.grants
  <2>1. [row EXCEPT !.must = TRUE] \in AcRow
    BY DEF AcRow, People!Row
  <2>2. [row EXCEPT !.must = TRUE].active = row.active /\ [row EXCEPT !.must = TRUE].grants = row.grants
    BY DEF AcRow, People!Row
  <2> QED  BY <2>1, <2>2
<1>4. /\ acUsers' = [acUsers EXCEPT ![who] = kept]
      /\ acSessions' = [s \in 1..MaxLogins |-> IF acSessions[s] = who THEN "nobody" ELSE acSessions[s]]
      /\ acDesk' = [acDesk EXCEPT !.job = "saved"] /\ acDesk.job = "reset"
  BY <1>0, <1>1, <1>2, <1>3 DEF People!reset_password, People!Put, People!EndSessions, People!Anonymous
<1>5. /\ acDesk' \in AcDesk /\ acDesk'.list = acDesk.list /\ acDesk'.job = "saved"
      /\ acDesk'.who = who /\ acDesk'.form = acDesk.form /\ acDesk'.rows = acDesk.rows
      /\ acDesk'.loading = acDesk.loading /\ acDesk'.listRead = acDesk.listRead
      /\ acDesk'.failed = acDesk.failed
  BY <1>0, <1>1, <1>4 DEF AcDesk
<1>6. acSessions' \in [1..MaxLogins -> AcNames]
  BY <1>0, <1>4 DEF AcNames
<1>7. acUsers' \in [Accounts -> AcKept] /\ acUsers'[who] = kept /\ kept # People!Absent /\ row # People!Absent
      /\ \A u \in Accounts : u # who => acUsers'[u] = acUsers[u]
  BY <1>0, <1>4, AcAbsent DEF AcKept
<1>8. SessionsStay
  BY <1>0, <1>4, <1>7 DEF SessionsStay, AcHeld, AcNames
<1>9. AcJob'
  BY <1>0, <1>1, <1>2, <1>3, <1>4, <1>5, <1>7 DEF AcJob
<1>10. \A u \in Accounts : \A rows : Truly(rows, u) => Truly(rows, u)'
  BY <1>2, <1>3, <1>7 DEF Truly
<1>11. AcRows'
  <2>1. ASSUME NEW u \in Accounts \ acTorn, u # who
        PROVE  RowOf(u)'
    <3>1. RowOf(u)
      BY <1>0, <1>1, <1>4, <2>1 DEF AcRows
    <3> QED  BY <1>5, <1>10, <2>1, <3>1 DEF RowOf, None, Truly
  <2>2. ASSUME acDesk.loading, acDesk.listRead, NEW u \in Accounts \ acTorn
        PROVE  Truly(acDesk.list, u)
    BY <1>0, <2>2 DEF AcRows
  <2> QED  BY <1>0, <1>1, <1>5, <1>10, <2>1, <2>2 DEF AcRows, Truly
<1> QED  BY <1>0, <1>5, <1>6, <1>7, <1>8, <1>9, <1>11, AcServerStep DEF SessionsStay

LEMMA AcSaved ==
  ASSUME AcInv, People!Saved
  PROVE  AcInv'
<1>0. /\ acDesk \in AcDesk /\ AcJob /\ AcRows /\ UNCHANGED <<acUsers, acSessions, acShell, acTorn>>
      /\ acTorn \subseteq Accounts /\ acDesk.job \in {"saved", "deleted"} /\ acDesk.rows \subseteq AcLine
      /\ People!Anonymous = "nobody"
  BY DEF AcInv, AcShape, AcDesk, People!Saved, People!Anonymous
<1>1. PICK who \in Accounts : who = acDesk.who
  BY <1>0 DEF AcJob
<1>2. PICK rows \in SUBSET AcLine :
        /\ acDesk' = [acDesk EXCEPT !.job = "none", !.sel = "nobody", !.who = "nobody",
                                    !.form = People!Absent, !.rows = rows]
        /\ \A r \in AcLine : r.name # who => (r \in rows <=> r \in acDesk.rows)
        /\ who \notin acTorn => Truly(rows, who)
  <2> DEFINE row == [name |-> who, active |-> acDesk.form.active, grants |-> acDesk.form.grants]
             new == People!Others(acDesk.rows, who) \union (IF acDesk.job = "saved" THEN {row} ELSE {})
  <2>1. acDesk.job = "saved" => row \in AcLine
    BY <1>0 DEF AcJob, AcRow, People!Row, AcLine
  <2>2. new \in SUBSET AcLine
    BY <1>0, <2>1 DEF People!Others
  <2>3. acDesk' = [acDesk EXCEPT !.job = "none", !.sel = "nobody", !.who = "nobody",
                                 !.form = People!Absent, !.rows = new]
    BY <1>0, <1>1 DEF People!Saved
  <2>4. \A r \in AcLine : r.name # who => (r \in new <=> r \in acDesk.rows)
    BY DEF People!Others
  <2>5. who \notin acTorn => Truly(new, who)
    <3> SUFFICES ASSUME who \notin acTorn, NEW r \in AcLine, r.name = who
                 PROVE  r \in new <=> /\ acUsers[who] # People!Absent
                                      /\ r.active = acUsers[who].active /\ r.grants = acUsers[who].grants
      BY DEF Truly
    <3>1. r = [name |-> r.name, active |-> r.active, grants |-> r.grants]
      BY DEF AcLine
    <3>2. r \in new <=> acDesk.job = "saved" /\ r = row
      BY DEF People!Others
    <3> QED  BY <1>0, <1>1, <3>1, <3>2 DEF AcJob
  <2> HIDE DEF new
  <2> QED  BY <2>2, <2>3, <2>4, <2>5
<1>3. /\ acDesk' \in AcDesk /\ acDesk'.list = acDesk.list /\ acDesk'.job = "none"
      /\ acDesk'.rows = rows /\ acDesk'.who = "nobody" /\ acDesk'.failed = acDesk.failed
      /\ acDesk'.loading = acDesk.loading /\ acDesk'.listRead = acDesk.listRead
  <2>1. "nobody" \in AcNames /\ "none" \in AcJobs /\ People!Absent \in AcKept
    BY DEF AcNames, AcJobs, AcKept
  <2> QED  BY <1>0, <1>2, <2>1 DEF AcDesk
<1>4. AcJob'
  BY <1>3 DEF AcJob
<1>5. AcRows'
  <2>1. \A u \in Accounts : u # who /\ Truly(acDesk.rows, u) => Truly(rows, u)
    BY <1>2 DEF Truly
  <2>2. \A u \in Accounts : u # who /\ None(acDesk.rows, u) => None(rows, u)
    BY <1>0, <1>2 DEF None
  <2>3. \A u \in Accounts : \A lines : Truly(lines, u) => Truly(lines, u)'
    BY <1>0 DEF Truly
  <2>4. ASSUME NEW u \in Accounts \ acTorn
        PROVE  RowOf(u)'
    <3>1. CASE u = who
      <4>1. Truly(rows, u)'
        BY <1>2, <2>3, <2>4, <3>1
      <4> QED  BY <1>3, <4>1 DEF RowOf, Truly
    <3>2. CASE u # who
      <4>1. RowOf(u)
        BY <1>0, <1>1, <2>4, <3>2 DEF AcRows
      <4>2. CASE Truly(acDesk.rows, u)
        <5>1. Truly(rows, u)'
          BY <2>1, <2>3, <2>4, <3>2, <4>2
        <5> QED  BY <1>3, <5>1 DEF RowOf, Truly
      <4>3. CASE (acDesk.loading \/ acDesk.failed) /\ None(acDesk.rows, u)
        BY <1>3, <2>2, <2>4, <3>2, <4>3 DEF RowOf, None
      <4> QED  BY <4>1, <4>2, <4>3 DEF RowOf
    <3> QED  BY <3>1, <3>2
  <2> QED  BY <1>0, <1>3, <2>3, <2>4 DEF AcRows, Truly
<1> QED  BY <1>0, <1>3, <1>4, <1>5, AcDeskStep

LEMMA AcSaveFails ==
  ASSUME AcInv, People!SaveFails
  PROVE  AcInv'
<1>0. /\ acDesk \in AcDesk /\ AcJob /\ AcRows /\ UNCHANGED <<acUsers, acSessions, acShell>>
      /\ acTorn \subseteq Accounts /\ acDesk.job # "none" /\ acDesk.who \in Accounts
      /\ acDesk' = [acDesk EXCEPT !.job = "none", !.who = "nobody", !.form = People!Absent]
  BY DEF AcInv, AcShape, AcJob, People!SaveFails, People!Anonymous
<1>1. /\ acDesk' \in AcDesk /\ acDesk'.list = acDesk.list /\ acDesk'.job = "none"
      /\ acDesk'.rows = acDesk.rows /\ acDesk'.who = "nobody" /\ acDesk'.failed = acDesk.failed
      /\ acDesk'.loading = acDesk.loading /\ acDesk'.listRead = acDesk.listRead
  <2>1. "nobody" \in AcNames /\ "none" \in AcJobs /\ People!Absent \in AcKept
    BY DEF AcNames, AcJobs, AcKept
  <2> QED  BY <1>0, <2>1 DEF AcDesk
<1>2. acTorn' \subseteq Accounts /\ acTorn \subseteq acTorn'
      /\ (acDesk.job \in {"reset", "saved", "deleted"} => acDesk.who \in acTorn')
  BY <1>0 DEF People!SaveFails
<1>3. AcJob'
  BY <1>1 DEF AcJob
<1>4. \A u \in Accounts : \A lines : Truly(lines, u) => Truly(lines, u)'
  BY <1>0 DEF Truly
<1>5. AcRows'
  <2>1. ASSUME NEW u \in Accounts \ acTorn'
        PROVE  RowOf(u)'
    <3>1. RowOf(u)
      BY <1>0, <1>2, <2>1 DEF AcRows
    <3> QED  BY <1>1, <1>4, <3>1 DEF RowOf, None, Truly
  <2>2. ASSUME acDesk.loading, acDesk.listRead, NEW u \in Accounts \ acTorn'
        PROVE  Truly(acDesk.list, u)
    BY <1>0, <1>2, <2>2 DEF AcRows
  <2> QED  BY <1>1, <1>4, <2>1, <2>2 DEF AcRows, Truly
<1> QED  BY <1>0, <1>1, <1>2, <1>3, <1>5, AcDeskStep

\* Another administrator changes an account.
LEMMA AcAnother ==
  ASSUME AcInv, NEW u \in Accounts, NEW row \in People!Row, People!AnotherAdmin(u, row)
  PROVE  AcInv'
<1>0. /\ acDesk \in AcDesk /\ AcJob /\ AcRows /\ AcHeld /\ UNCHANGED acShell /\ acTorn \subseteq Accounts
      /\ acUsers \in [Accounts -> AcKept] /\ acSessions \in [1..MaxLogins -> AcNames]
      /\ acDesk' = [acDesk EXCEPT !.edits = @ + 1]
      /\ acTorn' = IF People!StillToLearn(u) THEN acTorn ELSE acTorn \union {u}
  BY DEF AcInv, AcShape, People!AnotherAdmin
<1>1. PICK kept \in AcKept :
        /\ acUsers' = [acUsers EXCEPT ![u] = kept]
        /\ \/ UNCHANGED acSessions /\ kept # People!Absent
              /\ (acUsers[u] # People!Absent => (kept.must => acUsers[u].must))
           \/ acSessions' = [s \in 1..MaxLogins |-> IF acSessions[s] = u THEN "nobody" ELSE acSessions[s]]
  <2>1. CASE ~People!There(u) /\ People!Put(u, [row EXCEPT !.must = TRUE]) /\ UNCHANGED acSessions
    <3>1. [row EXCEPT !.must = TRUE] \in AcRow
      BY DEF AcRow, People!Row
    <3> QED  BY <2>1, <3>1, AcAbsent DEF People!Put, People!There, AcKept
  <2>2. CASE People!There(u) /\ People!Put(u, [row EXCEPT !.must = acUsers[u].must]) /\ UNCHANGED acSessions
    <3>1. PICK must \in BOOLEAN : must = acUsers[u].must
      BY <2>2, ReadIs DEF AcRow, People!Row
    <3>2. [row EXCEPT !.must = must] \in AcRow /\ [row EXCEPT !.must = must].must = must
      BY DEF AcRow, People!Row
    <3>3. [row EXCEPT !.must = must] \in AcKept /\ [row EXCEPT !.must = must] # People!Absent
      BY <3>2, AcAbsent DEF AcKept
    <3>4. acUsers' = [acUsers EXCEPT ![u] = [row EXCEPT !.must = must]] /\ UNCHANGED acSessions
      BY <2>2, <3>1 DEF People!Put
    <3> QED  BY <3>1, <3>2, <3>3, <3>4
  <2>3. CASE People!There(u) /\ People!Put(u, [acUsers[u] EXCEPT !.must = TRUE]) /\ People!EndSessions(u)
    <3>1. PICK old \in AcRow : old = acUsers[u]
      BY <2>3, ReadIs
    <3>2. [old EXCEPT !.must = TRUE] \in AcRow
      BY DEF AcRow, People!Row
    <3> QED  BY <1>0, <2>3, <3>1, <3>2 DEF People!Put, People!EndSessions, People!Anonymous, AcKept
  <2>4. CASE People!There(u) /\ People!Put(u, People!Absent) /\ People!EndSessions(u)
    BY <1>0, <2>4 DEF People!Put, People!EndSessions, People!Anonymous, AcKept
  <2> QED  BY <2>1, <2>2, <2>3, <2>4 DEF People!AnotherAdmin
<1>2. acUsers' \in [Accounts -> AcKept] /\ acUsers'[u] = kept
      /\ \A v \in Accounts : v # u => acUsers'[v] = acUsers[v]
  BY <1>0, <1>1
<1>3. acSessions' \in [1..MaxLogins -> AcNames] /\ SessionsStay
  <2>1. CASE /\ UNCHANGED acSessions /\ kept # People!Absent
             /\ (acUsers[u] # People!Absent => (kept.must => acUsers[u].must))
    BY <1>0, <1>2, <2>1 DEF SessionsStay, AcHeld, AcNames
  <2>2. CASE acSessions' = [s \in 1..MaxLogins |-> IF acSessions[s] = u THEN "nobody" ELSE acSessions[s]]
    <3>1. \A s \in 1..MaxLogins :
            acSessions'[s] # "nobody" => acSessions'[s] = acSessions[s] /\ acSessions[s] # u
      BY <2>2
    <3> QED  BY <1>0, <1>2, <2>2, <3>1 DEF SessionsStay, AcHeld, AcNames
  <2> QED  BY <1>1, <2>1, <2>2
<1>4. SessionsStay
  BY <1>3
<1>5. /\ acDesk' \in AcDesk /\ acDesk'.list = acDesk.list /\ acDesk'.job = acDesk.job
      /\ acDesk'.who = acDesk.who /\ acDesk'.form = acDesk.form /\ acDesk'.rows = acDesk.rows
      /\ acDesk'.loading = acDesk.loading /\ acDesk'.listRead = acDesk.listRead
      /\ acDesk'.failed = acDesk.failed
  BY <1>0 DEF AcDesk
<1>6. /\ acTorn' \subseteq Accounts /\ acTorn \subseteq acTorn'
      /\ u \in acTorn' \/ (u # acDesk.who /\ acDesk.loading /\ ~acDesk.listRead /\ None(acDesk.rows, u))
  BY <1>0 DEF People!StillToLearn, None
<1>7. AcJob'
  BY <1>0, <1>2, <1>5, <1>6 DEF AcJob
<1>8. \A v \in Accounts : \A lines : v # u /\ Truly(lines, v) => Truly(lines, v)'
  BY <1>2 DEF Truly
<1>9. AcRows'
  <2>1. ASSUME NEW v \in Accounts \ acTorn', ~(v = acDesk.who /\ acDesk.job \in {"reset", "saved", "deleted"})
        PROVE  RowOf(v)'
    <3>1. RowOf(v)
      BY <1>0, <1>6, <2>1 DEF AcRows
    <3>2. CASE v = u
      BY <1>5, <1>6, <2>1, <3>2 DEF RowOf, None
    <3>3. CASE v # u
      BY <1>5, <1>8, <2>1, <3>1, <3>3 DEF RowOf, None, Truly
    <3> QED  BY <3>2, <3>3
  <2>2. ASSUME acDesk.loading, acDesk.listRead, NEW v \in Accounts \ acTorn'
        PROVE  Truly(acDesk.list, v)'
    <3>1. v # u /\ Truly(acDesk.list, v)
      BY <1>0, <1>6, <2>2 DEF AcRows
    <3> QED  BY <1>5, <1>8, <2>2, <3>1 DEF Truly
  <2> QED  BY <1>5, <2>1, <2>2 DEF AcRows, Truly
<1> QED  BY <1>0, <1>2, <1>3, <1>4, <1>5, <1>6, <1>7, <1>9, AcServerStep DEF SessionsStay

LEMMA AcStep ==
  ASSUME AcInv, People!AccountsNext
  PROVE  AcInv'
BY AcBegins, AcServed, AcCommitted, AcLogout, AcChanged, AcAnswered, AcLists, AcStarts,
   AcSaves, AcReset, AcSaved, AcSaveFails, AcAnother DEF People!AccountsNext

LEMMA AcSame ==
  ASSUME AcInv, UNCHANGED people
  PROVE  AcInv'
BY AcDeskStep DEF people, AcInv, AcShape, AcJob, AcRows, RowOf, None, Truly

\* The invariant says what the properties of the accounts say.
LEMMA AcKnows ==
  ASSUME AcInv
  PROVE  People!AccountsTypeOK /\ People!AccountIsKnown /\ People!UsersPageIsTrue
<1>1. People!AccountsTypeOK
  BY AcAbsent DEF AcInv, AcShape, AcShell, AcDesk, AcJobs, AcKept, AcRow, AcNames,
     People!AccountsTypeOK, People!Anonymous
<1>2. People!AccountIsKnown
  <2>1. acShell.cookie \in 0..MaxLogins /\ AcScreen
    BY DEF AcInv, AcShape, AcShell
  <2>2. People!Serves(acShell.cookie) => Alive(acShell.cookie)
    BY <2>1, ServesIs, AcBounds DEF Alive
  <2> QED  BY <2>1, <2>2 DEF AcScreen, Fits, People!AccountIsKnown
<1>3. People!UsersPageIsTrue
  <2>1. ASSUME NEW u \in Accounts \ (acTorn \cup {acDesk.who}), ~acDesk.loading
        PROVE  \/ {r \in acDesk.rows : r.name = u} = {r \in People!Listed : r.name = u}
               \/ acDesk.failed /\ {r \in acDesk.rows : r.name = u} = {}
    <3>1. RowOf(u) /\ acDesk.rows \subseteq AcLine
      BY <2>1 DEF AcInv, AcShape, AcDesk, AcRows
    <3>2. CASE acDesk.failed /\ None(acDesk.rows, u)
      BY <3>2 DEF None
    <3>3. CASE Truly(acDesk.rows, u)
      <4>1. Truly(People!Listed, u) /\ People!Listed \subseteq AcLine
        BY <2>1, ListedIs, ListedLines
      <4>2. \A r \in AcLine : r.name = u => (r \in acDesk.rows <=> r \in People!Listed)
        BY <3>3, <4>1 DEF Truly
      <4> HIDE DEF AcLine
      <4> QED  BY <3>1, <4>1, <4>2
    <3> QED  BY <2>1, <3>1, <3>2, <3>3 DEF RowOf
  <2> QED  BY <2>1 DEF People!UsersPageIsTrue
<1> QED  BY <1>1, <1>2, <1>3

\* Every route asks at most what the link to it asks, but for "learning".
LEMMA AcLinks == People!LinksLead
<1>1. \A p \in People!Pages \ {"learning"} : People!RouteNeeds[p] \subseteq People!LinkNeeds[p]
  BY DEF People!Pages, People!RouteNeeds, People!LinkNeeds
<1> QED  BY <1>1 DEF People!LinksLead, People!ShownLinks, People!Opens

-----------------------------------------------------------------------------
(* Templates and the list of Trees: the invariant.                         *)

ShelfVersion == 0..MaxShelfChanges + 2
ShelfDialog == [kind : Shelves!Kinds \union {"none"}, item : Items \union {"nobody"}, version : Nat]
ShelfPage == [trees : BOOLEAN, rows : [Items -> ShelfVersion], loading : BOOLEAN, dialog : ShelfDialog,
              busy : Items \union {"nobody"}, changes : 0..MaxShelfChanges]
ShelfCall == [kind : Shelves!Kinds, item : Items, at : {"asked", "served"}, version : ShelfVersion]

ShelfShape ==
  /\ shServed \in [Items -> ShelfVersion]
  /\ shPage \in ShelfPage
  /\ shCalls \subseteq ShelfCall
  /\ shPast \in [wrong : SUBSET Items, overtaken : BOOLEAN]

\* A dialog is of a row, and its text one of those that may be sent.
ShelfDialogs ==
  /\ shPage.dialog.kind # "none" => shPage.dialog.item \in Items /\ ~shPage.loading
  /\ shPage.dialog.version <= MaxShelfChanges + 2
  /\ shPage.trees => shPage.dialog.kind # "edit"
  /\ shPage.loading => shCalls = {}
  /\ \A c \in shCalls : c.kind = "delete" => c.version = 0

\* Until the busy mark is taken from a row there is one change, and it is of that row.
ShelfAlone ==
  /\ shPage.trees => ~shPast.overtaken
  /\ ~shPast.overtaken => /\ \A c, d \in shCalls : c = d
                          /\ \A c \in shCalls : shPage.busy = c.item

\* A row is the server's, or the answer that makes it so is on its way.
ShelfRows ==
  ~shPage.loading /\ ~shPast.overtaken =>
    \A i \in Items \ shPast.wrong :
      /\ (\A c \in shCalls : c.at = "served" => c.item # i) => shPage.rows[i] = shServed[i]
      /\ \A c \in shCalls : c.at = "served" /\ c.item = i =>
           shServed[i] = c.version /\ (c.version = 0 \/ shPage.rows[i] # 0)

ShelfInv == ShelfShape /\ ShelfDialogs /\ ShelfAlone /\ ShelfRows

LEMMA ShelfBound == MaxShelfChanges \in Nat /\ "nobody" \notin Items
BY StudioAssumption

LEMMA ShelfInit == Shelves!ShelfInit => ShelfInv
<1> SUFFICES ASSUME Shelves!ShelfInit
             PROVE  ShelfInv
  OBVIOUS
<1> USE DEF Shelves!ShelfInit, Shelves!NoDialog, Shelves!NoItem, Shelves!Gone
<1>1. [i \in Items |-> 1] \in [Items -> ShelfVersion] /\ [i \in Items |-> 0] \in [Items -> ShelfVersion]
  BY ShelfBound DEF ShelfVersion
<1>2. shPage \in ShelfPage
  <2>1. Shelves!NoDialog \in ShelfDialog /\ 0 \in 0..MaxShelfChanges
    BY ShelfBound DEF ShelfDialog
  <2> QED  BY <1>1, <2>1 DEF ShelfPage
<1>3. ShelfShape
  BY <1>1, <1>2 DEF ShelfShape
<1> QED  BY <1>3, ShelfBound DEF ShelfInv, ShelfDialogs, ShelfAlone, ShelfRows

\* Steps of the page alone, which leave its rows and its busy mark.
LEMMA ShelfPageStep ==
  ASSUME ShelfInv,
         Shelves!typeForm \/ Shelves!closeDialog \/ \E kind \in Shelves!Kinds : Shelves!openDialog(kind)
  PROVE  ShelfInv'
<1> USE DEF ShelfInv, ShelfShape
<1>0. ~shPage.loading \/ shPage.dialog.kind = "none"
  BY DEF ShelfDialogs
<1>1. PICK dialog \in ShelfDialog :
        /\ shPage' = [shPage EXCEPT !.dialog = dialog] /\ UNCHANGED <<shServed, shCalls, shPast>>
        /\ dialog.kind # "none" => dialog.item \in Items /\ ~shPage.loading
        /\ dialog.version <= MaxShelfChanges + 2
        /\ shPage.trees => dialog.kind # "edit"
  <2>1. CASE Shelves!typeForm
    <3>1. PICK n \in Nat : n = 2 + shPage.changes
      BY ShelfBound DEF ShelfPage
    <3>2. PICK e \in ShelfDialog : e = shPage.dialog
      BY DEF ShelfPage
    <3>3. [e EXCEPT !.version = n] \in ShelfDialog
      BY DEF ShelfDialog
    <3>4. [e EXCEPT !.version = n].item = e.item /\ [e EXCEPT !.version = n].kind = e.kind
          /\ [e EXCEPT !.version = n].version = n
      BY DEF ShelfDialog
    <3>5. PICK d \in ShelfDialog : d = [e EXCEPT !.version = n] /\ d.item = e.item
                                   /\ d.kind = e.kind /\ d.version = n
      BY <3>3, <3>4
    <3>6. shPage' = [shPage EXCEPT !.dialog = d] /\ UNCHANGED <<shServed, shCalls, shPast>>
      BY <2>1, <3>1, <3>2, <3>5 DEF Shelves!typeForm, Shelves!Becomes
    <3>7. e.item \in Items /\ ~shPage.loading
      BY <2>1, <3>2 DEF Shelves!typeForm, ShelfDialogs
    <3>8. n <= MaxShelfChanges + 2
      BY <3>1, ShelfBound DEF ShelfPage
    <3>9. shPage.trees => d.kind # "edit"
      BY <3>2, <3>5 DEF ShelfDialogs
    <3> HIDE DEF ShelfInv, ShelfShape
    <3> QED  BY <3>5, <3>6, <3>7, <3>8, <3>9
  <2>2. CASE Shelves!closeDialog
    <3>0. Shelves!NoDialog \in ShelfDialog /\ Shelves!NoDialog.kind = "none" /\ Shelves!NoDialog.version = 0
      BY DEF Shelves!NoDialog, ShelfDialog, Shelves!NoItem, Shelves!Gone
    <3>1. PICK d \in ShelfDialog : d = Shelves!NoDialog /\ d.kind = "none" /\ d.version = 0
      BY <3>0
    <3>2. shPage' = [shPage EXCEPT !.dialog = d] /\ UNCHANGED <<shServed, shCalls, shPast>>
      BY <2>2, <3>1 DEF Shelves!closeDialog, Shelves!Becomes
    <3>3. d.version <= MaxShelfChanges + 2
      BY <3>1, ShelfBound
    <3> HIDE DEF ShelfInv, ShelfShape
    <3> QED  BY <3>1, <3>2, <3>3
  <2>3. ASSUME NEW kind \in Shelves!Kinds, Shelves!openDialog(kind)
        PROVE  \E dialog \in ShelfDialog :
                 /\ shPage' = [shPage EXCEPT !.dialog = dialog] /\ UNCHANGED <<shServed, shCalls, shPast>>
                 /\ dialog.item \in Items /\ ~shPage.loading
                 /\ dialog.version <= MaxShelfChanges + 2
                 /\ shPage.trees => dialog.kind # "edit"
    <3>1. PICK i \in Items :
            /\ shPage' = [shPage EXCEPT !.dialog = [kind |-> kind, item |-> i, version |-> shPage.rows[i]]]
            /\ UNCHANGED <<shServed, shCalls, shPast>> /\ ~shPage.loading
            /\ shPage.trees => kind # "edit"
      BY <2>3 DEF Shelves!openDialog, Shelves!Becomes
    <3>2. PICK v \in ShelfVersion : v = shPage.rows[i]
      BY <3>1 DEF ShelfPage
    <3>3. v \in Nat /\ v <= MaxShelfChanges + 2
      BY ShelfBound DEF ShelfVersion
    <3>4. [kind |-> kind, item |-> i, version |-> v] \in ShelfDialog
      BY <3>3 DEF ShelfDialog
    <3> HIDE DEF ShelfInv, ShelfShape
    <3> QED  BY <3>1, <3>2, <3>3, <3>4
  <2> QED  BY <2>1, <2>2, <2>3
<1>2. /\ shPage' \in ShelfPage /\ shPage'.dialog = dialog /\ shPage'.rows = shPage.rows
      /\ shPage'.busy = shPage.busy /\ shPage'.changes = shPage.changes
      /\ shPage'.loading = shPage.loading /\ shPage'.trees = shPage.trees
  BY <1>1 DEF ShelfPage
<1>3. ShelfShape'
  BY <1>1, <1>2
<1>4. ShelfDialogs'
  BY <1>1, <1>2 DEF ShelfDialogs
<1> QED  BY <1>1, <1>2, <1>3, <1>4 DEF ShelfAlone, ShelfRows

LEMMA ShelfLoad ==
  ASSUME ShelfInv, Shelves!load \/ Shelves!loadFails
  PROVE  ShelfInv'
<1> USE DEF ShelfInv, ShelfShape
<1>0. shPage.loading /\ UNCHANGED <<shServed, shCalls>>
  BY DEF Shelves!load, Shelves!loadFails, Shelves!Becomes
<1>1. PICK rows \in [Items -> ShelfVersion] : shPage' = [shPage EXCEPT !.rows = rows, !.loading = FALSE]
  <2>1. CASE Shelves!load
    BY <2>1 DEF Shelves!load, Shelves!Becomes
  <2>2. CASE Shelves!loadFails
    <3>1. PICK rows \in [Items -> ShelfVersion] : rows = shPage.rows
      BY DEF ShelfPage
    <3>2. shPage' = [shPage EXCEPT !.rows = rows, !.loading = FALSE]
      BY <2>2, <3>1 DEF Shelves!loadFails, ShelfPage
    <3> QED  BY <3>2
  <2> QED  BY <2>1, <2>2
<1>2. /\ shPage' \in ShelfPage /\ shPage'.dialog = shPage.dialog /\ shPage'.rows = rows
      /\ shPage'.busy = shPage.busy /\ shPage'.changes = shPage.changes
      /\ ~shPage'.loading /\ shPage'.trees = shPage.trees
  BY <1>1 DEF ShelfPage
<1>3. \/ UNCHANGED shPast /\ rows = shServed
      \/ shPast' = [shPast EXCEPT !.wrong = Items]
  <2>1. CASE Shelves!load
    <3>1. shPage'.rows = shServed
      BY <2>1 DEF Shelves!load, Shelves!Becomes, ShelfPage
    <3> QED  BY <1>2, <2>1, <3>1 DEF Shelves!load, Shelves!Becomes
  <2> QED  BY <2>1 DEF Shelves!loadFails
<1>4. shPast' \in [wrong : SUBSET Items, overtaken : BOOLEAN] /\ shPast'.overtaken = shPast.overtaken
  BY <1>3
<1>5. shCalls = {}
  BY <1>0 DEF ShelfDialogs
<1>6. ShelfShape' /\ ShelfDialogs' /\ ShelfAlone'
  BY <1>0, <1>2, <1>4, <1>5 DEF ShelfDialogs, ShelfAlone
<1>7. ShelfRows'
  BY <1>0, <1>2, <1>3, <1>5 DEF ShelfRows
<1> QED  BY <1>6, <1>7

LEMMA ShelfBegins ==
  ASSUME ShelfInv, Shelves!saveEdit \/ Shelves!deleteUserTemplate \/ Shelves!remove
  PROVE  ShelfInv'
<1> USE DEF ShelfInv, ShelfShape
<1>0. PICK d \in ShelfDialog : d = shPage.dialog
  BY DEF ShelfPage
<1>1. PICK v \in ShelfVersion :
        Shelves!Begins(v) /\ d.kind \in Shelves!Kinds /\ (d.kind = "delete" => v = 0)
  <2>1. 0 \in ShelfVersion
    BY ShelfBound DEF ShelfVersion
  <2>2. CASE Shelves!saveEdit
    <3>1. Shelves!Begins(d.version) /\ d.kind = "edit" /\ shPage.changes < MaxShelfChanges
      BY <1>0, <2>2 DEF Shelves!saveEdit, Shelves!Begins
    <3>2. d.version \in Nat
      BY DEF ShelfDialog
    <3>3. d.version <= MaxShelfChanges + 2
      BY <1>0, <3>1, <3>2, ShelfBound DEF ShelfDialogs, ShelfPage
    <3>4. d.version \in ShelfVersion
      BY <3>2, <3>3, ShelfBound DEF ShelfVersion
    <3> QED  BY <3>1, <3>4 DEF Shelves!Kinds
  <2>3. CASE Shelves!deleteUserTemplate \/ Shelves!remove
    BY <1>0, <2>1, <2>3 DEF Shelves!deleteUserTemplate, Shelves!remove, Shelves!Kinds, Shelves!Gone
  <2> QED  BY <2>2, <2>3
<1>2. d.item \in Items /\ ~shPage.loading /\ UNCHANGED shServed
  BY <1>0, <1>1 DEF ShelfDialogs, Shelves!Kinds, Shelves!Begins
<1>3. PICK n \in 0..MaxShelfChanges : n = shPage.changes + 1
  BY <1>1, ShelfBound DEF Shelves!Begins, ShelfPage
<1>4. /\ shPage' = [shPage EXCEPT !.busy = d.item, !.changes = n]
  BY <1>0, <1>1, <1>3 DEF Shelves!Begins
<1>5. /\ shPage' \in ShelfPage /\ shPage'.dialog = shPage.dialog /\ shPage'.rows = shPage.rows
      /\ shPage'.busy = d.item /\ shPage'.changes = n
      /\ ~shPage'.loading /\ shPage'.trees = shPage.trees
  BY <1>2, <1>4 DEF ShelfPage
<1>6. PICK c \in ShelfCall :
        /\ shCalls' = shCalls \union {c} /\ c.item = d.item /\ c.at = "asked"
        /\ c.kind = "delete" => c.version = 0
  <2> DEFINE new == [kind |-> d.kind, item |-> d.item, at |-> "asked", version |-> v]
  <2>1. new \in ShelfCall
    BY <1>1, <1>2 DEF ShelfCall
  <2>2. shCalls' = shCalls \union {new}
    BY <1>0, <1>1 DEF Shelves!Begins
  <2>3. new.item = d.item /\ new.at = "asked" /\ (new.kind = "delete" => new.version = 0)
    BY <1>1
  <2> HIDE DEF new
  <2> QED  BY <2>1, <2>2, <2>3
<1>7. PICK b \in BOOLEAN : b = (shPage.busy # "nobody")
  OBVIOUS
<1>8. /\ shPast' \in [wrong : SUBSET Items, overtaken : BOOLEAN] /\ shPast'.wrong = shPast.wrong
      /\ shPast'.overtaken <=> shPast.overtaken \/ b
  BY <1>1, <1>7 DEF Shelves!Begins, Shelves!NoItem
<1>9. shPage.trees => ~b
  BY <1>7 DEF Shelves!saveEdit, Shelves!deleteUserTemplate, Shelves!remove, Shelves!NoItem, ShelfDialogs
<1>10. ~shPast'.overtaken => ~shPast.overtaken /\ shCalls = {}
  BY <1>7, <1>8, ShelfBound DEF ShelfAlone, ShelfCall
<1>11. ShelfShape' /\ ShelfDialogs'
  <2> QED  BY <1>2, <1>5, <1>6, <1>8 DEF ShelfDialogs
<1>12. ShelfAlone'
  BY <1>5, <1>6, <1>8, <1>9, <1>10 DEF ShelfAlone
<1>13. ShelfRows'
  BY <1>2, <1>5, <1>6, <1>8, <1>10 DEF ShelfRows
<1> QED  BY <1>11, <1>12, <1>13

LEMMA ShelfServes ==
  ASSUME ShelfInv, NEW c \in shCalls, Shelves!Serves(c)
  PROVE  ShelfInv'
<1> USE DEF ShelfInv, ShelfShape
<1>0. /\ c \in ShelfCall /\ c.at = "asked" /\ UNCHANGED <<shPage, shPast>>
      /\ c.item \in Items /\ c.version \in ShelfVersion /\ shServed[c.item] # 0
  BY DEF ShelfCall, Shelves!Serves, Shelves!Gone
<1>1. PICK d \in ShelfCall : /\ shCalls' = (shCalls \ {c}) \union {d} /\ d.at = "served"
                             /\ d.item = c.item /\ d.version = c.version /\ d.kind = c.kind
  <2> DEFINE new == [c EXCEPT !.at = "served"]
  <2>1. new \in ShelfCall /\ new.at = "served"
        /\ new.item = c.item /\ new.version = c.version /\ new.kind = c.kind
    BY <1>0 DEF ShelfCall
  <2>2. shCalls' = (shCalls \ {c}) \union {new}
    BY DEF Shelves!Serves
  <2> HIDE DEF new
  <2> QED  BY <2>1, <2>2
<1>2. shServed' = [shServed EXCEPT ![c.item] = c.version]
  BY DEF Shelves!Serves
<1>3. ShelfShape' /\ ShelfDialogs'
  BY <1>0, <1>1, <1>2 DEF ShelfDialogs
<1>4. ShelfAlone'
  BY <1>0, <1>1 DEF ShelfAlone
<1>5. ASSUME ~shPage.loading, ~shPast.overtaken, NEW i \in Items \ shPast.wrong
      PROVE  /\ (\A e \in shCalls' : e.at = "served" => e.item # i) => shPage.rows[i] = shServed'[i]
             /\ \A e \in shCalls' : e.at = "served" /\ e.item = i =>
                  shServed'[i] = e.version /\ (e.version = 0 \/ shPage.rows[i] # 0)
  <2>1. \A e \in shCalls : e.at # "served"
    BY <1>0, <1>5 DEF ShelfAlone
  <2>2. shPage.rows[i] = shServed[i]
    BY <1>5, <2>1 DEF ShelfRows
  <2>3. i # c.item => shServed'[i] = shServed[i]
    BY <1>2
  <2>4. shServed'[c.item] = c.version
    BY <1>0, <1>2
  <2> HIDE DEF ShelfInv, ShelfShape
  <2> QED  BY <1>0, <1>1, <2>1, <2>2, <2>3, <2>4
<1>6. ShelfRows'
  BY <1>0, <1>5 DEF ShelfRows
<1> QED  BY <1>3, <1>4, <1>6

\* What every end of a change does: the mark is cleared, and a dialog may close.
LEMMA ShelfEnds ==
  ASSUME ShelfInv, NEW c \in shCalls, shCalls' = shCalls \ {c}, UNCHANGED shServed,
         NEW dialog \in ShelfDialog, dialog = shPage.dialog \/ dialog = Shelves!NoDialog,
         NEW rows \in [Items -> ShelfVersion],
         shPage' = [shPage EXCEPT !.rows = rows, !.busy = "nobody", !.dialog = dialog],
         shPast' \in [wrong : SUBSET Items, overtaken : BOOLEAN],
         shPast'.overtaken = shPast.overtaken,
         ~shPast.overtaken => \A i \in Items \ shPast'.wrong : rows[i] = shServed[i]
  PROVE  ShelfInv'
<1> USE DEF ShelfInv, ShelfShape
<1>1. /\ shPage' \in ShelfPage /\ shPage'.dialog = dialog /\ shPage'.rows = rows
      /\ shPage'.busy = "nobody" /\ shPage'.changes = shPage.changes
      /\ shPage'.loading = shPage.loading /\ shPage'.trees = shPage.trees
  BY DEF ShelfPage
<1>2. Shelves!NoDialog.kind = "none" /\ Shelves!NoDialog.version = 0
  BY DEF Shelves!NoDialog, Shelves!Gone
<1>3. ShelfShape' /\ ShelfDialogs'
  BY <1>1, <1>2, ShelfBound DEF ShelfDialogs
<1>4. ~shPast.overtaken => shCalls' = {}
  BY DEF ShelfAlone
<1>5. ShelfAlone' /\ ShelfRows'
  BY <1>1, <1>4 DEF ShelfAlone, ShelfRows
<1> QED  BY <1>3, <1>5

LEMMA ShelfAnswered ==
  ASSUME ShelfInv, NEW c \in shCalls, Shelves!Updated(c) \/ Shelves!Deleted(c)
  PROVE  ShelfInv'
<1> USE DEF ShelfInv, ShelfShape
<1>0. /\ c \in ShelfCall /\ c.at = "served" /\ shCalls' = shCalls \ {c} /\ UNCHANGED <<shServed, shPast>>
      /\ c.item \in Items /\ c.version \in ShelfVersion
      /\ shPage.rows \in [Items -> ShelfVersion] /\ shPage.dialog \in ShelfDialog
  BY DEF ShelfCall, ShelfPage, Shelves!Updated, Shelves!Deleted, Shelves!Answered
<1>1. PICK v \in ShelfVersion :
        /\ Shelves!Answered(c, v)
        /\ v = IF c.kind = "edit" /\ shPage.rows[c.item] = 0 THEN 0 ELSE c.version
  <2>1. 0 \in ShelfVersion
    BY ShelfBound DEF ShelfVersion
  <2>2. c.kind = "delete" => c.version = 0
    BY DEF ShelfDialogs
  <2> QED  BY <1>0, <2>1, <2>2 DEF Shelves!Updated, Shelves!Deleted, Shelves!Gone
<1>2. PICK rows \in [Items -> ShelfVersion] : rows = [shPage.rows EXCEPT ![c.item] = v]
  BY <1>0
<1>3. PICK dialog \in ShelfDialog :
        /\ dialog = IF shPage.dialog.kind = c.kind THEN Shelves!NoDialog ELSE shPage.dialog
  <2>1. Shelves!NoDialog \in ShelfDialog
    BY DEF Shelves!NoDialog, ShelfDialog, Shelves!NoItem, Shelves!Gone
  <2> QED  BY <1>0, <2>1
<1>4. shPage' = [shPage EXCEPT !.rows = rows, !.busy = "nobody", !.dialog = dialog]
  BY <1>1, <1>2, <1>3 DEF Shelves!Answered, Shelves!NoItem, ShelfPage
<1>5. ~shPast.overtaken => ~shPage.loading /\ \A d \in shCalls : d = c
  BY DEF ShelfAlone, ShelfDialogs
<1>6. ASSUME ~shPast.overtaken, NEW i \in Items \ shPast.wrong
      PROVE  rows[i] = shServed[i]
  <2>1. CASE i = c.item
    <3>1. shServed[i] = c.version /\ (c.version = 0 \/ shPage.rows[i] # 0)
      BY <1>0, <1>5, <1>6, <2>1 DEF ShelfRows
    <3> QED  BY <1>0, <1>1, <1>2, <2>1, <3>1
  <2>2. CASE i # c.item
    <3>1. shPage.rows[i] = shServed[i]
      BY <1>5, <1>6, <2>2 DEF ShelfRows
    <3> QED  BY <1>0, <1>2, <2>2, <3>1
  <2> QED  BY <2>1, <2>2
<1>7. shPast' \in [wrong : SUBSET Items, overtaken : BOOLEAN] /\ shPast'.overtaken = shPast.overtaken
      /\ shPast'.wrong = shPast.wrong
  BY <1>0
<1> QED  BY <1>0, <1>3, <1>4, <1>6, <1>7, ShelfEnds

LEMMA ShelfFails ==
  ASSUME ShelfInv, NEW c \in shCalls, Shelves!Fails(c)
  PROVE  ShelfInv'
<1> USE DEF ShelfInv, ShelfShape
<1>0. /\ c \in ShelfCall /\ shCalls' = shCalls \ {c} /\ UNCHANGED shServed
      /\ c.item \in Items
  BY DEF ShelfCall, Shelves!Fails
<1>1. PICK rows \in [Items -> ShelfVersion], dialog \in ShelfDialog :
        rows = shPage.rows /\ dialog = shPage.dialog
  BY DEF ShelfPage
<1>2. shPage' = [shPage EXCEPT !.rows = rows, !.busy = "nobody", !.dialog = dialog]
  BY <1>1 DEF Shelves!Fails, Shelves!NoItem, ShelfPage
<1>3. PICK w \in SUBSET Items : w = IF c.at = "served" THEN shPast.wrong \union {c.item} ELSE shPast.wrong
  BY <1>0
<1>4. shPast' \in [wrong : SUBSET Items, overtaken : BOOLEAN] /\ shPast'.overtaken = shPast.overtaken
      /\ shPast'.wrong = w
  BY <1>3 DEF Shelves!Fails
<1>5. ~shPast.overtaken => ~shPage.loading /\ \A d \in shCalls : d = c
  BY DEF ShelfAlone, ShelfDialogs
<1>6. ASSUME ~shPast.overtaken, NEW i \in Items \ w
      PROVE  rows[i] = shServed[i]
  <2>1. i \in Items \ shPast.wrong /\ \A d \in shCalls : d.at = "served" => d.item # i
    BY <1>3, <1>5, <1>6
  <2> QED  BY <1>1, <1>5, <1>6, <2>1 DEF ShelfRows
<1> QED  BY <1>0, <1>1, <1>2, <1>4, <1>6, ShelfEnds

\* A row that another user changed is one the page may be wrong about.
LEMMA ShelfOthers ==
  ASSUME ShelfInv, NEW i \in Items, NEW v \in {Shelves!Theirs, Shelves!Gone}, Shelves!OthersChange(i, v)
  PROVE  ShelfInv'
<1> USE DEF ShelfInv, ShelfShape
<1>0. v \in ShelfVersion
  BY ShelfBound DEF ShelfVersion, Shelves!Theirs, Shelves!Gone
<1>1. shServed' = [shServed EXCEPT ![i] = v] /\ UNCHANGED <<shPage, shCalls>>
  BY DEF Shelves!OthersChange
<1>2. PICK w \in SUBSET Items : w = IF shPage.loading THEN shPast.wrong ELSE shPast.wrong \union {i}
  OBVIOUS
<1>3. shPast' \in [wrong : SUBSET Items, overtaken : BOOLEAN] /\ shPast'.overtaken = shPast.overtaken
      /\ shPast'.wrong = w
  BY <1>2 DEF Shelves!OthersChange
<1>4. ShelfShape' /\ ShelfDialogs' /\ ShelfAlone'
  BY <1>0, <1>1, <1>3 DEF ShelfDialogs, ShelfAlone
<1>5. \A j \in Items : j # i => shServed'[j] = shServed[j]
  BY <1>1
<1>6. ShelfRows'
  BY <1>1, <1>2, <1>3, <1>5 DEF ShelfRows
<1> QED  BY <1>4, <1>6

LEMMA ShelfStep ==
  ASSUME ShelfInv, Shelves!ShelfNext
  PROVE  ShelfInv'
BY ShelfPageStep, ShelfLoad, ShelfBegins, ShelfServes, ShelfAnswered, ShelfFails, ShelfOthers DEF Shelves!ShelfNext

LEMMA ShelfSame ==
  ASSUME ShelfInv, UNCHANGED shelf
  PROVE  ShelfInv'
BY DEF shelf, ShelfInv, ShelfShape, ShelfDialogs, ShelfAlone, ShelfRows

\* The invariant says what the properties of the page say.
LEMMA ShelfKnows ==
  ASSUME ShelfInv
  PROVE  Shelves!ShelfTypeOK /\ Shelves!ShelfIsTrue
<1>1. Shelves!ShelfTypeOK
  BY DEF ShelfInv, ShelfShape, ShelfPage, ShelfVersion, Shelves!ShelfTypeOK, Shelves!NoItem,
     Shelves!Theirs
<1>2. shPage.trees => ~shPast.overtaken /\ Shelves!Cardinality(shCalls) <= 1
  <2>1. ASSUME shPage.trees
        PROVE  Cardinality(shCalls) <= 1
    BY <2>1, OneOrNoneIsCounted DEF ShelfInv, ShelfAlone
  <2>2. Shelves!Cardinality(shCalls) = Cardinality(shCalls)
    BY DEF Cardinality, Shelves!Cardinality, IsFiniteSet, Shelves!IsFiniteSet
  <2> QED  BY <2>1, <2>2 DEF ShelfInv, ShelfAlone
<1> QED  BY <1>1, <1>2 DEF ShelfInv, ShelfRows, Shelves!ShelfIsTrue

-----------------------------------------------------------------------------
(* The panels: the invariant.                                              *)

IgVals(n) == [value : 0..n, on : BOOLEAN]
IgRows(m, n) == {rows \in [Panels!Rows -> IgVals(n)] : \A i \in Panels!Rows : i > m => rows[i] = Panels!Gone}
IgList(m, n) ==
  [op : {"list"}, id : {0}, to : {Panels!Gone}, at : {"asked", "served"}, rows : IgRows(m, n)]
IgOps == {"create", "edit", "rotate", "toggle", "delete", "test"}
IgCall(m, n) == [op : IgOps, id : 0..m, to : IgVals(n), at : {"asked", "served"}, n : Nat]
IgServer == [rows : [Panels!Rows -> [value : Nat, on : BOOLEAN]], made : Panels!Rows, values : Nat]
IgPage(m, n) ==
  [panel : Panels!Panels, rows : IgRows(m, n), loading : BOOLEAN, form : -1..m,
   raw : Nat, busy : SUBSET Nat, sent : Nat]
IgPast == [late : BOOLEAN, crossed : BOOLEAN, lost : SUBSET Panels!Rows,
           others : SUBSET Panels!Rows, ended : SUBSET Nat]

IgShape ==
  /\ igServed \in IgServer
  /\ igServed.rows \in IgRows(igServed.made, igServed.values)
  /\ igPage \in IgPage(igServed.made, igServed.values)
  /\ igCalls \subseteq IgList(igServed.made, igServed.values) \union IgCall(igServed.made, igServed.values)
  /\ igPast \in IgPast

\* A request that changes a row.
IgEdits(c) == c.op \notin {"list", "test"}

\* The panel loads until its one list is answered, and has sent nothing before
\* the first request.
IgFirst ==
  /\ \A c, d \in igCalls : c.op = "list" /\ d.op = "list" => c = d
  /\ \A c \in igCalls : c.op = "list" => igPage.loading
  /\ igPage.sent = 0 => igPage.raw = 0 /\ \A c \in igCalls :
       /\ c.op = "list"
       /\ c.at = "served" =>
            \A i \in Panels!Rows \ igPast.others : c.rows[i] = igServed.rows[i]

\* Of the keys, one is created and one revoked at a time, and none revoked
\* from under the dialog.
IgKeys ==
  igPage.panel = "keys" =>
    /\ \A c, d \in igCalls : c.op = d.op => c = d
    /\ \A c \in igCalls : c.op \in {"list", "create", "delete"}
    /\ \A c \in igCalls : c.op = "create" => 1 \in igPage.busy /\ igPage.form # -1
    /\ \A c \in igCalls : c.op = "delete" => 2 \in igPage.busy

\* Of the webhooks, one request is under way, the list before all others.
IgHooks ==
  igPage.panel = "webhooks" =>
    /\ \A c, d \in igCalls : c = d
    /\ \A c \in igCalls : IF c.op = "list" THEN igPage.sent = 0 ELSE 1 \in igPage.busy
    /\ \A c \in igCalls : c.op = "list" => \A i \in Panels!Rows : igPage.rows[i] = Panels!Gone
    /\ \A c \in igCalls : c.op # "test"
    /\ ~igPast.late

IgApart ==
  /\ igPage.panel # "destinations" => ~igPast.crossed
  /\ igPage.panel = "destinations" => igPage.raw = 0
  /\ ~igPast.crossed => \A c, d \in igCalls :
       IgEdits(c) /\ IgEdits(d) /\ c.id = d.id /\ c.id # 0 => c = d

\* What a request that was served left is still there, but for what other pages did.
IgLeft ==
  /\ \A c \in igCalls : c.op # "list" /\ (c.at = "served" \/ c.op # "create") => c.id # 0
  /\ ~igPast.crossed => \A c \in igCalls :
       IgEdits(c) /\ c.at = "served" =>
         /\ c.id \in igPast.others \/ igServed.rows[c.id] = c.to
         /\ c.to.value \in igPast.ended \/ igServed.rows[c.id].value = c.to.value

\* No request is for the row whose secret is shown.
IgRaw ==
  igPage.raw \notin igPast.ended \union {0} => \E i \in Panels!Rows :
    /\ igServed.rows[i].value = igPage.raw
    /\ igPast.late \/ i \in igPast.others \/ igPage.rows[i] = igServed.rows[i]
    /\ \A c \in igCalls : c.id # i

\* A row is the server's, or an answer that puts it right is on its way.
IgTrue ==
  ~igPast.late /\ ~igPast.crossed /\ (\A c \in igCalls : c.op # "list") =>
    \A i \in Panels!Rows \ (igPast.lost \union igPast.others) :
      /\ (\A c \in igCalls : IgEdits(c) /\ c.at = "served" => c.id # i)
           => igPage.rows[i] = igServed.rows[i]
      /\ \A c \in igCalls : IgEdits(c) /\ c.at = "served" /\ c.id = i
           => igPage.rows[i] # Panels!Gone \/ c.to = Panels!Gone \/ c.op = "create"

IgInv == IgShape /\ IgFirst /\ IgKeys /\ IgHooks /\ IgApart /\ IgLeft /\ IgRaw /\ IgTrue

LEMMA IgBounds == MaxRows \in Nat /\ 1 <= MaxRows /\ MaxSent \in Nat /\ 1 \in Panels!Rows
BY StudioAssumption DEF Panels!Rows

LEMMA IgGone == ASSUME NEW n \in Nat PROVE Panels!Gone \in IgVals(n)
BY DEF Panels!Gone, IgVals

\* What is bounded stays bounded as the numbers grow.
LEMMA IgGrows ==
  ASSUME NEW m \in Nat, NEW n \in Nat, NEW m2 \in Nat, NEW n2 \in Nat, m <= m2, n <= n2
  PROVE  /\ IgVals(n) \subseteq IgVals(n2) /\ IgRows(m, n) \subseteq IgRows(m2, n2)
         /\ IgList(m, n) \subseteq IgList(m2, n2) /\ IgCall(m, n) \subseteq IgCall(m2, n2)
         /\ IgPage(m, n) \subseteq IgPage(m2, n2)
<1>1. IgVals(n) \subseteq IgVals(n2)
  BY DEF IgVals
<1>2. IgRows(m, n) \subseteq IgRows(m2, n2)
  <2>1. \A i \in Panels!Rows : i > m2 => i > m
    BY IgBounds DEF Panels!Rows
  <2> QED  BY <1>1, <2>1 DEF IgRows
<1>3. 0..m \subseteq 0..m2 /\ -1..m \subseteq -1..m2
  OBVIOUS
<1> QED  BY <1>1, <1>2, <1>3 DEF IgList, IgCall, IgPage

LEMMA IgKinds ==
  ASSUME IgShape, NEW c \in igCalls
  PROVE  \/ c.op = "list" /\ c \in IgList(igServed.made, igServed.values) /\ c.id = 0 /\ ~IgEdits(c)
         \/ c.op # "list" /\ c.op \in IgOps /\ c \in IgCall(igServed.made, igServed.values)
BY DEF IgShape, IgList, IgCall, IgOps, IgEdits

LEMMA IgInit == Panels!IntegrationsInit => IgInv
<1> SUFFICES ASSUME Panels!IntegrationsInit
             PROVE  IgInv
  OBVIOUS
<1>1. PICK first \in IgRows(1, 1) : igServed = [rows |-> first, made |-> 1, values |-> 1]
  <2> DEFINE rows == [i \in Panels!Rows |-> IF i = 1 THEN [value |-> 1, on |-> TRUE] ELSE Panels!Gone]
  <2>1. [value |-> 1, on |-> TRUE] \in IgVals(1) /\ Panels!Gone \in IgVals(1)
    BY IgGone DEF IgVals
  <2>2. rows \in [Panels!Rows -> IgVals(1)]
    BY <2>1
  <2>3. \A i \in Panels!Rows : i > 1 => rows[i] = Panels!Gone
    BY IgBounds DEF Panels!Rows
  <2>4. igServed = [rows |-> rows, made |-> 1, values |-> 1]
    BY DEF Panels!IntegrationsInit
  <2> QED  BY <2>2, <2>3, <2>4 DEF IgRows
<1>2. /\ igServed \in IgServer /\ igServed.made = 1 /\ igServed.values = 1 /\ igServed.rows = first
  BY <1>1, IgBounds DEF IgServer, IgRows, IgVals
<1>3. PICK none \in IgRows(1, 1) : none = [i \in Panels!Rows |-> Panels!Gone]
  BY IgGone DEF IgRows
<1>4. /\ igPage \in IgPage(1, 1) /\ igPage.sent = 0 /\ igPage.raw = 0 /\ igPage.loading
      /\ igPage.rows = none /\ igPage.form = -1
  BY <1>3 DEF Panels!IntegrationsInit, IgPage, Panels!Closed
<1>5. /\ Panels!List \in IgList(1, 1) /\ Panels!List.op = "list" /\ Panels!List.at = "asked"
      /\ Panels!List.id = 0
  BY <1>3 DEF Panels!List, IgList, Panels!New
<1>6. igCalls = {Panels!List} /\ igPast \in IgPast /\ ~igPast.late /\ ~igPast.crossed /\ igPast.lost = {}
      /\ igPast.others = {} /\ igPast.ended = {}
  BY DEF Panels!IntegrationsInit, IgPast
<1>7. IgShape
  BY <1>1, <1>2, <1>4, <1>5, <1>6 DEF IgShape
<1>8. IgFirst /\ IgKeys /\ IgHooks
  BY <1>3, <1>4, <1>5, <1>6 DEF IgFirst, IgKeys, IgHooks
<1> QED  BY <1>4, <1>5, <1>6, <1>7, <1>8 DEF IgInv, IgApart, IgLeft, IgRaw, IgTrue, IgEdits

-----------------------------------------------------------------------------
(* The panels: their steps.                                                *)

\* A form is opened or a dialog closed.
LEMMA IgForms ==
  ASSUME IgInv, Panels!openForm \/ Panels!closeDialog
  PROVE  IgInv'
<1>0. /\ IgShape /\ igServed.values \in Nat /\ igPage \in IgPage(igServed.made, igServed.values)
      /\ igServed.made \in Nat /\ UNCHANGED <<igServed, igCalls, igPast>>
  BY IgBounds DEF IgInv, IgShape, IgServer, Panels!openForm, Panels!closeDialog, Panels!Shows, Panels!Rows
<1>1. PICK form \in -1..igServed.made : \E raw \in {0, igPage.raw} :
        /\ igPage' = [igPage EXCEPT !.form = form, !.raw = raw]
        /\ igPage.panel = "keys" => form # -1 \/ 1 \notin igPage.busy
  <2>1. CASE Panels!openForm
    <3>1. PICK form \in Panels!Rows \union {0} :
            /\ igPage' = [igPage EXCEPT !.form = form]
            /\ form = 0 \/ igPage.rows[form] # Panels!Gone
      BY <2>1 DEF Panels!openForm, Panels!Shows, Panels!New, Panels!Listed
    <3>2. PICK page : page = igPage
      OBVIOUS
    <3>3. [page EXCEPT !.form = form] = [page EXCEPT !.form = form, !.raw = page.raw]
      BY <1>0, <3>2 DEF IgPage
    <3>4. form \in -1..igServed.made /\ form # -1
      BY <1>0, <3>1, IgBounds DEF IgPage, IgRows, Panels!Rows
    <3>5. igPage' = [igPage EXCEPT !.form = form, !.raw = igPage.raw]
      BY <3>1, <3>2, <3>3
    <3> QED  BY <3>4, <3>5
  <2>2. CASE Panels!closeDialog
    <3>1. igPage' = [igPage EXCEPT !.form = -1, !.raw = 0]
      BY <2>2 DEF Panels!closeDialog, Panels!Shows, Panels!Closed
    <3>2. igPage.panel = "keys" => 1 \notin igPage.busy
      <4>1. igPage.panel = "keys" => Panels!Lane("create", 0) = 1
        BY DEF Panels!Lane
      <4> QED  BY <2>2, <4>1 DEF Panels!closeDialog, Panels!New
    <3>3. -1 \in -1..igServed.made
      BY <1>0
    <3> QED  BY <3>1, <3>2, <3>3
  <2> QED  BY <2>1, <2>2
<1>2. PICK raw \in {0, igPage.raw} : igPage' = [igPage EXCEPT !.form = form, !.raw = raw]
  BY <1>1
<1>3. /\ igPage' \in IgPage(igServed.made, igServed.values) /\ igPage'.panel = igPage.panel
      /\ igPage'.rows = igPage.rows
      /\ igPage'.loading = igPage.loading /\ igPage'.form = form /\ igPage'.raw = raw
      /\ igPage'.busy = igPage.busy /\ igPage'.sent = igPage.sent
  <2>1. igPage.raw \in Nat /\ raw \in Nat
    BY <1>0 DEF IgPage
  <2> QED  BY <1>0, <1>2, <2>1 DEF IgPage
<1>4. IgShape'
  BY <1>0, <1>3 DEF IgShape
<1>5. IgKeys'
  BY <1>0, <1>1, <1>3 DEF IgInv, IgKeys
<1> QED  BY <1>0, <1>2, <1>3, <1>4, <1>5 DEF IgInv, IgFirst, IgHooks, IgApart, IgLeft, IgRaw, IgTrue, IgEdits

\* The user begins a request: what it is of each panel.
LEMMA IgSends ==
  ASSUME IgInv, NEW op \in IgOps, NEW id \in 0..igServed.made, NEW to \in IgVals(igServed.values),
         Panels!Sends(op, id, to), igPage.raw = 0, op = "create" <=> id = 0,
         igPage.panel = "keys" => \/ op = "create" /\ igPage.form # -1
                                  \/ op = "delete" /\ igPage.form = -1,
         igPage.panel = "webhooks" => op # "test" /\ \A c \in igCalls : c.op # "list"
  PROVE  IgInv'
<1>0. /\ IgShape /\ igServed.values \in Nat /\ igPage \in IgPage(igServed.made, igServed.values) /\ igServed.made \in Nat
      /\ igPage.sent \in Nat /\ igPast \in IgPast /\ igPage.busy \subseteq Nat
      /\ igPage.panel \in {"keys", "webhooks", "destinations"} /\ UNCHANGED igServed
  BY IgBounds DEF IgInv, IgShape, IgServer, IgPage, Panels!Sends, Panels!Panels, Panels!Rows
<1>1. PICK new \in IgCall(igServed.made, igServed.values) :
        /\ new.op = op /\ new.id = id /\ new.at = "asked" /\ igCalls' = igCalls \union {new}
  BY <1>0 DEF IgCall, Panels!Sends
<1>2. PICK lane \in Nat :
        /\ lane = Panels!Lane(op, id) /\ lane \notin igPage.busy
        /\ igPage.panel = "keys" => lane = IF op = "create" THEN 1 ELSE 2
        /\ igPage.panel = "webhooks" => lane = 1
  BY <1>0 DEF Panels!Lane, Panels!Sends
<1>3. PICK busy \in SUBSET Nat :
        /\ busy = Panels!Marked(lane) /\ lane \in busy
        /\ igPage.panel = "keys" => igPage.busy \subseteq busy
  BY <1>0 DEF Panels!Marked
<1>4. igPage' = [igPage EXCEPT !.busy = busy, !.sent = igPage.sent + 1]
  BY <1>2, <1>3 DEF Panels!Sends
<1>5. /\ igPage' \in IgPage(igServed.made, igServed.values) /\ igPage'.panel = igPage.panel /\ igPage'.rows = igPage.rows
      /\ igPage'.loading = igPage.loading /\ igPage'.form = igPage.form /\ igPage'.raw = 0
      /\ igPage'.busy = busy /\ igPage'.sent = igPage.sent + 1
  <2>1. igPage.sent + 1 \in Nat
    BY <1>0
  <2> QED  BY <1>0, <1>4, <2>1 DEF IgPage
<1>6. PICK crossed \in BOOLEAN :
        /\ crossed <=> igPast.crossed \/ \E c \in igCalls :
                         op # "test" /\ c.op # "test" /\ id # 0 /\ c.id = id
        /\ igPast' = [igPast EXCEPT !.crossed = crossed]
  <2> DEFINE met == igPast.crossed \/ \E c \in igCalls : "test" \notin {op, c.op} /\ id # Panels!New /\ c.id = id
  <2>1. met \in BOOLEAN
    BY <1>0 DEF IgPast
  <2>2. igPast' = [igPast EXCEPT !.crossed = met]
    BY DEF Panels!Sends
  <2>3. met <=> igPast.crossed \/ \E c \in igCalls :
                  op # "test" /\ c.op # "test" /\ id # 0 /\ c.id = id
    BY DEF Panels!New
  <2> HIDE DEF met
  <2> QED  BY <2>1, <2>2, <2>3
<1>7. /\ igPast' \in IgPast /\ igPast'.late = igPast.late /\ igPast'.lost = igPast.lost
      /\ igPast'.crossed = crossed /\ igPast'.others = igPast.others /\ igPast'.ended = igPast.ended
  BY <1>0, <1>6 DEF IgPast
<1>8. IgShape'
  BY <1>0, <1>1, <1>5, <1>7 DEF IgShape
<1>9. IgFirst'
  BY <1>0, <1>1, <1>5 DEF IgInv, IgFirst, IgOps
<1>10. IgKeys'
  <2> SUFFICES ASSUME igPage.panel = "keys"
               PROVE  IgKeys'
    BY <1>5 DEF IgKeys
  <2>1. \A c \in igCalls : c.op # op
    BY <1>2 DEF IgInv, IgKeys
  <2> QED  BY <1>1, <1>2, <1>3, <1>5, <2>1 DEF IgInv, IgKeys
<1>11. igPage.panel = "webhooks" => igCalls = {}
  BY <1>2 DEF IgInv, IgHooks
<1>12. IgHooks'
  BY <1>1, <1>2, <1>3, <1>5, <1>7, <1>11 DEF IgInv, IgHooks, IgOps
<1>13. igPage.panel = "keys" => ~crossed
  <2> SUFFICES ASSUME igPage.panel = "keys", NEW c \in igCalls, id # 0, c.id = id
               PROVE  FALSE
    BY <1>6 DEF IgInv, IgApart
  <2>1. op = "delete" /\ igPage.form = -1 /\ lane = 2
    BY <1>2
  <2>2. c.op \in {"create", "delete"}
    BY <1>0, IgKinds DEF IgInv, IgKeys
  <2> QED  BY <1>2, <2>1, <2>2 DEF IgInv, IgKeys
<1>14. IgApart'
  <2>1. igPage.panel # "destinations" => ~crossed
    BY <1>0, <1>6, <1>11, <1>13 DEF IgInv, IgApart
  <2>2. ASSUME ~crossed, NEW c \in igCalls, IgEdits(c), IgEdits(new), c.id = id, id # 0
        PROVE  FALSE
    BY <1>1, <1>6, <2>2 DEF IgEdits
  <2> QED  BY <1>1, <1>5, <1>6, <1>7, <2>1, <2>2 DEF IgInv, IgApart, IgEdits
<1>15. IgLeft'
  BY <1>0, <1>1, <1>6, <1>7 DEF IgInv, IgLeft, IgEdits
<1>16. IgTrue'
  BY <1>0, <1>1, <1>5, <1>6, <1>7 DEF IgInv, IgTrue, IgEdits
<1>17. IgRaw'
  BY <1>5 DEF IgRaw
<1> QED  BY <1>8, <1>9, <1>10, <1>12, <1>14, <1>15, <1>16, <1>17 DEF IgInv

LEMMA IgRequests ==
  ASSUME IgInv,
         \/ Panels!create \/ Panels!createWebhook \/ Panels!save \/ Panels!rotate \/ Panels!toggle
         \/ Panels!remove \/ Panels!test
  PROVE  IgInv'
<1>0. /\ igServed.values \in Nat /\ igPage \in IgPage(igServed.made, igServed.values) /\ igServed.made \in Nat
      /\ \A i \in Panels!Rows : igPage.rows[i] \in IgVals(igServed.values)
      /\ Panels!Gone \in IgVals(igServed.values)
  BY IgGone, IgBounds DEF IgInv, IgShape, IgServer, IgPage, IgRows, Panels!Rows
<1>1. \A i \in Panels!Rows : igPage.rows[i] # Panels!Gone => i \in 0..igServed.made /\ i # 0
  BY <1>0, IgBounds DEF IgPage, IgRows, Panels!Rows
<1>2. 0 \in 0..igServed.made /\ igPage.form \in -1..igServed.made
      /\ igPage.panel \in {"keys", "webhooks", "destinations"}
  BY <1>0 DEF IgPage, Panels!Panels
<1>3. CASE Panels!create
  BY <1>0, <1>2, <1>3, IgSends DEF Panels!create, Panels!New, IgOps
<1>4. \A c \in igCalls : igPage.panel = "webhooks" /\ c.op = "list" =>
        igPage.loading /\ \A i \in Panels!Rows : igPage.rows[i] = Panels!Gone
  BY DEF IgInv, IgFirst, IgHooks
<1>5. CASE Panels!createWebhook
  BY <1>0, <1>2, <1>4, <1>5, IgSends DEF Panels!createWebhook, Panels!New, Panels!Idle, IgOps
<1>6. CASE Panels!save
  <2>1. [value |-> 0, on |-> TRUE] \in IgVals(igServed.values)
    BY <1>0 DEF IgVals
  <2>2. igPage.raw = 0 /\ igPage.panel = "destinations" /\ igPage.form \in 0..igServed.made
    BY <1>0, <1>2, <1>6 DEF IgInv, IgApart, Panels!save, Panels!Closed
  <2>3. PICK op \in IgOps :
          /\ op = IF igPage.form = 0 THEN "create" ELSE "edit"
          /\ Panels!Sends(op, igPage.form, [value |-> 0, on |-> TRUE])
    BY <1>6 DEF Panels!save, Panels!New, IgOps
  <2> QED  BY <2>1, <2>2, <2>3, IgSends
<1>7. ASSUME NEW i \in Panels!Listed, NEW op \in IgOps, op # "create",
             NEW to \in IgVals(igServed.values), Panels!Sends(op, i, to),
             igPage.panel = "keys" => op = "delete",
             igPage.panel = "webhooks" => op # "test"
      PROVE  IgInv'
  <2>1. i \in 0..igServed.made /\ i # 0 /\ i \in Panels!Rows /\ igPage.rows[i] # Panels!Gone
        /\ igPage.raw = 0 /\ igPage.form = -1
    BY <1>1, <1>7 DEF Panels!Listed, Panels!Idle, Panels!Closed
  <2> QED  BY <1>4, <1>7, <2>1, IgSends
<1>8. CASE Panels!rotate
  BY <1>0, <1>7, <1>8 DEF Panels!rotate, IgOps
<1>9. CASE Panels!toggle
  <2>1. PICK i \in Panels!Listed : Panels!Sends("toggle", i, [igPage.rows[i] EXCEPT !.on = ~@])
    BY <1>9 DEF Panels!toggle
  <2>2. PICK val \in IgVals(igServed.values) : val = igPage.rows[i]
    BY <1>0 DEF Panels!Listed
  <2>3. [val EXCEPT !.on = ~val.on] \in IgVals(igServed.values)
    BY DEF IgVals
  <2> QED  BY <1>0, <1>7, <1>9, <2>1, <2>2, <2>3 DEF Panels!toggle, IgOps
<1>10. CASE Panels!remove
  BY <1>0, <1>7, <1>10 DEF Panels!remove, IgOps
<1>11. CASE Panels!test
  BY <1>0, <1>7, <1>11 DEF Panels!test, IgOps
<1> QED  BY <1>3, <1>5, <1>6, <1>8, <1>9, <1>10, <1>11

LEMMA IgListServed ==
  ASSUME IgInv, NEW c \in igCalls, Panels!ListServed(c)
  PROVE  IgInv'
<1>0. /\ IgShape /\ c \in IgList(igServed.made, igServed.values) /\ c.op = "list" /\ c.id = 0
      /\ igServed.rows \in IgRows(igServed.made, igServed.values)
      /\ UNCHANGED <<igServed, igPage, igPast>>
  BY IgKinds DEF IgInv, IgShape, Panels!ListServed
<1>1. PICK new \in IgList(igServed.made, igServed.values) :
        /\ new = [c EXCEPT !.at = "served", !.rows = igServed.rows]
        /\ new.op = "list" /\ new.id = 0 /\ new.at = "served" /\ new.rows = igServed.rows
  <2>1. [c EXCEPT !.at = "served", !.rows = igServed.rows] \in IgList(igServed.made, igServed.values)
    BY <1>0 DEF IgList
  <2>2. /\ [c EXCEPT !.at = "served", !.rows = igServed.rows].at = "served"
        /\ [c EXCEPT !.at = "served", !.rows = igServed.rows].rows = igServed.rows
        /\ [c EXCEPT !.at = "served", !.rows = igServed.rows].op = "list"
        /\ [c EXCEPT !.at = "served", !.rows = igServed.rows].id = 0
    BY <1>0 DEF IgList
  <2> QED  BY <2>1, <2>2
<1>2. igCalls' = (igCalls \ {c}) \union {new}
  BY <1>1 DEF Panels!ListServed
<1>3. \A d \in igCalls : d.op = "list" => d = c
  BY <1>0 DEF IgInv, IgFirst
<1>4. IgShape'
  BY <1>0, <1>1, <1>2 DEF IgShape
<1>5. IgFirst'
  BY <1>0, <1>1, <1>2, <1>3 DEF IgInv, IgFirst
<1>6. IgKeys'
  <2> SUFFICES ASSUME igPage.panel = "keys"
               PROVE  IgKeys'
    BY <1>0 DEF IgKeys
  <2>1. \A d, e \in igCalls' : d.op = e.op => d = e
    <3>1. \A d \in igCalls \ {c} : d.op # "list"
      BY <1>3
    <3>2. \A d, e \in igCalls : d.op = e.op => d = e
      BY DEF IgInv, IgKeys
    <3> QED  BY <1>1, <1>2, <3>1, <3>2
  <2>2. \A d \in igCalls' : d \in igCalls \/ d.op = "list"
    BY <1>1, <1>2
  <2> QED  BY <1>0, <2>1, <2>2 DEF IgInv, IgKeys
<1>7. IgHooks'
  BY <1>0, <1>1, <1>2 DEF IgInv, IgHooks
<1>8. IgApart' /\ IgLeft'
  <2>1. \A d \in igCalls' : d.op # "list" => d \in igCalls
    BY <1>1, <1>2
  <2>2. IgApart'
    BY <1>0, <2>1 DEF IgInv, IgApart, IgEdits
  <2>3. IgLeft'
    BY <1>0, <2>1 DEF IgInv, IgLeft, IgEdits
  <2> QED  BY <2>2, <2>3
<1>9. IgRaw'
  <2>1. \A d \in igCalls' : d \in igCalls \/ d.id = 0
    BY <1>1, <1>2
  <2>2. \A i \in Panels!Rows : i # 0
    BY IgBounds DEF Panels!Rows
  <2> QED  BY <1>0, <2>1, <2>2 DEF IgInv, IgRaw
<1>10. IgTrue'
  BY <1>0, <1>1, <1>2 DEF IgTrue
<1> QED  BY <1>4, <1>5, <1>6, <1>7, <1>8, <1>9, <1>10 DEF IgInv

LEMMA IgListShown ==
  ASSUME IgInv, NEW c \in igCalls, Panels!ListShown(c)
  PROVE  IgInv'
<1>0. /\ IgShape /\ c \in IgList(igServed.made, igServed.values) /\ c.op = "list" /\ c.id = 0
      /\ igServed.values \in Nat /\ igPage \in IgPage(igServed.made, igServed.values)
      /\ igPast \in IgPast /\ igPage.sent \in Nat
      /\ igCalls' = igCalls \ {c} /\ UNCHANGED igServed
  BY IgKinds DEF IgInv, IgShape, IgServer, IgPage, Panels!ListShown, Panels!Ends
<1>1. PICK late \in BOOLEAN : late = (igPage.sent > 0) /\ (igPage.sent = 0 <=> ~late)
  <2>1. (igPage.sent > 0) \in BOOLEAN /\ (igPage.sent = 0 <=> ~(igPage.sent > 0))
    BY <1>0
  <2> QED  BY <2>1, Zenon
<1>2. PICK rows \in IgRows(igServed.made, igServed.values) : \E past \in IgPast :
        /\ igPage' = [igPage EXCEPT !.rows = rows, !.loading = FALSE] /\ igPast' = past
        /\ past.crossed = igPast.crossed /\ past.others = igPast.others /\ past.ended = igPast.ended
        /\ \/ c.at = "served" /\ rows = c.rows /\ past.late = late /\ past.lost = igPast.lost
           \/ rows = igPage.rows /\ past.late = igPast.late /\ past.lost = Panels!Rows
  <2>1. CASE c.at = "served" /\ igPage' = [igPage EXCEPT !.rows = c.rows, !.loading = FALSE]
             /\ igPast' = [igPast EXCEPT !.late = igPage.sent > 0]
    <3>1. c.rows \in IgRows(igServed.made, igServed.values)
      BY <1>0 DEF IgList
    <3>2. PICK past \in IgPast : past = [igPast EXCEPT !.late = late] /\ past.crossed = igPast.crossed
                                 /\ past.late = late /\ past.lost = igPast.lost
                                 /\ past.others = igPast.others /\ past.ended = igPast.ended
      <4>1. [igPast EXCEPT !.late = late] \in IgPast
        BY <1>0 DEF IgPast
      <4>2. /\ [igPast EXCEPT !.late = late].crossed = igPast.crossed
            /\ [igPast EXCEPT !.late = late].late = late
            /\ [igPast EXCEPT !.late = late].lost = igPast.lost
            /\ [igPast EXCEPT !.late = late].others = igPast.others
            /\ [igPast EXCEPT !.late = late].ended = igPast.ended
        BY <1>0 DEF IgPast
      <4> QED  BY <4>1, <4>2
    <3>3. igPast' = past
      BY <1>1, <2>1, <3>2
    <3> QED  BY <2>1, <3>1, <3>2, <3>3
  <2>2. CASE igPage' = [igPage EXCEPT !.loading = FALSE] /\ igPast' = [igPast EXCEPT !.lost = Panels!Rows]
    <3>1. igPage' = [igPage EXCEPT !.rows = igPage.rows, !.loading = FALSE]
      BY <1>0, <2>2 DEF IgPage
    <3>2. igPage.rows \in IgRows(igServed.made, igServed.values)
      BY <1>0 DEF IgPage
    <3>3. PICK past \in IgPast : past = [igPast EXCEPT !.lost = Panels!Rows] /\ past.crossed = igPast.crossed
                                 /\ past.late = igPast.late /\ past.lost = Panels!Rows
                                 /\ past.others = igPast.others /\ past.ended = igPast.ended
      <4>1. [igPast EXCEPT !.lost = Panels!Rows] \in IgPast
        BY <1>0 DEF IgPast
      <4>2. /\ [igPast EXCEPT !.lost = Panels!Rows].crossed = igPast.crossed
            /\ [igPast EXCEPT !.lost = Panels!Rows].late = igPast.late
            /\ [igPast EXCEPT !.lost = Panels!Rows].lost = Panels!Rows
            /\ [igPast EXCEPT !.lost = Panels!Rows].others = igPast.others
            /\ [igPast EXCEPT !.lost = Panels!Rows].ended = igPast.ended
        BY <1>0 DEF IgPast
      <4> QED  BY <4>1, <4>2
    <3> QED  BY <2>2, <3>1, <3>2, <3>3
  <2> QED  BY <2>1, <2>2 DEF Panels!ListShown
<1>3. /\ igPast' \in IgPast /\ igPast'.crossed = igPast.crossed
      /\ igPast'.others = igPast.others /\ igPast'.ended = igPast.ended
      /\ \/ c.at = "served" /\ rows = c.rows /\ igPast'.late = late /\ igPast'.lost = igPast.lost
         \/ rows = igPage.rows /\ igPast'.late = igPast.late /\ igPast'.lost = Panels!Rows
      /\ igPage' = [igPage EXCEPT !.rows = rows, !.loading = FALSE]
  BY <1>2
<1>4. /\ igPage' \in IgPage(igServed.made, igServed.values) /\ igPage'.panel = igPage.panel
      /\ igPage'.rows = rows /\ igPage'.form = igPage.form /\ igPage'.raw = igPage.raw
      /\ igPage'.busy = igPage.busy /\ igPage'.sent = igPage.sent
  BY <1>0, <1>3 DEF IgPage
<1>5. \A d \in igCalls' : d \in igCalls /\ d.op # "list"
  BY <1>0 DEF IgInv, IgFirst
<1>6. igPage.sent = 0 => /\ igCalls' = {}
                         /\ c.at = "served" =>
                              \A i \in Panels!Rows \ igPast.others : c.rows[i] = igServed.rows[i]
  BY <1>0, <1>5 DEF IgInv, IgFirst
<1>7. igPage.panel = "webhooks" => igCalls' = {} /\ igPage.sent = 0
  BY <1>0 DEF IgInv, IgHooks
<1>8. IgShape'
  BY <1>0, <1>3, <1>4 DEF IgShape
<1>9. IgFirst'
  BY <1>4, <1>5, <1>6 DEF IgInv, IgFirst
<1>10. IgKeys'
  BY <1>4, <1>5 DEF IgInv, IgKeys
<1>11. IgHooks'
  <2>1. igPage.panel = "webhooks" => ~igPast'.late
    BY <1>0, <1>1, <1>3, <1>7 DEF IgInv, IgHooks
  <2> QED  BY <1>4, <1>7, <2>1 DEF IgHooks
<1>12. IgApart' /\ IgLeft'
  BY <1>0, <1>3, <1>4, <1>5 DEF IgInv, IgApart, IgLeft, IgEdits
<1>13. IgRaw'
  <2> SUFFICES ASSUME igPage.raw \notin igPast.ended \union {0}
               PROVE  IgRaw'
    BY <1>3, <1>4 DEF IgRaw
  <2>1. late
    BY <1>0, <1>1 DEF IgInv, IgFirst
  <2>2. PICK i \in Panels!Rows :
          /\ igServed.rows[i].value = igPage.raw
          /\ igPast.late \/ i \in igPast.others \/ igPage.rows[i] = igServed.rows[i]
          /\ \A d \in igCalls : d.id # i
    BY DEF IgInv, IgRaw
  <2>3. igPast'.late \/ i \in igPast'.others \/ igPage'.rows[i] = igServed'.rows[i]
    BY <1>0, <1>3, <1>4, <2>1, <2>2
  <2> QED  BY <1>0, <1>4, <2>2, <2>3 DEF IgRaw
<1>14. IgTrue'
  <2>1. CASE c.at = "served" /\ rows = c.rows /\ igPast'.late = late
    <3>1. igPage.sent = 0 \/ late
      BY <1>0, <1>1
    <3>2. CASE late
      BY <2>1, <3>2 DEF IgTrue
    <3>3. CASE igPage.sent = 0
      <4>1. \A i \in Panels!Rows \ igPast.others : igPage'.rows[i] = igServed'.rows[i]
        BY <1>0, <1>4, <1>6, <2>1, <3>3
      <4> QED  BY <1>3, <1>6, <3>3, <4>1 DEF IgTrue
    <3> QED  BY <3>1, <3>2, <3>3
  <2>2. CASE igPast'.lost = Panels!Rows
    BY <2>2 DEF IgTrue
  <2> QED  BY <1>3, <2>1, <2>2
<1> QED  BY <1>8, <1>9, <1>10, <1>11, <1>12, <1>13, <1>14 DEF IgInv

LEMMA IgFails ==
  ASSUME IgInv, NEW c \in igCalls, Panels!Fails(c)
  PROVE  IgInv'
<1>0. /\ IgShape /\ c.op # "list" /\ c.op \in IgOps /\ c \in IgCall(igServed.made, igServed.values)
      /\ igPage \in IgPage(igServed.made, igServed.values)
      /\ igPast \in IgPast /\ igPage.busy \subseteq Nat /\ c.at \in {"asked", "served"}
      /\ igCalls' = igCalls \ {c} /\ UNCHANGED igServed
  BY IgKinds DEF IgInv, IgShape, IgPage, IgCall, Panels!Fails, Panels!Ends
<1>1. PICK busy \in SUBSET Nat :
        /\ igPage' = [igPage EXCEPT !.busy = busy]
        /\ igPage.panel = "keys" => busy = igPage.busy \ {IF c.op = "create" THEN 1 ELSE 2}
  <2>1. igPage.panel = "keys" => Panels!Lane(c.op, c.id) = IF c.op = "create" THEN 1 ELSE 2
    BY DEF Panels!Lane
  <2>2. Panels!Cleared(c) \in SUBSET Nat
    BY <1>0 DEF Panels!Cleared
  <2>3. igPage.panel = "keys" => Panels!Cleared(c) = igPage.busy \ {IF c.op = "create" THEN 1 ELSE 2}
    BY <2>1 DEF Panels!Cleared
  <2> QED  BY <2>2, <2>3 DEF Panels!Fails
<1>2. /\ igPage' \in IgPage(igServed.made, igServed.values) /\ igPage'.panel = igPage.panel
      /\ igPage'.rows = igPage.rows /\ igPage'.loading = igPage.loading /\ igPage'.form = igPage.form
      /\ igPage'.raw = igPage.raw /\ igPage'.busy = busy /\ igPage'.sent = igPage.sent
  BY <1>0, <1>1 DEF IgPage
<1>3. PICK lost \in SUBSET Panels!Rows :
        /\ igPast' = [igPast EXCEPT !.lost = lost] /\ igPast.lost \subseteq lost
        /\ c.at = "served" => c.id \in lost
  <2>1. c.at = "served" => c.id \in Panels!Rows
    <3>1. c.id \in 0..igServed.made /\ igServed.made \in Panels!Rows
      BY <1>0 DEF IgCall, IgInv, IgShape, IgServer
    <3>2. c.at = "served" => c.id # 0
      BY <1>0 DEF IgInv, IgLeft
    <3> QED  BY <3>1, <3>2, IgBounds DEF Panels!Rows
  <2>2. igPast.lost \subseteq Panels!Rows
    BY <1>0 DEF IgPast
  <2> QED  BY <2>1, <2>2 DEF Panels!Fails
<1>4. /\ igPast' \in IgPast /\ igPast'.late = igPast.late /\ igPast'.crossed = igPast.crossed
      /\ igPast'.lost = lost /\ igPast'.others = igPast.others /\ igPast'.ended = igPast.ended
  BY <1>0, <1>3 DEF IgPast
<1>5. IgShape'
  BY <1>0, <1>2, <1>4 DEF IgShape
<1>6. IgFirst'
  BY <1>0, <1>2 DEF IgInv, IgFirst
<1>7. IgKeys'
  <2> SUFFICES ASSUME igPage.panel = "keys"
               PROVE  IgKeys'
    BY <1>2 DEF IgKeys
  <2>1. \A d \in igCalls' : d \in igCalls /\ d.op # c.op
    BY <1>0 DEF IgInv, IgKeys
  <2>2. c.op \in {"create", "delete"}
    BY <1>0 DEF IgInv, IgKeys
  <2> QED  BY <1>1, <1>2, <2>1, <2>2 DEF IgInv, IgKeys
<1>8. igPage.panel = "webhooks" => igCalls' = {}
  BY <1>0 DEF IgInv, IgHooks
<1>9. IgHooks'
  BY <1>2, <1>4, <1>8 DEF IgInv, IgHooks
<1>10. IgApart' /\ IgLeft'
  BY <1>0, <1>2, <1>4 DEF IgInv, IgApart, IgLeft, IgEdits
<1>11. IgRaw'
  BY <1>0, <1>2, <1>4 DEF IgInv, IgRaw
<1>12. IgTrue'
  <2> SUFFICES ASSUME ~igPast.late, ~igPast.crossed, \A d \in igCalls' : d.op # "list",
                      NEW i \in Panels!Rows \ (lost \union igPast.others)
               PROVE  /\ (\A d \in igCalls' : IgEdits(d) /\ d.at = "served" => d.id # i)
                           => igPage.rows[i] = igServed.rows[i]
                      /\ \A d \in igCalls' : IgEdits(d) /\ d.at = "served" /\ d.id = i
                           => igPage.rows[i] # Panels!Gone \/ d.to = Panels!Gone \/ d.op = "create"
    BY <1>0, <1>2, <1>4 DEF IgTrue, IgEdits
  <2>1. \A d \in igCalls : d.op # "list"
    BY <1>0
  <2>2. i \in Panels!Rows \ (igPast.lost \union igPast.others) /\ (c.at = "served" => c.id # i)
    BY <1>3
  <2> QED  BY <1>0, <2>1, <2>2 DEF IgInv, IgTrue
<1> QED  BY <1>5, <1>6, <1>7, <1>9, <1>10, <1>11, <1>12 DEF IgInv

\* The server changes a row, which is of one request unless requests crossed.
LEMMA IgServes ==
  ASSUME IgInv, NEW c \in igCalls, Panels!Serves(c)
  PROVE  IgInv'
<1> DEFINE m == igServed.made
           n == igServed.values
<1>0. /\ IgShape /\ c.op # "list" /\ c.op \in IgOps /\ c \in IgCall(m, n) /\ c.at = "asked"
      /\ m \in Nat /\ n \in Nat /\ igServed.rows \in IgRows(m, n) /\ igPage \in IgPage(m, n)
      /\ m \in Panels!Rows /\ c.id \in 0..m /\ c.to \in IgVals(n)
      /\ UNCHANGED <<igPage, igPast>>
  BY IgKinds, IgBounds DEF IgInv, IgShape, IgServer, IgCall, Panels!Serves, Panels!Rows
<1>1. PICK id \in Panels!Rows, m2 \in Panels!Rows, n2 \in Nat : \E row \in IgVals(n2) :
        /\ igServed' = [rows |-> [igServed.rows EXCEPT ![id] = row], made |-> m2, values |-> n2]
        /\ igCalls' = (igCalls \ {c}) \union {[c EXCEPT !.at = "served", !.id = id, !.to = row]}
        /\ m <= m2 /\ n <= n2 /\ id <= m2
        /\ c.op = "create" => id > m
        /\ c.op # "create" => id = c.id /\ igServed.rows[id] # Panels!Gone
        /\ c.op = "test" => row = igServed.rows[id]
  <2>0. igServed.rows \in [Panels!Rows -> IgVals(n)]
    BY <1>0 DEF IgRows
  <2>1. CASE c.op = "create"
    <3>1. [value |-> n + 1, on |-> TRUE] \in IgVals(n + 1)
      BY <1>0 DEF IgVals
    <3>2. /\ m + 1 \in Panels!Rows /\ n + 1 \in Nat
          /\ igServed' = [rows |-> [igServed.rows EXCEPT ![m + 1] = [value |-> n + 1, on |-> TRUE]],
                          made |-> m + 1, values |-> n + 1]
          /\ igCalls' = (igCalls \ {c}) \union
               {[c EXCEPT !.at = "served", !.id = m + 1, !.to = [value |-> n + 1, on |-> TRUE]]}
      BY <1>0, <2>1 DEF Panels!Serves
    <3>3. m <= m + 1 /\ n <= n + 1 /\ m + 1 > m /\ m + 1 <= m + 1
      BY <1>0
    <3> HIDE DEF m, n
    <3> QED  BY <2>1, <3>1, <3>2, <3>3
  <2>2. ASSUME c.op # "create"
        PROVE  c.id \in Panels!Rows /\ igServed.rows[c.id] # Panels!Gone
               /\ igServed.rows[c.id] \in IgVals(n)
    BY <2>0, <2>2 DEF Panels!Serves
  <2>3. PICK now : now = igServed.rows[c.id]
    OBVIOUS
  <2>4. CASE c.op \in {"rotate", "edit"}
    <3>1. PICK row \in IgVals(n + 1) :
            row = IF c.op = "rotate" THEN [now EXCEPT !.value = n + 1] ELSE [c.to EXCEPT !.value = n + 1]
      <4>1. n + 1 \in 0..(n + 1) /\ now \in IgVals(n) /\ c.to \in IgVals(n)
        BY <1>0, <2>2, <2>3, <2>4
      <4>2. [now EXCEPT !.value = n + 1] \in IgVals(n + 1)
        BY <4>1 DEF IgVals
      <4>3. [c.to EXCEPT !.value = n + 1] \in IgVals(n + 1)
        BY <4>1 DEF IgVals
      <4> QED  BY <4>2, <4>3
    <3>2. /\ n + 1 \in Nat
          /\ igServed' = [rows |-> [igServed.rows EXCEPT ![c.id] = row], made |-> m, values |-> n + 1]
          /\ igCalls' = (igCalls \ {c}) \union {[c EXCEPT !.at = "served", !.id = c.id, !.to = row]}
      <4>1. CASE c.op = "rotate"
        BY <1>0, <2>3, <3>1, <4>1 DEF Panels!Serves
      <4>2. CASE c.op = "edit"
        BY <1>0, <2>3, <3>1, <4>2 DEF Panels!Serves
      <4> QED  BY <2>4, <4>1, <4>2
    <3>3. m <= m /\ n <= n + 1 /\ c.id <= m
      BY <1>0
    <3> HIDE DEF m, n
    <3> QED  BY <1>0, <2>2, <2>4, <3>1, <3>2, <3>3
  <2>5. CASE c.op \in {"toggle", "delete", "test"}
    <3>1. PICK row \in IgVals(n) :
            row = CASE c.op = "toggle" -> IF igPage.panel = "webhooks" THEN [now EXCEPT !.on = c.to.on] ELSE c.to
                    [] c.op = "delete" -> Panels!Gone
                    [] c.op = "test" -> now
      <4>1. [now EXCEPT !.on = c.to.on] \in IgVals(n)
        BY <1>0, <2>2, <2>3, <2>5 DEF IgVals
      <4> QED  BY <1>0, <2>2, <2>3, <2>5, <4>1, IgGone
    <3>2. /\ igServed' = [rows |-> [igServed.rows EXCEPT ![c.id] = row], made |-> m, values |-> n]
          /\ igCalls' = (igCalls \ {c}) \union {[c EXCEPT !.at = "served", !.id = c.id, !.to = row]}
      BY <1>0, <2>3, <2>5, <3>1 DEF Panels!Serves
    <3>3. m <= m /\ n <= n /\ c.id <= m
      BY <1>0
    <3>4. c.op = "test" => row = now
      BY <3>1
    <3> HIDE DEF m, n
    <3> QED  BY <1>0, <2>2, <2>3, <2>5, <3>2, <3>3, <3>4
  <2> QED  BY <1>0, <2>1, <2>4, <2>5 DEF IgOps
<1>2. PICK row \in IgVals(n2) :
        /\ igServed' = [rows |-> [igServed.rows EXCEPT ![id] = row], made |-> m2, values |-> n2]
        /\ igCalls' = (igCalls \ {c}) \union {[c EXCEPT !.at = "served", !.id = id, !.to = row]}
        /\ c.op = "test" => row = igServed.rows[id]
  BY <1>1
<1>3. m2 \in Nat /\ id \in 1..m2 /\ m <= m2 /\ n <= n2 /\ id # 0 /\ m2 \in Panels!Rows
  BY <1>1, IgBounds DEF Panels!Rows
<1>4. /\ igServed'.made = m2 /\ igServed'.values = n2
      /\ igServed'.rows[id] = row /\ \A i \in Panels!Rows : i # id => igServed'.rows[i] = igServed.rows[i]
      /\ c.op = "test" => igServed'.rows = igServed.rows
  BY <1>0, <1>2 DEF IgRows
<1>5. PICK new \in IgCall(m2, n2) :
        /\ new.op = c.op /\ new.id = id /\ new.at = "served" /\ new.to = row
        /\ igCalls' = (igCalls \ {c}) \union {new}
  <2> DEFINE answer == [c EXCEPT !.at = "served", !.id = id, !.to = row]
  <2>1. answer \in IgCall(m2, n2)
    <3>1. id \in 0..m2 /\ row \in IgVals(n2)
      BY <1>3
    <3> QED  BY <1>0, <3>1 DEF IgCall
  <2>2. answer.op = c.op /\ answer.id = id /\ answer.at = "served" /\ answer.to = row
    BY <1>0 DEF IgCall
  <2>3. igCalls' = (igCalls \ {c}) \union {answer}
    BY <1>2
  <2> HIDE DEF answer
  <2> QED  BY <2>1, <2>2, <2>3
<1>6. IgShape'
  <2>1. /\ IgVals(n) \subseteq IgVals(n2) /\ IgRows(m, n) \subseteq IgRows(m2, n2)
        /\ IgList(m, n) \subseteq IgList(m2, n2) /\ IgCall(m, n) \subseteq IgCall(m2, n2)
        /\ IgPage(m, n) \subseteq IgPage(m2, n2)
    BY <1>0, <1>3, IgGrows
  <2>2. igServed'.rows \in IgRows(m2, n2)
    <3>1. [igServed.rows EXCEPT ![id] = row] \in [Panels!Rows -> IgVals(n2)]
      BY <1>0, <2>1 DEF IgRows
    <3>2. \A i \in Panels!Rows : i > m2 => i > m /\ i # id
      BY <1>0, <1>3, IgBounds DEF Panels!Rows
    <3>3. \A i \in Panels!Rows : i > m2 => [igServed.rows EXCEPT ![id] = row][i] = Panels!Gone
      BY <1>0, <3>2 DEF IgRows
    <3> QED  BY <1>2, <3>1, <3>3 DEF IgRows
  <2>3. igServed' \in IgServer
    BY <1>2, <1>3, <1>4, <2>2 DEF IgServer, IgRows, IgVals
  <2> QED  BY <1>0, <1>4, <1>5, <2>1, <2>2, <2>3 DEF IgInv, IgShape
<1>7. IgFirst'
  BY <1>0, <1>5 DEF IgInv, IgFirst
<1>8. IgKeys'
  <2> SUFFICES ASSUME igPage.panel = "keys"
               PROVE  IgKeys'
    BY <1>0 DEF IgKeys
  <2>1. \A d \in igCalls \ {c} : d.op # c.op
    BY DEF IgInv, IgKeys
  <2>2. \A d, e \in igCalls : d.op = e.op => d = e
    BY DEF IgInv, IgKeys
  <2>3. \A d, e \in igCalls' : d.op = e.op => d = e
    BY <1>5, <2>1, <2>2
  <2> QED  BY <1>0, <1>5, <2>3 DEF IgInv, IgKeys
<1>9. IgHooks'
  <2> SUFFICES ASSUME igPage.panel = "webhooks"
               PROVE  IgHooks'
    BY <1>0 DEF IgHooks
  <2>1. igCalls' = {new}
    BY <1>5 DEF IgInv, IgHooks
  <2> QED  BY <1>0, <1>5, <2>1 DEF IgInv, IgHooks
\* Unless requests crossed, no other one is for the row.
<1>10. ~igPast.crossed /\ IgEdits(c) => \A d \in igCalls \ {c} : IgEdits(d) => d.id # id
  <2>1. ASSUME c.op = "create", NEW d \in igCalls
        PROVE  d.id # id
    <3>1. d.id \in 0..m
      BY <1>0, IgKinds DEF IgCall
    <3> QED  BY <1>0, <1>1, <1>3, <2>1, <3>1
  <2>2. c.op # "create" => c.id = id
    BY <1>1
  <2> QED  BY <1>3, <2>1, <2>2 DEF IgInv, IgApart
<1>11. IgApart'
  <2>1. IgEdits(new) <=> IgEdits(c)
    BY <1>5 DEF IgEdits
  <2> QED  BY <1>0, <1>5, <1>10, <2>1 DEF IgInv, IgApart, IgEdits
<1>12. \A d \in igCalls : IgEdits(d) /\ d.at = "served" => d.id \in Panels!Rows
  <2> TAKE d \in igCalls
  <2>1. IgEdits(d) => d.id \in 0..m
    BY <1>0, IgKinds DEF IgCall, IgEdits
  <2>2. IgEdits(d) /\ d.at = "served" => d.id # 0
    BY DEF IgInv, IgLeft, IgEdits
  <2> QED  BY <1>0, <2>1, <2>2, IgBounds DEF Panels!Rows
<1>13. IgLeft'
  <2>1. \A d \in igCalls' : d.op # "list" /\ (d.at = "served" \/ d.op # "create") => d.id # 0
    BY <1>3, <1>5 DEF IgInv, IgLeft
  <2>2. ASSUME ~igPast.crossed, NEW d \in igCalls', IgEdits(d), d.at = "served"
        PROVE  /\ d.id \in igPast.others \/ igServed'.rows[d.id] = d.to
               /\ d.to.value \in igPast.ended \/ igServed'.rows[d.id].value = d.to.value
    <3>1. CASE d = new
      BY <1>4, <1>5, <3>1
    <3>2. CASE d \in igCalls \ {c}
      <4>1. /\ d.id \in igPast.others \/ igServed.rows[d.id] = d.to
            /\ d.to.value \in igPast.ended \/ igServed.rows[d.id].value = d.to.value
            /\ d.id \in Panels!Rows
        BY <1>12, <2>2, <3>2 DEF IgInv, IgLeft
      <4>2. CASE IgEdits(c)
        BY <1>4, <1>10, <2>2, <3>2, <4>1, <4>2
      <4>3. CASE c.op = "test"
        BY <1>4, <4>1, <4>3
      <4> QED  BY <1>0, <4>2, <4>3 DEF IgEdits
    <3> QED  BY <1>5, <3>1, <3>2
  <2> QED  BY <1>0, <2>1, <2>2 DEF IgLeft, IgEdits
<1>14. IgRaw'
  <2> SUFFICES ASSUME igPage.raw \notin igPast.ended \union {0}
               PROVE  IgRaw'
    BY <1>0 DEF IgRaw
  <2>1. PICK i \in Panels!Rows :
          /\ igServed.rows[i].value = igPage.raw
          /\ igPast.late \/ i \in igPast.others \/ igPage.rows[i] = igServed.rows[i]
          /\ \A d \in igCalls : d.id # i
    BY DEF IgInv, IgRaw
  <2>2. igServed.rows[i] # Panels!Gone
    BY <2>1 DEF Panels!Gone
  <2>3. ~(i > m)
    BY <1>0, <2>2 DEF IgRows
  <2>4. i # id
    BY <1>0, <1>1, <2>1, <2>3
  <2>5. \A d \in igCalls' : d.id # i
    BY <1>5, <2>1, <2>4
  <2> QED  BY <1>0, <1>4, <2>1, <2>4, <2>5 DEF IgRaw
<1>15. IgTrue'
  <2> SUFFICES ASSUME ~igPast.late, ~igPast.crossed, \A d \in igCalls' : d.op # "list",
                      NEW i \in Panels!Rows \ (igPast.lost \union igPast.others)
               PROVE  /\ (\A d \in igCalls' : IgEdits(d) /\ d.at = "served" => d.id # i)
                           => igPage.rows[i] = igServed'.rows[i]
                      /\ \A d \in igCalls' : IgEdits(d) /\ d.at = "served" /\ d.id = i
                           => igPage.rows[i] # Panels!Gone \/ d.to = Panels!Gone \/ d.op = "create"
    BY <1>0 DEF IgTrue, IgEdits
  <2>1. \A d \in igCalls : d.op # "list"
    BY <1>0, <1>5
  <2>2. /\ (\A d \in igCalls : IgEdits(d) /\ d.at = "served" => d.id # i)
             => igPage.rows[i] = igServed.rows[i]
        /\ \A d \in igCalls : IgEdits(d) /\ d.at = "served" /\ d.id = i
             => igPage.rows[i] # Panels!Gone \/ d.to = Panels!Gone \/ d.op = "create"
    BY <2>1 DEF IgInv, IgTrue
  <2>3. IgEdits(new) <=> IgEdits(c)
    BY <1>5 DEF IgEdits
  <2>4. CASE i # id \/ ~IgEdits(c)
    <3>1. igServed'.rows[i] = igServed.rows[i]
      BY <1>0, <1>4, <2>4 DEF IgEdits
    <3>2. \A d \in igCalls' : IgEdits(d) /\ d.at = "served" /\ d.id = i => d \in igCalls
      BY <1>5, <2>3, <2>4
    <3>3. \A d \in igCalls : IgEdits(d) /\ d.at = "served" => d \in igCalls'
      BY <1>0, <1>5
    <3> QED  BY <2>2, <3>1, <3>2, <3>3
  <2>5. CASE i = id /\ IgEdits(c)
    <3>1. \A d \in igCalls : IgEdits(d) /\ d.at = "served" => d.id # i
      BY <1>0, <1>10, <2>5
    <3>2. c.op = "create" \/ igPage.rows[i] # Panels!Gone
      BY <1>1, <2>2, <2>5, <3>1
    <3>3. \A d \in igCalls' : IgEdits(d) /\ d.id = i => d = new
      BY <1>5, <1>10, <2>5
    <3> QED  BY <1>5, <2>3, <2>5, <3>2, <3>3
  <2> QED  BY <2>4, <2>5
<1> QED  BY <1>6, <1>7, <1>8, <1>9, <1>11, <1>13, <1>14, <1>15 DEF IgInv

\* What an answer makes of the panel: its own row is the answer's, or is gone.
IgPatch(c, v) ==
  /\ igPage' \in IgPage(igServed.made, igServed.values)
  /\ igPage'.panel = igPage.panel /\ igPage'.loading = igPage.loading /\ igPage'.sent = igPage.sent
  /\ igPage'.rows = [igPage.rows EXCEPT ![c.id] = v]
  /\ igPage'.busy = Panels!Cleared(c)
  /\ igPage'.form = igPage.form \/ igPage.panel = "destinations"
  /\ igPage'.raw = igPage.raw \/ (/\ igPage'.raw = c.to.value /\ v = c.to /\ IgEdits(c)
                                  /\ igPage.panel # "destinations")
  /\ c.op = "test" => v = igPage.rows[c.id]
  /\ c.op # "test" => v = c.to \/ (v = Panels!Gone /\ igPage.rows[c.id] = Panels!Gone /\ c.op # "create")

IgAnswer(c) == Panels!KeyAnswered(c) \/ Panels!WebhookAnswered(c) \/ Panels!DestinationAnswered(c)

\* A panel whose row, secret, form and marks are set.
IgSetTo(page, id, v, raw, form, busy) ==
  [page EXCEPT !.rows = [page.rows EXCEPT ![id] = v], !.raw = raw, !.form = form, !.busy = busy]

LEMMA IgSet ==
  ASSUME NEW m \in Nat, NEW n \in Nat, NEW page \in IgPage(m, n), NEW id \in Panels!Rows, id <= m,
         NEW v \in IgVals(n), NEW raw \in Nat, NEW form \in -1..m, NEW busy \in SUBSET Nat,
         NEW new, new = IgSetTo(page, id, v, raw, form, busy)
  PROVE  /\ new \in IgPage(m, n) /\ new.panel = page.panel /\ new.loading = page.loading
         /\ new.sent = page.sent /\ new.rows = [page.rows EXCEPT ![id] = v] /\ new.raw = raw
         /\ new.form = form /\ new.busy = busy
<1>1. PICK rows \in IgRows(m, n) : rows = [page.rows EXCEPT ![id] = v]
  <2>1. page.rows \in IgRows(m, n)
    BY DEF IgPage
  <2>2. [page.rows EXCEPT ![id] = v] \in [Panels!Rows -> IgVals(n)]
    BY <2>1 DEF IgRows
  <2>3. \A i \in Panels!Rows : i > m => [page.rows EXCEPT ![id] = v][i] = Panels!Gone
    BY <2>1, IgBounds DEF IgRows, Panels!Rows
  <2> QED  BY <2>2, <2>3 DEF IgRows
<1>2. new = [page EXCEPT !.rows = rows, !.raw = raw, !.form = form, !.busy = busy]
  BY <1>1 DEF IgSetTo
<1>3. new \in IgPage(m, n)
  BY <1>2 DEF IgPage
<1>4. /\ new.panel = page.panel /\ new.loading = page.loading /\ new.sent = page.sent
      /\ new.rows = rows /\ new.raw = raw /\ new.form = form /\ new.busy = busy
  BY <1>2 DEF IgPage
<1> QED  BY <1>1, <1>3, <1>4

LEMMA IgPatches ==
  ASSUME IgInv, NEW c \in igCalls, IgAnswer(c)
  PROVE  /\ c.op # "list" /\ c.at = "served" /\ igCalls' = igCalls \ {c}
         /\ UNCHANGED <<igServed, igPast>> /\ c.id \in Panels!Rows
         /\ \E v \in IgVals(igServed.values) : IgPatch(c, v)
<1> DEFINE m == igServed.made
           n == igServed.values
<1>0. /\ IgShape /\ c.op # "list" /\ c.op \in IgOps /\ c \in IgCall(m, n) /\ c.at = "served"
      /\ m \in Nat /\ n \in Nat /\ igPage \in IgPage(m, n) /\ c.to \in IgVals(n) /\ c.id \in 0..m /\ c.id # 0
      /\ igCalls' = igCalls \ {c} /\ UNCHANGED <<igServed, igPast>> /\ m \in Panels!Rows
  BY IgKinds, IgBounds DEF IgInv, IgShape, IgLeft, IgServer, IgCall, IgAnswer, Panels!KeyAnswered,
     Panels!WebhookAnswered, Panels!DestinationAnswered, Panels!Answered, Panels!Ends, Panels!Rows
<1>1. /\ c.id \in Panels!Rows /\ c.id <= m /\ igPage.raw \in Nat /\ c.to.value \in Nat
      /\ igPage.form \in -1..m /\ -1 \in -1..m /\ igPage.busy \subseteq Nat
      /\ igPage.rows \in [Panels!Rows -> IgVals(n)]
      /\ igPage.panel \in {"keys", "webhooks", "destinations"}
  BY <1>0, IgBounds DEF IgPage, IgVals, IgRows, Panels!Rows, Panels!Panels
<1>2. PICK busy \in SUBSET Nat : busy = Panels!Cleared(c)
  BY <1>1 DEF Panels!Cleared
<1>3. PICK was \in IgVals(n) : was = igPage.rows[c.id]
  BY <1>1
<1>4. IgEdits(c) <=> c.op # "test"
  BY <1>0 DEF IgEdits
<1>5. ASSUME NEW v \in IgVals(n), NEW raw \in Nat, NEW form \in -1..m,
             igPage' = [igPage EXCEPT !.rows = [igPage.rows EXCEPT ![c.id] = v], !.raw = raw,
                                      !.form = form, !.busy = busy],
             form = igPage.form \/ igPage.panel = "destinations",
             raw = igPage.raw \/ (raw = c.to.value /\ v = c.to /\ IgEdits(c) /\ igPage.panel # "destinations"),
             c.op = "test" => v = was,
             c.op # "test" => v = c.to \/ (v = Panels!Gone /\ was = Panels!Gone /\ c.op # "create")
      PROVE  \E w \in IgVals(n) : IgPatch(c, w)
  <2>1. /\ igPage' \in IgPage(m, n) /\ igPage'.panel = igPage.panel /\ igPage'.loading = igPage.loading
        /\ igPage'.sent = igPage.sent /\ igPage'.rows = [igPage.rows EXCEPT ![c.id] = v]
        /\ igPage'.raw = raw /\ igPage'.form = form /\ igPage'.busy = busy
    <3>1. m \in Nat /\ n \in Nat /\ igPage \in IgPage(m, n) /\ c.id \in Panels!Rows /\ c.id <= m
          /\ busy \in SUBSET Nat /\ v \in IgVals(n) /\ raw \in Nat /\ form \in -1..m
      BY <1>0, <1>1
    <3>2. PICK new : new = igPage'
      OBVIOUS
    <3>3. new = IgSetTo(igPage, c.id, v, raw, form, busy)
      BY <1>5, <3>2 DEF IgSetTo
    <3> HIDE DEF m, n
    <3>4. /\ new \in IgPage(m, n) /\ new.panel = igPage.panel /\ new.loading = igPage.loading
          /\ new.sent = igPage.sent /\ new.rows = [igPage.rows EXCEPT ![c.id] = v]
          /\ new.raw = raw /\ new.form = form /\ new.busy = busy
      BY <3>1, <3>3, IgSet
    <3> QED  BY <3>2, <3>4
  <2> QED  BY <1>2, <1>3, <1>5, <2>1 DEF IgPatch
<1>6. PICK page : page = igPage
  OBVIOUS
<1>7. PICK mapped \in IgVals(n) :
        /\ mapped = Panels!Mapped(c)
        /\ mapped = c.to \/ (mapped = Panels!Gone /\ was = Panels!Gone)
  BY <1>0, <1>3, IgGone DEF Panels!Mapped
<1>8. CASE Panels!KeyAnswered(c)
  <2>1. PICK raw \in Nat :
          /\ raw = IF c.op = "create" THEN c.to.value ELSE igPage.raw
          /\ igPage' = [[page EXCEPT !.rows[c.id] = c.to, !.raw = raw] EXCEPT !.busy = busy]
    BY <1>1, <1>2, <1>6, <1>8 DEF Panels!KeyAnswered, Panels!Answered
  <2>2. [[page EXCEPT !.rows[c.id] = c.to, !.raw = raw] EXCEPT !.busy = busy]
        = [page EXCEPT !.rows = [page.rows EXCEPT ![c.id] = c.to], !.raw = raw,
                       !.form = page.form, !.busy = busy]
    BY <1>0, <1>6 DEF IgPage
  <2>3. c.op # "test" /\ igPage.panel = "keys"
    BY <1>0, <1>8 DEF IgInv, IgKeys, Panels!KeyAnswered
  <2>4. igPage' = [igPage EXCEPT !.rows = [igPage.rows EXCEPT ![c.id] = c.to], !.raw = raw,
                                 !.form = igPage.form, !.busy = busy]
    BY <1>6, <2>1, <2>2
  <2>5. raw = igPage.raw \/ (raw = c.to.value /\ IgEdits(c) /\ igPage.panel # "destinations")
    BY <1>4, <2>1, <2>3
  <2>9. \E w \in IgVals(n) : IgPatch(c, w)
    <3> HIDE DEF m, n
    <3> QED  BY <1>0, <1>1, <1>5, <2>3, <2>4, <2>5
  <2> QED  BY <1>0, <1>1, <2>9
<1>9. CASE Panels!WebhookAnswered(c)
  <2>0. c.op # "test" /\ igPage.panel = "webhooks"
    BY <1>0, <1>9 DEF IgInv, IgHooks, Panels!WebhookAnswered
  <2>1. CASE c.op \in {"create", "rotate"}
    <3>1. igPage' = [[page EXCEPT !.rows[c.id] = c.to, !.raw = c.to.value] EXCEPT !.busy = busy]
      BY <1>2, <1>6, <1>9, <2>1 DEF Panels!WebhookAnswered, Panels!Answered
    <3>2. [[page EXCEPT !.rows[c.id] = c.to, !.raw = c.to.value] EXCEPT !.busy = busy]
          = [page EXCEPT !.rows = [page.rows EXCEPT ![c.id] = c.to], !.raw = c.to.value,
                         !.form = page.form, !.busy = busy]
      BY <1>0, <1>6 DEF IgPage
    <3>3. igPage' = [igPage EXCEPT !.rows = [igPage.rows EXCEPT ![c.id] = c.to], !.raw = c.to.value,
                                   !.form = igPage.form, !.busy = busy]
      BY <1>6, <3>1, <3>2
    <3>4. IgEdits(c) /\ igPage.panel # "destinations"
      BY <1>4, <2>0
    <3>9. \E w \in IgVals(n) : IgPatch(c, w)
      <4> HIDE DEF m, n
      <4> QED  BY <1>0, <1>1, <1>5, <2>0, <3>3, <3>4
    <3> QED  BY <1>0, <1>1, <3>9
  <2>2. CASE c.op \notin {"create", "rotate"}
    <3>1. igPage' = [[page EXCEPT !.rows[c.id] = mapped] EXCEPT !.busy = busy]
      BY <1>2, <1>6, <1>7, <1>9, <2>2 DEF Panels!WebhookAnswered, Panels!Answered
    <3>2. [[page EXCEPT !.rows[c.id] = mapped] EXCEPT !.busy = busy]
          = [page EXCEPT !.rows = [page.rows EXCEPT ![c.id] = mapped], !.raw = page.raw,
                         !.form = page.form, !.busy = busy]
      BY <1>0, <1>6 DEF IgPage
    <3>3. igPage' = [igPage EXCEPT !.rows = [igPage.rows EXCEPT ![c.id] = mapped], !.raw = igPage.raw,
                                   !.form = igPage.form, !.busy = busy]
      BY <1>6, <3>1, <3>2
    <3>9. \E w \in IgVals(n) : IgPatch(c, w)
      <4> HIDE DEF m, n
      <4> QED  BY <1>1, <1>5, <1>7, <2>0, <2>2, <3>3
    <3> QED  BY <1>0, <1>1, <3>9
  <2> QED  BY <2>1, <2>2
<1>10. CASE Panels!DestinationAnswered(c)
  <2>0. igPage.panel = "destinations"
    BY <1>10 DEF Panels!DestinationAnswered
  <2>1. PICK v \in IgVals(n) :
          /\ v = CASE c.op = "create" -> c.to [] c.op = "test" -> was [] OTHER -> mapped
          /\ c.op = "test" => v = was
          /\ c.op # "test" => v = c.to \/ (v = Panels!Gone /\ was = Panels!Gone /\ c.op # "create")
    BY <1>0, <1>7
  <2>2. PICK form \in -1..m : form = IF c.op \in {"create", "edit"} THEN -1 ELSE igPage.form
    BY <1>1
  <2>3. igPage' = [page EXCEPT !.rows = [page.rows EXCEPT ![c.id] = v], !.raw = page.raw,
                               !.form = form, !.busy = busy]
    <3>1. CASE c.op = "create"
      <4>1. igPage' = [[page EXCEPT !.rows[c.id] = v, !.form = -1] EXCEPT !.busy = busy]
        BY <1>2, <1>6, <1>10, <2>1, <3>1 DEF Panels!DestinationAnswered, Panels!Answered, Panels!Closed
      <4> QED  BY <1>0, <1>6, <2>2, <3>1, <4>1 DEF IgPage
    <3>2. CASE c.op = "edit"
      <4>1. igPage' = [[page EXCEPT !.rows[c.id] = v, !.form = -1] EXCEPT !.busy = busy]
        BY <1>2, <1>6, <1>7, <1>10, <2>1, <3>2 DEF Panels!DestinationAnswered, Panels!Answered, Panels!Closed
      <4> QED  BY <1>0, <1>6, <2>2, <3>2, <4>1 DEF IgPage
    <3>3. CASE c.op = "test"
      <4>1. igPage' = [page EXCEPT !.busy = busy]
        BY <1>2, <1>6, <1>10, <3>3 DEF Panels!DestinationAnswered, Panels!Answered
      <4>2. [page.rows EXCEPT ![c.id] = v] = page.rows
        BY <1>1, <1>3, <1>6, <2>1, <3>3
      <4> QED  BY <1>0, <1>6, <2>2, <3>3, <4>1, <4>2 DEF IgPage
    <3>4. CASE c.op \notin {"create", "edit", "test"}
      <4>1. igPage' = [[page EXCEPT !.rows[c.id] = v] EXCEPT !.busy = busy]
        BY <1>2, <1>6, <1>7, <1>10, <2>1, <3>4 DEF Panels!DestinationAnswered, Panels!Answered
      <4> QED  BY <1>0, <1>6, <2>2, <3>4, <4>1 DEF IgPage
    <3> QED  BY <3>1, <3>2, <3>3, <3>4
  <2>4. igPage' = [igPage EXCEPT !.rows = [igPage.rows EXCEPT ![c.id] = v], !.raw = igPage.raw,
                                 !.form = form, !.busy = busy]
    BY <1>6, <2>3
  <2>9. \E w \in IgVals(n) : IgPatch(c, w)
    <3> HIDE DEF m, n
    <3> QED  BY <1>1, <1>5, <2>0, <2>1, <2>4
  <2> QED  BY <1>0, <1>1, <2>9
<1> QED  BY <1>0, <1>1, <1>8, <1>9, <1>10 DEF IgAnswer

LEMMA IgAnswers ==
  ASSUME IgInv, NEW c \in igCalls, IgAnswer(c)
  PROVE  IgInv'
<1>0. /\ IgShape /\ c.op # "list" /\ c.at = "served" /\ igCalls' = igCalls \ {c}
      /\ UNCHANGED <<igServed, igPast>> /\ c.id \in Panels!Rows /\ c.id # 0
      /\ igPage.rows \in [Panels!Rows -> IgVals(igServed.values)]
  BY IgPatches, IgBounds DEF IgInv, IgShape, IgPage, IgRows, IgLeft
<1>1. PICK v \in IgVals(igServed.values) : IgPatch(c, v)
  BY IgPatches
<1>2. igPage'.rows[c.id] = v /\ \A i \in Panels!Rows : i # c.id => igPage'.rows[i] = igPage.rows[i]
  BY <1>0, <1>1 DEF IgPatch
<1>3. \A d \in igCalls' : d \in igCalls /\ d # c
  BY <1>0
<1>4. ~igPast.crossed /\ IgEdits(c) => \A d \in igCalls' : IgEdits(d) => d.id # c.id
  BY <1>0, <1>3 DEF IgInv, IgApart
<1>5. ~igPast.crossed /\ IgEdits(c) =>
        /\ c.id \in igPast.others \/ igServed.rows[c.id] = c.to
        /\ c.to.value \in igPast.ended \/ igServed.rows[c.id].value = c.to.value
  BY <1>0 DEF IgInv, IgLeft
<1>6. IgShape'
  BY <1>0, <1>1 DEF IgShape, IgPatch
<1>7. IgFirst'
  BY <1>0, <1>1, <1>3 DEF IgInv, IgFirst, IgPatch
<1>8. IgKeys'
  <2> SUFFICES ASSUME igPage.panel = "keys"
               PROVE  IgKeys'
    BY <1>1 DEF IgKeys, IgPatch
  <2>1. \A d \in igCalls' : d \in igCalls /\ d.op # c.op
    BY <1>3 DEF IgInv, IgKeys
  <2>2. c.op \in {"create", "delete"}
    BY <1>0 DEF IgInv, IgKeys
  <2>3. igPage'.busy = igPage.busy \ {IF c.op = "create" THEN 1 ELSE 2}
    BY <1>1 DEF IgPatch, Panels!Cleared, Panels!Lane
  <2>4. igPage'.form = igPage.form
    BY <1>1 DEF IgPatch
  <2> QED  BY <2>1, <2>2, <2>3, <2>4 DEF IgInv, IgKeys
<1>9. IgHooks'
  <2>1. igPage.panel = "webhooks" => igCalls' = {}
    BY <1>3 DEF IgInv, IgHooks
  <2> QED  BY <1>0, <1>1, <2>1 DEF IgInv, IgHooks, IgPatch
<1>10. IgApart' /\ IgLeft'
  BY <1>0, <1>1, <1>3 DEF IgInv, IgApart, IgLeft, IgEdits, IgPatch
<1>11. IgRaw'
  <2>1. CASE igPage'.raw = igPage.raw
    <3> SUFFICES ASSUME igPage.raw \notin igPast.ended \union {0}
                 PROVE  IgRaw'
      BY <1>0, <2>1 DEF IgRaw
    <3>1. PICK i \in Panels!Rows :
            /\ igServed.rows[i].value = igPage.raw
            /\ igPast.late \/ i \in igPast.others \/ igPage.rows[i] = igServed.rows[i]
            /\ \A d \in igCalls : d.id # i
      BY DEF IgInv, IgRaw
    <3>2. igPage'.rows[i] = igPage.rows[i]
      BY <1>2, <3>1
    <3> QED  BY <1>0, <1>3, <2>1, <3>1, <3>2 DEF IgRaw
  <2>2. CASE igPage'.raw = c.to.value /\ v = c.to /\ IgEdits(c) /\ igPage.panel # "destinations"
    <3>1. ~igPast.crossed
      BY <2>2 DEF IgInv, IgApart
    <3>2. \A d \in igCalls' : d.id # c.id
      <4> TAKE d \in igCalls'
      <4>1. CASE IgEdits(d)
        BY <1>4, <2>2, <3>1, <4>1
      <4>2. CASE d.op = "list"
        BY <1>0, <1>3, <4>2, IgKinds
      <4>3. d.op # "test"
        BY <1>0, <1>3, <2>2 DEF IgInv, IgShape, IgPage, IgKeys, IgHooks, Panels!Panels
      <4> QED  BY <4>1, <4>2, <4>3 DEF IgEdits
    <3> QED  BY <1>0, <1>2, <1>5, <2>2, <3>1, <3>2 DEF IgRaw
  <2> QED  BY <1>1, <2>1, <2>2 DEF IgPatch
<1>12. IgTrue'
  <2> SUFFICES ASSUME ~igPast.late, ~igPast.crossed, \A d \in igCalls' : d.op # "list",
                      NEW i \in Panels!Rows \ (igPast.lost \union igPast.others)
               PROVE  /\ (\A d \in igCalls' : IgEdits(d) /\ d.at = "served" => d.id # i)
                           => igPage'.rows[i] = igServed.rows[i]
                      /\ \A d \in igCalls' : IgEdits(d) /\ d.at = "served" /\ d.id = i
                           => igPage'.rows[i] # Panels!Gone \/ d.to = Panels!Gone \/ d.op = "create"
    BY <1>0 DEF IgTrue, IgEdits
  <2>1. \A d \in igCalls : d.op # "list"
    BY <1>0
  <2>2. /\ (\A d \in igCalls : IgEdits(d) /\ d.at = "served" => d.id # i)
             => igPage.rows[i] = igServed.rows[i]
        /\ \A d \in igCalls : IgEdits(d) /\ d.at = "served" /\ d.id = i
             => igPage.rows[i] # Panels!Gone \/ d.to = Panels!Gone \/ d.op = "create"
    BY <2>1 DEF IgInv, IgTrue
  <2>3. CASE i # c.id \/ ~IgEdits(c)
    <3>1. igPage'.rows[i] = igPage.rows[i]
      <4>1. CASE i # c.id
        BY <1>2, <4>1
      <4>2. CASE i = c.id /\ c.op = "test"
        BY <1>1, <1>2, <4>2 DEF IgPatch
      <4> QED  BY <1>0, <2>3, <4>1, <4>2 DEF IgEdits
    <3>2. \A d \in igCalls : IgEdits(d) /\ d.at = "served" /\ d.id = i => d \in igCalls'
      BY <1>0, <2>3
    <3> QED  BY <1>3, <2>2, <3>1, <3>2
  <2>4. CASE i = c.id /\ IgEdits(c)
    <3>1. igPage.rows[i] # Panels!Gone \/ c.to = Panels!Gone \/ c.op = "create"
      BY <1>0, <2>2, <2>4
    <3>2. v = c.to
      BY <1>1, <2>4, <3>1 DEF IgPatch, IgEdits
    <3> QED  BY <1>2, <1>4, <1>5, <2>4, <3>2
  <2> QED  BY <2>3, <2>4
<1> QED  BY <1>6, <1>7, <1>8, <1>9, <1>10, <1>11, <1>12 DEF IgInv

\* Another page changes a row, or adds one.
LEMMA IgOthers ==
  ASSUME IgInv, NEW i \in Panels!Rows, Panels!OthersChange(i)
  PROVE  IgInv'
<1> DEFINE m == igServed.made
           n == igServed.values
<1>0. /\ IgShape /\ m \in Nat /\ n \in Nat /\ igServed.rows \in IgRows(m, n) /\ igPage \in IgPage(m, n)
      /\ m \in Panels!Rows /\ igPast \in IgPast /\ igServed.rows \in [Panels!Rows -> IgVals(n)]
      /\ UNCHANGED <<igPage, igCalls>>
  BY IgBounds DEF IgInv, IgShape, IgServer, IgRows, Panels!OthersChange, Panels!Rows
<1>1. PICK now \in IgVals(n) : now = igServed.rows[i]
  BY <1>0
<1>2. PICK row \in IgVals(n + 1), m2 \in Nat, n2 \in Nat :
        /\ igServed' = [rows |-> [igServed.rows EXCEPT ![i] = row], made |-> m2, values |-> n2]
        /\ m <= m2 /\ i <= m2 /\ m2 \in Panels!Rows /\ n <= n2 /\ row \in IgVals(n2)
        /\ igPast' = [igPast EXCEPT !.others = @ \union {i},
                                    !.ended = IF row.value = now.value THEN @ ELSE @ \union {now.value}]
  <2> DEFINE Choice == IF igServed.rows[i] = Panels!Gone THEN {[value |-> n + 1, on |-> TRUE]}
                       ELSE {Panels!Gone} \union [value : {igServed.rows[i].value, n + 1}, on : BOOLEAN]
  <2>0. \E row \in Choice :
          /\ igServed.rows[i] = Panels!Gone => i = m + 1
          /\ igServed' = [rows |-> [igServed.rows EXCEPT ![i] = row],
                          made |-> IF igServed.rows[i] = Panels!Gone THEN i ELSE m,
                          values |-> IF row.value = n + 1 THEN n + 1 ELSE n]
          /\ igPast' = [igPast EXCEPT !.others = @ \union {i},
               !.ended = IF row.value = igServed.rows[i].value THEN @ ELSE @ \union {igServed.rows[i].value}]
    <3>1. CASE igServed.rows[i] = Panels!Gone
      BY <3>1 DEF Panels!OthersChange
    <3>2. CASE igServed.rows[i] # Panels!Gone /\ igPage.panel = "keys"
      BY <3>2 DEF Panels!OthersChange
    <3>3. CASE igServed.rows[i] # Panels!Gone /\ igPage.panel # "keys"
      BY <3>3 DEF Panels!OthersChange
    <3> QED  BY <3>1, <3>2, <3>3
  <2>1. PICK row \in Choice :
          /\ now = Panels!Gone => i = m + 1
          /\ igServed' = [rows |-> [igServed.rows EXCEPT ![i] = row],
                          made |-> IF now = Panels!Gone THEN i ELSE m,
                          values |-> IF row.value = n + 1 THEN n + 1 ELSE n]
          /\ igPast' = [igPast EXCEPT !.others = @ \union {i},
                         !.ended = IF row.value = now.value THEN @ ELSE @ \union {now.value}]
    BY <1>1, <2>0
  <2>2. row \in IgVals(n + 1) /\ (row.value = n + 1 \/ row \in IgVals(n))
    <3>1. CASE row = [value |-> n + 1, on |-> TRUE]
      BY <1>0, <3>1 DEF IgVals
    <3>2. CASE row = Panels!Gone
      BY <1>0, <3>2, IgGone
    <3>3. CASE row \in [value : {now.value, n + 1}, on : BOOLEAN]
      BY <1>0, <1>1, <3>3 DEF IgVals
    <3> QED  BY <1>1, <2>1, <3>1, <3>2, <3>3
  <2>3. now # Panels!Gone => i <= m
    BY <1>0, <1>1, IgBounds DEF IgRows, Panels!Rows
  <2>4. PICK m2 \in Nat : m2 = (IF now = Panels!Gone THEN i ELSE m) /\ m <= m2 /\ i <= m2 /\ m2 \in Panels!Rows
    BY <1>0, <2>1, <2>3, IgBounds DEF Panels!Rows
  <2>5. PICK n2 \in Nat : n2 = (IF row.value = n + 1 THEN n + 1 ELSE n) /\ n <= n2 /\ row \in IgVals(n2)
    BY <1>0, <2>2
  <2> HIDE DEF m, n, Choice
  <2> QED  BY <2>1, <2>2, <2>4, <2>5
<1>3. /\ igServed'.made = m2 /\ igServed'.values = n2
      /\ igServed'.rows[i] = row /\ \A j \in Panels!Rows : j # i => igServed'.rows[j] = igServed.rows[j]
  BY <1>0, <1>2
<1>4. /\ igPast' \in IgPast /\ igPast'.late = igPast.late /\ igPast'.crossed = igPast.crossed
      /\ igPast'.lost = igPast.lost /\ igPast'.others = igPast.others \union {i}
      /\ igPast.ended \subseteq igPast'.ended
      /\ row.value # now.value => now.value \in igPast'.ended
  <2>1. now.value \in Nat
    BY <1>0 DEF IgVals
  <2> QED  BY <1>0, <1>2, <2>1 DEF IgPast
<1>5. IgShape'
  <2>1. /\ IgVals(n) \subseteq IgVals(n2) /\ IgRows(m, n) \subseteq IgRows(m2, n2)
        /\ IgList(m, n) \subseteq IgList(m2, n2) /\ IgCall(m, n) \subseteq IgCall(m2, n2)
        /\ IgPage(m, n) \subseteq IgPage(m2, n2)
    BY <1>0, <1>2, IgGrows
  <2>2. igServed'.rows \in IgRows(m2, n2)
    <3>1. [igServed.rows EXCEPT ![i] = row] \in [Panels!Rows -> IgVals(n2)]
      BY <1>0, <1>2, <2>1
    <3>2. \A j \in Panels!Rows : j > m2 => j > m /\ j # i
      BY <1>0, <1>2, IgBounds DEF Panels!Rows
    <3>3. \A j \in Panels!Rows : j > m2 => [igServed.rows EXCEPT ![i] = row][j] = Panels!Gone
      BY <1>0, <3>2 DEF IgRows
    <3> QED  BY <1>2, <3>1, <3>3 DEF IgRows
  <2>3. igServed' \in IgServer
    BY <1>2, <1>3, <2>2 DEF IgServer, IgRows, IgVals
  <2> QED  BY <1>0, <1>3, <1>4, <2>1, <2>2, <2>3 DEF IgInv, IgShape
<1>6. IgFirst' /\ IgKeys' /\ IgHooks' /\ IgApart'
  BY <1>0, <1>3, <1>4 DEF IgInv, IgFirst, IgKeys, IgHooks, IgApart, IgEdits
<1>7. IgLeft'
  <2>1. \A c \in igCalls : c.op # "list" /\ (c.at = "served" \/ c.op # "create") => c.id # 0
    BY DEF IgInv, IgLeft
  <2>2. ASSUME ~igPast.crossed, NEW c \in igCalls, IgEdits(c), c.at = "served"
        PROVE  /\ c.id \in igPast'.others \/ igServed'.rows[c.id] = c.to
               /\ c.to.value \in igPast'.ended \/ igServed'.rows[c.id].value = c.to.value
    <3>1. c.id \in Panels!Rows
      <4>1. c.id \in 0..m /\ c.id # 0
        BY <1>0, <2>1, <2>2, IgKinds DEF IgCall, IgEdits
      <4> QED  BY <1>0, <4>1, IgBounds DEF Panels!Rows
    <3>2. /\ c.id \in igPast.others \/ igServed.rows[c.id] = c.to
          /\ c.to.value \in igPast.ended \/ igServed.rows[c.id].value = c.to.value
      BY <2>2 DEF IgInv, IgLeft
    <3>3. CASE c.id = i
      <4>1. igServed.rows[i].value = now.value /\ igServed'.rows[i].value = row.value
        BY <1>1, <1>3
      <4> QED  BY <1>4, <3>2, <3>3, <4>1
    <3>4. CASE c.id # i
      <4>1. igServed'.rows[c.id] = igServed.rows[c.id]
        BY <1>3, <3>1, <3>4
      <4> QED  BY <1>4, <3>2, <4>1
    <3> QED  BY <3>3, <3>4
  <2> QED  BY <1>0, <1>4, <2>1, <2>2 DEF IgLeft, IgEdits
<1>8. IgRaw'
  <2> SUFFICES ASSUME igPage.raw \notin igPast'.ended \union {0}
               PROVE  IgRaw'
    BY <1>0 DEF IgRaw
  <2>1. PICK j \in Panels!Rows :
          /\ igServed.rows[j].value = igPage.raw
          /\ igPast.late \/ j \in igPast.others \/ igPage.rows[j] = igServed.rows[j]
          /\ \A c \in igCalls : c.id # j
    <3>1. igPage.raw \notin igPast.ended \union {0}
      BY <1>4
    <3> QED  BY <3>1 DEF IgInv, IgRaw
  <2>2. igServed'.rows[j].value = igPage.raw
    <3>1. CASE j = i
      <4>1. igServed.rows[i].value = now.value /\ igServed'.rows[i].value = row.value
        BY <1>1, <1>3
      <4> QED  BY <1>4, <2>1, <3>1, <4>1
    <3>2. CASE j # i
      BY <1>3, <2>1, <3>2
    <3> QED  BY <3>1, <3>2
  <2> QED  BY <1>0, <1>3, <1>4, <2>1, <2>2 DEF IgRaw
<1>9. IgTrue'
  <2>1. \A j \in Panels!Rows \ (igPast'.lost \union igPast'.others) :
          /\ j \in Panels!Rows \ (igPast.lost \union igPast.others)
          /\ igServed'.rows[j] = igServed.rows[j]
    BY <1>3, <1>4
  <2> QED  BY <1>0, <1>4, <2>1 DEF IgInv, IgTrue, IgEdits
<1> QED  BY <1>5, <1>6, <1>7, <1>8, <1>9 DEF IgInv

LEMMA IgStep == ASSUME IgInv, Panels!IntegrationsNext PROVE IgInv'
BY IgForms, IgRequests, IgListServed, IgListShown, IgServes, IgFails, IgAnswers, IgOthers
   DEF Panels!IntegrationsNext, IgAnswer

LEMMA IgSame == ASSUME IgInv, UNCHANGED panels PROVE IgInv'
BY DEF IgInv, IgShape, IgFirst, IgKeys, IgHooks, IgApart, IgLeft, IgRaw, IgTrue, IgEdits, panels

LEMMA IgKnows ==
  ASSUME IgInv
  PROVE  Panels!IntegrationsTypeOK /\ Panels!ShownSecretIsLive /\ Panels!RowsAreServed
<1>0. IgShape /\ igServed \in IgServer /\ igPage \in IgPage(igServed.made, igServed.values)
      /\ igServed.made \in Nat
  BY IgBounds DEF IgInv, IgShape, IgServer, Panels!Rows
<1>1. Panels!IntegrationsTypeOK
  <2>1. igPage.form \in Panels!Rows \union {0, -1}
    BY <1>0, IgBounds DEF IgPage, IgServer, Panels!Rows
  <2>2. \A i \in Panels!Rows : igPage.rows[i].value \in 0..igServed.values
    BY <1>0 DEF IgPage, IgRows, IgVals
  <2> QED  BY <1>0, <2>1, <2>2 DEF IgServer, Panels!IntegrationsTypeOK, Panels!New, Panels!Closed
<1>2. Panels!ShownSecretIsLive
  BY DEF IgInv, IgRaw, Panels!ShownSecretIsLive
<1>3. igPage.panel = "webhooks" => Cardinality(igCalls) <= 1 /\ ~igPast.late
  BY OneOrNoneIsCounted DEF IgInv, IgHooks
<1>4. igCalls = {} /\ ~igPast.late /\ ~igPast.crossed
        => \A i \in Panels!Rows \ (igPast.lost \union igPast.others) : igPage.rows[i] = igServed.rows[i]
  BY DEF IgInv, IgTrue
<1>5. \A S : Panels!Cardinality(S) = Cardinality(S)
  BY DEF Panels!Cardinality, Cardinality, Panels!IsFiniteSet, IsFiniteSet
<1> QED  BY <1>1, <1>2, <1>3, <1>4, <1>5 DEF IgInv, IgApart, Panels!RowsAreServed

-----------------------------------------------------------------------------
(* The views that look something up: the invariant.                        *)

LookQuery == [text : Nat, range : Views!Ranges, page : 1..2]
LookSeen == -1..MaxServerChanges
LookFound == [query : LookQuery, seen : LookSeen]
LookPage == [view : Views!Views, query : LookQuery, found : LookFound, error : BOOLEAN,
             loading : BOOLEAN, fresh : BOOLEAN, timer : BOOLEAN, kept : BOOLEAN, edits : Nat]
LookUrl == [next : LookQuery, pending : LookQuery, typed : LookQuery, past : Seq(LookQuery)]
LookCall == [query : LookQuery, seen : LookSeen, active : BOOLEAN, n : Nat]

LooksShape ==
  /\ lkPage \in LookPage
  /\ lkUrl \in LookUrl
  /\ lkCalls \subseteq LookCall
  /\ lkServer \in 0..MaxServerChanges

\* An answer that may still be shown is for the query on the screen.
LooksAsked == \A c \in lkCalls : c.active /\ ~lkPage.fresh => c.query = lkPage.query
\* The Ref of the page holds what was typed, and it is what will be rendered.
LooksTyped == lkUrl.next = lkUrl.pending /\ lkUrl.next = lkUrl.typed

LooksInv == LooksShape /\ LooksAsked /\ LooksTyped /\ Views!ShownIsAsked

LEMMA LooksInit == Views!LookupsInit => LooksInv
<1> SUFFICES ASSUME Views!LookupsInit
             PROVE  LooksInv
  OBVIOUS
<1>0. MaxServerChanges \in Nat
  BY StudioAssumption
<1>1. Views!Blank \in LookQuery
  BY DEF Views!Blank, LookQuery, Views!Ranges
<1>2. Views!Unfound \in LookFound /\ Views!Unfound.seen = -1
  BY <1>0, <1>1 DEF Views!Unfound, LookFound, LookSeen
<1>3. LooksShape
  <2>1. lkPage \in LookPage
    <3> HIDE DEF LookQuery, LookFound
    <3> QED  BY <1>1, <1>2 DEF Views!LookupsInit, LookPage
  <2>2. lkUrl \in LookUrl
    <3> HIDE DEF LookQuery
    <3> QED  BY <1>1 DEF Views!LookupsInit, LookUrl
  <2> QED  BY <1>0, <2>1, <2>2 DEF Views!LookupsInit, LooksShape
<1> QED  BY <1>2, <1>3 DEF Views!LookupsInit, LooksInv, LooksAsked, LooksTyped,
                           Views!ShownIsAsked, Views!Showing

\* A step that leaves the URL as it is, after which the page is one of its states
\* and shows what it should.
LEMMA LooksSearch ==
  ASSUME LooksInv, lkPage' \in LookPage, lkCalls' \subseteq LookCall,
         lkServer' \in 0..MaxServerChanges, UNCHANGED lkUrl,
         LooksAsked', Views!ShownIsAsked'
  PROVE  LooksInv'
BY DEF LooksInv, LooksShape, LooksTyped

\* A step that renders a query: the effect is to run.
LEMMA LooksRendered ==
  ASSUME LooksInv, lkPage' \in LookPage, lkPage'.fresh, lkUrl' \in LookUrl,
         LooksTyped', UNCHANGED <<lkCalls, lkServer>>
  PROVE  LooksInv'
BY DEF LooksInv, LooksShape, LooksAsked, Views!ShownIsAsked, Views!Showing

\* A step that only changes the URL that comes next.
LEMMA LooksEdited ==
  ASSUME LooksInv, lkUrl' \in LookUrl, LooksTyped', lkPage' = Views!Edited,
         UNCHANGED <<lkCalls, lkServer>>
  PROVE  LooksInv'
<1> USE DEF LooksInv, LooksShape
<1>1. PICK n \in Nat : n = lkPage.edits + 1
  BY DEF LookPage
<1>2. lkPage' = [lkPage EXCEPT !.edits = n]
  BY <1>1 DEF Views!Edited
<1>3. lkPage' \in LookPage
  BY <1>2 DEF LookPage
<1>4. LooksAsked' /\ Views!ShownIsAsked'
  BY <1>2 DEF LooksAsked, LookPage, Views!ShownIsAsked, Views!Showing
<1> QED  BY <1>3, <1>4

\* The changes of a query are queries, and change its text or its range alone.
LEMMA LooksChanges ==
  ASSUME LooksInv, NEW query \in LookQuery, NEW next \in Views!Changes(query)
  PROVE  /\ next \in LookQuery /\ next.page = 1
         /\ next.text = query.text \/ next.range = query.range
<1>1. lkPage.edits + 1 \in Nat
  BY DEF LooksInv, LooksShape, LookPage
<1> QED  BY <1>1 DEF Views!Changes, Views!With, LookQuery

LEMMA LooksFilter ==
  ASSUME LooksInv, Views!update \/ Views!clear \/ Views!Back \/ Views!render
  PROVE  LooksInv'
<1> USE DEF LooksInv, LooksShape
<1>0. LooksTyped /\ lkUrl.pending \in LookQuery /\ lkUrl.typed \in LookQuery /\ lkUrl.next \in LookQuery
  BY DEF LookUrl
<1>1. CASE Views!update
  <2>0. lkPage' = Views!Edited /\ UNCHANGED <<lkCalls, lkServer>>
    BY <1>1 DEF Views!update
  <2>1. PICK q \in LookQuery : lkUrl' = [lkUrl EXCEPT !.next = q, !.pending = q, !.typed = q]
    <3>1. ASSUME NEW next \in Views!Changes(lkUrl.pending),
                 lkUrl' = [lkUrl EXCEPT !.next = next, !.pending = next,
                             !.typed = IF next.text # lkUrl.pending.text
                                       THEN Views!With(@, next.text, @.range)
                                       ELSE Views!With(@, @.text, next.range)]
          PROVE  next \in LookQuery
                 /\ lkUrl' = [lkUrl EXCEPT !.next = next, !.pending = next, !.typed = next]
      <4>1. next \in LookQuery /\ next.page = 1
            /\ (next.text = lkUrl.pending.text \/ next.range = lkUrl.pending.range)
        BY <1>0, <3>1, LooksChanges
      <4>2. next = (IF next.text # lkUrl.pending.text
                    THEN Views!With(lkUrl.typed, next.text, lkUrl.typed.range)
                    ELSE Views!With(lkUrl.typed, lkUrl.typed.text, next.range))
        BY <1>0, <4>1 DEF LooksTyped, Views!With, LookQuery
      <4> QED  BY <3>1, <4>1, <4>2
    <3>2. ASSUME NEW turned, turned = [lkUrl.pending EXCEPT !.page = 3 - lkPage.query.page],
                 lkUrl' = [lkUrl EXCEPT !.next = turned, !.pending = turned, !.typed.page = turned.page]
          PROVE  turned \in LookQuery
                 /\ lkUrl' = [lkUrl EXCEPT !.next = turned, !.pending = turned, !.typed = turned]
      <4>1. PICK n \in 1..2 : n = 3 - lkPage.query.page
        BY DEF LookPage, LookQuery
      <4>2. turned \in LookQuery /\ turned.page = n
        BY <1>0, <3>2, <4>1 DEF LookQuery
      <4>3. [lkUrl.typed EXCEPT !.page = n] = turned
        BY <1>0, <3>2, <4>1 DEF LooksTyped
      <4> QED  BY <3>2, <4>2, <4>3
    <3> QED  BY <1>1, <3>1, <3>2 DEF Views!update
  <2>2. lkUrl' \in LookUrl /\ LooksTyped'
    BY <2>1 DEF LookUrl, LooksTyped
  <2> QED  BY <2>0, <2>2, LooksEdited
<1>2. CASE Views!clear
  <2>1. Views!Blank \in LookQuery
    BY DEF Views!Blank, LookQuery, Views!Ranges
  <2>2. lkUrl' \in LookUrl /\ LooksTyped'
    BY <1>2, <2>1 DEF Views!clear, LookUrl, LooksTyped
  <2> QED  BY <1>2, <2>2, LooksEdited DEF Views!clear
<1>3. CASE Views!Back
  <2>1. PICK i \in 1..Len(lkUrl.past) - 1 :
          /\ lkPage' = Views!Rendered(Views!Edited, lkUrl.past[i])
          /\ lkUrl' = [next |-> lkUrl.past[i], pending |-> lkUrl.past[i],
                       typed |-> lkUrl.past[i], past |-> SubSeq(lkUrl.past, 1, i)]
    BY <1>3 DEF Views!Back
  <2>2. PICK p \in Seq(LookQuery) : p = lkUrl.past
    BY DEF LookUrl
  <2>3. PICK u \in LookQuery : u = lkUrl.past[i]
    BY <2>1, <2>2
  <2>4. SubSeq(p, 1, i) \in Seq(LookQuery)
    BY <2>1, <2>2
  <2>5. PICK n \in Nat : n = lkPage.edits + 1
    BY DEF LookPage
  <2>6. lkPage' = [lkPage EXCEPT !.edits = n, !.query = u, !.fresh = TRUE]
    BY <2>1, <2>3, <2>5 DEF Views!Rendered, Views!Edited
  <2>7. lkPage' \in LookPage /\ lkPage'.fresh
    BY <2>6 DEF LookPage
  <2>8. lkUrl' \in LookUrl /\ LooksTyped'
    BY <2>1, <2>2, <2>3, <2>4 DEF LookUrl, LooksTyped
  <2> QED  BY <1>3, <2>7, <2>8, LooksRendered DEF Views!Back
<1>4. CASE Views!render
  <2>1. PICK u \in LookQuery : u = lkUrl.next
    BY <1>0
  <2>2. PICK p \in Seq(LookQuery) : p = Append(lkUrl.past, u)
    <3>1. PICK past \in Seq(LookQuery) : past = lkUrl.past
      BY DEF LookUrl
    <3>2. Append(past, u) \in Seq(LookQuery)
      BY <2>1, <3>1
    <3> QED  BY <3>1, <3>2
  <2>3. lkPage' = [lkPage EXCEPT !.query = u, !.fresh = TRUE]
        /\ lkUrl' = [lkUrl EXCEPT !.pending = u, !.past = p]
    BY <1>4, <2>1, <2>2 DEF Views!render, Views!Rendered
  <2>4. lkPage' \in LookPage /\ lkPage'.fresh
    BY <2>3 DEF LookPage
  <2>5. lkUrl' \in LookUrl /\ LooksTyped'
    BY <1>0, <2>1, <2>3 DEF LookUrl, LooksTyped
  <2> QED  BY <1>4, <2>4, <2>5, LooksRendered DEF Views!render
<1> QED  BY <1>1, <1>2, <1>3, <1>4

LEMMA LooksQuery ==
  ASSUME LooksInv, Views!setQuery
  PROVE  LooksInv'
<1> USE DEF LooksInv, LooksShape
<1>1. PICK query \in Views!Changes(lkPage.query) :
        lkPage' = Views!Rendered(Views!Edited, query) /\ UNCHANGED <<lkUrl, lkCalls, lkServer>>
  BY DEF Views!setQuery
<1>2. query \in LookQuery
  BY <1>1, LooksChanges DEF LookPage
<1>3. PICK n \in Nat : n = lkPage.edits + 1
  BY DEF LookPage
<1>4. lkPage' = [lkPage EXCEPT !.edits = n, !.query = query, !.fresh = TRUE]
  BY <1>1, <1>3 DEF Views!Rendered, Views!Edited
<1>5. lkPage' \in LookPage /\ lkPage'.fresh
  BY <1>2, <1>4 DEF LookPage
<1>6. lkUrl' \in LookUrl /\ LooksTyped'
  BY <1>1 DEF LooksTyped
<1> QED  BY <1>1, <1>5, <1>6, LooksRendered

\* The requests of a retired effect, and the one of the effect that runs.
LEMMA LooksRetired ==
  ASSUME LooksInv
  PROVE  \A d \in {[c EXCEPT !.active = FALSE] : c \in lkCalls} : d \in LookCall /\ ~d.active
BY DEF LooksInv, LooksShape, LookCall

LEMMA LooksAsks ==
  ASSUME LooksInv, NEW page \in LookPage, Views!Asks(page)
  PROVE  /\ lkCalls' \subseteq LookCall
         /\ \A d \in lkCalls' : d.active => d.query = page.query
<1> DEFINE new == [query |-> page.query, seen |-> -1, active |-> TRUE, n |-> page.edits]
<1>1. new \in LookCall /\ new.query = page.query
  <2>1. page.query \in LookQuery /\ page.edits \in Nat
    BY DEF LookPage
  <2>2. -1 \in LookSeen
    BY StudioAssumption DEF LookSeen
  <2> QED  BY <2>1, <2>2 DEF LookCall
<1>2. lkCalls' = {[c EXCEPT !.active = FALSE] : c \in lkCalls} \union {new}
  BY DEF Views!Asks
<1> HIDE DEF new
<1> QED  BY <1>1, <1>2, LooksRetired

LEMMA LooksEffect ==
  ASSUME LooksInv, Views!Effect
  PROVE  LooksInv'
<1> USE DEF LooksInv, LooksShape
<1>0. lkPage.fresh /\ UNCHANGED <<lkUrl, lkServer>>
  BY DEF Views!Effect
<1>1. PICK timer \in BOOLEAN, loading \in BOOLEAN, error \in BOOLEAN, found \in LookFound :
        /\ lkPage' = [lkPage EXCEPT !.fresh = FALSE, !.error = error, !.timer = timer,
                                    !.loading = loading, !.found = found]
        /\ lkPage.query.range = "inverted" \/ timer \/ loading
  <2>1. Views!Unfound \in LookFound
    BY StudioAssumption DEF Views!Unfound, Views!Blank, LookFound, LookQuery, LookSeen, Views!Ranges
  <2>2. lkPage.error \in BOOLEAN /\ lkPage.loading \in BOOLEAN /\ lkPage.found \in LookFound
    BY DEF LookPage
  <2>3. PICK timer \in BOOLEAN :
          timer = (Views!Delayed /\ ~(lkPage.query.range = "inverted"))
    OBVIOUS
  <2>4. PICK loading \in BOOLEAN :
          loading = IF lkPage.view = "capabilities" THEN lkPage.loading
                    ELSE ~(lkPage.query.range = "inverted")
    BY <2>2
  <2>5. PICK error \in BOOLEAN : error = (lkPage.error /\ lkPage.view = "capabilities")
    OBVIOUS
  <2>6. PICK found \in LookFound :
          found = IF lkPage.view = "models" THEN Views!Unfound ELSE lkPage.found
    BY <2>1, <2>2
  <2>7. lkPage.query.range = "inverted" \/ timer \/ loading
    BY <2>3, <2>4 DEF Views!Delayed
  <2>8. lkPage' = [lkPage EXCEPT !.fresh = FALSE, !.error = error, !.timer = timer,
                                 !.loading = loading, !.found = found]
    BY <2>3, <2>4, <2>5, <2>6 DEF Views!Effect
  <2> QED  BY <2>7, <2>8
<1>2. lkPage' \in LookPage /\ ~lkPage'.fresh /\ lkPage'.query = lkPage.query
      /\ lkPage'.timer = timer /\ lkPage'.loading = loading
  BY <1>1 DEF LookPage
<1>3. lkCalls' \subseteq LookCall /\ \A d \in lkCalls' : d.active => d.query = lkPage'.query
  <2>1. \/ lkCalls' = {[c EXCEPT !.active = FALSE] : c \in lkCalls}
        \/ Views!Asks(lkPage')
    BY DEF Views!Effect, Views!Asks
  <2>2. PICK page \in LookPage : page = lkPage'
    BY <1>2
  <2>3. CASE Views!Asks(lkPage')
    <3>1. Views!Asks(page)
      BY <2>2, <2>3 DEF Views!Asks
    <3> QED  BY <2>2, <3>1, LooksAsks
  <2> QED  BY <2>1, <2>3, LooksRetired
<1>4. LooksAsked' /\ Views!ShownIsAsked'
  BY <1>1, <1>2, <1>3 DEF LooksAsked, Views!ShownIsAsked, Views!Showing
<1>5. lkServer' \in 0..MaxServerChanges /\ UNCHANGED lkUrl
  BY <1>0
<1> QED  BY <1>2, <1>3, <1>4, <1>5, LooksSearch

LEMMA LooksAgain ==
  ASSUME LooksInv, Views!TimerFires \/ Views!refresh
  PROVE  LooksInv'
<1> USE DEF LooksInv, LooksShape
<1>1. Views!Asks(lkPage) /\ ~lkPage.fresh /\ UNCHANGED <<lkUrl, lkServer>>
  BY DEF Views!TimerFires, Views!refresh
<1>2. \/ UNCHANGED lkPage
      \/ lkPage' = [lkPage EXCEPT !.timer = FALSE, !.loading = TRUE]
  BY DEF Views!TimerFires, Views!refresh
<1>3. lkPage' \in LookPage /\ lkPage'.fresh = lkPage.fresh /\ lkPage'.query = lkPage.query
  BY <1>2 DEF LookPage
<1>4. lkCalls' \subseteq LookCall /\ \A d \in lkCalls' : d.active => d.query = lkPage.query
  BY <1>1, LooksAsks
<1>5. LooksAsked'
  BY <1>3, <1>4 DEF LooksAsked
<1>6. Views!ShownIsAsked'
  BY <1>2 DEF LookPage, Views!ShownIsAsked, Views!Showing
<1> QED  BY <1>1, <1>3, <1>4, <1>5, <1>6, LooksSearch

LEMMA LooksAnswered ==
  ASSUME LooksInv, NEW c \in lkCalls, Views!Served(c) \/ Views!Shown(c) \/ Views!Failed(c)
  PROVE  LooksInv'
<1> USE DEF LooksInv, LooksShape
<1>0. c \in LookCall /\ UNCHANGED <<lkUrl, lkServer>>
  BY DEF Views!Served, Views!Shown, Views!Failed
<1>1. CASE Views!Served(c)
  <2>1. PICK n \in LookSeen : n = lkServer
    BY StudioAssumption DEF LookSeen
  <2>2. PICK d \in LookCall : /\ d.active = c.active /\ d.query = c.query
                              /\ lkCalls' = (lkCalls \ {c}) \union {d}
    <3>1. [c EXCEPT !.seen = n] \in LookCall
      BY <1>0, <2>1 DEF LookCall
    <3>2. [c EXCEPT !.seen = n].active = c.active /\ [c EXCEPT !.seen = n].query = c.query
      BY <1>0 DEF LookCall
    <3> QED  BY <1>1, <2>1, <3>1, <3>2 DEF Views!Served
  <2>3. UNCHANGED lkPage
    BY <1>1 DEF Views!Served
  <2>4. lkCalls' \subseteq LookCall /\ LooksAsked'
    BY <2>2, <2>3 DEF LooksAsked
  <2>5. Views!ShownIsAsked'
    BY <2>3 DEF Views!ShownIsAsked, Views!Showing
  <2> QED  BY <1>0, <2>3, <2>4, <2>5, LooksSearch
<1>2. CASE Views!Shown(c) \/ Views!Failed(c)
  <2>0. lkCalls' = lkCalls \ {c}
    BY <1>2 DEF Views!Shown, Views!Failed
  <2>1. CASE ~c.active
    <3>1. UNCHANGED lkPage
      BY <1>2, <2>1 DEF Views!Shown, Views!Failed
    <3>2. LooksAsked' /\ Views!ShownIsAsked'
      BY <2>0, <3>1 DEF LooksAsked, Views!ShownIsAsked, Views!Showing
    <3> QED  BY <1>0, <2>0, <3>1, <3>2, LooksSearch
  <2>2. CASE c.active /\ Views!Shown(c)
    <3>1. PICK found \in LookFound : found = [query |-> c.query, seen |-> c.seen]
      BY <1>0 DEF LookCall, LookFound
    <3>2. PICK error \in BOOLEAN : error = (lkPage.error /\ lkPage.view # "live")
      OBVIOUS
    <3>3. lkPage' = [lkPage EXCEPT !.found = found, !.loading = FALSE, !.kept = FALSE,
                                   !.error = error]
      BY <2>2, <3>1, <3>2 DEF Views!Shown
    <3>4. lkPage' \in LookPage /\ lkPage'.found = found
          /\ lkPage'.query = lkPage.query /\ lkPage'.fresh = lkPage.fresh
      BY <3>3 DEF LookPage
    <3>5. found.query = c.query
      BY <3>1
    <3>6. LooksAsked' /\ Views!ShownIsAsked'
      BY <2>0, <2>2, <3>4, <3>5 DEF LooksAsked, Views!ShownIsAsked, Views!Showing
    <3> QED  BY <1>0, <2>0, <3>4, <3>6, LooksSearch
  <2>3. CASE c.active /\ Views!Failed(c)
    <3>1. Views!Unfound \in LookFound /\ Views!Unfound.seen = -1
      BY StudioAssumption DEF Views!Unfound, Views!Blank, LookFound, LookQuery, LookSeen, Views!Ranges
    <3>2. PICK found \in LookFound :
            /\ found = IF lkPage.view = "capabilities" THEN Views!Unfound ELSE lkPage.found
            /\ lkPage.view = "capabilities" => found.seen = -1
      BY <3>1 DEF LookPage
    <3>3. PICK error \in BOOLEAN : error = (lkPage.view # "capabilities")
      OBVIOUS
    <3>4. lkPage' = [lkPage EXCEPT !.error = error, !.loading = FALSE, !.kept = FALSE,
                                   !.found = found]
      BY <2>3, <3>2, <3>3 DEF Views!Failed
    <3>5. lkPage' \in LookPage /\ lkPage'.found = found /\ lkPage'.error = error
          /\ lkPage'.query = lkPage.query /\ lkPage'.fresh = lkPage.fresh
      BY <3>4 DEF LookPage
    <3>6. LooksAsked'
      BY <2>0, <3>5 DEF LooksAsked
    <3>7. lkPage'.error \/ lkPage'.found.seen = -1
      BY <3>2, <3>3, <3>5
    <3>8. Views!ShownIsAsked'
      BY <3>7 DEF Views!ShownIsAsked, Views!Showing
    <3> QED  BY <1>0, <2>0, <3>5, <3>6, <3>8, LooksSearch
  <2> QED  BY <1>2, <2>1, <2>2, <2>3
<1> QED  BY <1>1, <1>2

LEMMA LooksOthers ==
  ASSUME LooksInv, Views!dismiss \/ Views!ServerChanges
  PROVE  LooksInv'
<1> USE DEF LooksInv, LooksShape
<1>1. lkServer' \in 0..MaxServerChanges /\ UNCHANGED <<lkUrl, lkCalls>>
  BY StudioAssumption DEF Views!dismiss, Views!ServerChanges
<1>2. UNCHANGED lkPage \/ lkPage' = [lkPage EXCEPT !.error = FALSE, !.kept = TRUE]
  BY DEF Views!dismiss, Views!ServerChanges
<1>3. lkPage' \in LookPage /\ LooksAsked' /\ Views!ShownIsAsked'
  BY <1>1, <1>2 DEF LookPage, LooksAsked, Views!ShownIsAsked, Views!Showing
<1> QED  BY <1>1, <1>3, LooksSearch

LEMMA LooksStep ==
  ASSUME LooksInv, Views!LookupsNext
  PROVE  LooksInv'
BY LooksFilter, LooksQuery, LooksEffect, LooksAgain, LooksOthers, LooksAnswered
   DEF Views!LookupsNext

LEMMA LooksSame ==
  ASSUME LooksInv, UNCHANGED lookups
  PROVE  LooksInv'
BY DEF lookups, LooksInv, LooksShape, LooksAsked, LooksTyped, Views!ShownIsAsked, Views!Showing

\* The invariant says what the properties of the views say.
LEMMA LooksKnow ==
  ASSUME LooksInv
  PROVE  Views!LookupsTypeOK /\ Views!ShownIsAsked /\ Views!FiltersAreKept
<1>1. Views!LookupsTypeOK
  BY DEF LooksInv, LooksShape, LookPage, LookQuery, LookFound, LookCall, LookSeen, Views!LookupsTypeOK
<1> QED  BY <1>1 DEF LooksInv, LooksTyped, Views!FiltersAreKept

-----------------------------------------------------------------------------
(* The Studio: the page on screen keeps its part.                          *)

StudioInv ==
  /\ route = "vault" => VaultInv
  /\ route = "playground" => PlayInv
  /\ route = "setup" => SetupInv
  /\ route = "people" => AcInv
  /\ route = "shelf" => ShelfInv
  /\ route = "panels" => IgInv
  /\ route = "lookups" => LooksInv

LEMMA StudioInit == Init => StudioInv
BY VaultInit, PlayInit, SetupInit, AcInit, ShelfInit, IgInit, LooksInit DEF Init, StudioInv

\* The route never changes, and a step is the step of a page that is on screen.
LEMMA OnePageMoves ==
  ASSUME [Next]_vars
  PROVE  /\ route' = route
         /\ route = "vault" => Vault!SecretsNext \/ UNCHANGED vault
         /\ route = "playground" => Playground!LaunchNext \/ UNCHANGED playground
         /\ route = "setup" => Setup!SetupNext \/ UNCHANGED setup
         /\ route = "people" => People!AccountsNext \/ UNCHANGED people
         /\ route = "shelf" => Shelves!ShelfNext \/ UNCHANGED shelf
         /\ route = "panels" => Panels!IntegrationsNext \/ UNCHANGED panels
         /\ route = "lookups" => Views!LookupsNext \/ UNCHANGED lookups
<1>1. CASE Next
  BY <1>1 DEF Next, EditsTree, WalksThrough, ConnectsTools, SetsUp, ManagesPeople,
              KeepsSecrets, TidiesShelf, Integrates, LooksUp, Launches
<1>2. CASE UNCHANGED vars
  BY <1>2 DEF vars, pages
<1> QED  BY <1>1, <1>2

LEMMA StudioStep ==
  ASSUME StudioInv, [Next]_vars
  PROVE  StudioInv'
<1>1. ASSUME route = "vault"
      PROVE  VaultInv'
  BY <1>1, OnePageMoves, VaultStep, VaultSame DEF StudioInv
<1>2. ASSUME route = "playground"
      PROVE  PlayInv'
  BY <1>2, OnePageMoves, PlayStep, PlaySame DEF StudioInv
<1>3. ASSUME route = "setup"
      PROVE  SetupInv'
  BY <1>3, OnePageMoves, SetupStep, SetupSame DEF StudioInv
<1>4. ASSUME route = "people"
      PROVE  AcInv'
  BY <1>4, OnePageMoves, AcStep, AcSame DEF StudioInv
<1>5. ASSUME route = "shelf"
      PROVE  ShelfInv'
  BY <1>5, OnePageMoves, ShelfStep, ShelfSame DEF StudioInv
<1>6. ASSUME route = "panels"
      PROVE  IgInv'
  BY <1>6, OnePageMoves, IgStep, IgSame DEF StudioInv
<1>7. ASSUME route = "lookups"
      PROVE  LooksInv'
  BY <1>7, OnePageMoves, LooksStep, LooksSame DEF StudioInv
<1> QED  BY <1>1, <1>2, <1>3, <1>4, <1>5, <1>6, <1>7, OnePageMoves DEF StudioInv

LEMMA StudioAlways == Spec => []StudioInv
BY StudioInit, StudioStep, PTL DEF Spec

\* However the uses of a Secret change meanwhile, no Secret in use is removed;
\* the deletion that runs is of the Secret in the dialog, is the only one, and
\* leaves a dialog that says what the server said of it (secrets.tsx).
THEOREM SecretsAreKept == Spec => []SecretsAreSafe
<1>1. StudioInv => SecretsAreSafe
  BY VaultKnows DEF StudioInv, SecretsAreSafe, VaultInv
<1> QED  BY <1>1, StudioAlways, PTL

\* Whoever signs in, resets or deletes meanwhile, a browser shows the account of
\* the session it holds, and that a new password is due, unless the session was
\* committed after the reset that made it due or the sign-in raced another
\* request; and it shows only links that lead somewhere (auth.tsx, sidebar.tsx).
THEOREM SessionIsShown == Spec => []AccountIsKnown
<1>1. StudioInv => AccountIsKnown
  BY AcKnows, AcLinks DEF StudioInv, AccountIsKnown
<1> QED  BY <1>1, StudioAlways, PTL

\* The lists of users, Secrets, Trees and templates, keys, webhooks and
\* destinations show at rest what the server has, the set-up of a template the
\* draft, also after half a save, and those looked up are of the query that is
\* asked, wherever no load failed, no answer was lost, no requests overlapped
\* that a page lets overlap, and no other user changed a row behind the list; a
\* secret shown once is one the server accepts, and a set-up shown as completed
\* is of a Tree marked ready.
THEOREM PagesAreServed == Spec => []PagesShowTheServer
<1>1. StudioInv => PagesShowTheServer
  BY VaultKnows, AcKnows, ShelfKnows, IgKnows, LooksKnow, SetupKnows DEF StudioInv, PagesShowTheServer
<1> QED  BY <1>1, StudioAlways, PTL

\* In whatever order the answers arrive, the graph drawn is of the version the
\* Run is pinned to; one submission is on its way at a time, and one unfinished
\* Run has come of it unless an answer was lost (playground.tsx).
THEOREM GraphAndRunAgree == Spec => []PlaygroundFollowsItsRun
<1>1. StudioInv => PlaygroundFollowsItsRun
  BY PlayKnows DEF StudioInv, PlaygroundFollowsItsRun
<1> QED  BY <1>1, StudioAlways, PTL

\* These pages, and their parts of the server, keep their shape.
LEMMA SevenPagesAreTyped ==
  StudioInv => /\ route = "setup" => Setup!SetupTypeOK
               /\ route = "people" => People!AccountsTypeOK
               /\ route = "vault" => Vault!SecretsTypeOK
               /\ route = "shelf" => Shelves!ShelfTypeOK
               /\ route = "panels" => Panels!IntegrationsTypeOK
               /\ route = "lookups" => Views!LookupsTypeOK
               /\ route = "playground" => Playground!LaunchTypeOK
BY VaultKnows, PlayKnows, SetupKnows, AcKnows, ShelfKnows, IgKnows, LooksKnow DEF StudioInv
=============================================================================
