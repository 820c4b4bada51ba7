------------------------- MODULE QualificationProofs -------------------------
(***************************************************************************)
(* Proofs about both ends of the qualification of models: about            *)
(* ModelCatalog for every set of models, discoveries and verifications and *)
(* every bound, and about the Providers page, by the lemmas of             *)
(* ProvidersPageProofs, for every number of visits and of its coroutines.  *)
(***************************************************************************)
EXTENDS Qualification, TLAPS

\* What StatusMatchesProof asks of one row.
Agrees(x) ==
  /\ x.status = "qualified" => x.meta.proof = "passed"
  /\ x.status = "limited" => x.meta.proof = "failed"
  /\ x.status = "transient_error" => x.meta.pending

\* A row belongs to the catalogue since the last change of the configuration.
RowInv(m) ==
  /\ Present(row[m]) => row[m].id = clears
  /\ m \notin crossed => Agrees(row[m])

\* What a verification has read, and the token it runs under.
PriorInv(v) ==
  at[v] # "idle" =>
    /\ Present(prior[v]) /\ prior[v].id <= clears
    /\ prior[v].id = clears => target[v] \in crossed \/ Agrees(prior[v])
    /\ token[v] = current
    /\ at[v] \in Working => loaded[v].id = prior[v].id

\* The verification whose end will replace "verifying" on the row.
Holds(v, m) ==
  /\ at[v] \in Claimed /\ target[v] = m /\ prior[v].id = row[m].id
  /\ at[v] = "refresh" \/ loaded[v].status = "verifying"

\* A claim nobody has written over is on the row.
ClaimInv(v) ==
  (at[v] \in Claimed /\ v \notin revoked /\ prior[v].id = clears)
    => row[target[v]].status = "verifying"

OneClaim(v, w) ==
  (v # w /\ at[v] \in Claimed /\ at[w] \in Claimed
     /\ target[v] = target[w] /\ prior[v].id = prior[w].id)
    => v \in revoked \/ w \in revoked

VerifyingIsHeld ==
  crashes = 0 =>
    \A m \in Models : row[m].status = "verifying" => \E v \in Verifications : Holds(v, m)

Bounded == clears + crashes <= MaxUpsets

CInv ==
  /\ TypeOK /\ Bounded
  /\ \A m \in Models : RowInv(m)
  /\ VerifyingIsHeld
  /\ \A v \in Verifications : PriorInv(v) /\ ClaimInv(v)
  /\ \A v, w \in Verifications : OneClaim(v, w)
  /\ StopReaches

-----------------------------------------------------------------------------
(* Rows, and what a flush leaves of them.                                  *)

LEMMA FlushColumns ==
  ASSUME NEW now \in Row, NEW old \in Row, NEW new \in Row
  PROVE  LET x == Flush(now, old, new) IN
         /\ x \in Row
         /\ x.id = IF new.id # old.id THEN new.id ELSE now.id
         /\ x.status = IF new.status # old.status THEN new.status ELSE now.status
         /\ x.meta = IF new.meta # old.meta THEN new.meta ELSE now.meta
<1>1. DOMAIN now = {"id", "status", "available", "candidate", "code", "meta"}
  BY DEF Row
<1>2. Flush(now, old, new) =
        [id |-> IF new.id # old.id THEN new.id ELSE now.id,
         status |-> IF new.status # old.status THEN new.status ELSE now.status,
         available |-> IF new.available # old.available THEN new.available ELSE now.available,
         candidate |-> IF new.candidate # old.candidate THEN new.candidate ELSE now.candidate,
         code |-> IF new.code # old.code THEN new.code ELSE now.code,
         meta |-> IF new.meta # old.meta THEN new.meta ELSE now.meta]
  BY <1>1 DEF Flush
<1> QED  BY <1>2 DEF Row

LEMMA RelistedRow ==
  ASSUME TypeOK, NEW x \in Row, NEW kind \in Listing
  PROVE  LET y == Relisted(x, kind) IN
         /\ y \in Row
         /\ y.status = "verifying" => x.status = "verifying"
         /\ Present(x) => Present(y) /\ y.id = x.id
         /\ ~Present(x) /\ kind # "missing" => Present(y) /\ y.id = clears
         /\ ~Present(x) /\ kind = "missing" => y = x
         /\ Agrees(x) => Agrees(y)
<1> DEFINE base == IF Present(x) THEN x ELSE NewRow(clears)
           again == /\ base.status = "unavailable"
                    /\ \/ base.code = "not_discovered"
                       \/ base.code = "not_capable" /\ kind = "text"
           fresh == IF again THEN [base EXCEPT !.status = "unknown", !.code = "other"]
                    ELSE base
<1>1. base \in Row /\ Present(base) /\ (Present(x) => base = x)
      /\ (~Present(x) => base.id = clears)
      /\ (base.status = "verifying" => x.status = "verifying")
      /\ (Agrees(x) => Agrees(base))
  BY DEF TypeOK, Row, NewRow, NoMeta, Meta, Proof, Status, Code, Present, Agrees
<1>2. fresh \in Row /\ Present(fresh) /\ fresh.id = base.id
      /\ (fresh.status = "verifying" => x.status = "verifying")
      /\ (Agrees(x) => Agrees(fresh))
  <2> HIDE DEF base
  <2> QED  BY <1>1 DEF Row, Status, Code, Present, Agrees
<1>3. CASE kind = "missing"
  BY <1>3 DEF Relisted, Row, Status, Code, Present, Agrees
<1>4. CASE kind = "text"
  <2>1. Relisted(x, kind) = [fresh EXCEPT !.available = TRUE, !.candidate = TRUE]
    BY <1>4 DEF Relisted
  <2> HIDE DEF fresh, base
  <2> QED  BY <1>1, <1>2, <1>4, <2>1 DEF Row, Status, Code, Present, Agrees
<1>5. CASE kind = "other"
  <2>1. Relisted(x, kind) = [fresh EXCEPT !.available = TRUE, !.candidate = FALSE,
                                          !.status = "unavailable", !.code = "not_capable"]
    BY <1>5 DEF Relisted
  <2> HIDE DEF fresh, base
  <2> QED  BY <1>1, <1>2, <1>5, <2>1 DEF Row, Status, Code, Present, Agrees
<1> QED  BY <1>3, <1>4, <1>5 DEF Listing

\* The outcome a verification writes into the row it has loaded.
LEMMA SettledRow ==
  ASSUME TypeOK, NEW v \in Verifications, NEW outcome \in Outcomes(v)
  PROVE  LET y == Settled(v, outcome) IN
         /\ y \in Row
         /\ y.id = loaded[v].id
         /\ y.status \notin {"absent", "verifying"}
         /\ Agrees(prior[v]) => Agrees(y)
<1>1. outcome \in {"passed", "failed", "refused", "broken", "interrupted"}
  BY DEF Outcomes
<1>2. prior[v] \in Row /\ loaded[v] \in Row
  BY DEF TypeOK
<1>3. /\ prior[v].status \in Status /\ prior[v].code \in Code
      /\ prior[v].meta.proof \in Proof
  BY <1>2 DEF Row, Meta
<1>4. ASSUME NEW s \in Status \ {"absent", "verifying"}, NEW c \in Code, NEW p \in Proof,
             NEW b \in BOOLEAN
      PROVE  LET y == Leaves(v, s, c, p, b) IN
             /\ y \in Row /\ y.id = loaded[v].id
             /\ y.status = s /\ y.meta.proof = p /\ y.meta.pending = b
  BY <1>2 DEF Leaves, Row, Meta
<1>5. \E s \in Status \ {"absent", "verifying"}, c \in Code, p \in Proof, b \in BOOLEAN :
        /\ Settled(v, outcome) = Leaves(v, s, c, p, b)
        /\ s = "qualified" => p = "passed" \/ (s = prior[v].status /\ p = prior[v].meta.proof)
        /\ s = "limited" => p = "failed" \/ (s = prior[v].status /\ p = prior[v].meta.proof)
        /\ s = "transient_error" => b = TRUE
  <2>1. CASE outcome = "passed"
    <3>1. Settled(v, outcome) = Leaves(v, "qualified", "other", "passed", FALSE)
      BY <2>1 DEF Settled
    <3>2. /\ "qualified" \in Status \ {"absent", "verifying"}
          /\ "other" \in Code /\ "passed" \in Proof /\ FALSE \in BOOLEAN
      BY DEF Status, Code, Proof
    <3> QED  BY <3>1, <3>2
  <2>2. CASE outcome = "failed"
    <3>1. Settled(v, outcome) = Leaves(v, "limited", "other", "failed", FALSE)
      BY <2>2 DEF Settled
    <3>2. /\ "limited" \in Status \ {"absent", "verifying"}
          /\ "other" \in Code /\ "failed" \in Proof /\ FALSE \in BOOLEAN
      BY DEF Status, Code, Proof
    <3> QED  BY <3>1, <3>2
  <2>3. CASE outcome = "refused"
    <3>1. Settled(v, outcome) = Leaves(v, "unavailable", "other", "none", FALSE)
      BY <2>3 DEF Settled
    <3>2. /\ "unavailable" \in Status \ {"absent", "verifying"}
          /\ "other" \in Code /\ "none" \in Proof /\ FALSE \in BOOLEAN
      BY DEF Status, Code, Proof
    <3> QED  BY <3>1, <3>2
  <2>4. CASE outcome \in {"broken", "interrupted"} /\ prior[v].status \in {"qualified", "limited"}
    <3>1. Settled(v, outcome)
            = Leaves(v, prior[v].status, prior[v].code, prior[v].meta.proof, TRUE)
      BY <2>4 DEF Settled
    <3> QED  BY <1>3, <2>4, <3>1
  <2>5. CASE outcome \in {"broken", "interrupted"} /\ prior[v].status \notin {"qualified", "limited"}
    <3>1. \E p \in {"none", "interrupted"} :
            Settled(v, outcome) = Leaves(v, "transient_error", "other", p, TRUE)
      BY <2>5 DEF Settled
    <3> QED  BY <3>1 DEF Status, Code, Proof
  <2> QED  BY <1>1, <2>1, <2>2, <2>3, <2>4, <2>5
<1> HIDE DEF Settled
<1> QED  BY <1>4, <1>5 DEF Agrees

-----------------------------------------------------------------------------
(* The shape of the state.                                                 *)

\* A catalogue is written column by column, or with the metadata as a whole.
LEMMA CatalogRow ==
  ASSUME TypeOK, NEW m \in Models, NEW s \in Row, NEW new \in Row
  PROVE  LET x == Flush(row[m], s, new)
             y == [x EXCEPT !.meta = new.meta]
         IN /\ x \in Row /\ y \in Row
            /\ x.id = IF new.id # s.id THEN new.id ELSE row[m].id
            /\ x.status = IF new.status # s.status THEN new.status ELSE row[m].status
            /\ s = row[m] => x.meta = new.meta
            /\ new = s => x.meta = row[m].meta
            /\ y.id = x.id /\ y.status = x.status /\ y.meta = new.meta
<1> DEFINE x == Flush(row[m], s, new)
<1>1. row[m] \in Row
  BY DEF TypeOK
<1>2. /\ x \in Row
      /\ x.id = IF new.id # s.id THEN new.id ELSE row[m].id
      /\ x.status = IF new.status # s.status THEN new.status ELSE row[m].status
      /\ x.meta = IF new.meta # s.meta THEN new.meta ELSE row[m].meta
  BY <1>1, FlushColumns
<1> HIDE DEF x
<1> QED  BY <1>1, <1>2 DEF x, Row

LEMMA CatalogInit == Init => CInv
<1> SUFFICES ASSUME Init
             PROVE  CInv
  OBVIOUS
<1>1. NoRow \in Row /\ (CHOOSE m \in Models : TRUE) \in Models
  BY ModelsAssumption, BoundsAssumption DEF NoRow, NoMeta, Row, Meta, Status, Code, Proof
<1>2. TypeOK /\ Bounded
  BY <1>1, BoundsAssumption DEF Init, TypeOK, Active, Bounded
<1>3. \A m \in Models : RowInv(m) /\ row[m].status # "verifying"
  BY DEF Init, RowInv, NoRow, Present, Agrees
<1> QED  BY <1>2, <1>3 DEF CInv, Init, PriorInv, ClaimInv, OneClaim, VerifyingIsHeld,
                          Claimed, Working, StopReaches

\* Steps that change no row and end no verification.
LEMMA QuietStep ==
  ASSUME CInv,
         \/ \E d \in Discoveries : ReadCatalog(d) \/ DiscoveryFails(d)
         \/ StartQualification \/ StopQualification
         \/ \E v \in Verifications : NextRequest(v)
         \/ UNCHANGED vars
  PROVE  CInv'
<1> USE DEF CInv, rowVars, verifyVars, controlVars, boundVars, vars
<1>1. NoRow \in Row
  BY BoundsAssumption DEF NoRow, NoMeta, Row, Meta, Status, Code, Proof
<1>2. /\ UNCHANGED <<row, crossed, revoked, target, prior, loaded, token, clears, crashes>>
      /\ \A v \in Verifications :
           /\ (at'[v] \in Claimed) = (at[v] \in Claimed)
           /\ (at'[v] = "idle") = (at[v] = "idle")
           /\ (at'[v] \in Working) = (at[v] \in Working)
           /\ (at'[v] = "refresh") = (at[v] = "refresh")
           /\ (at'[v] # "idle") => current' = current
      /\ at' \in [Verifications -> {"idle", "claim"} \union Claimed]
      /\ current' \in 0..MaxStarts
  <2>1. CASE \E v \in Verifications : NextRequest(v)
    BY <2>1 DEF NextRequest, Goes, Claimed, Working, TypeOK
  <2>2. CASE StartQualification
    BY <2>2, BoundsAssumption DEF StartQualification, Active, TypeOK
  <2>3. CASE \E d \in Discoveries : ReadCatalog(d) \/ DiscoveryFails(d)
    BY <2>3 DEF ReadCatalog, DiscoveryFails, Answered, TypeOK
  <2>4. CASE StopQualification \/ UNCHANGED vars
    BY <2>4 DEF StopQualification, TypeOK
  <2> QED  BY <2>1, <2>2, <2>3, <2>4
<1>3. Active' = Active
  BY <1>2 DEF Active
<1>4. TypeOK'
  <2>1. asking' \subseteq Discoveries /\ seen' \in [Discoveries -> [Models -> Row]]
    BY <1>1 DEF TypeOK, ReadCatalog, DiscoveryFails, Answered, StartQualification,
                StopQualification, NextRequest
  <2>2. requests' \in 0..MaxRequests
    BY BoundsAssumption
       DEF TypeOK, ReadCatalog, DiscoveryFails, Answered, StartQualification,
           StopQualification, NextRequest, Admitted
  <2>3. raised' \subseteq 0..MaxStarts /\ told' \subseteq Active
    BY DEF TypeOK, ReadCatalog, DiscoveryFails, Answered, StartQualification,
           StopQualification, NextRequest
  <2> QED  BY <1>2, <1>3, <2>1, <2>2, <2>3 DEF TypeOK
<1>5. \A m \in Models : RowInv(m)'
  BY <1>2 DEF RowInv
<1>6. VerifyingIsHeld'
  BY <1>2 DEF VerifyingIsHeld, Holds
<1>7. \A v \in Verifications : PriorInv(v)' /\ ClaimInv(v)'
  BY <1>2 DEF PriorInv, ClaimInv
<1>8. \A v, w \in Verifications : OneClaim(v, w)'
  BY <1>2 DEF OneClaim
<1>9. StopReaches'
  <2>1. \A v \in Active : token[v] = current
    BY DEF Active, PriorInv
  <2> QED  BY <1>2, <2>1 DEF StopReaches, Stopped, ReadCatalog, DiscoveryFails, Answered,
                            StartQualification, StopQualification, NextRequest
<1>10. Bounded'
  BY <1>2 DEF Bounded
<1> QED  BY <1>4, <1>5, <1>6, <1>7, <1>8, <1>9, <1>10

LEMMA BeginStep ==
  ASSUME CInv, NEW v \in Verifications, NEW m \in Models, Begin(v, m)
  PROVE  CInv'
<1> USE DEF CInv, Begin, Goes, rowVars, controlVars
<1>1. /\ at[v] = "idle" /\ at' = [at EXCEPT ![v] = "claim"]
      /\ target' = [target EXCEPT ![v] = m]
      /\ prior' = [prior EXCEPT ![v] = row[m]]
      /\ token' = [token EXCEPT ![v] = current]
      /\ at \in [Verifications -> {"idle", "claim"} \union Claimed]
      /\ target \in [Verifications -> Models]
      /\ prior \in [Verifications -> Row] /\ row[m] \in Row
      /\ token \in [Verifications -> 0..MaxStarts]
      /\ UNCHANGED <<row, crossed, revoked, asking, seen, loaded, current, raised, told,
                     clears, crashes>>
  BY DEF TypeOK
<1>2. \A w \in Verifications : w # v =>
        /\ at'[w] = at[w] /\ target'[w] = target[w] /\ prior'[w] = prior[w]
        /\ token'[w] = token[w]
  BY <1>1
<1>3. at'[v] = "claim" /\ target'[v] = m /\ prior'[v] = row[m] /\ token'[v] = current
  BY <1>1
<1>4. v \notin told /\ "claim" \notin Claimed
  BY <1>1 DEF TypeOK, Active, Claimed, Working
<1>5. TypeOK'
  <2>1. Active \subseteq Active'
    BY <1>1, <1>2, <1>3 DEF Active
  <2>2. requests' \in 0..MaxRequests
    BY BoundsAssumption DEF Admitted, TypeOK
  <2>3. /\ at' \in [Verifications -> {"idle", "claim"} \union Claimed]
        /\ target' \in [Verifications -> Models]
        /\ prior' \in [Verifications -> Row]
        /\ token' \in [Verifications -> 0..MaxStarts]
    BY <1>1 DEF TypeOK
  <2> QED  BY <1>1, <2>1, <2>2, <2>3 DEF TypeOK
<1>6. \A x \in Models : RowInv(x)'
  BY <1>1 DEF RowInv
<1>7. VerifyingIsHeld'
  BY <1>1, <1>2 DEF VerifyingIsHeld, Holds, Claimed, Working
<1>8. ASSUME NEW w \in Verifications
      PROVE  PriorInv(w)' /\ ClaimInv(w)'
  <2>1. CASE w = v
    <3>1. row[m].id = clears /\ (m \in crossed \/ Agrees(row[m])) /\ Present(row[m])
      BY DEF RowInv
    <3>2. clears \in Nat
      BY BoundsAssumption DEF TypeOK
    <3> QED  BY <1>1, <1>3, <1>4, <2>1, <3>1, <3>2 DEF PriorInv, ClaimInv, Working
  <2>2. CASE w # v
    BY <1>1, <1>2, <2>2 DEF PriorInv, ClaimInv
  <2> QED  BY <2>1, <2>2
<1>9. \A w, x \in Verifications : OneClaim(w, x)'
  BY <1>1, <1>2, <1>3, <1>4 DEF OneClaim
<1>10. StopReaches'
  BY <1>1, <1>2, <1>4 DEF StopReaches, Stopped
<1>11. Bounded'
  BY <1>1 DEF Bounded
<1> QED  BY <1>5, <1>6, <1>7, <1>8, <1>9, <1>10, <1>11

LEMMA ClaimedRow ==
  ASSUME NEW x \in Row
  PROVE  LET y == [x EXCEPT !.status = "verifying", !.code = "other"] IN
         y \in Row /\ y.status = "verifying" /\ y.id = x.id
BY DEF Row, Status, Code

LEMMA ClaimStep ==
  ASSUME CInv, NEW v \in Verifications, NEW m \in Models, m = target[v], Claim(v)
  PROVE  CInv'
<1> USE DEF CInv, Claim, Goes, controlVars, boundVars
<1>1. /\ at[v] = "claim" /\ at' = [at EXCEPT ![v] = "refresh"]
      /\ row[m].status # "verifying" /\ SameRow(prior[v], row[m])
      /\ at \in [Verifications -> {"idle", "claim"} \union Claimed]
      /\ UNCHANGED <<crossed, revoked, asking, seen, target, prior, loaded, token,
                     controlVars, boundVars>>
  BY DEF TypeOK
<1>2. /\ \A x \in Models : x # m => row'[x] = row[x]
      /\ row'[m].status = "verifying" /\ row'[m].id = row[m].id
      /\ row' \in [Models -> Row]
  <2> DEFINE taken == [row[m] EXCEPT !.status = "verifying", !.code = "other"]
  <2>1. row' = [row EXCEPT ![m] = taken]
    OBVIOUS
  <2>2. taken \in Row /\ taken.status = "verifying" /\ taken.id = row[m].id
    BY ClaimedRow DEF TypeOK
  <2> QED  BY <2>1, <2>2 DEF TypeOK
<1>3. Present(row[m]) /\ prior[v].id = clears /\ row[m].id = clears
  BY <1>1 DEF PriorInv, RowInv, SameRow
<1>4. /\ \A w \in Verifications : w # v => at'[w] = at[w]
      /\ at'[v] = "refresh" /\ "refresh" \in Claimed /\ "refresh" \notin Working
  BY <1>1 DEF Claimed, Working
<1>5. TypeOK'
  <2>1. Active' = Active
    BY <1>1, <1>4 DEF Active
  <2>2. at' \in [Verifications -> {"idle", "claim"} \union Claimed]
    BY <1>1, <1>4
  <2> QED  BY <1>1, <1>2, <2>1, <2>2 DEF TypeOK
<1>6. ASSUME NEW x \in Models
      PROVE  RowInv(x)'
  BY <1>1, <1>2, <1>3 DEF RowInv, Present, Agrees
<1>7. VerifyingIsHeld'
  <2>1. Holds(v, m)'
    BY <1>1, <1>2, <1>3, <1>4 DEF Holds
  <2>2. ASSUME crashes = 0, NEW x \in Models, x # m, row[x].status = "verifying"
        PROVE  \E w \in Verifications : Holds(w, x)'
    <3>1. PICK w \in Verifications : Holds(w, x)
      BY <2>2 DEF VerifyingIsHeld
    <3> QED  BY <1>1, <1>2, <1>4, <2>2, <3>1 DEF Holds, Claimed, Working
  <2> QED  BY <1>1, <1>2, <2>1, <2>2 DEF VerifyingIsHeld
<1>8. ASSUME NEW w \in Verifications
      PROVE  PriorInv(w)' /\ ClaimInv(w)'
  BY <1>1, <1>2, <1>4 DEF PriorInv, ClaimInv, TypeOK
<1>9. ASSUME NEW w \in Verifications, w # v, at[w] \in Claimed, target[w] = m,
             prior[w].id = prior[v].id
      PROVE  w \in revoked
  BY <1>1, <1>3, <1>9 DEF ClaimInv
<1>10. \A w, x \in Verifications : OneClaim(w, x)'
  BY <1>1, <1>4, <1>9 DEF OneClaim
<1>11. StopReaches' /\ Bounded'
  BY <1>1 DEF StopReaches, Stopped, Bounded
<1> QED  BY <1>5, <1>6, <1>7, <1>8, <1>10, <1>11

\* A verification that ends leaves the others as they are.
LEMMA EndsKeeps ==
  ASSUME TypeOK, NEW v \in Verifications, Ends(v)
  PROVE  /\ at'[v] = "idle"
         /\ \A w \in Verifications : w # v =>
              /\ at'[w] = at[w] /\ target'[w] = target[w] /\ prior'[w] = prior[w]
              /\ loaded'[w] = loaded[w] /\ token'[w] = token[w]
         /\ at' \in [Verifications -> {"idle", "claim"} \union Claimed]
         /\ target' \in [Verifications -> Models]
         /\ prior' \in [Verifications -> Row] /\ loaded' \in [Verifications -> Row]
         /\ token' \in [Verifications -> 0..MaxStarts]
         /\ told' = told \ {v} /\ Active' = Active \ {v}
<1>1. NoRow \in Row /\ (CHOOSE m \in Models : TRUE) \in Models
  BY ModelsAssumption, BoundsAssumption DEF NoRow, NoMeta, Row, Meta, Status, Code, Proof
<1>2. 0 \in 0..MaxStarts
  BY BoundsAssumption
<1>3. at \in [Verifications -> {"idle", "claim"} \union Claimed]
      /\ at' = [at EXCEPT ![v] = "idle"]
  BY DEF TypeOK, Ends
<1>4. Active' = Active \ {v}
  BY <1>3 DEF Active
<1> QED  BY <1>1, <1>2, <1>3, <1>4 DEF TypeOK, Ends

LEMMA FailsStep ==
  ASSUME CInv, NEW v \in Verifications, ClaimFails(v) \/ RefreshFails(v)
  PROVE  CInv'
<1> USE DEF CInv
<1>1. Ends(v) /\ revoked' = revoked \ {v}
      /\ UNCHANGED <<row, crossed, asking, seen, current, raised, boundVars>>
      /\ \/ at[v] = "claim"
         \/ at[v] = "refresh" /\ ~SameRow(prior[v], row[target[v]])
  BY DEF ClaimFails, RefreshFails
<1>2. /\ at'[v] = "idle"
      /\ \A w \in Verifications : w # v =>
           /\ at'[w] = at[w] /\ target'[w] = target[w] /\ prior'[w] = prior[w]
           /\ loaded'[w] = loaded[w] /\ token'[w] = token[w]
      /\ told' = told \ {v}
      /\ UNCHANGED <<clears, crashes>>
  BY <1>1, EndsKeeps DEF boundVars
<1>3. TypeOK'
  BY <1>1, EndsKeeps DEF TypeOK, boundVars
<1>4. \A x \in Models : RowInv(x)'
  BY <1>1, <1>2 DEF RowInv
<1>5. VerifyingIsHeld'
  <2>1. ASSUME NEW x \in Models, row[x].status = "verifying"
        PROVE  ~Holds(v, x)
    BY <1>1, <2>1 DEF Holds, Claimed, Working, SameRow, PriorInv, Present
  <2>2. ASSUME NEW x \in Models, NEW w \in Verifications, Holds(w, x), w # v
        PROVE  Holds(w, x)'
    BY <1>1, <1>2, <2>2 DEF Holds
  <2> QED  BY <1>1, <1>2, <2>1, <2>2 DEF VerifyingIsHeld
<1>6. \A w \in Verifications : PriorInv(w)' /\ ClaimInv(w)'
  BY <1>1, <1>2 DEF PriorInv, ClaimInv, Claimed, Working
<1>7. \A w, x \in Verifications : OneClaim(w, x)'
  BY <1>1, <1>2 DEF OneClaim, Claimed, Working
<1>8. StopReaches' /\ Bounded'
  BY <1>1, <1>2 DEF StopReaches, Stopped, Bounded, TypeOK, Active
<1> QED  BY <1>3, <1>4, <1>5, <1>6, <1>7, <1>8

LEMMA RefreshStep ==
  ASSUME CInv, NEW v \in Verifications, Refresh(v)
  PROVE  CInv'
<1> USE DEF CInv, Refresh, Goes, rowVars, controlVars, boundVars
<1>1. /\ at[v] = "refresh" /\ at'[v] = "start" /\ SameRow(prior[v], row[target[v]])
      /\ loaded'[v] = row[target[v]]
      /\ \A w \in Verifications : w # v => at'[w] = at[w] /\ loaded'[w] = loaded[w]
      /\ at' \in [Verifications -> {"idle", "claim"} \union Claimed]
      /\ loaded' \in [Verifications -> Row]
      /\ UNCHANGED <<rowVars, asking, seen, target, prior, token, controlVars, boundVars>>
  BY DEF TypeOK, Claimed, Working
<1>2. Active' = Active
  BY <1>1 DEF Active
<1>3. TypeOK'
  BY <1>1, <1>2 DEF TypeOK
<1>4. \A x \in Models : RowInv(x)'
  BY <1>1 DEF RowInv
<1>5. VerifyingIsHeld'
  <2>1. ASSUME NEW x \in Models, NEW w \in Verifications, Holds(w, x),
               row[x].status = "verifying"
        PROVE  Holds(w, x)'
    BY <1>1, <2>1 DEF Holds, Claimed, Working
  <2> QED  BY <1>1, <2>1 DEF VerifyingIsHeld
<1>6. \A w \in Verifications : PriorInv(w)' /\ ClaimInv(w)'
  BY <1>1 DEF PriorInv, ClaimInv, Claimed, Working, SameRow
<1>7. \A w, x \in Verifications : OneClaim(w, x)'
  BY <1>1 DEF OneClaim, Claimed, Working
<1>8. StopReaches' /\ Bounded'
  BY <1>1 DEF StopReaches, Stopped, Bounded
<1> QED  BY <1>3, <1>4, <1>5, <1>6, <1>7, <1>8

LEMMA FinishStep ==
  ASSUME CInv, NEW v \in Verifications, NEW m \in Models, m = target[v],
         NEW outcome \in Outcomes(v), Finish(v, outcome)
  PROVE  CInv'
<1> USE DEF CInv
<1> DEFINE new == Settled(v, outcome)
<1>1. /\ Ends(v)
      /\ \/ /\ SameRow(prior[v], row[m])
            /\ row' = [row EXCEPT ![m] = Flush(row[m], loaded[v], new)]
            /\ crossed' = IF row[m] # loaded[v] THEN crossed \union {m} ELSE crossed
         \/ ~SameRow(prior[v], row[m]) /\ UNCHANGED <<row, crossed>>
      /\ revoked' = (revoked \ {v}) \union
                       (IF v \in revoked THEN Undone(m, Verifications \ {v}) ELSE {})
      /\ UNCHANGED <<asking, seen, current, raised, boundVars, clears, crashes>>
  BY DEF Finish, boundVars
<1>2. /\ at'[v] = "idle"
      /\ \A w \in Verifications : w # v =>
           /\ at'[w] = at[w] /\ target'[w] = target[w] /\ prior'[w] = prior[w]
           /\ loaded'[w] = loaded[w] /\ token'[w] = token[w]
      /\ told' = told \ {v} /\ Active' = Active \ {v}
  BY <1>1, EndsKeeps
<1>3. at[v] \in Working
  BY DEF Outcomes, Working
<1>4. /\ new \in Row /\ new.id = loaded[v].id /\ new.status \notin {"absent", "verifying"}
      /\ Agrees(prior[v]) => Agrees(new)
  BY SettledRow
<1> HIDE DEF new
<1>5. /\ row' \in [Models -> Row]
      /\ \A x \in Models : x # m => row'[x] = row[x]
      /\ row'[m].id = row[m].id
      /\ Present(row'[m]) => Present(row[m])
      /\ Present(row[m]) => Present(row'[m])
      /\ row'[m].status = "verifying" =>
           /\ row[m].status = "verifying"
           /\ SameRow(prior[v], row[m]) => loaded[v].status # "verifying"
      /\ m \notin crossed' => Agrees(row'[m])
  <2>1. CASE ~SameRow(prior[v], row[m])
    BY <1>1, <2>1 DEF TypeOK, RowInv
  <2>2. CASE SameRow(prior[v], row[m])
    <3>1. row[m] \in Row /\ loaded[v] \in Row
      BY DEF TypeOK
    <3> DEFINE put == Flush(row[m], loaded[v], new)
    <3>2. /\ put \in Row
          /\ put.id = IF new.id # loaded[v].id THEN new.id ELSE row[m].id
          /\ put.status = IF new.status # loaded[v].status THEN new.status ELSE row[m].status
          /\ put.meta = IF new.meta # loaded[v].meta THEN new.meta ELSE row[m].meta
      BY <1>4, <3>1, FlushColumns
    <3> HIDE DEF put
    <3>3. row' = [row EXCEPT ![m] = put]
          /\ crossed' = IF row[m] # loaded[v] THEN crossed \union {m} ELSE crossed
      BY <1>1, <2>2 DEF put
    <3>4. Present(row[m]) /\ prior[v].id = clears
      BY <1>3, <2>2 DEF PriorInv, RowInv, SameRow, Working
    <3>5. m \notin crossed' => row[m] = loaded[v] /\ Agrees(prior[v])
      BY <1>3, <3>3, <3>4 DEF PriorInv, Working
    <3>6. m \notin crossed' => Agrees(put)
      BY <1>4, <3>2, <3>5 DEF Agrees
    <3>7. row \in [Models -> Row]
      BY DEF TypeOK
    <3> QED  BY <1>4, <2>2, <3>2, <3>3, <3>4, <3>6, <3>7 DEF Present
  <2> QED  BY <2>1, <2>2
<1>6. crossed \subseteq crossed' /\ crossed' \subseteq Models /\ crossed' \subseteq crossed \union {m}
  BY <1>1 DEF TypeOK
<1>7. revoked \ {v} \subseteq revoked' /\ revoked' \subseteq Active'
  BY <1>1, <1>2 DEF TypeOK, Undone, Active, Claimed, Working
<1>8. TypeOK'
  <2>1. UNCHANGED <<requests, clears, crashes>>
    BY <1>1 DEF boundVars
  <2> QED  BY <1>1, <1>2, <1>5, <1>6, <1>7, <2>1, EndsKeeps DEF TypeOK
<1>9. \A x \in Models : RowInv(x)'
  BY <1>1, <1>5, <1>6 DEF RowInv
<1>10. VerifyingIsHeld'
  <2>1. ASSUME NEW x \in Models, row'[x].status = "verifying"
        PROVE  row[x].status = "verifying" /\ ~Holds(v, x)
    <3>1. row[x].status = "verifying"
      BY <1>5, <2>1
    <3>2. Holds(v, x) => x = m /\ SameRow(prior[v], row[m])
      BY <1>3, <3>1 DEF Holds, PriorInv, SameRow, Present, Working
    <3>3. Holds(v, x) => loaded[v].status = "verifying"
      BY <1>3 DEF Holds, Working
    <3> QED  BY <1>5, <2>1, <3>1, <3>2, <3>3
  <2>2. ASSUME NEW x \in Models, NEW w \in Verifications, Holds(w, x), w # v
        PROVE  Holds(w, x)'
    BY <1>2, <1>5, <2>2 DEF Holds
  <2> QED  BY <1>1, <2>1, <2>2 DEF VerifyingIsHeld
<1>11. ASSUME NEW w \in Verifications
       PROVE  PriorInv(w)'
  BY <1>1, <1>2, <1>6 DEF PriorInv, Working
<1>12. ASSUME NEW w \in Verifications
       PROVE  ClaimInv(w)'
  <2> SUFFICES ASSUME w # v, at[w] \in Claimed, w \notin revoked, w \notin revoked',
                      prior[w].id = clears
               PROVE  row'[target[w]].status = "verifying"
    BY <1>1, <1>2, <1>7 DEF ClaimInv, Claimed, Working
  <2>1. row[target[w]].status = "verifying" /\ target[w] \in Models
    BY DEF ClaimInv, TypeOK
  <2>2. CASE target[w] # m \/ ~SameRow(prior[v], row[m])
    BY <1>1, <1>5, <2>1, <2>2
  <2>3. CASE target[w] = m /\ SameRow(prior[v], row[m])
    <3>1. prior[v].id = clears
      BY <1>3, <2>3 DEF PriorInv, RowInv, SameRow, Working
    <3>2. v \in revoked
      BY <1>3, <2>3, <3>1 DEF OneClaim, Claimed
    <3> QED  BY <1>1, <2>1, <2>3, <3>2 DEF Undone
  <2> QED  BY <2>2, <2>3
<1>13. \A w, x \in Verifications : OneClaim(w, x)'
  BY <1>2, <1>7 DEF OneClaim, Claimed, Working
<1>14. StopReaches' /\ Bounded'
  BY <1>1, <1>2 DEF StopReaches, Stopped, Bounded, TypeOK, Active
<1> QED  BY <1>8, <1>9, <1>10, <1>11, <1>12, <1>13, <1>14

LEMMA WriteStep ==
  ASSUME CInv, NEW d \in Discoveries, WriteCatalog(d)
  PROVE  CInv'
<1> USE DEF CInv, verifyVars, controlVars, boundVars
<1>1. /\ Answered(d)
      /\ revoked' = revoked \union UNION {Undone(m, Verifications) : m \in Models}
      /\ UNCHANGED <<verifyVars, controlVars, boundVars>>
  BY DEF WriteCatalog, Answered
<1>2. PICK kind \in [Models -> Listing], reworded \in SUBSET Models :
        LET new == [m \in Models |-> Relisted(seen[d][m], kind[m])]
            touched == {m \in Models : kind[m] # "missing" \/ Present(seen[d][m])}
            put(m) == IF m \in reworded /\ kind[m] # "missing" /\ Present(seen[d][m])
                      THEN [Flush(row[m], seen[d][m], new[m]) EXCEPT !.meta = new[m].meta]
                      ELSE Flush(row[m], seen[d][m], new[m])
        IN /\ \A m \in touched : SameRow(seen[d][m], row[m])
           /\ row' = [m \in Models |-> IF Present(row[m]) THEN put(m) ELSE new[m]]
           /\ crossed' = crossed \union {m \in touched : seen[d][m] # row[m]}
  BY DEF WriteCatalog
<1>3. ASSUME NEW m \in Models
      PROVE  /\ row'[m] \in Row
             /\ Present(row'[m]) => row'[m].id = clears
             /\ Present(row[m]) => row'[m].id = row[m].id
             /\ row'[m].status = "verifying" => row[m].status = "verifying"
             /\ m \notin crossed' => Agrees(row'[m])
  <2> DEFINE s == seen[d][m]
             new == Relisted(s, kind[m])
             put == IF m \in reworded /\ kind[m] # "missing" /\ Present(s)
                    THEN [Flush(row[m], s, new) EXCEPT !.meta = new.meta]
                    ELSE Flush(row[m], s, new)
             touched == kind[m] # "missing" \/ Present(s)
  <2>1. s \in Row /\ kind[m] \in Listing /\ row[m] \in Row
    BY <1>2 DEF TypeOK
  <2>2. /\ row'[m] = IF Present(row[m]) THEN put ELSE new
        /\ touched => SameRow(s, row[m])
        /\ m \notin crossed' => m \notin crossed /\ (touched => s = row[m])
    BY <1>2
  <2>3. /\ new \in Row
        /\ new.status = "verifying" => s.status = "verifying"
        /\ Present(s) => Present(new) /\ new.id = s.id
        /\ ~Present(s) /\ kind[m] # "missing" => Present(new) /\ new.id = clears
        /\ ~Present(s) /\ kind[m] = "missing" => new = s
        /\ Agrees(s) => Agrees(new)
    BY <2>1, RelistedRow
  <2>4. /\ put \in Row
        /\ put.id = IF new.id # s.id THEN new.id ELSE row[m].id
        /\ put.status = IF new.status # s.status THEN new.status ELSE row[m].status
        /\ s = row[m] => put.meta = new.meta
        /\ ~touched => put.meta = row[m].meta
    <3> HIDE DEF s
    <3>1. ~touched => new = s /\ ~(m \in reworded /\ kind[m] # "missing" /\ Present(s))
      BY <2>3
    <3> DEFINE x == Flush(row[m], s, new)
               y == [x EXCEPT !.meta = new.meta]
    <3>2. /\ x \in Row /\ y \in Row
          /\ x.id = IF new.id # s.id THEN new.id ELSE row[m].id
          /\ x.status = IF new.status # s.status THEN new.status ELSE row[m].status
          /\ s = row[m] => x.meta = new.meta
          /\ new = s => x.meta = row[m].meta
          /\ y.id = x.id /\ y.status = x.status /\ y.meta = new.meta
      <4> HIDE DEF new
      <4> QED  BY <2>1, <2>3, CatalogRow
    <3>3. put = IF m \in reworded /\ kind[m] # "missing" /\ Present(s) THEN y ELSE x
      OBVIOUS
    <3> HIDE DEF put, new, x, y
    <3> QED  BY <3>1, <3>2, <3>3
  <2>5. /\ Present(row[m]) => row[m].id = clears
        /\ m \notin crossed => Agrees(row[m])
    BY DEF RowInv
  <2> HIDE DEF new, put, s
  <2>6. CASE Present(row[m])
    <3>1. new.id = s.id
      BY <2>2, <2>3, <2>6 DEF SameRow
    <3>2. put.status = "verifying" => row[m].status = "verifying"
      BY <2>3, <2>4
    <3>3. m \notin crossed' => Agrees(put)
      <4>1. CASE touched
        BY <2>2, <2>3, <2>4, <2>5, <4>1 DEF Agrees
      <4>2. CASE ~touched
        <5>1. put.status = row[m].status /\ put.meta = row[m].meta
          BY <2>3, <2>4, <4>2
        <5> QED  BY <2>2, <2>5, <5>1 DEF Agrees
      <4> QED  BY <4>1, <4>2
    <3> QED  BY <2>2, <2>4, <2>5, <2>6, <3>1, <3>2, <3>3
  <2>7. CASE ~Present(row[m])
    <3>1. ~Present(s)
      BY <2>2, <2>7 DEF SameRow
    <3>2. s.status = "absent"
      BY <3>1 DEF Present
    <3> QED  BY <2>2, <2>3, <2>7, <3>1, <3>2 DEF Present, Agrees
  <2> QED  BY <2>6, <2>7
<1>4. crossed \subseteq crossed' /\ crossed' \subseteq Models
  BY <1>2 DEF TypeOK
<1>5. row' \in [Models -> Row]
  <2>1. row' = [m \in Models |-> row'[m]]
    BY <1>2
  <2> QED  BY <1>3, <2>1
<1>6. revoked \subseteq revoked' /\ revoked' \subseteq Active
  BY <1>1 DEF TypeOK, Undone, Active, Claimed, Working
<1>7. TypeOK'
  <2>1. Active' = Active
    BY <1>1 DEF Active
  <2>2. asking' \subseteq Discoveries /\ seen' \in [Discoveries -> [Models -> Row]]
    <3>1. NoRow \in Row
      BY BoundsAssumption DEF NoRow, NoMeta, Row, Meta, Status, Code, Proof
    <3> QED  BY <1>1, <3>1 DEF TypeOK, Answered
  <2> QED  BY <1>1, <1>4, <1>5, <1>6, <2>1, <2>2 DEF TypeOK
<1>8. \A m \in Models : RowInv(m)'
  BY <1>1, <1>3 DEF RowInv
<1>9. VerifyingIsHeld'
  BY <1>1, <1>3 DEF VerifyingIsHeld, Holds, Present
<1>10. \A v \in Verifications : PriorInv(v)'
  BY <1>1, <1>4 DEF PriorInv
<1>11. ASSUME NEW v \in Verifications
       PROVE  ClaimInv(v)'
  <2> SUFFICES ASSUME at[v] \in Claimed, v \notin revoked, v \notin revoked',
                      prior[v].id = clears
               PROVE  row'[target[v]].status = "verifying"
    BY <1>1, <1>6 DEF ClaimInv
  <2>1. row[target[v]].status = "verifying" /\ target[v] \in Models
    BY DEF ClaimInv, TypeOK
  <2>2. row'[target[v]].status # "verifying" => v \in Undone(target[v], Verifications)
    BY <2>1 DEF Undone
  <2> QED  BY <1>1, <2>1, <2>2
<1>12. \A v, w \in Verifications : OneClaim(v, w)'
  BY <1>1, <1>6 DEF OneClaim
<1>13. StopReaches' /\ Bounded'
  BY <1>1 DEF StopReaches, Stopped, Bounded
<1> QED  BY <1>7, <1>8, <1>9, <1>10, <1>11, <1>12, <1>13

LEMMA UpsetStep ==
  ASSUME CInv, ClearCatalog \/ Crash
  PROVE  CInv'
<1> USE DEF CInv, verifyVars, controlVars
<1>1. NoRow \in Row /\ (CHOOSE m \in Models : TRUE) \in Models
      /\ NoRow.status = "absent"
  BY ModelsAssumption, BoundsAssumption DEF NoRow, NoMeta, Row, Meta, Status, Code, Proof
<1>2. clears \in Nat /\ crashes \in Nat
  BY BoundsAssumption DEF TypeOK
<1>3. CASE ClearCatalog
  <2> USE <1>3 DEF ClearCatalog
  <2>1. Active' = Active
    BY DEF Active
  <2>2. TypeOK' /\ Bounded'
    BY <1>1, <1>2, <2>1, BoundsAssumption DEF TypeOK, Bounded
  <2>3. \A m \in Models : RowInv(m)'
    BY <1>1 DEF RowInv, Present, Agrees
  <2>4. VerifyingIsHeld'
    BY <1>1 DEF VerifyingIsHeld
  <2>5. \A v \in Verifications : PriorInv(v)' /\ ClaimInv(v)'
    BY <1>2, BoundsAssumption DEF PriorInv, ClaimInv, Claimed, Working, TypeOK, Row
  <2>6. \A v, w \in Verifications : OneClaim(v, w)'
    BY DEF OneClaim
  <2>7. StopReaches'
    BY DEF StopReaches, Stopped
  <2> QED  BY <2>2, <2>3, <2>4, <2>5, <2>6, <2>7
<1>4. CASE Crash
  <2> USE <1>4 DEF Crash
  <2>1. Active' = {} /\ \A v \in Verifications : at'[v] = "idle"
    BY DEF Active
  <2>2. TypeOK' /\ Bounded'
    BY <1>1, <1>2, <2>1, BoundsAssumption DEF TypeOK, Bounded
  <2>3. \A m \in Models : RowInv(m)'
    BY DEF RowInv
  <2>4. VerifyingIsHeld'
    BY <1>2 DEF VerifyingIsHeld
  <2>5. \A v \in Verifications : PriorInv(v)' /\ ClaimInv(v)'
    BY <2>1 DEF PriorInv, ClaimInv, Claimed, Working
  <2>6. \A v, w \in Verifications : OneClaim(v, w)'
    BY <2>1 DEF OneClaim, Claimed, Working
  <2>7. StopReaches'
    BY DEF StopReaches
  <2> QED  BY <2>2, <2>3, <2>4, <2>5, <2>6, <2>7
<1> QED  BY <1>3, <1>4

LEMMA CatalogStep == CInv /\ [Next]_vars => CInv'
<1> SUFFICES ASSUME CInv, [Next]_vars
             PROVE  CInv'
  OBVIOUS
<1>1. ASSUME NEW d \in Discoveries, ReadCatalog(d) \/ DiscoveryFails(d) \/ WriteCatalog(d)
      PROVE  CInv'
  BY <1>1, QuietStep, WriteStep
<1>2. ASSUME NEW v \in Verifications, Verify(v)
      PROVE  CInv'
  <2>1. PICK m \in Models : m = target[v]
    BY DEF CInv, TypeOK
  <2> QED  BY <1>2, <2>1, ClaimStep, FailsStep, RefreshStep, QuietStep, FinishStep
           DEF Verify
<1>3. ASSUME NEW v \in Verifications, NEW m \in Models, Begin(v, m)
      PROVE  CInv'
  BY <1>3, BeginStep
<1>4. CASE StartQualification \/ StopQualification \/ UNCHANGED vars
  BY <1>4, QuietStep
<1>5. CASE ClearCatalog \/ Crash
  BY <1>5, UpsetStep
<1> QED  BY <1>1, <1>2, <1>3, <1>4, <1>5 DEF Next

\* The inductive invariant holds of every behaviour of the catalogue.
THEOREM CatalogInductive == Spec => []CInv
BY CatalogInit, CatalogStep, PTL DEF Spec

-----------------------------------------------------------------------------
(* The safety properties of ModelCatalog.                                  *)

\* Of the verifications that claim one model only one sends requests to it,
\* unless its claim was written over; and "verifying" is left on a row by a
\* crash only.
THEOREM ClaimsExclude == Spec => []ClaimIsExclusive
<1>1. CInv => ClaimIsExclusive
  BY DEF CInv, ClaimIsExclusive, OneClaim, VerifyingIsHeld, Holds, Generating,
         Claimed, Working
<1> QED  BY <1>1, CatalogInductive, PTL

\* The status of a row that no session has overwritten blindly is the one its
\* evidence supports.
THEOREM StatusIsProved == Spec => []StatusMatchesProof
<1>1. CInv => StatusMatchesProof
  BY DEF CInv, StatusMatchesProof, RowInv, Agrees
<1> QED  BY <1>1, CatalogInductive, PTL

\* A stop sets the token of every verification that is under way.
THEOREM StopsReach == Spec => []StopReaches
<1>1. CInv => StopReaches
  BY DEF CInv
<1> QED  BY <1>1, CatalogInductive, PTL

-----------------------------------------------------------------------------
(* Both ends.                                                              *)

Steady == INSTANCE ProvidersPageProofs

LEMMA PageIsBounded == Steady!Bounded
BY PageAssumption DEF Steady!Bounded

\* Two instances of one module say the same.
LEMMA SameInit == Page!ProvidersInit <=> Steady!ProvidersInit
BY DEF
      Page!ProvidersInit, Page!Nothing, Page!NewPage, Page!NoWorker, Page!NoFlow, Page!Absent,
      Page!Model, Page!Mounts, Steady!ProvidersInit, Steady!Nothing, Steady!NewPage,
      Steady!NoWorker, Steady!NoFlow, Steady!Absent, Steady!Model, Steady!Mounts

LEMMA SamePromise ==
  /\ Page!ProvidersTypeOK <=> Steady!ProvidersTypeOK
  /\ Page!StopIsHeard <=> Steady!StopIsHeard
  /\ Page!BusyMatchesWork <=> Steady!BusyMatchesWork
BY DEF
      Page!ProvidersTypeOK, Page!StopIsHeard, Page!BusyMatchesWork, Page!Known, Page!Absent,
      Page!Model, Page!Mounts, Page!Loops, Page!NoFlow, Steady!ProvidersTypeOK,
      Steady!StopIsHeard, Steady!BusyMatchesWork, Steady!Known, Steady!Absent, Steady!Model,
      Steady!Mounts, Steady!Loops, Steady!NoFlow

LEMMA SameNext == Page!ProvidersNext <=> Steady!ProvidersNext
BY DEF
      Page!pvRest, Page!Mounts, Page!Model, Page!Absent, Page!Known, Page!Nothing,
      Page!NoWorker, Page!NoFlow, Page!Flow, Page!Loops, Page!NewPage,
      Page!isProviderVerificationBlocked, Page!needsQualification, Page!Proven,
      Page!Outstanding, Page!Sets, Page!Proceed, Page!Release, Page!Listing, Page!Free,
      Page!Begins, Page!Acquire, Page!Locked, Page!Turns, Page!LoadReads, Page!LoadAnswered,
      Page!openCreate, Page!openEdit, Page!CloseDialog, Page!Delete, Page!Unmount, Page!Mount,
      Page!Submit, Page!Saved, Page!SaveFails, Page!testConnection, Page!Connected, Page!Fails,
      Page!ConnectionFails, Page!refreshProvider, Page!discover, Page!startQualification,
      Page!Started, Page!DiscoveryFails, Page!Concludes, Page!Head, Page!Listed, Page!Restarted,
      Page!VerificationBegins, Page!Answer, Page!AlreadyClaimed, Page!Interrupted,
      Page!Outcomes, Page!VerificationEnds, Page!VerificationLost, Page!verifySingle,
      Page!Relisted, Page!viewModels, Page!Viewed, Page!stopQualification, Page!StopArrives,
      Page!Press, Page!Replies, Page!ProvidersNext, Steady!pvRest, Steady!Mounts, Steady!Model,
      Steady!Absent, Steady!Known, Steady!Nothing, Steady!NoWorker, Steady!NoFlow, Steady!Flow,
      Steady!Loops, Steady!NewPage, Steady!isProviderVerificationBlocked,
      Steady!needsQualification, Steady!Proven, Steady!Outstanding, Steady!Sets, Steady!Proceed,
      Steady!Release, Steady!Listing, Steady!Free, Steady!Begins, Steady!Acquire, Steady!Locked,
      Steady!Turns, Steady!LoadReads, Steady!LoadAnswered, Steady!openCreate, Steady!openEdit,
      Steady!CloseDialog, Steady!Delete, Steady!Unmount, Steady!Mount, Steady!Submit,
      Steady!Saved, Steady!SaveFails, Steady!testConnection, Steady!Connected, Steady!Fails,
      Steady!ConnectionFails, Steady!refreshProvider, Steady!discover,
      Steady!startQualification, Steady!Started, Steady!DiscoveryFails, Steady!Concludes,
      Steady!Head, Steady!Listed, Steady!Restarted, Steady!VerificationBegins, Steady!Answer,
      Steady!AlreadyClaimed, Steady!Interrupted, Steady!Outcomes, Steady!VerificationEnds,
      Steady!VerificationLost, Steady!verifySingle, Steady!Relisted, Steady!viewModels,
      Steady!Viewed, Steady!stopQualification, Steady!StopArrives, Steady!Press, Steady!Replies,
      Steady!ProvidersNext

\* The server's end of Qualification is ModelCatalog, so that what is proved
\* of the one holds of the other.
THEOREM ServerIsCatalog == QualificationSpec => Spec
<1>1. QualificationInit => Init
  BY DEF QualificationInit
<1>2. [QualificationNext]_ends => [Next]_vars
  BY DEF QualificationNext, ServerMoves, PageMoves, ends, server, vars
<1> QED  BY <1>1, <1>2, PTL DEF QualificationSpec, Spec

\* The other end is the Providers page.
THEOREM PageIsProviders == QualificationSpec => Page!ProvidersSpec
<1>1. QualificationInit => Page!ProvidersInit
  BY DEF QualificationInit
<1>2. [QualificationNext]_ends => [Page!ProvidersNext]_(Page!pvVars)
  BY DEF QualificationNext, ServerMoves, PageMoves, ends, page, Page!pvVars, Page!pvRest
<1> QED  BY <1>1, <1>2, PTL DEF QualificationSpec, Page!ProvidersSpec

\* The invariant of the page: which coroutine holds the lock and where it can
\* be, who waits for a server, and that a loop whose Stop is on record has at
\* most the verification under way (providers.tsx).
THEOREM PageInductive == QualificationSpec => []Steady!ProvidersInv
<1>1. QualificationInit => Steady!ProvidersInv
  BY PageIsBounded, SameInit, Steady!ProvidersStart DEF QualificationInit
<1>2. Steady!ProvidersInv /\ [QualificationNext]_ends => Steady!ProvidersInv'
  <2>1. CASE PageMoves
    BY <2>1, PageIsBounded, SameNext, Steady!ProvidersStep DEF PageMoves
  <2>2. CASE ServerMoves \/ UNCHANGED ends
    BY <2>2, Steady!ProvidersStutter DEF ServerMoves, ends, page, Steady!pvVars, Steady!pvRest
  <2> QED  BY <2>1, <2>2 DEF QualificationNext
<1> QED  BY <1>1, <1>2, PTL DEF QualificationSpec

\* After Stop the loop begins at most the verification whose requests are on
\* their way, over any number of visits, and the page is busy, and its lock
\* held, exactly by what runs (providers.tsx, stopQualification, finally).
THEOREM StopsAreHeard == QualificationSpec => []StopIsHeard
<1>1. Steady!ProvidersInv => StopIsHeard
  BY PageIsBounded, SamePromise, Steady!ProvidersPromise DEF StopIsHeard
<1> QED  BY <1>1, PageInductive, PTL
=============================================================================
