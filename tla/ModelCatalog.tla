---------------------------- MODULE ModelCatalog ----------------------------
(***************************************************************************)
(* The model catalogue of one provider connection and the qualification of *)
(* its models (ModelDiscoveryService, qualification_control).  A discovery *)
(* loads the rows, asks the vendor, and writes the rows; a verification    *)
(* loads a row, claims it, sends requests to the model for minutes, and    *)
(* writes the row.  Sessions neither expire nor lock what they have        *)
(* loaded, and a flush writes the columns whose value differs from the     *)
(* loaded one.                                                             *)
(***************************************************************************)
EXTENDS Naturals, FiniteSets

CONSTANTS
  Models,          \* model ids the vendor may list
  Discoveries,     \* concurrent discover-catalog requests
  Verifications,   \* concurrent verify-model requests
  MaxRequests,     \* bound: discoveries and verifications that are begun
  MaxStarts,       \* bound: fresh stop tokens
  MaxUpsets        \* bound: changes of the connection's configuration and
                   \* stops of the process, together

ASSUME ModelsAssumption == Models # {}
ASSUME BoundsAssumption ==
  MaxRequests \in Nat /\ MaxStarts \in Nat /\ MaxUpsets \in Nat

VARIABLES
  row,        \* provider_models, one row per model
  asking,     \* discoveries that wait for the vendor
  seen,       \* the rows a discovery has loaded
  at,         \* progress of a verification
  target,     \* its model
  prior,      \* the row as it was first read
  loaded,     \* the row as it was loaded after the claim
  token,      \* the stop token it runs under
  current,    \* the token of the connection's control entry
  raised,     \* tokens that have been set
  told,       \* history: verifications that were under way at a stop
  revoked,    \* history: verifications whose claim has been written over
  crossed,    \* history: rows written by a session that had loaded older values
  requests,   \* discoveries and verifications begun so far
  clears,     \* changes of the configuration so far; numbers the rows
  crashes     \* stops of the process so far

rowVars     == <<row, crossed, revoked>>
verifyVars  == <<at, target, prior, loaded, token>>
controlVars == <<current, raised, told>>
boundVars   == <<requests, clears, crashes>>
vars == <<rowVars, asking, seen, verifyVars, controlVars, boundVars>>

Status == {"absent", "unknown", "verifying", "qualified", "limited",
           "unavailable", "transient_error"}
Code   == {"not_discovered", "not_capable", "other"}   \* "other": also none
Proof  == {"none", "interrupted", "failed", "passed"}
Meta   == [proof : Proof, pending : BOOLEAN]
Row    == [id : 0..MaxUpsets, status : Status, available : BOOLEAN,
           candidate : BOOLEAN, code : Code, meta : Meta]

NoMeta == [proof |-> "none", pending |-> FALSE]
NoRow  == [id |-> 0, status |-> "absent", available |-> FALSE,
           candidate |-> FALSE, code |-> "other", meta |-> NoMeta]
NewRow(n) == [id |-> n, status |-> "unknown", available |-> TRUE,
              candidate |-> TRUE, code |-> "other", meta |-> NoMeta]

Present(x)  == x.status # "absent"
SameRow(x, y) == Present(x) = Present(y) /\ x.id = y.id

Working == {"start", "generate", "decide"}
Claimed == {"refresh"} \union Working
Active  == {v \in Verifications : at[v] # "idle"}

TypeOK ==
  /\ row \in [Models -> Row]
  /\ asking \subseteq Discoveries
  /\ seen \in [Discoveries -> [Models -> Row]]
  /\ at \in [Verifications -> {"idle", "claim"} \union Claimed]
  /\ target \in [Verifications -> Models]
  /\ prior \in [Verifications -> Row] /\ loaded \in [Verifications -> Row]
  /\ token \in [Verifications -> 0..MaxStarts]
  /\ current \in 0..MaxStarts /\ raised \subseteq 0..MaxStarts
  /\ told \subseteq Active /\ revoked \subseteq Active
  /\ crossed \subseteq Models
  /\ requests \in 0..MaxRequests
  /\ clears \in 0..MaxUpsets /\ crashes \in 0..MaxUpsets

Init ==
  /\ row = [m \in Models |-> NoRow]
  /\ asking = {}
  /\ seen = [d \in Discoveries |-> [m \in Models |-> NoRow]]
  /\ at = [v \in Verifications |-> "idle"]
  /\ target = [v \in Verifications |-> CHOOSE m \in Models : TRUE]
  /\ prior = [v \in Verifications |-> NoRow]
  /\ loaded = [v \in Verifications |-> NoRow]
  /\ token = [v \in Verifications |-> 0]
  /\ current = 0
  /\ raised = {}
  /\ told = {} /\ revoked = {} /\ crossed = {}
  /\ requests = 0 /\ clears = 0 /\ crashes = 0

\* The UPDATE of a flush: only columns that differ from their loaded value.
Flush(now, old, new) ==
  [column \in DOMAIN now |-> IF new[column] # old[column] THEN new[column] ELSE now[column]]

\* The claims on a row that a write of a session without a claim undoes.
Undone(m, others) ==
  {w \in others : /\ at[w] \in Claimed /\ target[w] = m
                  /\ row[m].status = "verifying" /\ row'[m].status # "verifying"}

\* One request more, within the bound.
Admitted == requests < MaxRequests /\ requests' = requests + 1

-----------------------------------------------------------------------------
(* discover_catalog.                                                       *)

Listing == {"missing", "text", "other"}

\* The vendor no longer lists the model, lists it as a text model, or lists
\* it as one that cannot generate text.
Relisted(x, kind) ==
  LET base == IF Present(x) THEN x ELSE NewRow(clears)
      again == /\ base.status = "unavailable"
               /\ \/ base.code = "not_discovered"
                  \/ base.code = "not_capable" /\ kind = "text"
      fresh == IF again THEN [base EXCEPT !.status = "unknown", !.code = "other"] ELSE base
  IN CASE kind = "missing" ->
            IF Present(x) THEN [x EXCEPT !.available = FALSE, !.status = "unavailable",
                                         !.code = "not_discovered"]
            ELSE x
       [] kind = "text"  -> [fresh EXCEPT !.available = TRUE, !.candidate = TRUE]
       [] kind = "other" -> [fresh EXCEPT !.available = TRUE, !.candidate = FALSE,
                                          !.status = "unavailable", !.code = "not_capable"]

\* The rows are loaded before the vendor is asked.
ReadCatalog(d) ==
  /\ d \notin asking
  /\ Admitted
  /\ asking' = asking \union {d}
  /\ seen' = [seen EXCEPT ![d] = row]
  /\ UNCHANGED <<rowVars, verifyVars, controlVars, clears, crashes>>

Answered(d) ==
  /\ d \in asking
  /\ asking' = asking \ {d}
  /\ seen' = [seen EXCEPT ![d] = [m \in Models |-> NoRow]]
  /\ UNCHANGED <<verifyVars, controlVars, boundVars>>

\* The vendor fails, or a row was inserted or deleted meanwhile and the
\* flush fails as a whole.
DiscoveryFails(d) == Answered(d) /\ UNCHANGED rowVars

WriteCatalog(d) ==
  /\ Answered(d)
  /\ \E kind \in [Models -> Listing], reworded \in SUBSET Models :
       LET new == [m \in Models |-> Relisted(seen[d][m], kind[m])]
           \* A vendor's new metadata rewrites the column, evidence included.
           touched == {m \in Models : kind[m] # "missing" \/ Present(seen[d][m])}
           put(m) == IF m \in reworded /\ kind[m] # "missing" /\ Present(seen[d][m])
                     THEN [Flush(row[m], seen[d][m], new[m]) EXCEPT !.meta = new[m].meta]
                     ELSE Flush(row[m], seen[d][m], new[m])
       IN /\ \A m \in touched : SameRow(seen[d][m], row[m])
          /\ row' = [m \in Models |-> IF Present(row[m]) THEN put(m) ELSE new[m]]
          /\ crossed' = crossed \union {m \in touched : seen[d][m] # row[m]}
  /\ revoked' = revoked \union UNION {Undone(m, Verifications) : m \in Models}

\* ProviderService.update with another configuration empties the catalogue.
ClearCatalog ==
  /\ clears + crashes < MaxUpsets
  /\ clears' = clears + 1
  /\ row' = [m \in Models |-> NoRow]
  /\ crossed' = {}
  /\ UNCHANGED <<revoked, asking, seen, verifyVars, controlVars, requests, crashes>>

-----------------------------------------------------------------------------
(* Verifications.                                                          *)

Goes(v, from, to) == at[v] = from /\ at' = [at EXCEPT ![v] = to]

\* The request leaves the handler; what it held is forgotten.
Ends(v) ==
  /\ at' = [at EXCEPT ![v] = "idle"]
  /\ target' = [target EXCEPT ![v] = CHOOSE m \in Models : TRUE]
  /\ prior' = [prior EXCEPT ![v] = NoRow] /\ loaded' = [loaded EXCEPT ![v] = NoRow]
  /\ token' = [token EXCEPT ![v] = 0]
  /\ told' = told \ {v}

\* Evidence of an interrupted attempt is carried on from.
Resumes(v) ==
  /\ prior[v].status = "transient_error" \/ prior[v].meta.pending
  /\ prior[v].meta.proof # "none"

Stopped(v) == token[v] \in raised

\* How a verification may end: "broken" and "refused" are failures before or
\* of the first request (for now or for good), the others what the decision
\* checks have come to.
Outcomes(v) ==
  CASE at[v] = "start"    -> {"broken", "refused"}
    [] at[v] = "generate" -> {"broken", "refused"} \union
                             (IF Stopped(v) THEN {"interrupted"} ELSE {})
    [] at[v] = "decide"   -> IF Resumes(v) /\ prior[v].meta.proof = "passed" THEN {"passed"}
                             ELSE {"interrupted", "failed", "passed"}
    [] OTHER -> {}

\* The values a verification leaves in the row it has loaded.
Leaves(v, status, code, proof, pending) ==
  [loaded[v] EXCEPT !.status = status, !.code = code,
                    !.meta = [proof |-> proof, pending |-> pending]]

-----------------------------------------------------------------------------
(* Variants with a mistake in them.                                        *)

\* A start replaces a token that verifications still run under.
StartAnyway ==
  /\ current < MaxStarts
  /\ current' = current + 1
  /\ UNCHANGED <<rowVars, asking, seen, verifyVars, raised, told, boundVars>>

\* The claim does not look at the status it replaces.
ClaimUnconditionally(v) ==
  /\ SameRow(prior[v], row[target[v]])
  /\ Goes(v, "claim", "refresh")
  /\ row' = [row EXCEPT ![target[v]].status = "verifying", ![target[v]].code = "other"]
  /\ UNCHANGED <<crossed, revoked, asking, seen, target, prior, loaded, token,
                 controlVars, boundVars>>

\* An interrupted recheck restores the status but not the evidence.
SettledPopped(v, outcome) ==
  CASE outcome = "passed"  -> Leaves(v, "qualified", "other", "passed", FALSE)
    [] outcome = "failed"  -> Leaves(v, "limited", "other", "failed", FALSE)
    [] outcome = "refused" -> Leaves(v, "unavailable", "other", "none", FALSE)
    [] outcome \in {"broken", "interrupted"} ->
         IF prior[v].status \in {"qualified", "limited"}
         THEN Leaves(v, prior[v].status, prior[v].code, "none", TRUE)
         ELSE Leaves(v, "transient_error", "other", "none", TRUE)

-----------------------------------------------------------------------------
(* qualification_control.                                                  *)

\* An idle entry gets a fresh token; a token that was never set is as good.
StartQualification ==
  /\ Active = {}
  /\ current \in raised /\ current < MaxStarts
  /\ current' = current + 1
  /\ UNCHANGED <<rowVars, asking, seen, verifyVars, raised, told, boundVars>>

StopQualification ==
  /\ raised' = raised \union {current}
  /\ told' = told \union Active
  /\ UNCHANGED <<rowVars, asking, seen, verifyVars, current, boundVars>>

-----------------------------------------------------------------------------
(* verify_model.                                                           *)

\* A model that is not a text model, not due or waiting for its retry time is
\* answered from the row, without a step here.
Begin(v, m) ==
  /\ Present(row[m]) /\ row[m].available /\ row[m].candidate
  /\ Admitted
  /\ Goes(v, "idle", "claim")
  /\ target' = [target EXCEPT ![v] = m]
  /\ prior' = [prior EXCEPT ![v] = row[m]]
  /\ token' = [token EXCEPT ![v] = current]
  /\ UNCHANGED <<rowVars, asking, seen, loaded, controlVars, clears, crashes>>

\* UPDATE ... WHERE id = :id AND qualification_status <> 'verifying'.
Claim(v) ==
  LET m == target[v] IN
  /\ SameRow(prior[v], row[m])
  /\ row[m].status # "verifying"
  /\ Goes(v, "claim", "refresh")
  /\ row' = [row EXCEPT ![m].status = "verifying", ![m].code = "other"]
  /\ UNCHANGED <<crossed, revoked, asking, seen, target, prior, loaded, token,
                 controlVars, boundVars>>

\* Somebody else verifies the model, or the row is gone.
ClaimFails(v) ==
  /\ at[v] = "claim"
  /\ ~SameRow(prior[v], row[target[v]]) \/ row[target[v]].status = "verifying"
  /\ Ends(v)
  /\ revoked' = revoked \ {v}
  /\ UNCHANGED <<row, crossed, asking, seen, current, raised, boundVars>>

Refresh(v) ==
  /\ SameRow(prior[v], row[target[v]])
  /\ Goes(v, "refresh", "start")
  /\ loaded' = [loaded EXCEPT ![v] = row[target[v]]]
  /\ UNCHANGED <<rowVars, asking, seen, target, prior, token, controlVars, boundVars>>

RefreshFails(v) ==
  /\ at[v] = "refresh"
  /\ ~SameRow(prior[v], row[target[v]])
  /\ Ends(v)
  /\ revoked' = revoked \ {v}
  /\ UNCHANGED <<row, crossed, asking, seen, current, raised, boundVars>>

\* The next request is sent, unless the token is set: first the one for plain
\* generation, then those of the six decision checks.
NextRequest(v) ==
  /\ ~Stopped(v)
  /\ \/ Goes(v, "start", "generate") /\ ~Resumes(v)
     \/ Goes(v, "start", "decide") /\ Resumes(v)
     \/ Goes(v, "generate", "decide")
  /\ UNCHANGED <<rowVars, asking, seen, target, prior, loaded, token, controlVars, boundVars>>

Settled(v, outcome) ==
  LET old == prior[v] IN
  CASE outcome = "passed"  -> Leaves(v, "qualified", "other", "passed", FALSE)
    [] outcome = "failed"  -> Leaves(v, "limited", "other", "failed", FALSE)
    [] outcome = "refused" -> Leaves(v, "unavailable", "other", "none", FALSE)
    [] outcome \in {"broken", "interrupted"} ->
         IF old.status \in {"qualified", "limited"}
         THEN Leaves(v, old.status, old.code, old.meta.proof, TRUE)
         ELSE Leaves(v, "transient_error", "other",
                     IF outcome = "broken" THEN "none" ELSE "interrupted", TRUE)

\* The final commit; it fails as a whole when the row is gone.
Finish(v, outcome) ==
  LET m == target[v] IN
  /\ Ends(v)
  /\ IF SameRow(prior[v], row[m])
     THEN /\ row' = [row EXCEPT ![m] = Flush(@, loaded[v], Settled(v, outcome))]
          /\ crossed' = IF row[m] # loaded[v] THEN crossed \union {m} ELSE crossed
     ELSE UNCHANGED <<row, crossed>>
  /\ revoked' = (revoked \ {v}) \union
                  (IF v \in revoked THEN Undone(m, Verifications \ {v}) ELSE {})
  /\ UNCHANGED <<asking, seen, current, raised, boundVars>>

\* NextRequest and Finish are the two halves of the work between claim and end.
Verify(v) ==
  \/ Claim(v) \/ ClaimFails(v) \/ Refresh(v) \/ RefreshFails(v) \/ NextRequest(v)
  \/ \E outcome \in Outcomes(v) : Finish(v, outcome)

-----------------------------------------------------------------------------
\* Requests and tokens are gone; rows stay as the last commit left them.
Crash ==
  /\ clears + crashes < MaxUpsets
  /\ crashes' = crashes + 1
  /\ asking' = {}
  /\ seen' = [d \in Discoveries |-> [m \in Models |-> NoRow]]
  /\ at' = [v \in Verifications |-> "idle"]
  /\ target' = [v \in Verifications |-> CHOOSE m \in Models : TRUE]
  /\ prior' = [v \in Verifications |-> NoRow]
  /\ loaded' = [v \in Verifications |-> NoRow]
  /\ token' = [v \in Verifications |-> 0]
  /\ current' = 0 /\ raised' = {} /\ told' = {} /\ revoked' = {}
  /\ UNCHANGED <<row, crossed, requests, clears>>

Next ==
  \/ \E d \in Discoveries : ReadCatalog(d) \/ DiscoveryFails(d) \/ WriteCatalog(d)
  \/ \E v \in Verifications : Verify(v) \/ \E m \in Models : Begin(v, m)
  \/ StartQualification \/ StopQualification
  \/ ClearCatalog \/ Crash

Spec == Init /\ [][Next]_vars

-----------------------------------------------------------------------------
(* Properties.                                                             *)

Generating(v) == at[v] \in {"generate", "decide"}

\* Two verifications never send requests to one model at once, as long as no
\* discovery has written over the claim of one of them, or the outcome of a
\* verification that lost its claim so over another's; and a row says
\* "verifying" only while a verification that will replace it is under way: no
\* outcome, refusal, discovery or cleared catalogue leaves it behind.  A crash
\* does, and nothing in the code takes the row up again.
\* (The state keeps its shape: checked with it.)
ClaimIsExclusive ==
  /\ TypeOK
  /\ \A v, w \in Verifications :
       (v # w /\ Generating(v) /\ Generating(w) /\ target[v] = target[w]
          /\ prior[v].id = prior[w].id)
         => v \in revoked \/ w \in revoked
  /\ crashes = 0 =>
       \A m \in Models : row[m].status = "verifying" =>
         \E v \in Verifications : at[v] \in Claimed /\ target[v] = m /\ prior[v].id = row[m].id

\* The status of a row agrees with the evidence beside it, also after
\* rechecks that were interrupted and resumed, unless a session has written
\* over values it had not seen.
StatusMatchesProof ==
  \A m \in Models \ crossed :
    /\ row[m].status = "qualified" => row[m].meta.proof = "passed"
    /\ row[m].status = "limited" => row[m].meta.proof = "failed"
    /\ row[m].status = "transient_error" => row[m].meta.pending

\* A stop reaches every verification that is under way.
StopReaches == \A v \in told : Stopped(v)
=============================================================================
