----------------------------- MODULE Deliveries -----------------------------
(***************************************************************************)
(* The result destinations of one Tree and the deliveries of its completed *)
(* Runs.  Workers deliver while people edit the destinations.  A handler   *)
(* reads and checks in one step and commits in another, as the requests do *)
(* that run at once in the server's thread pool.                           *)
(***************************************************************************)
EXTENDS Naturals, FiniteSets

CONSTANTS
  Runs,      \* completed Runs of the Tree, each with its own worker
  Editors,   \* requests of the destination endpoints
  Slots      \* bound: destination rows that can ever be created

ASSUME SlotsAssumption == IsFiniteSet(Slots)

BuiltIn == {"store_in_studio", "api_response"}
Types   == BuiltIn \union {"webhook"}
Actors  == Runs \union Editors

VARIABLES
  type,      \* a destination's type; "unused" before, "deleted" after
  enabled,   \* destinations with the enabled flag
  step,      \* progress of each actor
  wants,     \* types an actor has found missing and is about to add
  edit,      \* the write an update or a delete has decided on
  listed,    \* enabled destinations a worker's loop goes through
  now,       \* the destination it is serving
  row,       \* result_deliveries.status of a Run and a destination
  calls      \* calls of an adapter for a Run and a destination

tableVars == <<type, enabled>>
editVars  == <<wants, edit>>
workVars  == <<listed, now, row, calls>>
vars == <<tableVars, step, editVars, workVars>>

Live  == {d \in Slots : type[d] \in Types}
Steps == {"idle", "insert", "write", "list", "next", "send", "close",
          "done", "broken", "lost"}
\* Rows a write may be about: where, the type read and the type to be written.
Edits == [dest : Slots, from : Types, to : Types \union {"deleted"}]

TypeOK ==
  /\ type \in [Slots -> Types \union {"unused", "deleted"}]
  /\ enabled \subseteq Live
  /\ step \in [Actors -> Steps]
  /\ wants \in [Actors -> SUBSET Types]
  /\ edit \in [Editors -> SUBSET Edits]
  /\ listed \in [Runs -> SUBSET Slots]
  /\ now \in [Runs -> SUBSET Slots]
  /\ row \in [Runs -> [Slots -> {"none", "pending", "success", "failed"}]]
  /\ calls \in [Runs -> [Slots -> Nat]]

Init ==
  /\ type = [d \in Slots |-> "unused"]
  /\ enabled = {}
  /\ step = [a \in Actors |-> "idle"]
  /\ wants = [a \in Actors |-> {}]
  /\ edit = [e \in Editors |-> {}]
  /\ listed = [r \in Runs |-> {}]
  /\ now = [r \in Runs |-> {}]
  /\ row = [r \in Runs |-> [d \in Slots |-> "none"]]
  /\ calls = [r \in Runs |-> [d \in Slots |-> 0]]

Goes(a, from, to) == step[a] = from /\ step' = [step EXCEPT ![a] = to]

\* What a worker's loop has still to serve.
Todo(r) == {d \in listed[r] : row[r][d] = "none"}

-----------------------------------------------------------------------------
(* ensure_defaults: a read, and the insertion of what it found missing.    *)

ReadDefaults(a) ==
  /\ Goes(a, "idle", "insert")
  /\ wants' = [wants EXCEPT ![a] = {t \in BuiltIn : \A d \in Live : type[d] # t}]
  /\ UNCHANGED <<tableVars, edit, workVars>>

\* Rows for a set of types, each in a slot nothing has used.
Inserts(ts) ==
  \E new \in SUBSET {d \in Slots : type[d] = "unused"} :
    /\ Cardinality(new) = Cardinality(ts)
    /\ \E f \in [new -> ts] :
         /\ \A t \in ts : \E d \in new : f[d] = t
         /\ type' = [d \in Slots |-> IF d \in new THEN f[d] ELSE type[d]]
    /\ \E on \in {new} \union (IF ts \subseteq BuiltIn THEN {} ELSE {{}}) :
         enabled' = enabled \union on

Insert(a) ==
  /\ Goes(a, "insert", IF a \in Runs THEN "list" ELSE "idle")
  /\ Inserts(wants[a])
  /\ wants' = [wants EXCEPT ![a] = {}]
  /\ UNCHANGED <<edit, workVars>>

-----------------------------------------------------------------------------
(* Variants of the delivery loop with a mistake in them.                   *)

\* A destination deleted meanwhile is waited for.
OpenIfThere(r) ==
  /\ \E d \in Todo(r) \intersect Live :
       /\ Goes(r, "next", "send")
       /\ row' = [row EXCEPT ![r][d] = "pending"]
       /\ now' = [now EXCEPT ![r] = {d}]
  /\ UNCHANGED <<tableVars, editVars, listed, calls>>

\* The first failure leaves the loop.
CloseAndStop(r) ==
  /\ \E outcome \in {"success", "failed"}, d \in now[r] :
       /\ Goes(r, "close", IF outcome = "failed" THEN "done" ELSE "next")
       /\ row' = [row EXCEPT ![r][d] = outcome]
  /\ now' = [now EXCEPT ![r] = {}]
  /\ UNCHANGED <<tableVars, editVars, listed, calls>>

\* A failed call is made again.
CloseOrRetry(r) ==
  /\ \E d \in now[r] :
       \/ /\ Goes(r, "close", "next")
          /\ row' = [row EXCEPT ![r][d] = "success"]
          /\ now' = [now EXCEPT ![r] = {}]
       \/ /\ Goes(r, "close", "send")
          /\ UNCHANGED <<row, now>>
  /\ UNCHANGED <<tableVars, editVars, listed, calls>>

\* A failure is not written to the row.
CloseSuccessOnly(r) ==
  /\ Goes(r, "close", "next")
  /\ \E d \in now[r] :
       \/ row' = [row EXCEPT ![r][d] = "success"]
       \/ UNCHANGED row
  /\ now' = [now EXCEPT ![r] = {}]
  /\ UNCHANGED <<tableVars, editVars, listed, calls>>

-----------------------------------------------------------------------------
(* ResultDeliveryService.deliver.                                          *)

ListEnabled(r) ==
  /\ Goes(r, "list", "next")
  /\ listed' = [listed EXCEPT ![r] = enabled]
  /\ UNCHANGED <<tableVars, editVars, now, row, calls>>

\* The pending row is committed before the call.  Its foreign key fails if
\* the destination is gone, and nothing catches that.
OpenDelivery(r) ==
  /\ \E d \in Todo(r) :
       IF d \in Live
       THEN /\ Goes(r, "next", "send")
            /\ row' = [row EXCEPT ![r][d] = "pending"]
            /\ now' = [now EXCEPT ![r] = {d}]
       ELSE /\ Goes(r, "next", "broken")
            /\ UNCHANGED <<row, now>>
  /\ UNCHANGED <<tableVars, editVars, listed, calls>>

\* The adapter is called, unless the credential cannot be revealed.
Send(r) ==
  /\ Goes(r, "send", "close")
  /\ \/ \E d \in now[r] : calls' = [calls EXCEPT ![r][d] = @ + 1]
     \/ UNCHANGED calls
  /\ UNCHANGED <<tableVars, editVars, listed, now, row>>

CloseDelivery(r) ==
  /\ Goes(r, "close", "next")
  /\ \E outcome \in {"success", "failed"}, d \in now[r] :
       row' = [row EXCEPT ![r][d] = outcome]
  /\ now' = [now EXCEPT ![r] = {}]
  /\ UNCHANGED <<tableVars, editVars, listed, calls>>

EndDeliveries(r) ==
  /\ Todo(r) = {}
  /\ Goes(r, "next", "done")
  /\ UNCHANGED <<tableVars, editVars, workVars>>

-----------------------------------------------------------------------------
(* The destination endpoints.                                              *)

\* create counts the rows of a built-in type before it inserts one.
CreateRead(e, t) ==
  /\ Goes(e, "idle", "insert")
  /\ t \in BuiltIn => \A d \in Live : type[d] # t
  /\ wants' = [wants EXCEPT ![e] = {t}]
  /\ UNCHANGED <<tableVars, edit, workVars>>

Decides(e, d, t) ==
  /\ Goes(e, "idle", "write")
  /\ edit' = [edit EXCEPT ![e] = {[dest |-> d, from |-> type[d], to |-> t]}]
  /\ UNCHANGED <<tableVars, wants, workVars>>

\* The type of a built-in destination is fixed; that of another is not.
UpdateRead(e, d, t) ==
  /\ d \in Live
  /\ type[d] \in BuiltIn => t = type[d]
  /\ Decides(e, d, t)

DeleteRead(e, d) == type[d] \in Types \ BuiltIn /\ Decides(e, d, "deleted")

\* The write names the row only; a column is written if its value changed.
Write(e) ==
  /\ Goes(e, "write", "idle")
  /\ \E w \in edit[e] :
       \/ /\ w.dest \in Live
          /\ type' = IF w.to = w.from THEN type ELSE [type EXCEPT ![w.dest] = w.to]
          /\ enabled' \in {enabled \ {w.dest}} \union
                          (IF w.to = "deleted" THEN {} ELSE {enabled \union {w.dest}})
       \/ w.dest \notin Live /\ UNCHANGED tableVars
  /\ edit' = [edit EXCEPT ![e] = {}]
  /\ UNCHANGED <<wants, workVars>>

\* The process stops: what was in flight is never resumed.
Crash ==
  /\ step' = [a \in Actors |-> IF step[a] \in {"idle", "done", "broken"}
                               THEN step[a] ELSE "lost"]
  /\ UNCHANGED <<tableVars, editVars, workVars>>

-----------------------------------------------------------------------------
Deliver(r) ==
  \/ ReadDefaults(r) \/ Insert(r) \/ ListEnabled(r)
  \/ OpenDelivery(r) \/ Send(r) \/ CloseDelivery(r) \/ EndDeliveries(r)

Edit(e) ==
  \/ ReadDefaults(e) \/ Insert(e) \/ Write(e)
  \/ \E t \in Types : CreateRead(e, t)
  \/ \E d \in Slots, t \in Types : UpdateRead(e, d, t)
  \/ \E d \in Slots : DeleteRead(e, d)

Next == (\E r \in Runs : Deliver(r)) \/ (\E e \in Editors : Edit(e)) \/ Crash

Spec == Init /\ [][Next]_vars

\* Workers keep running; adapters answer (their requests have a timeout).
FairSpec == Spec /\ \A r \in Runs : WF_vars(Deliver(r))

-----------------------------------------------------------------------------
(* Properties.                                                             *)

\* Every call of an adapter has a durable row that was committed before it,
\* and no destination is called twice for a Run, whatever is edited or
\* crashes meanwhile.  A worker that has finished leaves no delivery pending:
\* only a crash does, and then only the one it was serving.  (The state keeps
\* its shape: checked with it.)
CallsAreOnRecord ==
  TypeOK /\ \A r \in Runs, d \in Slots :
    /\ calls[r][d] <= 1
    /\ calls[r][d] = 1 => row[r][d] # "none"
    /\ row[r][d] = "pending" => now[r] = {d} /\ step[r] \in {"send", "close", "lost"}

\* A failed delivery does not keep the Run's other destinations from theirs:
\* a loop that ends has served, once, all that it had listed.
FailuresDoNotSpread ==
  \A r \in Runs : step[r] = "done" =>
    \A d \in listed[r] : row[r][d] \in {"success", "failed"}

\* A worker that has listed the destinations comes to an end.
DeliveriesEnd ==
  \A r \in Runs : step[r] = "next" ~> step[r] \in {"done", "broken", "lost"}
=============================================================================
