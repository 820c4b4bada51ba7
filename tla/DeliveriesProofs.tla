-------------------------- MODULE DeliveriesProofs --------------------------
(***************************************************************************)
(* Proofs about Deliveries for every set of Runs, editors and destination  *)
(* rows.  They rest on no assumption about the constants.                  *)
(***************************************************************************)
EXTENDS Deliveries, TLAPS

\* A worker serves one destination at a time, from the commit of its pending
\* row to that of its outcome; a crash may leave it so.
ServingAt(r) ==
  /\ step[r] \in {"send", "close"} =>
       \E d \in Slots : now[r] = {d} /\ row[r][d] = "pending"
  /\ step[r] \notin {"send", "close", "lost"} => now[r] = {}

\* A row is pending only for the destination that is being served.
PendingAt(r) ==
  \A d \in Slots :
    row[r][d] = "pending" => now[r] = {d} /\ step[r] \in {"send", "close", "lost"}

\* The row comes before the call, and the call is made once.
CallAt(r) ==
  \A d \in Slots :
    /\ calls[r][d] <= 1
    /\ row[r][d] = "none" => calls[r][d] = 0
    /\ step[r] = "send" /\ d \in now[r] => calls[r][d] = 0

\* A loop that has ended has no listed destination without a row.
EndAt(r) == step[r] = "done" => Todo(r) = {}

WorkerInv(r) == ServingAt(r) /\ PendingAt(r) /\ CallAt(r) /\ EndAt(r)
IInv == TypeOK /\ \A r \in Runs : WorkerInv(r)

-----------------------------------------------------------------------------
LEMMA InitInv == Init => IInv
<1> SUFFICES ASSUME Init
             PROVE  IInv
  OBVIOUS
<1>1. TypeOK
  BY DEF Init, TypeOK, Live, Types, BuiltIn, Steps
<1>2. ASSUME NEW r \in Runs
      PROVE  WorkerInv(r)
  BY <1>2 DEF Init, Actors, WorkerInv, ServingAt, PendingAt, CallAt, EndAt
<1> QED  BY <1>1, <1>2 DEF IInv

\* What the insertion of rows does to the table, whoever does it.
LEMMA InsertsType ==
  ASSUME TypeOK, NEW ts \in SUBSET Types, Inserts(ts)
  PROVE  /\ type' \in [Slots -> Types \union {"unused", "deleted"}]
         /\ enabled' \subseteq Live'
<1>1. PICK new \in SUBSET {d \in Slots : type[d] = "unused"} :
        /\ \E f \in [new -> ts] :
             type' = [d \in Slots |-> IF d \in new THEN f[d] ELSE type[d]]
        /\ enabled' \in {enabled, enabled \union new}
  BY DEF Inserts
<1>2. PICK f \in [new -> ts] :
        type' = [d \in Slots |-> IF d \in new THEN f[d] ELSE type[d]]
  BY <1>1
<1>3. \A d \in Slots : type'[d] \in Types \union {"unused", "deleted"}
  BY <1>2 DEF TypeOK
<1>4. \A d \in Live \union new : d \in Live'
  BY <1>2 DEF Live, TypeOK
<1> QED  BY <1>1, <1>2, <1>3, <1>4 DEF TypeOK

LEMMA TypeStep == TypeOK /\ [Next]_vars => TypeOK'
<1> SUFFICES ASSUME TypeOK, [Next]_vars
             PROVE  TypeOK'
  OBVIOUS
<1> USE DEF tableVars, editVars, workVars, Goes
<1>1. ASSUME NEW a \in Actors, ReadDefaults(a)
      PROVE  TypeOK'
  BY <1>1 DEF ReadDefaults, TypeOK, Live, Types, Steps
<1>2. ASSUME NEW a \in Actors, Insert(a)
      PROVE  TypeOK'
  <2>1. wants[a] \in SUBSET Types
    BY DEF TypeOK
  <2>2. type' \in [Slots -> Types \union {"unused", "deleted"}] /\ enabled' \subseteq Live'
    BY <1>2, <2>1, InsertsType DEF Insert
  <2> QED  BY <1>2, <2>2 DEF Insert, TypeOK, Steps
<1>3. ASSUME NEW r \in Runs,
             ListEnabled(r) \/ OpenDelivery(r) \/ Send(r) \/ CloseDelivery(r)
               \/ EndDeliveries(r)
      PROVE  TypeOK'
  <2>1. /\ UNCHANGED <<type, enabled, wants, edit, Live>>
        /\ step' \in [Actors -> Steps]
    BY <1>3 DEF ListEnabled, OpenDelivery, Send, CloseDelivery, EndDeliveries,
                TypeOK, Live, Steps, Actors
  <2>2. /\ listed' \in [Runs -> SUBSET Slots] /\ now' \in [Runs -> SUBSET Slots]
        /\ row' \in [Runs -> [Slots -> {"none", "pending", "success", "failed"}]]
        /\ calls' \in [Runs -> [Slots -> Nat]]
    <3>1. CASE ListEnabled(r) \/ EndDeliveries(r)
      BY <3>1 DEF ListEnabled, EndDeliveries, TypeOK, Live
    <3>2. CASE OpenDelivery(r)
      <4>1. /\ UNCHANGED <<listed, calls>>
            /\ \/ UNCHANGED <<row, now>>
               \/ \E d \in Todo(r) : /\ row' = [row EXCEPT ![r][d] = "pending"]
                                     /\ now' = [now EXCEPT ![r] = {d}]
        BY <3>2 DEF OpenDelivery
      <4>2. ASSUME NEW d \in Slots, row' = [row EXCEPT ![r][d] = "pending"]
            PROVE  row' \in [Runs -> [Slots -> {"none", "pending", "success", "failed"}]]
        BY <4>2 DEF TypeOK
      <4>3. now' \in [Runs -> SUBSET Slots]
        <5>1. CASE now' = now
          BY <5>1 DEF TypeOK
        <5>2. ASSUME NEW d \in Todo(r), now' = [now EXCEPT ![r] = {d}]
              PROVE  now' \in [Runs -> SUBSET Slots]
          <6>1. {d} \in SUBSET Slots
            BY DEF Todo, TypeOK
          <6> QED  BY <5>2, <6>1 DEF TypeOK
        <5> QED  BY <4>1, <5>1, <5>2
      <4> QED  BY <4>1, <4>2, <4>3 DEF TypeOK, Todo
    <3>3. CASE Send(r)
      <4>1. /\ UNCHANGED <<listed, now, row>>
            /\ \/ UNCHANGED calls
               \/ \E d \in now[r] : calls' = [calls EXCEPT ![r][d] = @ + 1]
        BY <3>3 DEF Send
      <4>2. ASSUME NEW d \in Slots, calls' = [calls EXCEPT ![r][d] = @ + 1]
            PROVE  calls' \in [Runs -> [Slots -> Nat]]
        BY <4>2 DEF TypeOK
      <4> QED  BY <4>1, <4>2 DEF TypeOK
    <3>4. CASE CloseDelivery(r)
      BY <3>4 DEF CloseDelivery, TypeOK
    <3> QED  BY <1>3, <3>1, <3>2, <3>3, <3>4
  <2> QED  BY <2>1, <2>2 DEF TypeOK
<1>4. ASSUME NEW e \in Editors, NEW t \in Types, CreateRead(e, t)
      PROVE  TypeOK'
  BY <1>4 DEF CreateRead, TypeOK, Live, Steps, Actors
<1>5. ASSUME NEW e \in Editors, NEW d \in Slots, NEW t \in Types \union {"deleted"},
             type[d] \in Types, Decides(e, d, t)
      PROVE  TypeOK'
  BY <1>5 DEF Decides, TypeOK, Live, Steps, Actors, Edits
<1>6. ASSUME NEW e \in Editors, Write(e)
      PROVE  TypeOK'
  <2>1. type' \in [Slots -> Types \union {"unused", "deleted"}] /\ enabled' \subseteq Live'
    BY <1>6 DEF Write, TypeOK, Edits, Live
  <2> QED  BY <1>6, <2>1 DEF Write, TypeOK, Steps, Actors
<1>7. CASE Crash
  BY <1>7 DEF Crash, TypeOK, Live, Steps
<1>8. CASE UNCHANGED vars
  BY <1>8 DEF vars, TypeOK, Live
<1> QED
  BY <1>1, <1>2, <1>3, <1>4, <1>5, <1>6, <1>7, <1>8
     DEF Next, Deliver, Edit, Actors, UpdateRead, DeleteRead, Live

\* An actor's own worker is not disturbed by what others do.
LEMMA WorkerUntouched ==
  ASSUME NEW r \in Runs, WorkerInv(r),
         UNCHANGED <<listed[r], now[r], row[r], calls[r]>>,
         \/ UNCHANGED step[r]
         \/ step[r] \in {"idle", "insert", "write"}
              /\ step'[r] \in {"idle", "insert", "write", "list"}
  PROVE  WorkerInv(r)'
BY DEF WorkerInv, ServingAt, PendingAt, CallAt, EndAt, Todo

LEMMA WorkerStep ==
  ASSUME IInv, [Next]_vars, NEW r \in Runs
  PROVE  WorkerInv(r)'
<1> USE DEF IInv, tableVars, editVars, workVars, Goes
<1>1. ASSUME NEW a \in Actors, ReadDefaults(a) \/ Insert(a)
      PROVE  WorkerInv(r)'
  BY <1>1, WorkerUntouched DEF ReadDefaults, Insert, TypeOK, Actors
<1>2. ASSUME NEW e \in Editors,
             \/ Write(e) \/ \E t \in Types : CreateRead(e, t)
             \/ \E d \in Slots, t \in Types \union {"deleted"} : Decides(e, d, t)
      PROVE  WorkerInv(r)'
  BY <1>2, WorkerUntouched DEF Write, CreateRead, Decides, TypeOK, Actors
<1>3. ASSUME NEW q \in Runs, q # r,
             ListEnabled(q) \/ OpenDelivery(q) \/ Send(q) \/ CloseDelivery(q)
               \/ EndDeliveries(q)
      PROVE  WorkerInv(r)'
  BY <1>3, WorkerUntouched
     DEF ListEnabled, OpenDelivery, Send, CloseDelivery, EndDeliveries, TypeOK, Actors
<1>4. CASE ListEnabled(r)
  <2>1. step[r] = "list" /\ step'[r] = "next" /\ UNCHANGED <<now, row, calls>>
    BY <1>4 DEF ListEnabled, TypeOK, Actors
  <2> QED  BY <2>1 DEF WorkerInv, ServingAt, PendingAt, CallAt, EndAt
<1>5. CASE OpenDelivery(r)
  <2>1. CASE step'[r] = "broken"
    <3>1. step[r] = "next" /\ UNCHANGED <<listed, now, row, calls>>
      BY <1>5, <2>1 DEF OpenDelivery, TypeOK, Actors
    <3> QED  BY <2>1, <3>1 DEF WorkerInv, ServingAt, PendingAt, CallAt, EndAt
  <2>2. CASE step'[r] # "broken"
    <3>1. PICK d \in Todo(r) :
            /\ step[r] = "next" /\ step'[r] = "send" /\ UNCHANGED calls
            /\ row' = [row EXCEPT ![r][d] = "pending"]
            /\ now' = [now EXCEPT ![r] = {d}]
      BY <1>5, <2>2 DEF OpenDelivery, TypeOK, Actors
    <3>2. d \in Slots /\ row[r][d] = "none"
      BY DEF Todo, TypeOK
    <3>3. /\ now'[r] = {d} /\ row'[r][d] = "pending"
          /\ \A x \in Slots \ {d} : row'[r][x] = row[r][x]
      BY <3>1, <3>2 DEF TypeOK
    <3>4. calls[r] \in [Slots -> Nat]
      BY DEF TypeOK
    <3> QED  BY <3>1, <3>2, <3>3, <3>4 DEF WorkerInv, ServingAt, PendingAt, CallAt, EndAt
  <2> QED  BY <2>1, <2>2
<1>6. CASE Send(r)
  BY <1>6 DEF Send, TypeOK, Actors, WorkerInv, ServingAt, PendingAt, CallAt, EndAt
<1>7. CASE CloseDelivery(r)
  BY <1>7 DEF CloseDelivery, TypeOK, Actors, WorkerInv, ServingAt, PendingAt, CallAt,
              EndAt
<1>8. CASE EndDeliveries(r)
  BY <1>8 DEF EndDeliveries, TypeOK, Actors, Todo, WorkerInv, ServingAt, PendingAt,
              CallAt, EndAt
<1>9. CASE Crash
  BY <1>9 DEF Crash, TypeOK, Actors, Steps, Todo, WorkerInv, ServingAt, PendingAt,
              CallAt, EndAt
<1>10. CASE UNCHANGED vars
  BY <1>10, WorkerUntouched DEF vars
<1> QED
  BY <1>1, <1>2, <1>3, <1>4, <1>5, <1>6, <1>7, <1>8, <1>9, <1>10
     DEF Next, Deliver, Edit, Actors, UpdateRead, DeleteRead

\* The inductive invariant holds of every behaviour.
THEOREM DeliveriesInductive == Spec => []IInv
<1>1. IInv /\ [Next]_vars => IInv'
  BY TypeStep, WorkerStep DEF IInv
<1> QED  BY <1>1, InitInv, PTL DEF Spec

-----------------------------------------------------------------------------
\* ResultDeliveryService.deliver commits the pending row before the adapter is
\* called and calls it at most once per Run and destination, whatever people
\* edit and wherever the process stops; only a crash leaves a row pending.
THEOREM CallsOnRecord == Spec => []CallsAreOnRecord
<1>1. IInv => CallsAreOnRecord
  BY DEF IInv, TypeOK, WorkerInv, PendingAt, CallAt, CallsAreOnRecord
<1> QED  BY <1>1, DeliveriesInductive, PTL

\* A loop that comes to its end has an outcome for every destination it had
\* listed, however many of the deliveries failed.
THEOREM FailuresContained == Spec => []FailuresDoNotSpread
<1>1. IInv => FailuresDoNotSpread
  BY DEF IInv, TypeOK, WorkerInv, PendingAt, EndAt, Todo, FailuresDoNotSpread
<1> QED  BY <1>1, DeliveriesInductive, PTL
=============================================================================
