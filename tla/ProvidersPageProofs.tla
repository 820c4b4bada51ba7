------------------------ MODULE ProvidersPageProofs ------------------------
(***************************************************************************)
(* Lemmas about ProvidersPage for every set of models and every number of  *)
(* visits, coroutines and lost answers: what each step does to the page,   *)
(* its coroutines and its lock.  QualificationProofs and LiveProofs draw   *)
(* their theorems about the Providers page from these.                     *)
(***************************************************************************)
EXTENDS ProvidersPage, TLAPS

ModelSet == Known \union {Absent}
Steps == {"none", "connecting", "connected", "discovering", "verifying", "ready",
          "verification_paused", "connection_failed", "discovery_failed"}
PageRec == [visit : Mounts, open : BOOLEAN, shown : BOOLEAN, models : [Catalogued -> ModelSet],
            step : Steps, dialog : BOOLEAN,
            busy : {"none", "save", "test", "models", "verify"} \union Loops,
            load : {"idle", "asked", "found", "empty", "failed"}, dropping : BOOLEAN]

Kinds == {"none", "create", "edit", "test", "verify", "models"} \union Loops
Places == {"idle", "saving", "testing", "starting", "listing", "restarting", "sent", "verifying",
           "refreshing", "relisting", "viewing"}
FlowRec == [kind : Kinds, at : Places, todo : SUBSET Catalogued, model : Catalogued \union {"none"},
            proven : BOOLEAN, phase : {"none", "changed", "connection_failed", "discovery_failed"}]
Verifying == {"restarting", "sent", "verifying"}
Locking == Loops \union {"test", "verify"}

\* Where a coroutine of each kind can be.
Fits(f) ==
  /\ f.at = "idle" <=> f = NoFlow
  /\ f.kind = "none" <=> f = NoFlow
  /\ f.at = "saving" => f.kind \in {"create", "edit"}
  /\ f.at = "testing" => f.kind \in {"test", "onboard"}
  /\ f.at \in {"starting", "listing"} => f.kind \in Loops
  /\ f.at \in Verifying => f.kind \in Loops \union {"verify"} /\ f.model \in Catalogued
  /\ f.at = "refreshing" => /\ f.kind \in Loops \union {"test"}
                            /\ f.phase \in {"connection_failed", "discovery_failed"}
  /\ f.at = "relisting" => f.kind = "verify"
  /\ f.at = "viewing" <=> f.kind = "models"
  /\ f.kind \in {"create", "edit"} => f.at = "saving"

\* The page, its coroutines and its lock.
PageInv ==
  /\ pvPage \in PageRec /\ pvFlow \in [Mounts -> FlowRec]
  /\ pvRefs \in [lock : SUBSET Mounts, stopped : SUBSET Mounts]
  /\ \A n \in Mounts : Fits(pvFlow[n]) /\ (n > pvPage.visit => pvFlow[n] = NoFlow)
  /\ BusyMatchesWork

\* A server that serves a visit is waited for by it.
WorkInv ==
  \A m \in Catalogued, n \in Mounts :
    provider.worker[m].for = n => pvFlow[n].at = "verifying" /\ pvFlow[n].model = m

\* A Stop is on record from the time it is pressed; a loop that has begun a
\* verification since has no other one on its way.
StopInv ==
  \A n \in Mounts :
    /\ pvSince[n] \in 0..2
    /\ pvSince[n] # 0 => n \in pvRefs.stopped
    /\ pvSince[n] = 2 /\ pvFlow[n].kind \in Loops => pvFlow[n].at \notin {"restarting", "sent"}

ServerInv ==
  /\ provider \in [exists : BOOLEAN, models : [Catalogued -> ModelSet], token : BOOLEAN,
                   worker : [Catalogued -> [for : 0..MaxMounts, doomed : BOOLEAN, proven : BOOLEAN]]]
  /\ pvStops \subseteq Mounts /\ pvLost \in 0..MaxLost /\ pvFlows \in 0..MaxFlows
  /\ pvSince \in [Mounts -> 0..3]

ProvidersInv == PageInv /\ WorkInv /\ StopInv /\ ServerInv

Bounded == MaxMounts \in Nat \ {0} /\ MaxLost \in Nat /\ MaxFlows \in Nat

-----------------------------------------------------------------------------
(* The page and the coroutines: what kinds of steps there are.             *)

RefsRec == [lock : SUBSET Mounts, stopped : SUBSET Mounts]
SameScreen == pvPage' \in PageRec /\ pvPage'.visit = pvPage.visit /\ pvPage'.open = pvPage.open

\* One coroutine changes, the others and what they hold do not.
Changes(n) ==
  /\ SameScreen
  /\ pvFlow' \in [Mounts -> FlowRec] /\ Fits(pvFlow'[n])
  /\ \A x \in Mounts : x # n => pvFlow'[x] = pvFlow[x]
  /\ pvFlow[n] # NoFlow \/ n = pvPage.visit
  /\ pvRefs' \in RefsRec
  /\ \A x \in Mounts : x # n => (x \in pvRefs'.lock <=> x \in pvRefs.lock)
  /\ n \in pvRefs'.lock <=> pvFlow'[n].kind \in Locking
  /\ pvPage.open /\ n = pvPage.visit => (pvPage'.busy # "none" <=> pvFlow'[n] # NoFlow)
  /\ pvPage.open /\ n # pvPage.visit => pvPage'.busy = pvPage.busy

LEMMA NoFlowFits == NoFlow \in FlowRec /\ Fits(NoFlow) /\ NoFlow.kind = "none" /\ NoFlow.at = "idle"
BY DEF NoFlow, FlowRec, Fits, Kinds, Places, Loops, Verifying

LEMMA LockIs ==
  ASSUME PageInv
  PROVE  \A n \in Mounts : n \in pvRefs.lock <=> pvFlow[n].kind \in Locking
BY DEF PageInv, BusyMatchesWork, Locking

LEMMA ChangesPage ==
  ASSUME Bounded, PageInv, NEW n \in Mounts, Changes(n)
  PROVE  PageInv'
<1> USE DEF Changes, SameScreen
<1>1. pvPage' \in PageRec /\ pvFlow' \in [Mounts -> FlowRec]
      /\ pvRefs' \in [lock : SUBSET Mounts, stopped : SUBSET Mounts]
  BY DEF RefsRec
<1>2. ASSUME NEW x \in Mounts
      PROVE  Fits(pvFlow'[x]) /\ (x > pvPage'.visit => pvFlow'[x] = NoFlow)
  <2>1. CASE x = n
    <3>1. x > pvPage.visit => FALSE
      BY <2>1 DEF PageInv, Bounded, Mounts, PageRec
    <3> QED  BY <2>1, <3>1
  <2>2. CASE x # n
    BY <2>2 DEF PageInv
  <2> QED  BY <2>1, <2>2
<1>3. BusyMatchesWork'
  <2>1. pvPage'.open => (pvPage'.busy # "none" <=> pvFlow'[pvPage'.visit] # NoFlow)
    <3>1. pvPage.visit \in Mounts
      BY DEF PageInv, PageRec
    <3>2. pvPage.open => (pvPage.busy # "none" <=> pvFlow[pvPage.visit] # NoFlow)
      BY DEF PageInv, BusyMatchesWork
    <3> QED  BY <3>1, <3>2
  <2>2. \A x \in Mounts : x \in pvRefs'.lock <=> pvFlow'[x].kind \in Locking
    BY LockIs
  <2>3. pvRefs'.lock \subseteq Mounts
    BY <1>1
  <2> QED  BY <2>1, <2>2, <2>3 DEF BusyMatchesWork, Locking
<1> QED  BY <1>1, <1>2, <1>3 DEF PageInv

\* A coroutine ends.
Finishes(n) ==
  /\ SameScreen
  /\ pvPage.open => pvPage'.busy = IF n = pvPage.visit THEN "none" ELSE pvPage.busy
  /\ pvFlow' = [pvFlow EXCEPT ![n] = NoFlow]
  /\ pvRefs' = [pvRefs EXCEPT !.lock = @ \ {n}]

LEMMA FinishesPage ==
  ASSUME Bounded, PageInv, NEW n \in Mounts, pvFlow[n] # NoFlow, Finishes(n)
  PROVE  PageInv'
<1>1. pvFlow' \in [Mounts -> FlowRec] /\ pvFlow'[n] = NoFlow
      /\ \A x \in Mounts : x # n => pvFlow'[x] = pvFlow[x]
  BY NoFlowFits DEF Finishes, PageInv
<1>2. pvRefs' \in RefsRec /\ n \notin pvRefs'.lock
      /\ \A x \in Mounts : x # n => (x \in pvRefs'.lock <=> x \in pvRefs.lock)
  BY DEF Finishes, PageInv, RefsRec
<1>3. NoFlow.kind \notin Locking
  BY NoFlowFits DEF Locking, Loops
<1> QED  BY <1>1, <1>2, <1>3, NoFlowFits, ChangesPage DEF Changes, Finishes

\* A coroutine goes on, and keeps what it holds.
GoesOn(n) ==
  /\ SameScreen /\ pvPage'.busy = pvPage.busy
  /\ pvFlow' \in [Mounts -> FlowRec] /\ Fits(pvFlow'[n]) /\ pvFlow'[n].kind = pvFlow[n].kind
  /\ \A x \in Mounts : x # n => pvFlow'[x] = pvFlow[x]
  /\ pvRefs' \in RefsRec /\ pvRefs'.lock = pvRefs.lock

LEMMA GoesOnPage ==
  ASSUME Bounded, PageInv, NEW n \in Mounts, pvFlow[n] # NoFlow, GoesOn(n)
  PROVE  PageInv'
<1>1. pvFlow'[n] # NoFlow
  BY NoFlowFits DEF GoesOn, PageInv, Fits
<1>2. n \in pvRefs'.lock <=> pvFlow'[n].kind \in Locking
  BY LockIs DEF GoesOn
<1>3. pvPage.open /\ n = pvPage.visit => pvPage'.busy # "none"
  BY DEF GoesOn, PageInv, BusyMatchesWork
<1> QED  BY <1>1, <1>2, <1>3, ChangesPage DEF Changes, GoesOn

\* No coroutine moves.
LEMMA StaysPage ==
  ASSUME PageInv, SameScreen, pvPage'.busy = pvPage.busy, pvFlow' = pvFlow,
         pvRefs' \in RefsRec, pvRefs'.lock = pvRefs.lock
  PROVE  PageInv'
BY DEF PageInv, SameScreen, BusyMatchesWork, RefsRec

\* What a coroutine may set on the page, and what becomes of it.
LEMMA SetsScreen ==
  ASSUME PageInv, NEW n \in Mounts, NEW page \in PageRec,
         page.visit = pvPage.visit, page.open = pvPage.open, Sets(n, page)
  PROVE  SameScreen /\ pvPage'.busy = IF pvPage.open /\ n = pvPage.visit THEN page.busy ELSE pvPage.busy
BY DEF Sets, SameScreen, PageInv

-----------------------------------------------------------------------------
(* What the blocks of the coroutines do.                                   *)

\* The loop takes a model, which it does not once a Stop is on record.
Tries(n) ==
  /\ GoesOn(n) /\ pvRefs' = pvRefs
  /\ pvFlow'[n].at = "restarting" /\ n \notin pvRefs.stopped

LEMMA ReleaseFinishes ==
  ASSUME PageInv, NEW n \in Mounts, NEW page \in PageRec,
         page.visit = pvPage.visit, page.open = pvPage.open, Release(n, page)
  PROVE  Finishes(n)
<1> DEFINE p == [page EXCEPT !.busy = "none"]
<1>1. p \in PageRec /\ p.visit = pvPage.visit /\ p.open = pvPage.open /\ p.busy = "none"
  BY DEF PageRec
<1>2. Sets(n, p) /\ pvFlow' = [pvFlow EXCEPT ![n] = NoFlow]
      /\ pvRefs' = [pvRefs EXCEPT !.lock = @ \ {n}]
  BY DEF Release
<1>3. SameScreen /\ pvPage'.busy = IF pvPage.open /\ n = pvPage.visit THEN p.busy ELSE pvPage.busy
  <2> HIDE DEF p
  <2> QED  BY <1>1, <1>2, SetsScreen
<1> QED  BY <1>1, <1>2, <1>3 DEF Finishes

LEMMA ConcludesFinishes ==
  ASSUME PageInv, NEW n \in Mounts, NEW models \in [Catalogued -> ModelSet],
         NEW paused \in BOOLEAN, Concludes(n, models, paused)
  PROVE  Finishes(n)
<1> DEFINE step == IF paused \/ \E m \in Catalogued : Outstanding(models[m])
                   THEN "verification_paused" ELSE "ready"
           p == [pvPage EXCEPT !.models = models, !.step = step]
<1>1. step \in Steps
  BY DEF Steps
<1>2. p \in PageRec /\ p.visit = pvPage.visit /\ p.open = pvPage.open
  <2> HIDE DEF step
  <2> QED  BY <1>1 DEF PageInv, PageRec
<1>3. Release(n, p)
  BY DEF Concludes
<1> QED
  <2> HIDE DEF p
  <2>1. PICK page \in PageRec : page = p
    BY <1>2
  <2> QED  BY <1>2, <1>3, <2>1, ReleaseFinishes

LEMMA HeadTries ==
  ASSUME PageInv, NEW n \in Mounts, pvFlow[n].kind \in Loops,
         NEW models \in [Catalogued -> ModelSet], NEW todo \in SUBSET Catalogued,
         Head(n, models, todo)
  PROVE  Finishes(n) \/ Tries(n)
<1>1. CASE todo = {} \/ n \in pvRefs.stopped
  BY <1>1, ConcludesFinishes DEF Head
<1>2. CASE ~(todo = {} \/ n \in pvRefs.stopped)
  <2>1. PICK m \in todo :
         /\ Sets(n, [pvPage EXCEPT !.step = "verifying",
                       !.models = [models EXCEPT ![m] = Model("verifying", "none")]])
         /\ pvFlow' = [pvFlow EXCEPT ![n] =
              [@ EXCEPT !.at = "restarting", !.model = m, !.proven = Proven(models[m]), !.todo = todo \ {m}]]
         /\ UNCHANGED pvRefs
    BY <1>2 DEF Head
  <2>2. Model("verifying", "none") \in ModelSet
    BY DEF ModelSet, Known
  <2> DEFINE p == [pvPage EXCEPT !.step = "verifying",
                     !.models = [models EXCEPT ![m] = Model("verifying", "none")]]
             f == [pvFlow[n] EXCEPT !.at = "restarting", !.model = m,
                                    !.proven = Proven(models[m]), !.todo = todo \ {m}]
  <2>3. p \in PageRec /\ p.visit = pvPage.visit /\ p.open = pvPage.open /\ p.busy = pvPage.busy
    BY <2>2 DEF PageInv, PageRec, Steps
  <2>4. SameScreen /\ pvPage'.busy = pvPage.busy
    <3>1. PICK page \in PageRec : page = p
      BY <2>3
    <3>2. Sets(n, page)
      BY <2>1, <3>1
    <3> HIDE DEF p
    <3> QED  BY <2>3, <3>1, <3>2, SetsScreen
  <2>5. Proven(models[m]) \in BOOLEAN
    BY DEF Proven
  <2>6. f \in FlowRec /\ f.at = "restarting" /\ f.kind = pvFlow[n].kind /\ f.model = m
    BY <2>5 DEF PageInv, FlowRec, Places
  <2>7. f # NoFlow
    BY <2>6, NoFlowFits
  <2>8. Fits(f)
    <3> HIDE DEF f
    <3> QED  BY <2>6, <2>7 DEF Fits, Loops, Verifying
  <2>9. pvFlow' = [pvFlow EXCEPT ![n] = f]
    BY <2>1
  <2>10. pvFlow' \in [Mounts -> FlowRec] /\ pvFlow'[n] = f
         /\ \A x \in Mounts : x # n => pvFlow'[x] = pvFlow[x]
    <3> HIDE DEF f
    <3> QED  BY <2>6, <2>9 DEF PageInv
  <2>11. pvRefs' = pvRefs /\ pvRefs \in RefsRec
    BY <2>1 DEF PageInv, RefsRec
  <2> HIDE DEF f, p
  <2> QED  BY <1>2, <2>4, <2>6, <2>8, <2>10, <2>11 DEF Tries, GoesOn
<1> QED  BY <1>1, <1>2

LEMMA AnswerTries ==
  ASSUME PageInv, NEW n \in Mounts, pvFlow[n].at \in {"sent", "verifying"},
         NEW x \in ModelSet, Answer(n, x)
  PROVE  Finishes(n) \/ (pvFlow[n].kind \in Loops /\ Tries(n))
<1> DEFINE f == pvFlow[n]
           models == [pvPage.models EXCEPT ![f.model] = x]
<1>1. f.kind \in Loops \union {"verify"} /\ f.model \in Catalogued /\ f.todo \subseteq Catalogued
  BY DEF PageInv, Fits, Verifying, FlowRec
<1>2. models \in [Catalogued -> ModelSet]
  BY DEF PageInv, PageRec
<1>3. CASE f.kind = "verify"
  <2> DEFINE p == [pvPage EXCEPT !.models = models]
  <2>1. Release(n, p)
    BY <1>3 DEF Answer
  <2>2. p \in PageRec /\ p.visit = pvPage.visit /\ p.open = pvPage.open
    <3> HIDE DEF models
    <3> QED  BY <1>2 DEF PageInv, PageRec
  <2> HIDE DEF p
  <2>3. PICK page \in PageRec : page = p
    BY <2>2
  <2> QED  BY <2>1, <2>2, <2>3, ReleaseFinishes
<1>4. CASE f.kind # "verify" /\ isProviderVerificationBlocked(x)
  <2>1. Concludes(n, models, TRUE)
    BY <1>4 DEF Answer
  <2>2. PICK ms \in [Catalogued -> ModelSet] : ms = models
    BY <1>2
  <2> HIDE DEF models
  <2> QED  BY <2>1, <2>2, ConcludesFinishes
<1>5. CASE f.kind # "verify" /\ ~isProviderVerificationBlocked(x)
  <2>1. Head(n, models, f.todo)
    BY <1>5 DEF Answer
  <2>2. PICK ms \in [Catalogued -> ModelSet] : ms = models
    BY <1>2
  <2>3. PICK todo \in SUBSET Catalogued : todo = f.todo
    BY <1>1
  <2>4. Head(n, ms, todo)
    <3> HIDE DEF models
    <3> QED  BY <2>1, <2>2, <2>3
  <2> HIDE DEF models
  <2> QED  BY <1>1, <1>5, <2>4, HeadTries
<1> QED  BY <1>3, <1>4, <1>5

-----------------------------------------------------------------------------
(* What a step of a coroutine has to leave for the invariant to hold.      *)

\* Whoever serves visit n is waited for by it, and serves no other visit anew.
Serves(n) ==
  \A m \in Catalogued :
    /\ provider'.worker[m].for = n => pvFlow'[n].at = "verifying" /\ pvFlow'[n].model = m
    /\ \A x \in Mounts \ {n} : provider'.worker[m].for = x => provider.worker[m].for = x

\* StopInv for visit n, and nothing changes for the others.
Heard(n) ==
  /\ pvSince' \in [Mounts -> 0..3]
  /\ pvSince'[n] \in 0..2
  /\ pvSince'[n] # 0 => n \in pvRefs'.stopped
  /\ pvSince'[n] = 2 /\ pvFlow'[n].kind \in Loops => pvFlow'[n].at \notin {"restarting", "sent"}
  /\ \A x \in Mounts \ {n} : /\ pvSince'[x] = pvSince[x]
                             /\ x \in pvRefs.stopped => x \in pvRefs'.stopped

WorkerRec == [for : 0..MaxMounts, doomed : BOOLEAN, proven : BOOLEAN]
ProviderRec == [exists : BOOLEAN, models : [Catalogued -> ModelSet], token : BOOLEAN,
                worker : [Catalogued -> WorkerRec]]

LEMMA CoroutineStep ==
  ASSUME Bounded, ProvidersInv, NEW n \in Mounts, PageInv',
         \A x \in Mounts \ {n} : pvFlow'[x] = pvFlow[x], Serves(n), Heard(n),
         provider' \in ProviderRec, pvStops' \subseteq Mounts, pvLost' \in 0..MaxLost,
         pvFlows' \in 0..MaxFlows
  PROVE  ProvidersInv'
<1>1. WorkInv'
  <2> SUFFICES ASSUME NEW m \in Catalogued, NEW x \in Mounts, provider'.worker[m].for = x
               PROVE  pvFlow'[x].at = "verifying" /\ pvFlow'[x].model = m
    BY DEF WorkInv
  <2>1. CASE x = n
    BY <2>1 DEF Serves
  <2>2. CASE x # n
    BY <2>2 DEF Serves, ProvidersInv, WorkInv
  <2> QED  BY <2>1, <2>2
<1>2. StopInv'
  <2> SUFFICES ASSUME NEW x \in Mounts
               PROVE  /\ pvSince'[x] \in 0..2
                      /\ pvSince'[x] # 0 => x \in pvRefs'.stopped
                      /\ pvSince'[x] = 2 /\ pvFlow'[x].kind \in Loops =>
                           pvFlow'[x].at \notin {"restarting", "sent"}
    BY DEF StopInv
  <2>1. CASE x = n
    BY <2>1 DEF Heard
  <2>2. CASE x # n
    BY <2>2 DEF Heard, ProvidersInv, StopInv
  <2> QED  BY <2>1, <2>2
<1>3. ServerInv'
  BY DEF ServerInv, Heard, ProviderRec, WorkerRec
<1> QED  BY <1>1, <1>2, <1>3 DEF ProvidersInv

\* A coroutine nobody serves, and a server that does not change.
LEMMA SameServes ==
  ASSUME ProvidersInv, NEW n \in Mounts,
         \/ pvFlow[n].at # "verifying"
         \/ pvFlow'[n].at = "verifying" /\ pvFlow'[n].model = pvFlow[n].model,
         provider'.worker = provider.worker
  PROVE  Serves(n)
BY DEF ProvidersInv, WorkInv, Serves

LEMMA FinishesHeard ==
  ASSUME ProvidersInv, NEW n \in Mounts, Finishes(n), UNCHANGED pvSince
  PROVE  Heard(n)
<1>1. pvFlow'[n].kind \notin Loops /\ pvRefs'.stopped = pvRefs.stopped
  BY NoFlowFits DEF Finishes, ProvidersInv, PageInv, Loops
<1> QED  BY <1>1 DEF Heard, ProvidersInv, StopInv, ServerInv

\* The coroutine is at a place from which no verification begins, or it was
\* under way to one already.
LEMMA GoesOnHeard ==
  ASSUME ProvidersInv, NEW n \in Mounts, GoesOn(n), UNCHANGED pvSince, pvRefs' = pvRefs,
         \/ pvFlow'[n].at \notin {"restarting", "sent"}
         \/ pvFlow[n].at \in {"restarting", "sent"}
         \/ n \notin pvRefs.stopped
  PROVE  Heard(n)
BY DEF Heard, ProvidersInv, StopInv, ServerInv, GoesOn

\* An answer: the coroutine ends, or takes another model.
LEMMA AnswerInv ==
  ASSUME Bounded, ProvidersInv, NEW n \in Mounts, Finishes(n) \/ Tries(n), pvFlow[n] # NoFlow,
         \A m \in Catalogued : provider'.worker[m].for # n,
         \A m \in Catalogued, x \in Mounts \ {n} :
           provider'.worker[m].for = x => provider.worker[m].for = x,
         provider' \in ProviderRec, pvLost' \in 0..MaxLost, UNCHANGED <<pvStops, pvSince, pvFlows>>
  PROVE  ProvidersInv'
<1>1. PageInv'
  BY FinishesPage, GoesOnPage DEF Tries, ProvidersInv
<1>2. \A x \in Mounts \ {n} : pvFlow'[x] = pvFlow[x]
  BY DEF Finishes, Tries, GoesOn, ProvidersInv, PageInv
<1>3. Serves(n)
  BY DEF Serves
<1>4. Heard(n)
  BY FinishesHeard, GoesOnHeard DEF Tries
<1> QED  BY <1>1, <1>2, <1>3, <1>4, CoroutineStep DEF ProvidersInv, ServerInv

\* A coroutine that goes on, while the server keeps what it does.
LEMMA GoesOnInv ==
  ASSUME Bounded, ProvidersInv, NEW n \in Mounts, pvFlow[n] # NoFlow, GoesOn(n), Heard(n),
         pvFlow[n].at # "verifying",
         provider' \in ProviderRec, provider'.worker = provider.worker,
         UNCHANGED <<pvStops, pvLost, pvFlows>>
  PROVE  ProvidersInv'
<1>1. PageInv'
  BY GoesOnPage DEF ProvidersInv
<1>2. Serves(n)
  BY SameServes
<1> QED  BY <1>1, <1>2, CoroutineStep DEF ProvidersInv, ServerInv, GoesOn

LEMMA ServerType ==
  ASSUME ProvidersInv
  PROVE  /\ provider \in ProviderRec
         /\ provider.models \in [Catalogued -> ModelSet] /\ provider.exists \in BOOLEAN
         /\ pvPage \in PageRec /\ pvPage.models \in [Catalogued -> ModelSet]
         /\ pvLost \in 0..MaxLost
BY DEF ProvidersInv, ServerInv, ProviderRec, WorkerRec, PageInv, PageRec

\* The coroutine ends, and the server keeps what it does.
LEMMA FinishesInv ==
  ASSUME Bounded, ProvidersInv, NEW n \in Mounts, pvFlow[n] # NoFlow, Finishes(n),
         pvFlow[n].at # "verifying", provider' \in ProviderRec,
         provider'.worker = provider.worker, UNCHANGED <<pvStops, pvSince, pvLost, pvFlows>>
  PROVE  ProvidersInv'
<1>1. \A m \in Catalogued : provider'.worker[m].for # n
  BY DEF ProvidersInv, WorkInv
<1> QED  BY <1>1, ServerType, AnswerInv

-----------------------------------------------------------------------------
(* The replies.                                                            *)

\* A coroutine that proceeds to another place its kind can be at.
LEMMA ProceedGoes ==
  ASSUME PageInv, NEW n \in Mounts, NEW at \in Places \ {"idle"}, pvFlow[n] # NoFlow,
         Fits([pvFlow[n] EXCEPT !.at = at]), Proceed(n, at),
         SameScreen, pvPage'.busy = pvPage.busy, pvRefs' \in RefsRec, pvRefs'.lock = pvRefs.lock
  PROVE  GoesOn(n) /\ pvFlow'[n] = [pvFlow[n] EXCEPT !.at = at]
         /\ \A x \in Mounts : x # n => pvFlow'[x] = pvFlow[x]
<1> DEFINE f == [pvFlow[n] EXCEPT !.at = at]
<1>1. f \in FlowRec /\ f.kind = pvFlow[n].kind
  BY DEF PageInv, FlowRec
<1>2. pvFlow' = [pvFlow EXCEPT ![n] = f]
  BY DEF Proceed
<1> HIDE DEF f
<1>3. pvFlow' \in [Mounts -> FlowRec] /\ pvFlow'[n] = f
      /\ \A x \in Mounts : x # n => pvFlow'[x] = pvFlow[x]
  BY <1>1, <1>2 DEF PageInv
<1> QED  BY <1>1, <1>3 DEF GoesOn, f

LEMMA ScreenStays ==
  ASSUME PageInv, pvPage' = pvPage, pvRefs' = pvRefs
  PROVE  SameScreen /\ pvPage'.busy = pvPage.busy /\ pvRefs' \in RefsRec /\ pvRefs'.lock = pvRefs.lock
BY DEF PageInv, SameScreen, RefsRec

LEMMA AtIsBusy ==
  ASSUME NEW n \in Mounts, pvFlow[n].at # "idle"
  PROVE  pvFlow[n] # NoFlow
BY NoFlowFits

LEMMA StartsWorker ==
  ASSUME ServerInv, startQualification
  PROVE  provider' \in ProviderRec /\ provider'.worker = provider.worker
<1>1. PICK renewed \in BOOLEAN : provider' = [provider EXCEPT !.token = @ /\ renewed]
  BY DEF startQualification
<1> QED  BY <1>1 DEF ServerInv, ProviderRec, WorkerRec

LEMMA StartedInv ==
  ASSUME Bounded, ProvidersInv, NEW n \in Mounts, Started(n), UNCHANGED pvFlows
  PROVE  ProvidersInv'
<1>1. pvFlow[n].at = "starting" /\ Proceed(n, "listing") /\ pvFlow[n] # NoFlow
      /\ pvPage' = pvPage /\ pvRefs' = pvRefs /\ UNCHANGED <<pvStops, pvLost, pvSince>>
  BY AtIsBusy DEF Started, pvRest
<1>2. Fits([pvFlow[n] EXCEPT !.at = "listing"])
  BY <1>1, NoFlowFits DEF ProvidersInv, PageInv, FlowRec, Fits, Loops, Verifying
<1>3. GoesOn(n) /\ pvFlow'[n] = [pvFlow[n] EXCEPT !.at = "listing"]
  BY <1>1, <1>2, ScreenStays, ProceedGoes DEF ProvidersInv, Places
<1>4. pvFlow'[n].at = "listing"
  BY <1>3 DEF ProvidersInv, PageInv, FlowRec
<1>5. provider' \in ProviderRec /\ provider'.worker = provider.worker
  BY StartsWorker DEF Started, ProvidersInv
<1>6. Heard(n)
  BY <1>1, <1>3, <1>4, GoesOnHeard
<1> QED  BY <1>1, <1>3, <1>5, <1>6, GoesOnInv

LEMMA RestartedInv ==
  ASSUME Bounded, ProvidersInv, NEW n \in Mounts, Restarted(n), UNCHANGED pvFlows
  PROVE  ProvidersInv'
<1>1. pvFlow[n].at = "restarting" /\ Proceed(n, "sent") /\ pvFlow[n] # NoFlow
      /\ pvPage' = pvPage /\ pvRefs' = pvRefs /\ UNCHANGED <<pvStops, pvLost, pvSince>>
  BY AtIsBusy DEF Restarted, pvRest
<1>2. Fits([pvFlow[n] EXCEPT !.at = "sent"])
  BY <1>1, NoFlowFits DEF ProvidersInv, PageInv, FlowRec, Fits, Loops, Verifying
<1>3. GoesOn(n)
  BY <1>1, <1>2, ScreenStays, ProceedGoes DEF ProvidersInv, Places
<1>4. provider' \in ProviderRec /\ provider'.worker = provider.worker
  BY StartsWorker DEF Restarted, ProvidersInv
<1>5. Heard(n)
  BY <1>1, <1>3, GoesOnHeard
<1> QED  BY <1>1, <1>3, <1>4, <1>5, GoesOnInv

\* The verification that begins is the last one after a Stop.
LEMMA VerificationBeginsInv ==
  ASSUME Bounded, ProvidersInv, NEW n \in Mounts, VerificationBegins(n), UNCHANGED pvFlows
  PROVE  ProvidersInv'
<1> DEFINE f == pvFlow[n]
           w == [for |-> n, doomed |-> provider.token, proven |-> Proven(provider.models[f.model])]
<1>1. f.at = "sent" /\ Proceed(n, "verifying") /\ f # NoFlow
      /\ pvPage' = pvPage /\ pvRefs' = pvRefs /\ UNCHANGED <<pvStops, pvLost>>
  BY AtIsBusy DEF VerificationBegins
<1>2. Fits([pvFlow[n] EXCEPT !.at = "verifying"]) /\ f.model \in Catalogued
  BY <1>1, NoFlowFits DEF ProvidersInv, PageInv, FlowRec, Fits, Loops, Verifying
<1>3. GoesOn(n) /\ pvFlow'[n] = [pvFlow[n] EXCEPT !.at = "verifying"]
      /\ \A x \in Mounts : x # n => pvFlow'[x] = pvFlow[x]
  BY <1>1, <1>2, ScreenStays, ProceedGoes DEF ProvidersInv, Places
<1>4. pvFlow'[n].at = "verifying" /\ pvFlow'[n].model = f.model /\ pvFlow'[n].kind = f.kind
  BY <1>3 DEF ProvidersInv, PageInv, FlowRec
<1>5. w \in WorkerRec /\ w.for = n
  BY ServerType DEF WorkerRec, ProviderRec, Mounts, Bounded, Proven
<1>6. Model("verifying", "none") \in ModelSet
  BY DEF ModelSet, Known
<1>7. provider' = [provider EXCEPT !.models[f.model] = Model("verifying", "none"), !.worker[f.model] = w]
  BY DEF VerificationBegins
<1>8. provider' \in ProviderRec /\ provider'.worker = [provider.worker EXCEPT ![f.model] = w]
  <2> HIDE DEF w, f
  <2> QED  BY <1>2, <1>5, <1>6, <1>7, ServerType DEF ProviderRec
<1>9. provider.worker \in [Catalogued -> WorkerRec]
  BY ServerType DEF ProviderRec
<1>10. Serves(n)
  <2> HIDE DEF w
  <2>1. ASSUME NEW m \in Catalogued, provider'.worker[m].for = n
        PROVE  m = f.model
    BY <1>1, <1>2, <1>8, <1>9, <2>1 DEF ProvidersInv, WorkInv
  <2>2. ASSUME NEW m \in Catalogued, NEW x \in Mounts \ {n}, provider'.worker[m].for = x
        PROVE  provider.worker[m].for = x
    BY <1>2, <1>5, <1>8, <1>9, <2>2
  <2> QED  BY <1>4, <2>1, <2>2 DEF Serves
<1>11. Heard(n)
  <2>1. pvSince' = [pvSince EXCEPT ![n] = IF f.kind \in Loops /\ @ \in {1, 2} THEN @ + 1 ELSE @]
    BY DEF VerificationBegins
  <2>2. pvSince \in [Mounts -> 0..3] /\ pvSince[n] \in 0..2
        /\ (pvSince[n] # 0 => n \in pvRefs.stopped) /\ (f.kind \in Loops => pvSince[n] # 2)
    BY <1>1 DEF ProvidersInv, ServerInv, StopInv
  <2>3. pvSince' \in [Mounts -> 0..3] /\ pvSince'[n] \in 0..2
        /\ (pvSince'[n] # 0 => pvSince[n] # 0)
    <3> HIDE DEF f
    <3> QED  BY <2>1, <2>2
  <2>4. \A x \in Mounts \ {n} : pvSince'[x] = pvSince[x]
    BY <2>1, <2>2
  <2> QED  BY <1>1, <1>4, <2>2, <2>3, <2>4 DEF Heard
<1>12. PageInv'
  BY <1>1, <1>3, GoesOnPage DEF ProvidersInv
<1> QED  BY <1>1, <1>3, <1>8, <1>10, <1>11, <1>12, CoroutineStep DEF ProvidersInv, ServerInv

\* catch clauses: the list is read again.
LEMMA FailsInv ==
  ASSUME Bounded, ProvidersInv, NEW n \in Mounts, NEW phase \in {"connection_failed", "discovery_failed"},
         Fails(n, phase), pvFlow[n].at \in {"testing", "starting", "listing"}, UNCHANGED pvFlows
  PROVE  ProvidersInv'
<1> DEFINE f == [pvFlow[n] EXCEPT !.at = "refreshing", !.phase = phase]
<1>1. pvFlow' = [pvFlow EXCEPT ![n] = f] /\ pvPage' = pvPage /\ pvRefs' = pvRefs
      /\ provider' = provider /\ UNCHANGED <<pvStops, pvLost, pvSince>>
  BY DEF Fails, pvRest, ProvidersInv, PageInv
<1>2. pvFlow[n] # NoFlow /\ pvFlow[n] \in FlowRec /\ Fits(pvFlow[n])
  BY AtIsBusy DEF ProvidersInv, PageInv
<1>3. f \in FlowRec /\ f.at = "refreshing" /\ f.kind = pvFlow[n].kind /\ f.phase = phase
  BY <1>2 DEF FlowRec, Places
<1>4. f.kind \in Loops \union {"test"}
  BY <1>2, <1>3 DEF Fits, Loops
<1> HIDE DEF f
<1>5. Fits(f)
  BY <1>3, <1>4, NoFlowFits DEF Fits, Loops, Verifying
<1>6. pvFlow' \in [Mounts -> FlowRec] /\ pvFlow'[n] = f
      /\ \A x \in Mounts : x # n => pvFlow'[x] = pvFlow[x]
  BY <1>1, <1>3 DEF ProvidersInv, PageInv
<1>7. GoesOn(n)
  BY <1>1, <1>3, <1>5, <1>6, ScreenStays DEF GoesOn, ProvidersInv
<1>8. Heard(n)
  BY <1>1, <1>3, <1>6, <1>7, GoesOnHeard
<1> QED  BY <1>1, <1>2, <1>7, <1>8, GoesOnInv, ServerType

LEMMA ConnectionFailsInv ==
  ASSUME Bounded, ProvidersInv, NEW n \in Mounts, ConnectionFails(n), UNCHANGED pvFlows
  PROVE  ProvidersInv'
BY FailsInv DEF ConnectionFails

LEMMA DiscoveryFailsInv ==
  ASSUME Bounded, ProvidersInv, NEW n \in Mounts, DiscoveryFails(n), UNCHANGED pvFlows
  PROVE  ProvidersInv'
BY FailsInv DEF DiscoveryFails

\* finally clauses that set nothing but what PageRec lets them set.
LEMMA ReleaseInv ==
  ASSUME Bounded, ProvidersInv, NEW n \in Mounts, NEW page \in PageRec,
         page.visit = pvPage.visit, page.open = pvPage.open, Release(n, page),
         pvFlow[n].at \notin {"idle", "verifying"}, provider' \in ProviderRec,
         provider'.worker = provider.worker, UNCHANGED <<pvRest, pvFlows>>
  PROVE  ProvidersInv'
<1>1. Finishes(n)
  BY ReleaseFinishes DEF ProvidersInv
<1> QED  BY <1>1, AtIsBusy, FinishesInv DEF pvRest

LEMMA SaveFailsInv ==
  ASSUME Bounded, ProvidersInv, NEW n \in Mounts, SaveFails(n), UNCHANGED pvFlows
  PROVE  ProvidersInv'
<1>1. PICK page \in PageRec : page = pvPage
  BY ServerType
<1>2. Release(n, page) /\ pvFlow[n].at = "saving" /\ provider' = provider /\ UNCHANGED pvRest
  BY <1>1 DEF SaveFails
<1> QED  BY <1>1, <1>2, ReleaseInv, ServerType

LEMMA RefreshInv ==
  ASSUME Bounded, ProvidersInv, NEW n \in Mounts, refreshProvider(n), UNCHANGED pvFlows
  PROVE  ProvidersInv'
<1>1. PICK shown \in {pvPage.shown, provider.exists} :
        Release(n, [pvPage EXCEPT !.shown = shown, !.step = pvFlow[n].phase])
  BY DEF refreshProvider
<1>2. pvFlow[n].at = "refreshing" /\ provider' = provider /\ UNCHANGED pvRest
  BY DEF refreshProvider
<1>3. pvFlow[n].phase \in Steps
  BY <1>2 DEF ProvidersInv, PageInv, Fits, Steps
<1>4. shown \in BOOLEAN
  BY ServerType DEF PageRec
<1>5. PICK page \in PageRec : page = [pvPage EXCEPT !.shown = shown, !.step = pvFlow[n].phase]
  BY <1>3, <1>4, ServerType DEF PageRec
<1>6. page.visit = pvPage.visit /\ page.open = pvPage.open
  BY <1>5, ServerType DEF PageRec
<1> QED  BY <1>1, <1>2, <1>5, <1>6, ReleaseInv, ServerType

LEMMA RelistedInv ==
  ASSUME Bounded, ProvidersInv, NEW n \in Mounts, Relisted(n), UNCHANGED pvFlows
  PROVE  ProvidersInv'
<1>1. PICK models \in {pvPage.models, provider.models} : Release(n, [pvPage EXCEPT !.models = models])
  BY DEF Relisted
<1>2. pvFlow[n].at = "relisting" /\ provider' = provider /\ UNCHANGED pvRest
  BY DEF Relisted
<1>3. models \in [Catalogued -> ModelSet]
  BY ServerType
<1>4. PICK page \in PageRec : page = [pvPage EXCEPT !.models = models]
  BY <1>3, ServerType DEF PageRec
<1>5. page.visit = pvPage.visit /\ page.open = pvPage.open
  BY <1>4, ServerType DEF PageRec
<1> QED  BY <1>1, <1>2, <1>4, <1>5, ReleaseInv, ServerType

\* viewModels holds no lock, so none is given back.
LEMMA ViewedInv ==
  ASSUME Bounded, ProvidersInv, NEW n \in Mounts, Viewed(n), UNCHANGED pvFlows
  PROVE  ProvidersInv'
<1>1. PICK models \in {pvPage.models, provider.models} :
        Sets(n, [pvPage EXCEPT !.models = models, !.busy = "none"])
  BY DEF Viewed
<1>2. pvFlow[n].at = "viewing" /\ provider' = provider /\ pvRefs' = pvRefs
      /\ pvFlow' = [pvFlow EXCEPT ![n] = NoFlow] /\ UNCHANGED pvRest
  BY DEF Viewed
<1>3. models \in [Catalogued -> ModelSet]
  BY ServerType
<1>4. PICK page \in PageRec : page = [pvPage EXCEPT !.models = models, !.busy = "none"]
  BY <1>3, ServerType DEF PageRec
<1>5. page.visit = pvPage.visit /\ page.open = pvPage.open /\ page.busy = "none"
  BY <1>4, ServerType DEF PageRec
<1>6. SameScreen /\ pvPage'.busy = IF pvPage.open /\ n = pvPage.visit THEN "none" ELSE pvPage.busy
  BY <1>1, <1>4, <1>5, SetsScreen DEF ProvidersInv
<1>7. n \notin pvRefs.lock
  BY <1>2, LockIs DEF ProvidersInv, PageInv, Fits, Locking, Loops
<1>8. pvRefs' = [pvRefs EXCEPT !.lock = @ \ {n}]
  <2>1. pvRefs \in RefsRec /\ pvRefs.lock \ {n} = pvRefs.lock
    BY <1>7 DEF ProvidersInv, PageInv, RefsRec
  <2> QED  BY <1>2, <2>1 DEF RefsRec
<1>9. Finishes(n)
  BY <1>2, <1>6, <1>8 DEF Finishes
<1> QED  BY <1>2, <1>9, AtIsBusy, FinishesInv, ServerType DEF pvRest

\* Each test forgets an earlier Stop before the loop is entered.
LEMMA ConnectedInv ==
  ASSUME Bounded, ProvidersInv, NEW n \in Mounts, Connected(n), UNCHANGED pvFlows
  PROVE  ProvidersInv'
<1>1. pvFlow[n].at = "testing" /\ provider' = provider /\ UNCHANGED <<pvStops, pvLost>>
      /\ pvFlow[n] # NoFlow /\ pvFlow[n].kind \in {"test", "onboard"}
  BY AtIsBusy DEF Connected, ProvidersInv, PageInv, Fits
<1>2. CASE pvFlow[n].kind = "test"
  <2>1. Release(n, [pvPage EXCEPT !.step = "connected"]) /\ UNCHANGED pvSince
    BY <1>2 DEF Connected
  <2>2. PICK page \in PageRec : page = [pvPage EXCEPT !.step = "connected"]
    BY ServerType DEF PageRec, Steps
  <2>3. page.visit = pvPage.visit /\ page.open = pvPage.open
    BY <2>2, ServerType DEF PageRec
  <2> QED  BY <1>1, <2>1, <2>2, <2>3, ReleaseInv, ServerType DEF pvRest
<1>3. CASE pvFlow[n].kind = "onboard"
  <2>1. Proceed(n, "starting") /\ Sets(n, [pvPage EXCEPT !.step = "discovering"])
        /\ pvRefs' = [pvRefs EXCEPT !.stopped = @ \ {n}] /\ pvSince' = [pvSince EXCEPT ![n] = 0]
    BY <1>3 DEF Connected
  <2>2. PICK page \in PageRec : page = [pvPage EXCEPT !.step = "discovering"]
    BY ServerType DEF PageRec, Steps
  <2>3. page.visit = pvPage.visit /\ page.open = pvPage.open /\ page.busy = pvPage.busy
    BY <2>2, ServerType DEF PageRec
  <2>4. SameScreen /\ pvPage'.busy = pvPage.busy
    BY <2>1, <2>2, <2>3, SetsScreen DEF ProvidersInv
  <2>5. pvRefs' \in RefsRec /\ pvRefs'.lock = pvRefs.lock
        /\ \A x \in Mounts \ {n} : x \in pvRefs.stopped => x \in pvRefs'.stopped
    BY <2>1 DEF ProvidersInv, PageInv, RefsRec
  <2>6. Fits([pvFlow[n] EXCEPT !.at = "starting"])
    BY <1>1, <1>3, NoFlowFits DEF ProvidersInv, PageInv, FlowRec, Fits, Loops, Verifying
  <2>7. GoesOn(n)
    BY <1>1, <2>1, <2>4, <2>5, <2>6, ProceedGoes DEF ProvidersInv, Places
  <2>8. Heard(n)
    BY <2>1, <2>5 DEF Heard, ProvidersInv, ServerInv
  <2> QED  BY <1>1, <2>7, <2>8, GoesOnInv, ServerType
<1> QED  BY <1>1, <1>2, <1>3

\* A save is followed by onboarding when the configuration changed and the
\* lock is free; otherwise the coroutine ends.
LEMMA SavedInv ==
  ASSUME Bounded, ProvidersInv, NEW n \in Mounts, Saved(n), UNCHANGED pvFlows
  PROVE  ProvidersInv'
<1> DEFINE f       == pvFlow[n]
           changed == f.phase = "changed"
           p       == [pvPage EXCEPT !.shown = @ \/ f.kind = "create", !.dialog = FALSE,
                         !.models = IF f.kind = "edit" /\ changed THEN Nothing ELSE @]
<1>1. f.at = "saving" /\ UNCHANGED pvRest /\ f # NoFlow
      /\ provider' = [provider EXCEPT !.exists = TRUE, !.models = IF changed THEN Nothing ELSE @]
  BY AtIsBusy DEF Saved
<1>2. Nothing \in [Catalogued -> ModelSet]
  BY DEF Nothing, ModelSet
<1>3. provider' \in ProviderRec /\ provider'.worker = provider.worker
  <2> HIDE DEF changed
  <2> QED  BY <1>1, <1>2, ServerType DEF ProviderRec
<1>4. p \in PageRec /\ p.visit = pvPage.visit /\ p.open = pvPage.open
  <2> HIDE DEF changed
  <2>1. PICK b \in BOOLEAN : b = (pvPage.shown \/ f.kind = "create")
    BY ServerType DEF PageRec
  <2> QED  BY <1>2, <2>1, ServerType DEF PageRec
<1>5. CASE changed /\ n \notin pvRefs.lock
  <2> DEFINE q == [p EXCEPT !.busy = "onboard", !.step = "connecting"]
             g == Flow("onboard", "testing")
  <2>1. pvFlow' = [pvFlow EXCEPT ![n] = g] /\ pvRefs' = [pvRefs EXCEPT !.lock = @ \union {n}]
        /\ Sets(n, q)
    BY <1>5 DEF Saved
  <2>2. q \in PageRec /\ q.visit = pvPage.visit /\ q.open = pvPage.open /\ q.busy = "onboard"
    <3> HIDE DEF p
    <3> QED  BY <1>4 DEF PageRec, Steps, Loops
  <2>3. SameScreen
        /\ pvPage'.busy = IF pvPage.open /\ n = pvPage.visit THEN "onboard" ELSE pvPage.busy
    <3>1. PICK page \in PageRec : page = q
      BY <2>2
    <3> HIDE DEF q, p
    <3> QED  BY <2>1, <2>2, <3>1, SetsScreen DEF ProvidersInv
  <2>4. g \in FlowRec /\ g.kind = "onboard" /\ g.at = "testing"
    BY NoFlowFits DEF Flow, FlowRec, Kinds, Places, Loops
  <2>5. Fits(g) /\ g # NoFlow
    <3> HIDE DEF g
    <3> QED  BY <2>4, NoFlowFits DEF Fits, Loops, Verifying
  <2> HIDE DEF g, q, p
  <2>6. pvFlow' \in [Mounts -> FlowRec] /\ pvFlow'[n] = g
        /\ \A x \in Mounts : x # n => pvFlow'[x] = pvFlow[x]
    BY <2>1, <2>4 DEF ProvidersInv, PageInv
  <2>7. pvRefs' \in RefsRec /\ n \in pvRefs'.lock /\ pvRefs'.stopped = pvRefs.stopped
        /\ \A x \in Mounts : x # n => (x \in pvRefs'.lock <=> x \in pvRefs.lock)
    BY <2>1 DEF ProvidersInv, PageInv, RefsRec
  <2>8. g.kind \in Locking
    BY <2>4 DEF Locking, Loops
  <2>9. PageInv'
    BY <1>1, <2>3, <2>4, <2>5, <2>6, <2>7, <2>8, ChangesPage DEF Changes, ProvidersInv
  <2>10. Serves(n)
    BY <1>1, <1>3, SameServes
  <2>11. Heard(n)
    BY <1>1, <2>4, <2>6, <2>7 DEF Heard, pvRest, ProvidersInv, StopInv, ServerInv
  <2> QED  BY <1>1, <1>3, <2>6, <2>9, <2>10, <2>11, CoroutineStep DEF ProvidersInv, ServerInv, pvRest
<1>6. CASE ~(changed /\ n \notin pvRefs.lock)
  <2>1. Release(n, p)
    BY <1>6 DEF Saved
  <2>2. PICK page \in PageRec : page = p
    BY <1>4
  <2> HIDE DEF p
  <2> QED  BY <1>1, <1>3, <1>4, <2>1, <2>2, ReleaseInv
<1> QED  BY <1>5, <1>6

\* The list is read and the loop entered.
LEMMA ListedInv ==
  ASSUME Bounded, ProvidersInv, NEW n \in Mounts, Listed(n), UNCHANGED pvFlows
  PROVE  ProvidersInv'
<1> DEFINE models == [m \in Catalogued |->
                        IF pvFlow[n].kind # "continue" /\ provider.models[m] = Absent
                        THEN Model("unknown", "none") ELSE provider.models[m]]
<1>1. pvFlow[n].at = "listing" /\ provider' = [provider EXCEPT !.models = models] /\ UNCHANGED pvRest
      /\ \E later, old \in SUBSET Catalogued :
           Head(n, models, {m \in Catalogued : needsQualification(models[m], m \in later, m \in old)})
  BY DEF Listed
<1>2. models \in [Catalogued -> ModelSet]
  BY ServerType DEF ModelSet, Known
<1>3. PICK ms \in [Catalogued -> ModelSet] : ms = models
  BY <1>2
<1> HIDE DEF models
<1>4. PICK later, old \in SUBSET Catalogued :
        Head(n, ms, {m \in Catalogued : needsQualification(ms[m], m \in later, m \in old)})
  BY <1>1, <1>3
<1> DEFINE t == {m \in Catalogued : needsQualification(ms[m], m \in later, m \in old)}
<1>5. t \in SUBSET Catalogued
  OBVIOUS
<1>6. Head(n, ms, t)
  BY <1>4
<1> HIDE DEF t
<1>7. Finishes(n) \/ Tries(n)
  BY <1>1, <1>5, <1>6, HeadTries DEF ProvidersInv, PageInv, Fits
<1>8. provider' \in ProviderRec /\ provider'.worker = provider.worker
  BY <1>1, <1>2, ServerType DEF ProviderRec
<1>9. \A m \in Catalogued : provider'.worker[m].for # n
  BY <1>1, <1>8 DEF ProvidersInv, WorkInv
<1> QED  BY <1>1, <1>7, <1>8, <1>9, AtIsBusy, AnswerInv, ServerType DEF pvRest

LEMMA AlreadyClaimedInv ==
  ASSUME Bounded, ProvidersInv, NEW n \in Mounts, AlreadyClaimed(n), UNCHANGED pvFlows
  PROVE  ProvidersInv'
<1>1. pvFlow[n].at = "sent" /\ Answer(n, Model("verifying", "none")) /\ provider' = provider
      /\ UNCHANGED pvRest
  BY DEF AlreadyClaimed
<1>2. PICK x \in ModelSet : x = Model("verifying", "none")
  BY DEF ModelSet, Known
<1>3. Finishes(n) \/ Tries(n)
  BY <1>1, <1>2, AnswerTries DEF ProvidersInv
<1>4. \A m \in Catalogued : provider'.worker[m].for # n
  BY <1>1 DEF ProvidersInv, WorkInv
<1> QED  BY <1>1, <1>3, <1>4, AtIsBusy, AnswerInv, ServerType DEF pvRest

LEMMA OutcomesAreModels ==
  ASSUME NEW w \in WorkerRec, NEW x \in Outcomes(w)
  PROVE  x \in ModelSet
BY DEF Outcomes, Interrupted, ModelSet, Known, WorkerRec

\* The answer of a server reaches the visit that waits for it, or nobody.
LEMMA VerificationEndsInv ==
  ASSUME Bounded, ProvidersInv, NEW m \in Catalogued, VerificationEnds(m)
  PROVE  ProvidersInv'
<1> DEFINE w == provider.worker[m]
           kept == provider.models[m] # Absent
<1>1. PICK x \in Outcomes(w) :
         /\ provider' = [provider EXCEPT !.models[m] = IF kept THEN x ELSE Absent,
                                         !.worker[m] = NoWorker]
         /\ IF kept /\ w.for \in Mounts THEN Answer(w.for, x)
                                        ELSE UNCHANGED <<pvPage, pvFlow, pvRefs>>
  BY DEF VerificationEnds
<1>2. UNCHANGED <<pvFlows, pvStops, pvLost, pvSince>>
  BY DEF VerificationEnds, pvRest
<1>3. w \in WorkerRec /\ provider.worker \in [Catalogued -> WorkerRec]
  BY ServerType DEF ProviderRec
<1>4. x \in ModelSet /\ Absent \in ModelSet
  BY <1>3, OutcomesAreModels DEF ModelSet
<1>5. NoWorker \in WorkerRec /\ NoWorker.for = 0
  BY DEF NoWorker, WorkerRec, Bounded
<1>6. provider' \in ProviderRec /\ provider'.worker = [provider.worker EXCEPT ![m] = NoWorker]
  <2>1. PICK y \in ModelSet : y = IF kept THEN x ELSE Absent
    BY <1>4
  <2> QED  BY <1>1, <1>5, <2>1, ServerType DEF ProviderRec
<1>7. \A k \in Catalogued, v \in Mounts :
         provider'.worker[k].for = v => provider.worker[k].for = v /\ k # m
  BY <1>3, <1>5, <1>6 DEF Mounts
<1>8. CASE kept /\ w.for \in Mounts
  <2>1. PICK n \in Mounts : n = w.for
    BY <1>8
  <2>2. pvFlow[n].at = "verifying" /\ pvFlow[n].model = m
    BY <2>1 DEF ProvidersInv, WorkInv
  <2>3. Finishes(n) \/ Tries(n)
    BY <1>1, <1>4, <1>8, <2>1, <2>2, AnswerTries DEF ProvidersInv
  <2>4. \A k \in Catalogued : provider'.worker[k].for # n
    BY <1>7, <2>2 DEF ProvidersInv, WorkInv
  <2> QED  BY <1>2, <1>6, <1>7, <2>2, <2>3, <2>4, AtIsBusy, AnswerInv, ServerType
<1>9. CASE ~(kept /\ w.for \in Mounts)
  <2>1. UNCHANGED <<pvPage, pvFlow, pvRefs>>
    BY <1>1, <1>9
  <2>2. PageInv' /\ StopInv'
    BY <1>2, <2>1 DEF ProvidersInv, PageInv, BusyMatchesWork, StopInv
  <2>3. WorkInv'
    BY <1>7, <2>1 DEF ProvidersInv, WorkInv
  <2>4. ServerInv'
    BY <1>2, <1>6 DEF ProvidersInv, ServerInv, ProviderRec, WorkerRec
  <2> QED  BY <2>2, <2>3, <2>4 DEF ProvidersInv
<1> QED  BY <1>8, <1>9

\* The visit no longer waits; whoever serves it now serves nobody.
LEMMA VerificationLostInv ==
  ASSUME Bounded, ProvidersInv, NEW n \in Mounts, VerificationLost(n), UNCHANGED pvFlows
  PROVE  ProvidersInv'
<1> DEFINE f == pvFlow[n]
           models == [pvPage.models EXCEPT ![f.model] = Interrupted(f.proven, "provider")]
<1>1. f.at \in Verifying /\ f # NoFlow /\ UNCHANGED <<pvStops, pvSince>>
  BY AtIsBusy DEF VerificationLost, Verifying
<1>2. pvLost' \in 0..MaxLost
  BY ServerType DEF VerificationLost, Bounded
<1>3. provider' = [provider EXCEPT !.worker =
        [m \in Catalogued |-> IF @[m].for = n THEN [@[m] EXCEPT !.for = 0] ELSE @[m]]]
  BY DEF VerificationLost
<1>4. provider' \in ProviderRec
      /\ \A m \in Catalogued : /\ provider'.worker[m].for # n
                               /\ \A x \in Mounts \ {n} :
                                    provider'.worker[m].for = x => provider.worker[m].for = x
  <2> DEFINE ws == [m \in Catalogued |-> IF provider.worker[m].for = n
                                         THEN [provider.worker[m] EXCEPT !.for = 0]
                                         ELSE provider.worker[m]]
  <2>1. ws \in [Catalogued -> WorkerRec]
    BY ServerType DEF ProviderRec, WorkerRec, Bounded
  <2>2. \A m \in Catalogued : /\ ws[m].for # n
                              /\ \A x \in Mounts \ {n} : ws[m].for = x => provider.worker[m].for = x
    BY ServerType DEF ProviderRec, WorkerRec, Mounts
  <2>3. provider' = [provider EXCEPT !.worker = ws]
    BY <1>3
  <2> HIDE DEF ws
  <2>4. provider' \in ProviderRec /\ provider'.worker = ws
    BY <2>1, <2>3, ServerType DEF ProviderRec
  <2> QED  BY <2>2, <2>4
<1>5. CASE f.kind = "verify"
  <2>1. Proceed(n, "relisting") /\ pvPage' = pvPage /\ pvRefs' = pvRefs
    BY <1>5 DEF VerificationLost
  <2>2. Fits([pvFlow[n] EXCEPT !.at = "relisting"])
    BY <1>1, <1>5, NoFlowFits DEF ProvidersInv, PageInv, FlowRec, Fits, Loops, Verifying
  <2>3. GoesOn(n) /\ pvFlow'[n] = [pvFlow[n] EXCEPT !.at = "relisting"]
        /\ \A x \in Mounts : x # n => pvFlow'[x] = pvFlow[x]
    BY <1>1, <2>1, <2>2, ScreenStays, ProceedGoes DEF ProvidersInv, Places
  <2>4. pvFlow'[n].at = "relisting"
    BY <2>3 DEF ProvidersInv, PageInv, FlowRec
  <2>5. Heard(n)
    BY <1>1, <2>1, <2>3, <2>4, GoesOnHeard
  <2>6. PageInv'
    BY <1>1, <2>3, GoesOnPage DEF ProvidersInv
  <2>7. Serves(n)
    BY <1>4 DEF Serves
  <2> QED  BY <1>1, <1>2, <1>4, <2>3, <2>5, <2>6, <2>7, CoroutineStep DEF ProvidersInv, ServerInv
<1>6. CASE f.kind # "verify"
  <2>1. Concludes(n, models, TRUE)
    BY <1>6 DEF VerificationLost
  <2>2. Interrupted(f.proven, "provider") \in ModelSet
    BY DEF Interrupted, ModelSet, Known
  <2>3. PICK ms \in [Catalogued -> ModelSet] : ms = models
    BY <2>2, ServerType
  <2> HIDE DEF models
  <2>4. Finishes(n)
    BY <2>1, <2>3, ConcludesFinishes DEF ProvidersInv
  <2> QED  BY <1>1, <1>2, <1>4, <2>4, AnswerInv
<1> QED  BY <1>5, <1>6

LEMMA RepliesInv ==
  ASSUME Bounded, ProvidersInv, NEW n \in Mounts, Replies(n)
  PROVE  ProvidersInv'
<1> UNCHANGED pvFlows
  BY DEF Replies
<1>1. CASE Saved(n) \/ SaveFails(n) \/ Connected(n) \/ ConnectionFails(n)
  BY <1>1, SavedInv, SaveFailsInv, ConnectedInv, ConnectionFailsInv
<1>2. CASE refreshProvider(n) \/ Started(n) \/ DiscoveryFails(n) \/ Listed(n)
  BY <1>2, RefreshInv, StartedInv, DiscoveryFailsInv, ListedInv
<1>3. CASE Restarted(n) \/ VerificationBegins(n) \/ AlreadyClaimed(n)
  BY <1>3, RestartedInv, VerificationBeginsInv, AlreadyClaimedInv
<1>4. CASE VerificationLost(n) \/ Relisted(n) \/ Viewed(n)
  BY <1>4, VerificationLostInv, RelistedInv, ViewedInv
<1> QED  BY <1>1, <1>2, <1>3, <1>4 DEF Replies

-----------------------------------------------------------------------------
(* What is pressed on the page, and the list it loads.                     *)

\* No coroutine moves and the server goes on with what it does.
LEMMA StaysInv ==
  ASSUME ProvidersInv, PageInv', UNCHANGED <<pvFlow, pvFlows, pvRefs, pvRest>>,
         provider' \in ProviderRec, provider'.worker = provider.worker
  PROVE  ProvidersInv'
<1>1. WorkInv'
  BY DEF ProvidersInv, WorkInv
<1>2. StopInv'
  BY DEF ProvidersInv, StopInv, pvRest
<1>3. ServerInv'
  BY DEF ProvidersInv, ServerInv, pvRest, ProviderRec, WorkerRec
<1> QED  BY <1>1, <1>2, <1>3 DEF ProvidersInv

LEMMA TurnsInv ==
  ASSUME Bounded, ProvidersInv, NEW page \in PageRec, page.visit = pvPage.visit,
         page.open = pvPage.open, page.busy = pvPage.busy, Turns(page)
  PROVE  ProvidersInv'
<1>1. SameScreen /\ pvPage'.busy = pvPage.busy
  BY DEF Turns, SameScreen
<1>2. PageInv'
  BY <1>1, StaysPage DEF Turns, ProvidersInv, PageInv, RefsRec
<1> QED  BY <1>2, StaysInv, ServerType DEF Turns

LEMMA LoadsInv ==
  ASSUME Bounded, ProvidersInv, LoadReads \/ LoadAnswered
  PROVE  ProvidersInv'
<1>1. CASE LoadReads
  <2>1. PICK answer \in {IF provider.exists THEN "found" ELSE "empty", "failed"} :
          Turns([pvPage EXCEPT !.load = answer])
    BY <1>1 DEF LoadReads
  <2>2. PICK page \in PageRec : page = [pvPage EXCEPT !.load = answer]
    BY ServerType DEF PageRec
  <2>3. page.visit = pvPage.visit /\ page.open = pvPage.open /\ page.busy = pvPage.busy
    BY <2>2, ServerType DEF PageRec
  <2> QED  BY <2>1, <2>2, <2>3, TurnsInv
<1>2. CASE LoadAnswered
  <2> DEFINE p == [pvPage EXCEPT !.load = "idle", !.dropping = FALSE,
                     !.shown = IF pvPage.load = "failed" THEN @ ELSE pvPage.load = "found",
                     !.models = IF pvPage.dropping THEN Nothing ELSE @]
  <2>1. Turns(p)
    BY <1>2 DEF LoadAnswered
  <2>2. PICK ms \in [Catalogued -> ModelSet] :
          ms = IF pvPage.dropping THEN Nothing ELSE pvPage.models
    BY ServerType DEF Nothing, ModelSet
  <2>3. PICK b \in BOOLEAN : b = IF pvPage.load = "failed" THEN pvPage.shown ELSE pvPage.load = "found"
    BY ServerType DEF PageRec
  <2>4. p = [pvPage EXCEPT !.load = "idle", !.dropping = FALSE, !.shown = b, !.models = ms]
    BY <2>2, <2>3
  <2>5. p \in PageRec /\ p.visit = pvPage.visit /\ p.open = pvPage.open /\ p.busy = pvPage.busy
    <3> HIDE DEF p
    <3> QED  BY <2>4, ServerType DEF PageRec
  <2>6. PICK page \in PageRec : page = p
    BY <2>5
  <2> HIDE DEF p
  <2> QED  BY <2>1, <2>5, <2>6, TurnsInv
<1> QED  BY <1>1, <1>2

LEMMA DialogsInv ==
  ASSUME Bounded, ProvidersInv, openCreate \/ openEdit \/ CloseDialog
  PROVE  ProvidersInv'
<1>1. PICK d \in BOOLEAN : Turns([pvPage EXCEPT !.dialog = d])
  BY DEF openCreate, openEdit, CloseDialog
<1>2. PICK page \in PageRec : page = [pvPage EXCEPT !.dialog = d]
  BY ServerType DEF PageRec
<1>3. page.visit = pvPage.visit /\ page.open = pvPage.open /\ page.busy = pvPage.busy
  BY <1>2, ServerType DEF PageRec
<1> QED  BY <1>1, <1>2, <1>3, TurnsInv

LEMMA DeleteInv ==
  ASSUME Bounded, ProvidersInv, Delete
  PROVE  ProvidersInv'
<1>1. /\ provider' = [provider EXCEPT !.exists = FALSE, !.models = Nothing]
      /\ pvPage' = [pvPage EXCEPT !.load = "asked", !.dropping = TRUE]
      /\ UNCHANGED <<pvFlow, pvFlows, pvRefs, pvRest>>
  BY DEF Delete
<1>2. Nothing \in [Catalogued -> ModelSet]
  BY DEF Nothing, ModelSet
<1>3. provider' \in ProviderRec /\ provider'.worker = provider.worker
  BY <1>1, <1>2, ServerType DEF ProviderRec
<1>4. SameScreen /\ pvPage'.busy = pvPage.busy
  BY <1>1, ServerType DEF SameScreen, PageRec
<1>5. PageInv'
  BY <1>1, <1>4, StaysPage DEF ProvidersInv, PageInv, RefsRec
<1> QED  BY <1>1, <1>3, <1>5, StaysInv

LEMMA NewPageIs ==
  ASSUME NEW v \in Mounts
  PROVE  /\ NewPage(v) \in PageRec /\ NewPage(v).visit = v /\ NewPage(v).open
         /\ NewPage(v).busy = "none"
BY DEF NewPage, PageRec, Nothing, ModelSet, Steps

\* A page that is left shows nothing, and its coroutine keeps the lock.
LEMMA UnmountInv ==
  ASSUME Bounded, ProvidersInv, Unmount
  PROVE  ProvidersInv'
<1>1. PICK v \in Mounts : v = pvPage.visit
  BY ServerType DEF PageRec
<1>2. PICK new \in PageRec : new = NewPage(v)
  BY NewPageIs
<1>3. pvPage' = [new EXCEPT !.open = FALSE, !.load = "idle"] /\ UNCHANGED <<provider, pvFlow, pvFlows, pvRefs, pvRest>>
  BY <1>1, <1>2 DEF Unmount, Turns
<1>4. pvPage' \in PageRec /\ pvPage'.visit = v /\ ~pvPage'.open
  BY <1>1, <1>2, <1>3, NewPageIs DEF PageRec
<1>5. PageInv'
  BY <1>1, <1>3, <1>4 DEF ProvidersInv, PageInv, BusyMatchesWork
<1> QED  BY <1>3, <1>5, StaysInv, ServerType

\* The next visit has no coroutine yet.
LEMMA MountInv ==
  ASSUME Bounded, ProvidersInv, Mount
  PROVE  ProvidersInv'
<1>1. PICK v \in Mounts : v = pvPage.visit + 1 /\ v > pvPage.visit
  BY ServerType DEF PageRec, Mount, Mounts, Bounded
<1>2. pvPage' = NewPage(v) /\ UNCHANGED <<provider, pvFlow, pvFlows, pvRefs, pvRest>>
  BY <1>1 DEF Mount, Turns
<1>3. pvPage' \in PageRec /\ pvPage'.visit = v /\ pvPage'.busy = "none"
  BY <1>2, NewPageIs
<1>4. \A n \in Mounts : n > v => n > pvPage.visit
  BY <1>1, ServerType DEF PageRec, Mounts, Bounded
<1>5. pvFlow[v] = NoFlow
  BY <1>1 DEF ProvidersInv, PageInv
<1>6. PageInv'
  BY <1>2, <1>3, <1>4, <1>5 DEF ProvidersInv, PageInv, BusyMatchesWork
<1> QED  BY <1>2, <1>6, StaysInv, ServerType

\* The coroutine of this visit has ended when the page is free.
LEMMA FreeHasNoFlow ==
  ASSUME ProvidersInv, pvPage.open, pvPage.busy = "none"
  PROVE  pvPage.visit \in Mounts /\ pvFlow[pvPage.visit] = NoFlow
BY DEF ProvidersInv, PageInv, BusyMatchesWork, PageRec

\* A coroutine starts on a free page, and takes the lock unless it only saves
\* or lists.
LEMMA BeginsInv ==
  ASSUME Bounded, ProvidersInv, pvPage.open, pvPage.busy = "none",
         NEW f \in FlowRec, Fits(f), f # NoFlow, Begins(f),
         NEW page \in PageRec, page.visit = pvPage.visit, page.open = pvPage.open,
         page.busy # "none", pvPage' = page,
         pvRefs' \in RefsRec,
         pvRefs'.lock = IF f.kind \in Locking THEN pvRefs.lock \union {pvPage.visit} ELSE pvRefs.lock,
         Heard(pvPage.visit), provider' = provider, UNCHANGED <<pvStops, pvLost>>
  PROVE  ProvidersInv'
<1>1. PICK n \in Mounts : n = pvPage.visit
  BY FreeHasNoFlow
<1>2. pvFlow[n] = NoFlow /\ pvFlow[n].at = "idle"
  BY <1>1, FreeHasNoFlow, NoFlowFits
<1>3. pvFlow' \in [Mounts -> FlowRec] /\ pvFlow'[n] = f
      /\ \A x \in Mounts : x # n => pvFlow'[x] = pvFlow[x]
  BY <1>1 DEF Begins, ProvidersInv, PageInv
<1>4. n \in pvRefs'.lock <=> f.kind \in Locking
  BY <1>1, <1>2, LockIs, NoFlowFits DEF ProvidersInv, Locking, Loops
<1>5. SameScreen
  BY DEF SameScreen
<1>6. PageInv'
  BY <1>1, <1>3, <1>4, <1>5, ChangesPage DEF Changes, ProvidersInv
<1>7. Serves(n)
  BY <1>2, SameServes
<1>8. pvFlows' \in 0..MaxFlows
  BY DEF Begins, ProvidersInv, ServerInv, Bounded
<1> QED  BY <1>1, <1>3, <1>6, <1>7, <1>8, ServerType, CoroutineStep DEF ProvidersInv, ServerInv

\* Nothing is said about a Stop by one that starts another coroutine.
LEMMA BeginsHeard ==
  ASSUME ProvidersInv, NEW f \in FlowRec, f.at \notin {"restarting", "sent"} \/ f.kind \notin Loops,
         NEW n \in Mounts, pvFlow' = [pvFlow EXCEPT ![n] = f],
         pvRefs'.stopped = pvRefs.stopped, UNCHANGED pvSince
  PROVE  Heard(n)
<1>1. pvFlow'[n] = f
  BY DEF ProvidersInv, PageInv
<1> QED  BY <1>1 DEF Heard, ProvidersInv, StopInv, ServerInv

LEMMA FlowFits ==
  ASSUME NEW kind \in Kinds, NEW at \in Places \ {"idle"},
         \/ kind \in {"create", "edit"} /\ at = "saving"
         \/ kind \in {"test", "onboard"} /\ at = "testing"
         \/ kind \in {"discover", "continue"} /\ at = "starting"
         \/ kind = "models" /\ at = "viewing"
  PROVE  LET f == Flow(kind, at)
         IN f \in FlowRec /\ Fits(f) /\ f # NoFlow /\ f.kind = kind /\ f.at = at
<1> DEFINE f == Flow(kind, at)
<1>1. f \in FlowRec /\ f.kind = kind /\ f.at = at
  BY NoFlowFits DEF Flow, FlowRec
<1> HIDE DEF f
<1>2. f # NoFlow /\ Fits(f)
  BY <1>1, NoFlowFits DEF Fits, Loops, Verifying
<1> QED  BY <1>1, <1>2 DEF f

LEMMA SubmitInv ==
  ASSUME Bounded, ProvidersInv, NEW changed \in BOOLEAN, Submit(changed)
  PROVE  ProvidersInv'
<1>1. PICK kind \in {"create", "edit"} : kind = IF provider.exists THEN "edit" ELSE "create"
  OBVIOUS
<1>2. PICK phase \in {"none", "changed"} : phase = IF changed THEN "changed" ELSE "none"
  OBVIOUS
<1> DEFINE g == [Flow(kind, "saving") EXCEPT !.phase = phase]
<1>3. Begins(g) /\ pvPage.open /\ pvPage.busy = "none" /\ pvPage' = [pvPage EXCEPT !.busy = "save"]
      /\ pvRefs' = pvRefs /\ provider' = provider /\ UNCHANGED pvRest
  BY <1>1, <1>2 DEF Submit
<1>4. g \in FlowRec /\ Fits(g) /\ g # NoFlow /\ g.kind = kind /\ g.at = "saving"
  <2> DEFINE h == Flow(kind, "saving")
  <2>1. h \in FlowRec /\ h.kind = kind /\ h.at = "saving"
    BY FlowFits DEF Kinds, Places
  <2>2. g = [h EXCEPT !.phase = phase]
    OBVIOUS
  <2> HIDE DEF g, h
  <2>3. g \in FlowRec /\ g.kind = kind /\ g.at = "saving"
    BY <2>1, <2>2 DEF FlowRec
  <2> QED  BY <2>3, NoFlowFits DEF Fits, Loops, Verifying
<1>5. PICK f \in FlowRec : f = g
  BY <1>4
<1> HIDE DEF g
<1>6. PICK page \in PageRec : page = [pvPage EXCEPT !.busy = "save"]
  BY ServerType DEF PageRec
<1>7. page.visit = pvPage.visit /\ page.open = pvPage.open /\ page.busy # "none"
  BY <1>6, ServerType DEF PageRec
<1>8. f.kind \notin Locking /\ pvRefs' \in RefsRec
  BY <1>3, <1>4, <1>5 DEF Locking, Loops, ProvidersInv, PageInv, RefsRec
<1>9. Heard(pvPage.visit)
  BY <1>3, <1>4, <1>5, FreeHasNoFlow, BeginsHeard DEF Begins, pvRest
<1> QED  BY <1>3, <1>4, <1>5, <1>6, <1>7, <1>8, <1>9, BeginsInv DEF pvRest

LEMMA ViewModelsInv ==
  ASSUME Bounded, ProvidersInv, viewModels
  PROVE  ProvidersInv'
<1> DEFINE g == Flow("models", "viewing")
<1>2. g \in FlowRec /\ Fits(g) /\ g # NoFlow /\ g.kind = "models" /\ g.at = "viewing"
  BY FlowFits DEF Kinds, Places
<1>3. Begins(g) /\ pvPage.open /\ pvPage.busy = "none" /\ pvPage' = [pvPage EXCEPT !.busy = "models"]
      /\ pvRefs' = pvRefs /\ provider' = provider /\ UNCHANGED pvRest
  BY DEF viewModels, Free, Listing
<1>4. PICK f \in FlowRec : f = g
  BY <1>2
<1> HIDE DEF g
<1>5. PICK page \in PageRec : page = [pvPage EXCEPT !.busy = "models"]
  BY ServerType DEF PageRec
<1>6. page.visit = pvPage.visit /\ page.open = pvPage.open /\ page.busy # "none"
  BY <1>5, ServerType DEF PageRec
<1>7. f.kind \notin Locking /\ pvRefs' \in RefsRec
  BY <1>2, <1>3, <1>4 DEF Locking, Loops, ProvidersInv, PageInv, RefsRec
<1>8. Heard(pvPage.visit)
  BY <1>2, <1>3, <1>4, FreeHasNoFlow, BeginsHeard DEF Begins, pvRest
<1> QED  BY <1>2, <1>3, <1>4, <1>5, <1>6, <1>7, <1>8, BeginsInv DEF pvRest

\* The three buttons that take the lock.
LEMMA AcquireInv ==
  ASSUME Bounded, ProvidersInv, NEW f \in FlowRec, Fits(f), f # NoFlow, f.kind \in Locking,
         NEW step \in Steps, NEW models \in [Catalogued -> ModelSet], Acquire(f, step, models),
         pvRefs' \in RefsRec, pvRefs'.lock = pvRefs.lock \union {pvPage.visit},
         Heard(pvPage.visit), provider' = provider, UNCHANGED <<pvStops, pvLost>>
  PROVE  ProvidersInv'
<1>1. Begins(f) /\ pvPage.open /\ pvPage.busy = "none"
      /\ pvPage' = [pvPage EXCEPT !.busy = f.kind, !.step = step, !.models = models]
  BY DEF Acquire, Free, Listing
<1>2. f.kind \in {"test", "verify"} \union Loops /\ f.kind # "none"
  BY DEF Locking, Loops
<1>3. PICK page \in PageRec : page = [pvPage EXCEPT !.busy = f.kind, !.step = step, !.models = models]
  BY <1>2, ServerType DEF PageRec
<1>4. page.visit = pvPage.visit /\ page.open = pvPage.open /\ page.busy # "none"
  BY <1>2, <1>3, ServerType DEF PageRec
<1> QED  BY <1>1, <1>3, <1>4, BeginsInv

LEMMA LockedIs ==
  ASSUME ProvidersInv, pvPage.open, pvPage.busy = "none", Locked
  PROVE  pvRefs' \in RefsRec /\ pvRefs'.lock = pvRefs.lock \union {pvPage.visit}
         /\ pvRefs'.stopped = pvRefs.stopped
BY FreeHasNoFlow DEF Locked, ProvidersInv, PageInv, RefsRec

LEMMA TestConnectionInv ==
  ASSUME Bounded, ProvidersInv, testConnection
  PROVE  ProvidersInv'
<1> DEFINE g == Flow("test", "testing")
<1>2. g \in FlowRec /\ Fits(g) /\ g # NoFlow /\ g.kind = "test" /\ g.at = "testing"
  BY FlowFits DEF Kinds, Places
<1>3. Acquire(g, "connecting", pvPage.models) /\ Locked /\ provider' = provider /\ UNCHANGED pvRest
  BY DEF testConnection
<1>4. PICK f \in FlowRec : f = g
  BY <1>2
<1>5. PICK models \in [Catalogued -> ModelSet] : models = pvPage.models
  BY ServerType
<1> HIDE DEF g
<1>6. pvPage.open /\ pvPage.busy = "none" /\ Begins(f)
  BY <1>3, <1>4 DEF Acquire, Free, Listing
<1>7. Heard(pvPage.visit)
  BY <1>2, <1>3, <1>4, <1>6, FreeHasNoFlow, BeginsHeard, LockedIs DEF Begins, pvRest
<1>8. f.kind \in Locking /\ "connecting" \in Steps
  BY <1>2, <1>4 DEF Locking, Steps
<1> QED  BY <1>2, <1>3, <1>4, <1>5, <1>6, <1>7, <1>8, LockedIs, AcquireInv DEF pvRest

LEMMA VerifySingleInv ==
  ASSUME Bounded, ProvidersInv, NEW m \in Catalogued, verifySingle(m)
  PROVE  ProvidersInv'
<1> DEFINE g == [Flow("verify", "restarting") EXCEPT !.model = m, !.proven = Proven(pvPage.models[m])]
           ms == [pvPage.models EXCEPT ![m] = Model("verifying", "none")]
<1>1. Acquire(g, pvPage.step, ms) /\ Locked /\ provider' = provider /\ UNCHANGED pvRest
  BY DEF verifySingle
<1>2. g \in FlowRec /\ g.kind = "verify" /\ g.at = "restarting" /\ g.model = m
  BY NoFlowFits DEF Flow, FlowRec, Kinds, Places, Proven
<1>3. PICK f \in FlowRec : f = g
  BY <1>2
<1>4. Model("verifying", "none") \in ModelSet
  BY DEF ModelSet, Known
<1>5. PICK models \in [Catalogued -> ModelSet] : models = ms
  BY <1>4, ServerType
<1> HIDE DEF g, ms
<1>6. Fits(f) /\ f # NoFlow
  BY <1>2, <1>3, NoFlowFits DEF Fits, Loops, Verifying
<1>7. pvPage.open /\ pvPage.busy = "none" /\ Begins(f)
  BY <1>1, <1>3 DEF Acquire, Free, Listing
<1>8. Heard(pvPage.visit)
  BY <1>1, <1>2, <1>3, <1>7, FreeHasNoFlow, BeginsHeard, LockedIs DEF Begins, pvRest, Loops
<1>9. f.kind \in Locking
  BY <1>2, <1>3 DEF Locking
<1>10. PICK step \in Steps : step = pvPage.step
  BY ServerType DEF PageRec
<1> QED  BY <1>1, <1>3, <1>5, <1>6, <1>7, <1>8, <1>9, <1>10, LockedIs, AcquireInv DEF pvRest

\* An earlier Stop is forgotten with the loop it stopped.
LEMMA DiscoverInv ==
  ASSUME Bounded, ProvidersInv, NEW kind \in {"discover", "continue"}, discover(kind)
  PROVE  ProvidersInv'
<1> DEFINE g == Flow(kind, "starting")
<1>2. g \in FlowRec /\ Fits(g) /\ g # NoFlow /\ g.kind = kind /\ g.at = "starting"
  BY FlowFits DEF Kinds, Places, Loops
<1>3. Acquire(g, "discovering", pvPage.models) /\ provider' = provider
      /\ pvRefs' = [lock |-> pvRefs.lock \union {pvPage.visit}, stopped |-> pvRefs.stopped \ {pvPage.visit}]
      /\ pvSince' = [pvSince EXCEPT ![pvPage.visit] = 0] /\ UNCHANGED <<pvStops, pvLost>>
  BY DEF discover
<1>4. PICK f \in FlowRec : f = g
  BY <1>2
<1>5. PICK models \in [Catalogued -> ModelSet] : models = pvPage.models
  BY ServerType
<1> HIDE DEF g
<1>6. pvPage.open /\ pvPage.busy = "none" /\ Begins(f)
  BY <1>3, <1>4 DEF Acquire, Free, Listing
<1>7. PICK n \in Mounts : n = pvPage.visit
  BY <1>6, FreeHasNoFlow
<1>8. pvRefs' \in RefsRec /\ pvRefs'.lock = pvRefs.lock \union {pvPage.visit}
      /\ pvRefs'.stopped = pvRefs.stopped \ {n}
  BY <1>3, <1>7 DEF ProvidersInv, PageInv, RefsRec
<1>9. Heard(n)
  BY <1>3, <1>7, <1>8 DEF Heard, ProvidersInv, ServerInv
<1>10. f.kind \in Locking /\ "discovering" \in Steps
  BY <1>2, <1>4 DEF Locking, Steps, Loops
<1> QED  BY <1>2, <1>3, <1>4, <1>5, <1>6, <1>7, <1>8, <1>9, <1>10, AcquireInv

\* Stop is on record before its request is sent.
LEMMA StopInvStep ==
  ASSUME Bounded, ProvidersInv, stopQualification
  PROVE  ProvidersInv'
<1>1. PICK n \in Mounts : n = pvPage.visit
  BY ServerType DEF PageRec
<1>2. /\ pvRefs' = [pvRefs EXCEPT !.stopped = @ \union {n}] /\ pvStops' = pvStops \union {n}
      /\ pvSince' = [pvSince EXCEPT ![n] = IF @ = 0 THEN 1 ELSE @]
      /\ UNCHANGED <<provider, pvPage, pvFlow, pvFlows, pvLost>>
  BY <1>1 DEF stopQualification
<1>3. pvRefs' \in RefsRec /\ pvRefs'.lock = pvRefs.lock /\ pvRefs'.stopped = pvRefs.stopped \union {n}
  BY <1>2 DEF ProvidersInv, PageInv, RefsRec
<1>4. PageInv'
  BY <1>2, <1>3, StaysPage DEF ProvidersInv, PageInv, SameScreen
<1>5. Serves(n)
  BY <1>2, SameServes DEF Serves, ProvidersInv, WorkInv
<1>6. Heard(n)
  BY <1>2, <1>3 DEF Heard, ProvidersInv, StopInv, ServerInv
<1> QED  BY <1>2, <1>4, <1>5, <1>6, ServerType, CoroutineStep DEF ProvidersInv, ServerInv

LEMMA StopArrivesInv ==
  ASSUME Bounded, ProvidersInv, NEW n \in Mounts, StopArrives(n)
  PROVE  ProvidersInv'
<1>1. PICK reached \in BOOLEAN : provider' = [provider EXCEPT !.token = @ \/ reached]
  BY DEF StopArrives
<1>2. pvStops' = pvStops \ {n} /\ UNCHANGED <<pvPage, pvFlow, pvFlows, pvRefs, pvLost, pvSince>>
  BY DEF StopArrives
<1>3. provider' \in ProviderRec /\ provider'.worker = provider.worker
  <2>1. PICK b \in BOOLEAN : b = (provider.token \/ reached)
    BY ServerType DEF ProviderRec
  <2> QED  BY <1>1, <2>1, ServerType DEF ProviderRec
<1>4. PageInv' /\ WorkInv' /\ StopInv'
  BY <1>2, <1>3 DEF ProvidersInv, PageInv, BusyMatchesWork, WorkInv, StopInv
<1>5. ServerInv'
  BY <1>2, <1>3 DEF ProvidersInv, ServerInv, ProviderRec, WorkerRec
<1> QED  BY <1>4, <1>5 DEF ProvidersInv

-----------------------------------------------------------------------------
(* The invariant, and what the runs check of it.                           *)

LEMMA PressInv ==
  ASSUME Bounded, ProvidersInv, Press
  PROVE  ProvidersInv'
BY DialogsInv, UnmountInv, MountInv, DeleteInv, SubmitInv, TestConnectionInv, ViewModelsInv,
   StopInvStep, DiscoverInv, VerifySingleInv DEF Press

LEMMA ProvidersStep ==
  ASSUME Bounded, ProvidersInv, ProvidersNext
  PROVE  ProvidersInv'
BY LoadsInv, PressInv, RepliesInv, StopArrivesInv, VerificationEndsInv DEF ProvidersNext

LEMMA ProvidersStutter ==
  ASSUME ProvidersInv, UNCHANGED pvVars
  PROVE  ProvidersInv'
BY DEF ProvidersInv, PageInv, BusyMatchesWork, WorkInv, StopInv, ServerInv, pvVars, pvRest

LEMMA ProvidersStart ==
  ASSUME Bounded, ProvidersInit
  PROVE  ProvidersInv
<1>1. PICK stored \in BOOLEAN :
        provider = [exists |-> stored, models |-> Nothing, token |-> FALSE,
                    worker |-> [m \in Catalogued |-> NoWorker]]
  BY DEF ProvidersInit
<1>2. 1 \in Mounts /\ NoWorker \in WorkerRec /\ NoWorker.for = 0
  BY DEF Mounts, Bounded, NoWorker, WorkerRec
<1>3. ServerInv
  <2>1. provider \in ProviderRec
    BY <1>1, <1>2 DEF ProviderRec, Nothing, ModelSet
  <2> QED  BY <2>1 DEF ServerInv, ProvidersInit, Bounded, ProviderRec, WorkerRec
<1>4. WorkInv
  BY <1>1, <1>2 DEF WorkInv, Mounts
<1>5. StopInv
  BY DEF StopInv, ProvidersInit
<1>6. PageInv
  <2>1. pvPage \in PageRec /\ pvPage.visit = 1 /\ pvPage.busy = "none"
    BY <1>2, NewPageIs DEF ProvidersInit
  <2>2. pvFlow \in [Mounts -> FlowRec] /\ \A n \in Mounts : pvFlow[n] = NoFlow
    BY NoFlowFits DEF ProvidersInit
  <2>3. pvRefs \in RefsRec /\ pvRefs.lock = {}
    BY DEF ProvidersInit, RefsRec
  <2>4. BusyMatchesWork
    BY <1>2, <2>1, <2>2, <2>3, NoFlowFits DEF BusyMatchesWork, Loops
  <2> QED  BY <2>1, <2>2, <2>3, <2>4, NoFlowFits DEF PageInv, RefsRec
<1> QED  BY <1>3, <1>4, <1>5, <1>6 DEF ProvidersInv

LEMMA ProvidersPromise ==
  ASSUME Bounded, ProvidersInv
  PROVE  ProvidersTypeOK /\ StopIsHeard /\ BusyMatchesWork
<1>1. StopIsHeard /\ BusyMatchesWork
  BY DEF ProvidersInv, PageInv, StopInv, StopIsHeard
<1>2. ProvidersTypeOK
  BY ServerType DEF ProvidersTypeOK, ProvidersInv, ServerInv, PageInv, PageRec, FlowRec,
     ModelSet, Steps, ProviderRec, WorkerRec
<1> QED  BY <1>1, <1>2

=============================================================================
