--------------------------- MODULE ProvidersPage ---------------------------
(***************************************************************************)
(* The Providers page (pages/providers.tsx): connection tests, discovery   *)
(* and the qualification loop, which asks the server to verify one model   *)
(* after the other until it is stopped.  One action is what runs between   *)
(* two awaits, or a step of the server.                                    *)
(*                                                                         *)
(* One connection is followed: busy belongs to the whole page and keeps    *)
(* the buttons of every connection off.  A page that is left keeps its     *)
(* coroutine, so Mounts numbers the visits: the setters of an earlier      *)
(* visit have no effect, its requests have.                                *)
(***************************************************************************)
EXTENDS Naturals, FiniteSets

CONSTANTS Catalogued,  \* models the vendor lists
          MaxMounts,   \* bound: visits to the page
          MaxLost,     \* bound: verifications whose answer is lost
          MaxFlows     \* bound: coroutines started

VARIABLES
  provider,  \* the server: the connection, its models, its control's Event
  pvPage,    \* the React state of the visit that is, or was last, on screen
  pvFlow,    \* the coroutine of each visit
  pvRefs,    \* activeProviderWork and stoppedQualification, by visit
  pvStops,   \* visits with a stop request under way
  pvLost,    \* answers lost so far
  pvFlows,   \* coroutines started so far
  pvSince    \* history: verifications a loop began since Stop, plus one

pvRest == <<pvStops, pvLost, pvSince>>
pvVars == <<provider, pvPage, pvFlow, pvFlows, pvRefs, pvRest>>

Mounts == 1..MaxMounts

\* scope is that of a pending attempt: the provider's, or the model's only.
Model(s, scope) == [status |-> s, attempt |-> scope]
Absent  == Model("absent", "none")
Known   == {Model("unknown", "none"), Model("verifying", "none"),
            Model("qualified", "none"), Model("qualified", "provider"),
            Model("unavailable", "none"),
            Model("transient_error", "provider"), Model("transient_error", "model")}
Nothing == [m \in Catalogued |-> Absent]

NoWorker == [for |-> 0, doomed |-> FALSE, proven |-> FALSE]
NoFlow   == [kind |-> "none", at |-> "idle", todo |-> {}, model |-> "none",
             proven |-> FALSE, phase |-> "none"]
Flow(kind, at) == [NoFlow EXCEPT !.kind = kind, !.at = at]
Loops    == {"onboard", "discover", "continue"}

NewPage(visit) ==
  [visit |-> visit, open |-> TRUE, shown |-> FALSE, models |-> Nothing, step |-> "none",
   dialog |-> FALSE, busy |-> "none", load |-> "asked", dropping |-> FALSE]

ProvidersInit ==
  /\ \E stored \in BOOLEAN :
       provider = [exists |-> stored, models |-> Nothing, token |-> FALSE,
                   worker |-> [m \in Catalogued |-> NoWorker]]
  /\ pvPage = NewPage(1)
  /\ pvFlow = [n \in Mounts |-> NoFlow]
  /\ pvRefs = [lock |-> {}, stopped |-> {}]
  /\ pvStops = {} /\ pvLost = 0 /\ pvFlows = 0
  /\ pvSince = [n \in Mounts |-> 0]

-----------------------------------------------------------------------------
(* lib/provider-models.ts.                                                 *)

isProviderVerificationBlocked(x) ==
  \/ x.attempt = "provider"
  \/ x.status = "transient_error" /\ x.attempt # "model"

\* later: retry_at lies ahead; old: the last check is a day ago, or never was.
needsQualification(x, later, old) ==
  /\ x.status \notin {"absent", "verifying"} /\ ~later
  /\ \/ x.status \in {"unknown", "transient_error"}
     \/ x.attempt # "none"
     \/ old

Proven(x) == x.status = "qualified"

\* pending and rechecks of the counts.
Outstanding(x) == \/ x.status \in {"unknown", "transient_error", "verifying"}
                  \/ Proven(x) /\ x.attempt # "none"

-----------------------------------------------------------------------------

\* The setters of visit n; those of an earlier visit do nothing.
Sets(n, new) == pvPage' = IF pvPage.open /\ n = pvPage.visit THEN new ELSE pvPage
Proceed(n, at) == pvFlow' = [pvFlow EXCEPT ![n].at = at]

\* finally: the lock and busy are given back, with the page as it then is.
Release(n, page) ==
  /\ pvFlow' = [pvFlow EXCEPT ![n] = NoFlow]
  /\ pvRefs' = [pvRefs EXCEPT !.lock = @ \ {n}]
  /\ Sets(n, [page EXCEPT !.busy = "none"])

\* The row and its buttons are on screen, and no modal dialog is over them.
Listing == pvPage.open /\ pvPage.shown /\ pvPage.load = "idle" /\ ~pvPage.dropping
Free    == Listing /\ pvPage.busy = "none"

\* A coroutine of this visit starts.
Begins(f) ==
  /\ pvFlows < MaxFlows /\ pvFlows' = pvFlows + 1
  /\ pvFlow' = [pvFlow EXCEPT ![pvPage.visit] = f]

Acquire(f, step, models) ==
  /\ Free /\ pvPage.visit \notin pvRefs.lock
  /\ pvPage' = [pvPage EXCEPT !.busy = f.kind, !.step = step, !.models = models]
  /\ Begins(f)

Locked == pvRefs' = [pvRefs EXCEPT !.lock = @ \union {pvPage.visit}]

-----------------------------------------------------------------------------
(* loadPage, the dialogs, leaving and coming back.                         *)

Turns(page) == pvPage' = page /\ UNCHANGED <<provider, pvFlow, pvFlows, pvRefs, pvRest>>

LoadReads ==
  /\ pvPage.load = "asked"
  /\ \E answer \in {IF provider.exists THEN "found" ELSE "empty", "failed"} :
       Turns([pvPage EXCEPT !.load = answer])

\* onDeleted forgets the models once the list is back.
LoadAnswered ==
  /\ pvPage.load \in {"found", "empty", "failed"}
  /\ Turns([pvPage EXCEPT !.load = "idle", !.dropping = FALSE,
              !.shown = IF pvPage.load = "failed" THEN @ ELSE pvPage.load = "found",
              !.models = IF pvPage.dropping THEN Nothing ELSE @])

\* The form of a new connection can be opened while the page is busy.
openCreate  == /\ pvPage.open /\ ~pvPage.dropping /\ ~pvPage.dialog /\ ~provider.exists
               /\ Turns([pvPage EXCEPT !.dialog = TRUE])
openEdit    == Free /\ ~pvPage.dialog /\ provider.exists /\ Turns([pvPage EXCEPT !.dialog = TRUE])
CloseDialog == pvPage.dialog /\ Turns([pvPage EXCEPT !.dialog = FALSE])

\* ResourceDependencyDialog has removed the connection, which nothing uses.
Delete ==
  /\ Free /\ provider.exists
  /\ provider' = [provider EXCEPT !.exists = FALSE, !.models = Nothing]
  /\ pvPage' = [pvPage EXCEPT !.load = "asked", !.dropping = TRUE]
  /\ UNCHANGED <<pvFlow, pvFlows, pvRefs, pvRest>>

\* Fresh state and fresh refs; what the last visit left running goes on.
Unmount == pvPage.open /\ Turns([NewPage(pvPage.visit) EXCEPT !.open = FALSE, !.load = "idle"])
Mount   == ~pvPage.open /\ pvPage.visit < MaxMounts /\ Turns(NewPage(pvPage.visit + 1))

-----------------------------------------------------------------------------
(* submit.                                                                 *)

\* changed: the form differs from the connection in more than its name.  A
\* second connection is not followed.
Submit(changed) ==
  /\ pvPage.open /\ pvPage.busy = "none" /\ ~pvPage.dropping
  /\ pvPage.dialog /\ (provider.exists \/ changed)
  /\ pvPage' = [pvPage EXCEPT !.busy = "save"]
  /\ Begins([Flow(IF provider.exists THEN "edit" ELSE "create", "saving")
               EXCEPT !.phase = IF changed THEN "changed" ELSE "none"])
  /\ UNCHANGED <<provider, pvRefs, pvRest>>

\* The server drops the models of a connection whose configuration changed.
\* The dialog is closed, whatever it shows by now.
Saved(n) ==
  LET f       == pvFlow[n]
      changed == f.phase = "changed"
      page    == [pvPage EXCEPT !.shown = @ \/ f.kind = "create", !.dialog = FALSE,
                                !.models = IF f.kind = "edit" /\ changed THEN Nothing ELSE @]
  IN /\ f.at = "saving" /\ (f.kind = "edit" <=> provider.exists)
     /\ provider' = [provider EXCEPT !.exists = TRUE,
                                     !.models = IF changed THEN Nothing ELSE @]
     /\ IF changed /\ n \notin pvRefs.lock
        THEN /\ pvFlow' = [pvFlow EXCEPT ![n] = Flow("onboard", "testing")]
             /\ pvRefs' = [pvRefs EXCEPT !.lock = @ \union {n}]
             /\ Sets(n, [page EXCEPT !.busy = "onboard", !.step = "connecting"])
        ELSE Release(n, page)
     /\ UNCHANGED pvRest

\* Variant with a mistake: no finally clause, so a failed save stays busy.
SaveFailsBusy(n) ==
  /\ pvFlow[n].at = "saving" /\ pvFlow' = [pvFlow EXCEPT ![n] = NoFlow]
  /\ UNCHANGED <<provider, pvPage, pvRefs, pvRest>>

SaveFails(n) ==
  /\ pvFlow[n].at = "saving"
  /\ Release(n, pvPage)
  /\ UNCHANGED <<provider, pvRest>>

-----------------------------------------------------------------------------
(* testConnection, and the test with which onboarding begins.              *)

testConnection ==
  /\ Acquire(Flow("test", "testing"), "connecting", pvPage.models)
  /\ Locked
  /\ UNCHANGED <<provider, pvRest>>

Connected(n) ==
  /\ pvFlow[n].at = "testing" /\ provider.exists
  /\ IF pvFlow[n].kind = "test"
     THEN Release(n, [pvPage EXCEPT !.step = "connected"]) /\ UNCHANGED pvSince
     ELSE /\ Proceed(n, "starting")
          /\ Sets(n, [pvPage EXCEPT !.step = "discovering"])
          /\ pvRefs' = [pvRefs EXCEPT !.stopped = @ \ {n}]
          /\ pvSince' = [pvSince EXCEPT ![n] = 0]
  /\ UNCHANGED <<provider, pvStops, pvLost>>

\* catch: the list is read again before the failure is shown.
Fails(n, phase) ==
  /\ pvFlow' = [pvFlow EXCEPT ![n].at = "refreshing", ![n].phase = phase]
  /\ UNCHANGED <<provider, pvPage, pvRefs, pvRest>>

ConnectionFails(n) == pvFlow[n].at = "testing" /\ Fails(n, "connection_failed")

refreshProvider(n) ==
  /\ pvFlow[n].at = "refreshing"
  /\ \E shown \in {pvPage.shown, provider.exists} :
       Release(n, [pvPage EXCEPT !.shown = shown, !.step = pvFlow[n].phase])
  /\ UNCHANGED <<provider, pvRest>>

-----------------------------------------------------------------------------
(* runDiscoveryWorkflow.                                                   *)

\* Discover and Continue; an earlier Stop is forgotten.
discover(kind) ==
  /\ Acquire(Flow(kind, "starting"), "discovering", pvPage.models)
  /\ pvRefs' = [lock |-> pvRefs.lock \union {pvPage.visit},
                stopped |-> pvRefs.stopped \ {pvPage.visit}]
  /\ pvSince' = [pvSince EXCEPT ![pvPage.visit] = 0]
  /\ UNCHANGED <<provider, pvStops, pvLost>>

\* start_qualification renews the Event unless somebody is being served.
startQualification ==
  provider' = [provider EXCEPT !.token = @ /\ \E m \in Catalogued : provider.worker[m] # NoWorker]

Started(n) ==
  /\ pvFlow[n].at = "starting" /\ provider.exists
  /\ startQualification
  /\ Proceed(n, "listing")
  /\ UNCHANGED <<pvPage, pvRefs, pvRest>>

DiscoveryFails(n) == pvFlow[n].at \in {"starting", "listing"} /\ Fails(n, "discovery_failed")

\* The end of the loop: "ready" needs all models to be settled.
Concludes(n, models, paused) ==
  Release(n, [pvPage EXCEPT !.models = models, !.step =
    IF paused \/ \E m \in Catalogued : Outstanding(models[m])
    THEN "verification_paused" ELSE "ready"])

\* Variant with a mistake: the loop does not look whether it was stopped.
HeadDeaf(n, models, todo) ==
  IF todo = {} THEN Concludes(n, models, FALSE)
  ELSE \E m \in todo :
         /\ Sets(n, [pvPage EXCEPT !.step = "verifying"])
         /\ pvFlow' = [pvFlow EXCEPT ![n] =
              [@ EXCEPT !.at = "restarting", !.model = m, !.todo = todo \ {m}]]
         /\ UNCHANGED pvRefs

\* The head of the loop: a Stop on record pauses, otherwise one of the models
\* not yet tried is shown as being verified.
Head(n, models, todo) ==
  IF todo = {} \/ n \in pvRefs.stopped
  THEN Concludes(n, models, todo # {})
  ELSE \E m \in todo :
         /\ Sets(n, [pvPage EXCEPT !.step = "verifying",
                       !.models = [models EXCEPT ![m] = Model("verifying", "none")]])
         /\ pvFlow' = [pvFlow EXCEPT ![n] =
              [@ EXCEPT !.at = "restarting", !.model = m, !.proven = Proven(models[m]), !.todo = todo \ {m}]]
         /\ UNCHANGED pvRefs

\* discoverModelCatalog adds what the vendor lists; listModels only reads.
Listed(n) ==
  LET models == [m \in Catalogued |->
                   IF pvFlow[n].kind # "continue" /\ provider.models[m] = Absent
                   THEN Model("unknown", "none") ELSE provider.models[m]]
  IN /\ pvFlow[n].at = "listing" /\ provider.exists
     /\ provider' = [provider EXCEPT !.models = models]
     /\ \E later, old \in SUBSET Catalogued :
          Head(n, models, {m \in Catalogued : needsQualification(models[m], m \in later, m \in old)})
     /\ UNCHANGED pvRest

\* The control is started again before every verification.
Restarted(n) ==
  /\ pvFlow[n].at = "restarting" /\ provider.exists
  /\ startQualification
  /\ Proceed(n, "sent")
  /\ UNCHANGED <<pvPage, pvRefs, pvRest>>

\* A claim that succeeds; a control that is set refuses its first request.
VerificationBegins(n) ==
  LET f == pvFlow[n] IN
  /\ f.at = "sent" /\ provider.models[f.model].status \notin {"absent", "verifying"}
  /\ provider' = [provider EXCEPT
       !.models[f.model] = Model("verifying", "none"),
       !.worker[f.model] = [for |-> n, doomed |-> provider.token,
                            proven |-> Proven(provider.models[f.model])]]
  /\ pvSince' = [pvSince EXCEPT ![n] = IF f.kind \in Loops /\ @ \in {1, 2} THEN @ + 1 ELSE @]
  /\ Proceed(n, "verifying")
  /\ UNCHANGED <<pvPage, pvRefs, pvStops, pvLost>>

\* What the page makes of an answer: a blocked provider ends the loop.
Answer(n, x) ==
  LET f == pvFlow[n]
      models == [pvPage.models EXCEPT ![f.model] = x]
  IN IF f.kind = "verify" THEN Release(n, [pvPage EXCEPT !.models = models])
     ELSE IF isProviderVerificationBlocked(x) THEN Concludes(n, models, TRUE)
     ELSE Head(n, models, f.todo)

\* Somebody else verifies the model: the answer is its row as it stands.
AlreadyClaimed(n) ==
  /\ pvFlow[n].at = "sent"
  /\ provider.models[pvFlow[n].model].status = "verifying"
  /\ Answer(n, Model("verifying", "none"))
  /\ UNCHANGED <<provider, pvRest>>

\* A qualified model keeps its status through an attempt that did not finish.
Interrupted(proven, scope) ==
  Model(IF proven THEN "qualified" ELSE "transient_error", scope)

Outcomes(w) ==
  {Interrupted(w.proven, "provider")} \union
  IF w.doomed THEN {}
  ELSE {Model("qualified", "none"), Model("unavailable", "none")}
       \union (IF w.proven THEN {} ELSE {Model("transient_error", "model")})

\* The server is done; the row may have been dropped with the configuration,
\* which is an error for the one who waits.
VerificationEnds(m) ==
  LET w == provider.worker[m]
      kept == provider.models[m] # Absent
  IN /\ w # NoWorker
     /\ \E x \in Outcomes(w) :
          /\ provider' = [provider EXCEPT !.models[m] = IF kept THEN x ELSE Absent,
                                          !.worker[m] = NoWorker]
          /\ IF kept /\ w.for \in Mounts THEN Answer(w.for, x)
                                         ELSE UNCHANGED <<pvPage, pvFlow, pvRefs>>
     /\ UNCHANGED <<pvFlows, pvRest>>

\* A request fails or its answer is lost: the loop ends, a single check asks
\* for the list.  The server goes on with what it has begun.
VerificationLost(n) ==
  LET f == pvFlow[n]
      goesOn == f.at = "verifying" /\ provider.worker[f.model].for = n
  IN /\ f.at \in {"restarting", "sent", "verifying"}
     /\ IF goesOn THEN pvLost < MaxLost /\ pvLost' = pvLost + 1 ELSE pvLost' = pvLost
     /\ provider' = [provider EXCEPT !.worker =
          [m \in Catalogued |-> IF @[m].for = n THEN [@[m] EXCEPT !.for = 0] ELSE @[m]]]
     /\ IF f.kind = "verify" THEN Proceed(n, "relisting") /\ UNCHANGED <<pvPage, pvRefs>>
        ELSE Concludes(n, [pvPage.models EXCEPT ![f.model] = Interrupted(f.proven, "provider")], TRUE)
     /\ UNCHANGED <<pvStops, pvSince>>

-----------------------------------------------------------------------------
(* verifySingle, viewModels, stopQualification.                            *)

verifySingle(m) ==
  /\ pvPage.models[m].status \notin {"absent", "verifying"}
  /\ Acquire([Flow("verify", "restarting") EXCEPT !.model = m, !.proven = Proven(pvPage.models[m])],
             pvPage.step, [pvPage.models EXCEPT ![m] = Model("verifying", "none")])
  /\ Locked
  /\ UNCHANGED <<provider, pvRest>>

\* The list of the catch; without an answer the model stays as it was shown.
Relisted(n) ==
  /\ pvFlow[n].at = "relisting"
  /\ \E models \in {pvPage.models, provider.models} : Release(n, [pvPage EXCEPT !.models = models])
  /\ UNCHANGED <<provider, pvRest>>

\* Opening the list of models takes busy and not the lock.
viewModels ==
  /\ Free
  /\ pvPage' = [pvPage EXCEPT !.busy = "models"]
  /\ Begins(Flow("models", "viewing"))
  /\ UNCHANGED <<provider, pvRefs, pvRest>>

Viewed(n) ==
  /\ pvFlow[n].at = "viewing"
  /\ \E models \in {pvPage.models, provider.models} :
       Sets(n, [pvPage EXCEPT !.models = models, !.busy = "none"])
  /\ pvFlow' = [pvFlow EXCEPT ![n] = NoFlow]
  /\ UNCHANGED <<provider, pvRefs, pvRest>>

\* The button is there while a model is being verified.
stopQualification ==
  /\ Listing /\ pvPage.step = "verifying" /\ pvPage.visit \in pvRefs.lock
  /\ pvRefs' = [pvRefs EXCEPT !.stopped = @ \union {pvPage.visit}]
  /\ pvStops' = pvStops \union {pvPage.visit}
  /\ pvSince' = [pvSince EXCEPT ![pvPage.visit] = IF @ = 0 THEN 1 ELSE @]
  /\ UNCHANGED <<provider, pvPage, pvFlow, pvFlows, pvLost>>

\* The request reaches the control, at some time, or is lost.
StopArrives(n) ==
  /\ n \in pvStops /\ pvStops' = pvStops \ {n}
  /\ \E reached \in BOOLEAN : provider' = [provider EXCEPT !.token = @ \/ reached]
  /\ UNCHANGED <<pvPage, pvFlow, pvFlows, pvRefs, pvLost, pvSince>>

-----------------------------------------------------------------------------

Press == \/ openCreate \/ openEdit \/ CloseDialog \/ Unmount \/ Mount \/ Delete
         \/ \E changed \in BOOLEAN : Submit(changed)
         \/ testConnection \/ viewModels \/ stopQualification
         \/ \E kind \in {"discover", "continue"} : discover(kind)
         \/ \E m \in Catalogued : verifySingle(m)

\* What answers a request of a visit.
Replies(n) ==
  /\ \/ Saved(n) \/ SaveFails(n) \/ Connected(n) \/ ConnectionFails(n) \/ refreshProvider(n)
     \/ Started(n) \/ DiscoveryFails(n) \/ Listed(n) \/ Restarted(n) \/ VerificationBegins(n)
     \/ AlreadyClaimed(n) \/ VerificationLost(n) \/ Relisted(n) \/ Viewed(n)
  /\ UNCHANGED pvFlows

ProvidersNext ==
  \/ LoadReads \/ LoadAnswered \/ Press
  \/ \E n \in Mounts : Replies(n) \/ StopArrives(n)
  \/ \E m \in Catalogued : VerificationEnds(m)

ProvidersSpec == ProvidersInit /\ [][ProvidersNext]_pvVars

-----------------------------------------------------------------------------

ProvidersTypeOK ==
  /\ provider.models \in [Catalogued -> Known \union {Absent}]
  /\ \A m \in Catalogued : provider.worker[m].for \in 0..MaxMounts
  /\ pvPage \in [visit : Mounts, open : BOOLEAN, shown : BOOLEAN,
                 models : [Catalogued -> Known \union {Absent}],
                 step : {"none", "connecting", "connected", "discovering", "verifying", "ready",
                         "verification_paused", "connection_failed", "discovery_failed"},
                 dialog : BOOLEAN,
                 busy : {"none", "save", "test", "models", "verify"} \union Loops,
                 load : {"idle", "asked", "found", "empty", "failed"}, dropping : BOOLEAN]
  /\ pvRefs \in [lock : SUBSET Mounts, stopped : SUBSET Mounts] /\ pvStops \subseteq Mounts
  /\ pvLost \in 0..MaxLost /\ pvFlows \in 0..MaxFlows
  /\ \A n \in Mounts : pvFlow[n].todo \subseteq Catalogued /\ pvSince[n] \in 0..3

\* Once Stop is pressed, the loop begins at most the verification whose
\* requests are already on their way, although the loop renews the server's
\* control before every model and the stop request may overtake it or fall
\* behind (providers.tsx, stopQualification and the head of the loop).
StopIsHeard == \A n \in Mounts : pvSince[n] <= 2

\* The page is busy exactly while a coroutine of this visit runs, and every
\* path out of it gives back the lock, without which the connection could not
\* be tested, checked or stopped again (providers.tsx, the finally blocks).
BusyMatchesWork ==
  /\ pvPage.open => (pvPage.busy # "none" <=> pvFlow[pvPage.visit] # NoFlow)
  /\ pvRefs.lock = {n \in Mounts : pvFlow[n].kind \in Loops \union {"test", "verify"}}

\* Whatever is lost or stopped, the page always becomes free again.
ProvidersSettle == []<>(pvPage.busy = "none")
=============================================================================
