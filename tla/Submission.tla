----------------------------- MODULE Submission -----------------------------
(***************************************************************************)
(* Retry-safe submission of Public API V2 on top of RunLifecycle: requests *)
(* of one API token that carry one Idempotency-Key, or none.  submit_run   *)
(* holds a process-wide lock from its look at the key to the hand-over to  *)
(* the coordinator, but commits the Run, its mapping and a withdrawal one  *)
(* after the other, and the process may stop between two commits.          *)
(***************************************************************************)
EXTENDS RunLifecycle

CONSTANTS
  Requests,   \* POST /runs requests
  Bodies,     \* canonical request hashes
  Life,       \* ticks a mapping lives (24 hours in the code)
  MaxClock    \* bound: ticks in a behaviour

ASSUME LifeAssumption == Life \in Nat \ {0, 1} /\ MaxClock \in Nat

VARIABLES
  clock,
  lock,      \* the request that holds _idempotency_lock, as a set
  stage,     \* progress of each request
  body,      \* its canonical body
  keyed,     \* it carries the key
  now,       \* the time it has read before it waits for the lock
  made,      \* the Run it has prepared, as a set
  answer,    \* the Run its 202 names, as a set
  mapping    \* the row of run_idempotency for the key, as a set

requestVars == <<stage, body, keyed, now, made, answer>>
keyVars == <<clock, lock, requestVars, mapping>>
submissionVars == <<vars, keyVars>>

InFlight == {"waiting", "prepared", "mapped", "refused"}
Ended    == {"accepted", "conflict", "not_ready", "capacity", "lost"}
Mapping  == [run : Runs, body : Bodies, expires : Nat]

\* The lock is held by one request, which still has a commit or the hand-over
\* to do: no way out of the handler and no crash keeps it.
SubmissionTypeOK ==
  /\ clock \in 0..MaxClock
  /\ lock \subseteq {q \in Requests : stage[q] \in {"prepared", "mapped", "refused"}}
  /\ Cardinality(lock) <= 1
  /\ stage \in [Requests -> {"new"} \union InFlight \union Ended]
  /\ body \in [Requests -> Bodies]
  /\ keyed \in [Requests -> BOOLEAN]
  /\ now \in [Requests -> 0..MaxClock]
  /\ made \in [Requests -> SUBSET Runs]
  /\ answer \in [Requests -> SUBSET Runs]
  /\ mapping \in SUBSET Mapping /\ Cardinality(mapping) <= 1

SubmissionInit ==
  /\ Init
  /\ clock = 0
  /\ lock = {}
  /\ stage = [q \in Requests |-> "new"]
  /\ body \in [Requests -> Bodies]
  /\ keyed \in [Requests -> BOOLEAN]
  /\ now = [q \in Requests |-> 0]
  /\ made = [q \in Requests |-> {}]
  /\ answer = [q \in Requests |-> {}]
  /\ mapping = {}

Becomes(q, from, to) == stage[q] = from /\ stage' = [stage EXCEPT ![q] = to]

\* A row of run_idempotency for the request's Run.
Maps(q, until) ==
  mapping' = mapping \union
    {[run |-> r, body |-> body[q], expires |-> until] : r \in {x \in made[q] : keyed[q]}}

\* The unexpired mapping a request finds, if it carries the key.
Found(q) == {m \in mapping : keyed[q] /\ m.expires > now[q]}

-----------------------------------------------------------------------------
(* Variants with a mistake in them.                                        *)

\* The lock is not taken.
PrepareUnlocked(q, r) ==
  /\ Becomes(q, "waiting", "prepared")
  /\ Found(q) = {}
  /\ Prepare(r, "public")
  /\ made' = [made EXCEPT ![q] = {r}]
  /\ mapping' = {m \in mapping : ~keyed[q]}
  /\ UNCHANGED <<clock, lock, body, keyed, now, answer>>

\* The lock covers the commits but not the hand-over.
MapAndUnlock(q) ==
  /\ Becomes(q, "prepared", "mapped")
  /\ lock' = {}
  /\ Maps(q, now[q] + Life)
  /\ UNCHANGED <<vars, clock, body, keyed, now, made, answer>>

\* The mapping has expired when it is written.
MapExpired(q) ==
  /\ Becomes(q, "prepared", "mapped")
  /\ Maps(q, now[q])
  /\ UNCHANGED <<vars, clock, lock, body, keyed, now, made, answer>>

-----------------------------------------------------------------------------
(* submit_run.                                                             *)

Arrive(q) ==
  /\ phase = "up"
  /\ Becomes(q, "new", "waiting")
  /\ now' = [now EXCEPT ![q] = clock]
  /\ UNCHANGED <<vars, clock, lock, body, keyed, made, answer, mapping>>

\* The same key and body: the existing Run is named again.
Existing(q) ==
  /\ lock = {}
  /\ Becomes(q, "waiting", "accepted")
  /\ \E m \in Found(q) :
       m.body = body[q] /\ answer' = [answer EXCEPT ![q] = {m.run}]
  /\ UNCHANGED <<vars, clock, lock, body, keyed, now, made, mapping>>

Conflict(q) ==
  /\ lock = {}
  /\ Becomes(q, "waiting", "conflict")
  /\ \E m \in Found(q) : m.body # body[q]
  /\ UNCHANGED <<vars, clock, lock, body, keyed, now, made, answer, mapping>>

\* prepare() refuses the Tree: the session is rolled back.
NotReady(q) ==
  /\ lock = {}
  /\ Becomes(q, "waiting", "not_ready")
  /\ Found(q) = {}
  /\ UNCHANGED <<vars, clock, lock, body, keyed, now, made, answer, mapping>>

\* The commit of prepare() also deletes the expired mapping.
PrepareRun(q, r) ==
  /\ lock = {}
  /\ Becomes(q, "waiting", "prepared")
  /\ Found(q) = {}
  /\ Prepare(r, "public")
  /\ lock' = {q}
  /\ made' = [made EXCEPT ![q] = {r}]
  /\ mapping' = {m \in mapping : ~keyed[q]}
  /\ UNCHANGED <<clock, body, keyed, now, answer>>

MapKey(q) ==
  /\ Becomes(q, "prepared", "mapped")
  /\ Maps(q, now[q] + Life)
  /\ UNCHANGED <<vars, clock, lock, body, keyed, now, made, answer>>

HandOver(q) ==
  /\ Becomes(q, "mapped", "accepted")
  /\ \E r \in made[q] : Enqueue(r)
  /\ answer' = [answer EXCEPT ![q] = made[q]]
  /\ lock' = {}
  /\ UNCHANGED <<clock, body, keyed, now, made, mapping>>

NoCapacity(q) ==
  /\ Becomes(q, "mapped", "refused")
  /\ \E r \in made[q] : Refuse(r)
  /\ UNCHANGED <<clock, lock, body, keyed, now, made, answer, mapping>>

\* The row is deleted, and its mapping with it (ON DELETE CASCADE).
Withdraw(q) ==
  /\ Becomes(q, "refused", "capacity")
  /\ \E r \in made[q] : Discard(r) /\ mapping' = {m \in mapping : m.run # r}
  /\ lock' = {}
  /\ UNCHANGED <<clock, body, keyed, now, made, answer>>

Submit(q) ==
  \/ Existing(q) \/ Conflict(q) \/ NotReady(q)
  \/ \E r \in Runs : PrepareRun(q, r)
  \/ MapKey(q) \/ HandOver(q) \/ NoCapacity(q) \/ Withdraw(q)

-----------------------------------------------------------------------------
(* The rest of the process, and time.                                      *)

\* A request takes less than two ticks.
Tick ==
  /\ clock < MaxClock
  /\ \A q \in Requests : stage[q] \in InFlight => now[q] = clock
  /\ clock' = clock + 1
  /\ UNCHANGED <<vars, lock, requestVars, mapping>>

\* Studio's own submission competes for the same places, without the lock.
StudioSubmit(r) ==
  \/ Prepare(r, "studio")
  \/ channel[r] = "studio" /\ (Enqueue(r) \/ Refuse(r) \/ Discard(r))

Background ==
  /\ \/ \E r \in Runs : StudioSubmit(r) \/ Execution(r) \/ CoreStep(r)
     \/ \E c \in Cancellers : Cancellation(c)
     \/ Startup
  /\ UNCHANGED keyVars

LoseRequests ==
  /\ Crash
  /\ stage' = [q \in Requests |-> IF stage[q] \in InFlight THEN "lost" ELSE stage[q]]
  /\ lock' = {}
  /\ UNCHANGED <<clock, body, keyed, now, made, answer, mapping>>

SubmissionNext ==
  \/ \E q \in Requests : Arrive(q) \/ Submit(q)
  \/ Tick \/ Background \/ LoseRequests

SubmissionSpec == SubmissionInit /\ [][SubmissionNext]_submissionVars

-----------------------------------------------------------------------------
(* Properties.                                                             *)

Accepted == {q \in Requests : stage[q] = "accepted" /\ keyed[q]}

\* Requests within the life of a mapping, less the time a request may take.
Near(p, q) == now[p] - now[q] \in (2 - Life)..(Life - 2)

\* A request with the key that arrives after an accepted one, while the mapping
\* of that one lives, names the same Run, whatever waits, expires or crashes
\* between them; and of two accepted requests within that life only one has
\* made a Run.  (One that arrived in the same tick may have been answered
\* before, from a mapping that has expired since.)
\* A caller is never given the Run of a different request body.
AnswersAgree ==
  \A p, q \in Accepted :
    /\ (made[p] # {} /\ Near(p, q) /\ (now[p] < now[q] \/ made[q] # {}))
         => answer[p] = answer[q]
    /\ answer[p] = answer[q] => body[p] = body[q]

\* A Run whose id a caller has been given is not withdrawn any more, and the
\* lock and the mapping keep their shape on every way out.
AcceptedIsDurable ==
  SubmissionTypeOK /\ \A q \in Requests : \A r \in answer[q] : status[r] # "absent"

\* Retries never execute a job twice: of the Runs that requests with the key
\* make within the life of a mapping, at most one gets to a worker.
Started(q) == \E r \in made[q] : core[r] # "none" \/ worker[r] \in Executing
JobRunsOnce ==
  \A p, q \in Requests :
    (p # q /\ keyed[p] /\ keyed[q] /\ Started(p) /\ Started(q)) => ~Near(p, q)

\* docs/public-api-v2.md: "The same key and canonical request returns the
\* existing Run": a key does not leave two Runs behind.
OneRunPerKey ==
  \A p, q \in Requests :
    (p # q /\ keyed[p] /\ keyed[q] /\ body[p] = body[q] /\ Near(p, q))
      => \/ made[p] = {} \/ made[q] = {}
         \/ \E r \in made[p] \union made[q] : status[r] = "absent"
=============================================================================
