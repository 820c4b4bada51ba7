---------------------------- MODULE RunResource ----------------------------
(***************************************************************************)
(* What the API promises of a Run to a client that only reads its status   *)
(* and receives its deliveries, with the one step the documents exclude    *)
(* and the code takes (StartOverCancel) set apart under its own name.      *)
(***************************************************************************)
EXTENDS Naturals

CONSTANT Runs

VARIABLES
  status,     \* the status a client reads, "absent" when there is no Run
  delivered   \* deliveries of the Run's result

ActiveStatus == {"pending", "running", "cancellation_requested"}

Init ==
  /\ status = [r \in Runs |-> "absent"]
  /\ delivered = [r \in Runs |-> 0]

Moves(r, from, to) ==
  /\ status[r] \in from
  /\ status' = [status EXCEPT ![r] = to]
  /\ UNCHANGED delivered

Accept(r)          == Moves(r, {"absent"}, "pending")
Start(r)           == Moves(r, {"pending"}, "running")
StartOverCancel(r) == Moves(r, {"cancelled"}, "running")
AskToCancel(r)     == Moves(r, {"running", "cancellation_requested"},
                               "cancellation_requested")
Cancel(r)          == Moves(r, ActiveStatus, "cancelled")
Complete(r)        == Moves(r, {"running"}, "completed")
Fail(r)            == Moves(r, {"running"}, "failed")

\* A submission refused for capacity leaves no Run behind.
Withdraw(r)        == Moves(r, {"pending", "cancelled"}, "absent")

\* After a restart every interrupted Run has failed, all of them at once.
Recover ==
  /\ status' = [r \in Runs |-> IF status[r] \in ActiveStatus
                               THEN "failed" ELSE status[r]]
  /\ UNCHANGED delivered

Deliver(r) ==
  /\ status[r] = "completed"
  /\ delivered[r] = 0
  /\ delivered' = [delivered EXCEPT ![r] = 1]
  /\ UNCHANGED status

Next ==
  \/ \E r \in Runs :
       \/ Accept(r) \/ Start(r) \/ StartOverCancel(r) \/ AskToCancel(r)
       \/ Cancel(r) \/ Complete(r) \/ Fail(r) \/ Withdraw(r) \/ Deliver(r)
  \/ Recover

Spec == Init /\ [][Next]_<<status, delivered>>
=============================================================================
