------------------------------- MODULE MCLive -------------------------------
(* Instances of Live for TLC.  Agent "gone" is of an older version of the  *)
(* Tree and draws nothing; its operation shares a key with one of another. *)
EXTENDS Live

JournalOperations ==
  {[agent |-> "manager", key |-> "k1"], [agent |-> "manager", key |-> "k2"],
   [agent |-> "gone", key |-> "k1"]}
=============================================================================
