---------------------------- MODULE MCRunEvents ----------------------------
(* Instances of RunEvents for TLC.                                         *)
EXTENDS RunEvents
=============================================================================
