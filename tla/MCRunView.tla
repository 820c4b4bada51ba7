----------------------------- MODULE MCRunView ------------------------------
(* Instances of RunView for TLC.                                           *)
EXTENDS RunView
=============================================================================
