--------------------------- MODULE MCRunLifecycle ---------------------------
(* Instances of RunLifecycle for TLC.                                      *)
EXTENDS RunLifecycle, TLC

\* Runs and cancellers are interchangeable: sound where no liveness property
\* is checked.
Symmetry == Permutations(Runs) \union Permutations(Cancellers)
=============================================================================
