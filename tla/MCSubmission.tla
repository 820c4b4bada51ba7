---------------------------- MODULE MCSubmission ----------------------------
(* Instances of Submission for TLC.                                        *)
EXTENDS Submission, TLC

\* Runs and requests are interchangeable.
Symmetry == Permutations(Runs) \union Permutations(Requests) \union Permutations(Bodies)
=============================================================================
