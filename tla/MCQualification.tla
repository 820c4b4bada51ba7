--------------------------- MODULE MCQualification ---------------------------
(* Instances of Qualification for TLC.                                     *)
EXTENDS Qualification, TLC

\* Requests of a kind, and the models of the page, are interchangeable.
Symmetry == Permutations(Discoveries) \union Permutations(Verifications)
            \union Permutations(Catalogued)
=============================================================================
