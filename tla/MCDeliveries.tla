---------------------------- MODULE MCDeliveries ----------------------------
(* Instances of Deliveries for TLC.                                        *)
EXTENDS Deliveries, TLC

\* Workers, requests and rows are interchangeable.
Symmetry == Permutations(Runs) \union Permutations(Editors) \union Permutations(Slots)
=============================================================================
