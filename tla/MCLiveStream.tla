---------------------------- MODULE MCLiveStream ----------------------------
(* Instances of LiveStream for TLC.                                        *)
EXTENDS LiveStream, TLC

\* Connections are interchangeable.
Symmetry == Permutations(Conns)
=============================================================================
