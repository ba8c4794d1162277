--------------------------- MODULE MCAccrualApply ---------------------------
(* Instances of AccrualApply for TLC.                                      *)
EXTENDS AccrualApply, TLC

CONSTANTS r1, r2, m1, m2, m3, v1, v2

Symmetric == Permutations(Run) \cup Permutations(Marker) \cup Permutations(Value)
=============================================================================
