--------------------------- MODULE MCTruthRefresh ---------------------------
(* Instances of TruthRefresh for TLC.                                      *)
EXTENDS TruthRefresh, TLC

CONSTANTS close, cron28

Symmetric == Permutations(Job)
=============================================================================
