--------------------------- MODULE MCNativeSplits ---------------------------
(* Instances of NativeSplits for TLC.                                      *)
EXTENDS NativeSplits, TLC

CONSTANTS t1, t2, d1, d2

Symmetric == Permutations(Txn) \cup Permutations(Digest)
=============================================================================
