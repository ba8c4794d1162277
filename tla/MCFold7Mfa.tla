----------------------------- MODULE MCFold7Mfa -----------------------------
(* Instances of Fold7Mfa for TLC.                                          *)
EXTENDS Fold7Mfa, TLC

CONSTANTS h1, h2, i1, i2, i3, i4

Symmetric == Permutations(Helper) \cup Permutations(Inode)
=============================================================================
