---------------------------- MODULE MCOwnerEmail ----------------------------
(* Instances of OwnerEmail for TLC.                                        *)
EXTENDS OwnerEmail, TLC

CONSTANTS p1, p2

Symmetric == Permutations(Property)
=============================================================================
