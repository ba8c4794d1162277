--------------------------- MODULE MCTransferCash ---------------------------
(* Instances of TransferCash for TLC.                                      *)
EXTENDS TransferCash

CONSTANTS p1, p2, t1, f1

\* The server and the settlement scripts share one state file.
SharedFile == [p \in Proc |-> f1]
=============================================================================
