------------------------- MODULE MCInternalTransfer -------------------------
(* Instances of InternalTransfer for TLC.                                  *)
EXTENDS InternalTransfer, TLC

CONSTANTS p1, p2, t1, t2, f1, f2

\* The MCP server and the settlement scripts share reports/
\* baselane_transfer_state.json.
SharedFile == [p \in Proc |-> f1]

Symmetric == Permutations(Proc) \cup Permutations(Token)
=============================================================================
