-------------------------- MODULE TransferPromise --------------------------
(***************************************************************************)
(* What execute_transfer (skills/baselane-mcp/src/baselane_mcp/            *)
(* transfers.py) promises of each normalized plan, without processes, lock *)
(* or bridge: cash moves at most once and only while the plan is pending;  *)
(* a plan is done only after its cash moved, and open again, that is free  *)
(* to be submitted once more, only if it did not.                          *)
(***************************************************************************)
EXTENDS Naturals

CONSTANT Token

VARIABLES
    verdict,  \* what the durable records say of a plan
    moved     \* how often the cash of a plan was moved

Init ==
    /\ verdict = [t \in Token |-> "open"]
    /\ moved = [t \in Token |-> 0]

Submit(t) ==
    /\ verdict[t] = "open"
    /\ verdict' = [verdict EXCEPT ![t] = "pending"]
    /\ UNCHANGED moved

Move(t) ==
    /\ verdict[t] = "pending" /\ moved[t] = 0
    /\ moved' = [moved EXCEPT ![t] = 1]
    /\ UNCHANGED verdict

Confirm(t) ==
    /\ verdict[t] = "pending" /\ moved[t] = 1
    /\ verdict' = [verdict EXCEPT ![t] = "done"]
    /\ UNCHANGED moved

Retract(t) ==
    /\ verdict[t] = "pending" /\ moved[t] = 0
    /\ verdict' = [verdict EXCEPT ![t] = "open"]
    /\ UNCHANGED moved

Next == \E t \in Token : Submit(t) \/ Move(t) \/ Confirm(t) \/ Retract(t)

Spec == Init /\ [][Next]_<<verdict, moved>>
=============================================================================
