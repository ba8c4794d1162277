-------------------------- MODULE MCInterestSweep --------------------------
(* Instances of InterestSweep: one property with three accounts.           *)
EXTENDS InterestSweep

\* Account 1 holds one unit of a tenant's deposit, account 2 reserves, account 3 operations.
DepositsFirst == <<1, 0>>
DepositsOpening == <<1, 0, 0>>
=============================================================================
