--------------------------- MODULE InterestSweep ---------------------------
(***************************************************************************)
(* The monthly close sweeps the savings interest of a DAO property to ECO: *)
(* scripts/baselane_live_dao_cash_reconciliation.py works out what is due  *)
(* and from which accounts, scripts/baselane_transfer_interest_to_eco.py   *)
(* plans it, and the close applies the plan by its digest                  *)
(* (scripts/baselane_financials_monthly_cron.sh).  The close holds one     *)
(* lock from start to end, so one process is enough; its runs follow one   *)
(* another on the same or later days.                                      *)
(*                                                                         *)
(* The accounts of one property are numbered in the order in which the     *)
(* reconciliation draws on them: savings by nickname, then checking.  What *)
(* execute_transfer does inside is module InternalTransfer; here it is one *)
(* step with the outcomes TransferPromise allows.                          *)
(***************************************************************************)
EXTENDS Integers, FiniteSetsExt

CONSTANTS
    Savings, Checkings, \* numbers of savings and checking accounts
    Security,     \* savings accounts that hold tenants' deposits (SECURITY_PRINCIPAL)
    Principal,    \* documented principal of each savings account
    Float,        \* operating float of the property
    Opening,      \* balances before the first interest credit
    Paid,         \* accounts into which the environment pays other money
    PaidLimit,    \* bound: units paid into or moved to one account
    EarnLimit,    \* bound: units of interest
    MaxDay,       \* bound: the last day
    MonthLength,  \* days of a month
    Settled,      \* whether earlier sweeps are settled and shown at each reconciliation
    CutoffToday   \* whether REPORTING_CUTOFF_DATE keeps its default, the current date

Saving  == 1 .. Savings
Account == 1 .. (Savings + Checkings)
Day     == 0 .. MaxDay

ASSUME SweepAssumption ==
    /\ Savings \in Nat \ {0} /\ Checkings \in Nat /\ Security \subseteq Saving
    /\ Principal \in [Saving -> Nat] /\ Opening \in [Account -> Nat] /\ Paid \subseteq Account
    /\ {Float, PaidLimit, EarnLimit, MaxDay} \subseteq Nat /\ MonthLength \in Nat \ {0}
    /\ {Settled, CutoffToday} \subseteq BOOLEAN

VARIABLES
    day,       \* today
    interest,  \* interest[a][d]: interest credited to savings account a on day d
    other,     \* other[a][d]: net of all other money on day d, the opening balance included
    moved,     \* transfers that Baselane has carried out
    shown,     \* those of them whose debit row is among the transactions
    flight,    \* transfers without a verdict that Baselane may still carry out
    done,      \* plans the sweep's state file records as completed
    uncertain, \* plans it records as submitting
    pc,        \* how far the close is
    report,    \* the cash reconciliation the close reads
    plan,      \* the plan whose digest the close passes to --apply
    left       \* the transfers of the plan that are still to do

bank  == <<interest, other, moved, shown, flight>>
file  == <<done, uncertain>>
close == <<pc, report, plan, left>>
vars  == <<day, bank, file, close>>

\* What tells one confirmation token from another.
Plan == [src : Account, amount : Nat \ {0}, through : Nat, day : Day]

Month(d)      == d \div MonthLength
Amount(S)     == SumFunction([t \in S |-> t.amount])
Out(a, S)     == Amount({t \in S : t.src = a})

Init ==
    /\ day = 0
    /\ interest = [a \in Saving |-> [d \in Day |-> 0]]
    /\ other = [a \in Account |-> [d \in Day |-> IF d = 0 THEN Opening[a] ELSE 0]]
    /\ moved = {} /\ shown = {} /\ flight = {} /\ done = {} /\ uncertain = {}
    /\ pc = "idle" /\ report = <<>> /\ plan = <<>> /\ left = {}

-----------------------------------------------------------------------------
(* The reconciliation as of day cut.                                       *)

Credits(a, D) == IF a \in Saving THEN SumFunction([d \in D |-> interest[a][d]]) ELSE 0
Other(a, D)   == SumFunction([d \in D |-> other[a][d]])
Balance(a)    == Credits(a, Day) + Other(a, Day) - Out(a, moved)
Live          == SumFunction([a \in Account |-> Balance(a)])

\* The live balance, rolled back by the rows dated after cut.
AsOf(a, cut) ==
    LET later == {d \in Day : d > cut}
    IN  Balance(a) - Credits(a, later) - Other(a, later)
            + Out(a, {t \in shown : t.day > cut})

\* Mutant: sweeps that were made are not subtracted.
BugSweptNotSubtracted(a, cut) == 0

\* Sweeps already made, recognised by the rows of their debits.
Swept(a, cut) == Out(a, {t \in shown : t.day <= cut})

\* An empty savings account without a sweep is not looked into.
Looked(a, cut) == a \in Saving /\ (AsOf(a, cut) # 0 \/ {t \in shown : t.src = a /\ t.day <= cut} # {})

Gross(a, cut) == Credits(a, 0 .. cut)

\* interest_cash_in_savings_account
InterestCash(a, cut) ==
    IF ~Looked(a, cut) THEN 0
    ELSE IF a \in Security THEN AsOf(a, cut) - Principal[a]
    ELSE Min({Max({0, AsOf(a, cut) - Principal[a]}), Gross(a, cut)})

ReserveDue(cut) ==
    Max({0, SumFunction([a \in {b \in Saving \ Security : Looked(b, cut)} |-> Gross(a, cut)])
              - SumFunction([a \in Account \ Security |-> Swept(a, cut)])})

Due(cut) == SumFunction([a \in Security |-> InterestCash(a, cut)]) + ReserveDue(cut)

\* Mutant: the protected minimum forgets the tenants' deposits.
BugFloatOnly == Float

Protected == Float + SumFunction([a \in Security |-> Principal[a]])

Total(cut)     == SumFunction([a \in Account |-> AsOf(a, cut)])
Available(cut) == Min({Due(cut), Max({0, Total(cut) - Protected})})

\* What an account may give: a savings account its interest, a checking
\* account what the float leaves.
Source(a, cut) ==
    IF a \in Saving THEN InterestCash(a, cut)
    ELSE LET earlier == SumFunction([b \in {c \in Account \ Saving : c < a} |-> AsOf(b, cut)])
         IN  AsOf(a, cut) - Min({AsOf(a, cut), Max({0, Float - earlier})})

\* Accounts are drawn on in order until the transfer is covered.
Share(a, cut) ==
    LET earlier == SumFunction([b \in 1 .. (a - 1) |-> Source(b, cut)])
    IN  Max({0, Min({Source(a, cut), Available(cut) - earlier})})

\* Any issue makes the report unusable (load_reconciliation).
ReportIsOk(cut) ==
    /\ \A a \in Security : Looked(a, cut) => AsOf(a, cut) >= Principal[a]
    /\ SumFunction([a \in Account |-> Source(a, cut)]) >= Available(cut)

Reconciled(cut) == [cut |-> cut, share |-> [a \in Account |-> Share(a, cut)]]

Reconcile(cut) ==
    /\ pc = "idle" /\ cut <= day
    /\ Settled => moved = shown /\ flight = {}
    /\ CutoffToday => cut = day
    /\ ReportIsOk(cut)
    /\ report' = Reconciled(cut) /\ pc' = "reported"
    /\ UNCHANGED <<day, bank, file, plan, left>>

-----------------------------------------------------------------------------
(* The sweep.                                                              *)

\* A plan carries the day on which it is built, not the day of the report.
Wanted ==
    {[src |-> a, amount |-> report.share[a], through |-> Month(report.cut), day |-> day] :
        a \in {b \in Account : report.share[b] > 0}}

Specs == Wanted \ done

PrincipalFloor(a) == IF a \in Saving THEN Principal[a] ELSE 0

PlanIsClean ==
    /\ Amount(Wanted) > 0 => Live - Amount(Wanted) >= Protected
    /\ \A t \in Specs : Balance(t.src) - t.amount >= PrincipalFloor(t.src)

\* The digest covers the transfers and the balances they are made from and to.
PublicPlan ==
    [specs   |-> Specs,
     opening |-> [a \in {t.src : t \in Specs} |-> Balance(a)],
     eco     |-> Amount(moved)]

\* Mutant: the digest is not compared.
BugDigestUnchecked == TRUE

DigestMatches == PublicPlan = plan

DryRun ==
    /\ pc = "reported" /\ PlanIsClean
    /\ plan' = PublicPlan /\ pc' = "planned"
    /\ UNCHANGED <<day, bank, file, report, left>>

Apply ==
    /\ pc = "planned" /\ PlanIsClean /\ DigestMatches
    /\ left' = Specs /\ pc' = "sweeping"
    /\ UNCHANGED <<day, bank, file, report, plan>>

\* Mutant: a transfer is submitted without a look at the live balance.
BugNoPreflight(t) ==
    /\ pc = "sweeping" /\ t \in left /\ \A u \in left : t.src <= u.src
    /\ t \notin done \cup uncertain

\* execute_transfer looks up the records, then the live balance.
MaySubmit(t) ==
    /\ pc = "sweeping" /\ t \in left /\ \A u \in left : t.src <= u.src
    /\ t \notin done \cup uncertain
    /\ Balance(t.src) >= t.amount

\* The transfer succeeds, at the first attempt or after the helper's code.
Completed(t) ==
    /\ MaySubmit(t)
    /\ moved' = moved \cup {t} /\ done' = done \cup {t} /\ left' = left \ {t}
    /\ UNCHANGED <<day, interest, other, shown, flight, uncertain, pc, report, plan>>

\* No verdict: the run stops with the record left submitting.
Uncertain(t) ==
    /\ MaySubmit(t)
    /\ flight' = flight \cup {t} /\ uncertain' = uncertain \cup {t}
    /\ left' = {} /\ pc' = "idle"
    /\ UNCHANGED <<day, interest, other, moved, shown, done, report, plan>>

\* The close rebuilds the report with the cutoff it had.
Finish ==
    /\ pc = "sweeping" /\ left = {}
    /\ ReportIsOk(report.cut) /\ report' = Reconciled(report.cut)
    /\ pc' = "idle"
    /\ UNCHANGED <<day, bank, file, plan, left>>

\* A refusal by a check, the bank or the phone, an error, or the end of the process.
Fail ==
    /\ pc # "idle" /\ pc' = "idle" /\ left' = {}
    /\ UNCHANGED <<day, bank, file, report, plan>>

-----------------------------------------------------------------------------
(* The bank.                                                               *)

Earned == SumFunction([a \in Saving |-> Credits(a, Day)])

Earn(a) ==
    /\ Earned < EarnLimit
    /\ interest' = [interest EXCEPT ![a][day] = @ + 1]
    /\ UNCHANGED <<day, other, moved, shown, flight, file, close>>

Received(a) == Other(a, Day) - Opening[a]

Pay(a) ==
    /\ Received(a) < PaidLimit
    /\ other' = [other EXCEPT ![a][day] = @ + 1]
    /\ UNCHANGED <<day, interest, moved, shown, flight, file, close>>

\* A withdrawal from reserves to operations within the property.
Withdraw(a, c) ==
    /\ Balance(a) > 0 /\ Received(c) < PaidLimit
    /\ other' = [other EXCEPT ![a][day] = @ - 1, ![c][day] = @ + 1]
    /\ UNCHANGED <<day, interest, moved, shown, flight, file, close>>

Show(t) ==
    /\ shown' = shown \cup {t}
    /\ UNCHANGED <<day, interest, other, moved, flight, file, close>>

Land(t) ==
    /\ flight' = flight \ {t}
    /\ \/ Balance(t.src) >= t.amount /\ moved' = moved \cup {t}
       \/ UNCHANGED moved
    /\ UNCHANGED <<day, interest, other, shown, file, close>>

Tomorrow ==
    /\ day < MaxDay /\ day' = day + 1
    /\ UNCHANGED <<bank, file, close>>

Next ==
    \/ \E cut \in Day : Reconcile(cut)
    \/ DryRun \/ Apply \/ Finish \/ Fail
    \/ \E t \in left : Completed(t) \/ Uncertain(t)
    \/ \E a \in Saving : Earn(a)
    \/ \E a \in Paid : Pay(a)
    \/ \E a \in Saving \ Security, c \in Account \ Saving : Withdraw(a, c)
    \/ \E t \in moved \ shown : Show(t)
    \/ \E t \in flight : Land(t)
    \/ Tomorrow

Spec == Init /\ [][Next]_vars

-----------------------------------------------------------------------------
(* Properties.                                                             *)

\* Every variable has its type, and no account is overdrawn.
TypeOK ==
    /\ day \in Day
    /\ interest \in [Saving -> [Day -> 0 .. EarnLimit]]
    /\ other \in [Account -> [Day -> Int]] /\ \A a \in Account : Balance(a) >= 0
    /\ moved \subseteq Plan /\ shown \subseteq moved
    /\ flight \subseteq uncertain /\ uncertain \subseteq Plan /\ done \subseteq moved
    /\ pc \in {"idle", "reported", "planned", "sweeping"}
    /\ left \subseteq Plan \ done

\* The sweep never takes more out of a property than the interest its savings
\* accounts have earned, over any number of closes, crashes and uncertain transfers.
SweptAtMostEarned == Amount(moved) <= Earned

\* A transfer, however late the bank carries it out, leaves the property its
\* tenants' deposits and its operating float, and each security account its principal.
FloorsKept ==
    [][moved' # moved =>
          (/\ Live >= Float + SumFunction([a \in Security |-> Principal[a]])
           /\ \A a \in Security : Balance(a) >= Principal[a])']_vars

\* Every transfer that is submitted is one the reviewed plan lists, although
\* midnight, new interest or other money may fall between review and apply.
AppliesReviewedPlan ==
    [][\A t \in (done' \cup uncertain') \ (done \cup uncertain) : t \in plan.specs]_vars
=============================================================================
