\* Closes on two days, with a security, a reserve and a checking account.
SPECIFICATION Spec
CONSTANTS
    Savings = 2
    Checkings = 1
    Security = {1}
    Principal <- DepositsFirst
    Opening <- DepositsOpening
    Float = 1
    Paid = {2, 3}
    PaidLimit = 2
    EarnLimit = 2
    MaxDay = 1
    MonthLength = 2
    Settled = TRUE
    CutoffToday = TRUE
INVARIANTS TypeOK SweptAtMostEarned
PROPERTIES FloorsKept AppliesReviewedPlan
