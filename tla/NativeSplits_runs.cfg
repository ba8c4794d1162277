CONSTANTS
    t1 = t1
    t2 = t2
    d1 = d1
    d2 = d2
    Txn = {t1}
    Digest = {d1, d2}
    None = None
    Torn = Torn
    Retry = TRUE
    BareReply = FALSE
    Prompt = TRUE
    SplitLimit = 2
SPECIFICATION FairSpec
INVARIANTS TypeOK SplitAtMostOnce RecordedIsSplit OkCountsOnce
PROPERTY LockIsFreed
