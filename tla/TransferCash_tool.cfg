\* A server and a script that submit the same plan through one state file.
SPECIFICATION ToolFairSpec
CONSTANTS
    p1 = p1
    p2 = p2
    t1 = t1
    f1 = f1
    Proc = {p1, p2}
    Server = {p1}
    Token = {t1}
    StateFile = {f1}
    FileOf <- SharedFile
    MaxPosts = 2
    Dedup = TRUE
    OrphanLimit = 0
    NoProc = NoProc
INVARIANTS ToolTypeOK AtMostOnce CompletedMeansMoved ReportedDoneIsMoved
PROPERTIES SubmittingIsAbandoned ToolReturns CallReturns
