\* One state file, two routes.
SPECIFICATION Spec
CONSTANTS
    p1 = p1
    p2 = p2
    t1 = t1
    t2 = t2
    f1 = f1
    f2 = f2
    Proc = {p1, p2}
    Token = {t1}
    StateFile = {f1}
    FileOf <- SharedFile
    MaxPosts = 2
    Dedup = TRUE
    OrphanLimit = 1
    NoProc = NoProc
INVARIANTS ChallengeMeansNotMoved
