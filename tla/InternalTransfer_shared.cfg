\* Two processes, two plans, one state file; the bridge has one route and
\* Baselane is not trusted to honour the idempotency key.
SPECIFICATION Spec
CONSTANTS
    p1 = p1
    p2 = p2
    t1 = t1
    t2 = t2
    f1 = f1
    f2 = f2
    Proc = {p1, p2}
    Token = {t1, t2}
    StateFile = {f1}
    FileOf <- SharedFile
    MaxPosts = 1
    Dedup = FALSE
    OrphanLimit = 1
    NoProc = NoProc
SYMMETRY Symmetric
INVARIANTS TypeOK AtMostOnce OpenMeansNotMoved CompletedMeansMoved
PROPERTIES VerdictsDurable KeepsPromise
