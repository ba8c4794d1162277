\* Two runs, killed at any step, batches of two, one route; late posts arrive in time.
SPECIFICATION Spec
CONSTANTS
    r1 = r1
    r2 = r2
    m1 = m1
    m2 = m2
    m3 = m3
    v1 = v1
    v2 = v2
    Run = {r1, r2}
    Marker = {m1, m2, m3}
    Value = {v1, v2}
    BatchSize = 2
    MaxPosts = 1
    Prompt = TRUE
    RowLimit = 2
    Free = Free
    Sync = Sync
SYMMETRY Symmetric
INVARIANTS TypeOK PostsAsApproved
PROPERTIES NoNewDuplicate OkIsCurrent
