CONSTANTS
    Absent = Absent
    Unsent = Unsent
    Unreadable = Unreadable
    Count = 2
    VersionLimit = 2
    PostLimit = 6
    RunLimit = 4
    FaultLimit = 1
    Returns = FALSE
    Titled = FALSE
    Overlap = FALSE
SPECIFICATION Spec
INVARIANTS TypeOK ResumedIsLive GateMeansLive
CHECK_DEADLOCK FALSE
