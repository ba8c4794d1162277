CONSTANTS
    Absent = Absent
    Unsent = Unsent
    Unreadable = Unreadable
    Count = 2
    VersionLimit = 2
    PostLimit = 6
    RunLimit = 4
    FaultLimit = 0
    Returns = FALSE
    Titled = FALSE
    Overlap = FALSE
SPECIFICATION Spec
PROPERTY NoRepost
CHECK_DEADLOCK FALSE
