CONSTANTS
    p1 = p1
    p2 = p2
    Property = {p1, p2}
    None = None
    Torn = Torn
    Back = FALSE
    LastMonth = 2
    LastDay = 2
    MailLimit = 2
SPECIFICATION Spec
SYMMETRY Symmetric
INVARIANTS TypeOK NativeOncePerMonth RecordedWasSent
PROPERTY PacketAfterCooldown
CHECK_DEADLOCK FALSE
