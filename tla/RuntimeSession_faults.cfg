SPECIFICATION Spec
CONSTANTS
    p1 = p1
    p2 = p2
    Pages = {p1, p2}
    NoPage = NoPage
    NumChallenges = 4
    NumSessions = 3
    PendingLimit = 2
    MaxFaults = 2
INVARIANTS
    TypeOK
    RevokedStaysOut
CHECK_DEADLOCK FALSE
