SPECIFICATION FairSpec
CONSTANTS
    Runtimes = {r1, r2}
    Tasks = {t1}
    None = None
    Gone = Gone
    MaxActive = 1
    MaxTickets = 2
    MaxEnds = 2
    MaxStalls = 1
    MaxErrors = 1
PROPERTIES
    AcceptedIsSettled
CHECK_DEADLOCK FALSE
