SPECIFICATION Spec
CONSTANTS
    Runtimes = {r1, r2}
    Tasks = {t1}
    None = None
    Gone = Gone
    MaxActive = 1
    MaxTickets = 2
    MaxEnds = 0
    MaxStalls = 0
    MaxErrors = 0
INVARIANTS
    RemovedMayRetry
CHECK_DEADLOCK FALSE
