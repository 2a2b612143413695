SPECIFICATION Spec
CONSTANTS
    Runtimes = {r1, r2}
    Tasks = {t1, t2}
    None = None
    Gone = Gone
    MaxActive = 1
    MaxTickets = 2
    MaxEnds = 1
    MaxStalls = 1
    MaxErrors = 0
SYMMETRY Symmetry
INVARIANTS
    TypeOK
    SlotsCoverProvider
PROPERTIES
    SubmitsAsPromised
    SettledIsFinal
CHECK_DEADLOCK FALSE
