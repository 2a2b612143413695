SPECIFICATION Spec
CONSTANTS
    w1 = w1
    w2 = w2
    Workers = {w1, w2}
    NoWorker = NoWorker
    NumRuns = 2
    NumRoutes = 2
    NumJobs = 3
    Kinds <- mcAll
    People = {"retry", "resolve"}
    FaultKinds = {"crash", "stall"}
    MaxFaults = 1
CONSTRAINTS
    StallAlone
SYMMETRY WorkerSymmetry
INVARIANTS
    TypeOK
    ResultIsPaid
    ResultOfOwnJob
    ChargedForResult
PROPERTIES
    UncertainIsReviewed
CHECK_DEADLOCK FALSE
