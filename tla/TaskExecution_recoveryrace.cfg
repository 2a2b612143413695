SPECIFICATION Spec
CONSTANTS
    w1 = w1
    w2 = w2
    Workers = {w1, w2}
    NoWorker = NoWorker
    NumRuns = 1
    NumRoutes = 2
    NumJobs = 3
    Kinds <- mcRoutedVideo
    People = {"query"}
    FaultKinds = {}
    MaxFaults = 0
SYMMETRY WorkerSymmetry
INVARIANTS
    ResultIsPaid
CHECK_DEADLOCK FALSE
