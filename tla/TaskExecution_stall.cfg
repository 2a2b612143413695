SPECIFICATION Spec
CONSTANTS
    w1 = w1
    w2 = w2
    Workers = {w1, w2}
    NoWorker = NoWorker
    NumRuns = 1
    NumRoutes = 1
    NumJobs = 2
    Kinds <- mcRoutedVideo
    People = {}
    FaultKinds = {"stall"}
    MaxFaults = 1
SYMMETRY WorkerSymmetry
INVARIANTS
    NeverResent
CHECK_DEADLOCK FALSE
