SPECIFICATION Spec
CONSTANTS
    w1 = w1
    w2 = w2
    Workers = {w1, w2}
    NoWorker = NoWorker
    NumRuns = 2
    NumRoutes = 2
    NumJobs = 3
    Kinds <- mcVideos
    People = {"retry", "query"}
    FaultKinds = {"crash"}
    MaxFaults = 1
SYMMETRY WorkerSymmetry
INVARIANTS
    ChargedForResult
CHECK_DEADLOCK FALSE
