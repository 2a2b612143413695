SPECIFICATION Spec
CONSTANTS
    w1 = w1
    w2 = w2
    Workers = {w1, w2}
    NoWorker = NoWorker
    NumRuns = 1
    NumRoutes = 1
    NumJobs = 3
    Kinds <- mcRoutedImage
    People = {}
    FaultKinds = {"crash"}
    MaxFaults = 1
SYMMETRY WorkerSymmetry
INVARIANTS
    SubmittedOnce
CHECK_DEADLOCK FALSE
