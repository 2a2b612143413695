SPECIFICATION FairSpec
CONSTANTS
    w1 = w1
    w2 = w2
    Workers = {w1, w2}
    NoWorker = NoWorker
    NumRuns = 1
    NumRoutes = 2
    NumJobs = 2
    Kinds <- mcVideoAndImage
    People = {"query"}
    FaultKinds = {"crash", "lease", "log", "stall"}
    MaxFaults = 1
INVARIANTS
    SubmittedOnce
PROPERTIES
    BillCloses
    TaskEnds
CONSTRAINTS
    StallAlone
    CrashAlone
CHECK_DEADLOCK FALSE
