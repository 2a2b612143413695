SPECIFICATION Spec
CONSTANTS
    w1 = w1
    w2 = w2
    w3 = w3
    w4 = w4
    Writers = {w1, w2, w3}
    Removes <- mcRemoves
    None = None
    MaxCrashes = 2
    MaxStalls = 1
CONSTRAINT StillClaimed
INVARIANTS
    TypeOK
    DoneIsStored
    Recoverable
CHECK_DEADLOCK FALSE
