SPECIFICATION Spec
CONSTANTS
    w1 = w1
    w2 = w2
    w3 = w3
    w4 = w4
    Writers = {w1, w2, w3, w4}
    Removes <- mcRemovesNothing
    None = None
    MaxCrashes = 1
    MaxStalls = 0
SYMMETRY Symmetry
PROPERTIES
    BackupByOwner
CHECK_DEADLOCK FALSE
