SPECIFICATION Spec
CONSTANTS
    t1 = t1
    t2 = t2
    n1 = n1
    e1 = e1
    e2 = e2
    Tabs = {t1, t2}
    None = None
    Absent = Absent
    Nodes = {n1, n2}
    Effects = {e1, e2}
    Target <- OneTarget
    Values = {0, 1}
    MaxEdits = 2
    MaxAttempts = 2
    MaxFailures = 1
SYMMETRY Symmetry
INVARIANTS
    TypeOK
PROPERTIES
    StampsByCommitOnly
    StampedIsStored
CHECK_DEADLOCK FALSE
