SPECIFICATION Spec
CONSTANTS
    t1 = t1
    t2 = t2
    n1 = n1
    e1 = e1
    e2 = e2
    Tabs = {t1, t2}
    None = None
    Absent = Absent
    Nodes = {n1, n2}
    Effects = {e1, e2}
    Target <- OneTarget
    Values = {0, 1}
    MaxEdits = 3
    MaxAttempts = 0
    MaxFailures = 0
SYMMETRY Symmetry
PROPERTIES
    SavesOnlyOwnEdits
CHECK_DEADLOCK FALSE
