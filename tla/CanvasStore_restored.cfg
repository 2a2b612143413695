SPECIFICATION Spec
CONSTANTS
    t1 = t1
    t2 = t2
    n1 = n1
    e1 = e1
    e2 = e2
    Tabs = {t1}
    None = None
    Absent = Absent
    Nodes = {n1}
    Effects = {e1, e2}
    Target <- OneTarget
    Values = {0, 1}
    MaxEdits = 2
    MaxAttempts = 1
    MaxFailures = 0
PROPERTIES
    StampsByCommitAlways
CHECK_DEADLOCK FALSE
