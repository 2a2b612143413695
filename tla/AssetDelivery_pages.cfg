SPECIFICATION Spec
CONSTANTS
    t1 = t1
    t2 = t2
    Tabs = {t1, t2}
    None = None
    Absent = Absent
    Assets = {a1, a2}
    Stored = {a1}
    Effects = {g1}
    Fields = {"title", "tags"}
    Values = {0, 1}
    MaxEdits = 2
    MaxFailures = 1
    MaxExpiries = 1
    MaxClaims = 2
SYMMETRY Symmetry
INVARIANTS
    TypeOK
    CreatedOnce
PROPERTIES
    SavesOnlyOwnEdits
    DeletedStaysDeleted
CHECK_DEADLOCK FALSE
