SPECIFICATION Spec
CONSTANTS
    Processes = {p1, p2}
    Accounts = {a1, a2}
    NumInvocations = 4
    None = None
    MaxPending = 1
    MaxFaults = 0
SYMMETRY CliSymmetry
INVARIANTS
    QueriedUnderOneAccount
CHECK_DEADLOCK FALSE
