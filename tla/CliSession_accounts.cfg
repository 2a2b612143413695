SPECIFICATION Spec
CONSTANTS
    Processes = {p1, p2}
    Accounts = {a1, a2}
    NumInvocations = 4
    None = None
    MaxPending = 2
    MaxFaults = 1
CONSTRAINT FewerWithFault
VIEW CliView
SYMMETRY CliSymmetry
INVARIANTS
    TypeOK
    BindingNamesAccount
    ReceiptNamesAccount
    QueriedUnderItsAccount
CHECK_DEADLOCK FALSE
