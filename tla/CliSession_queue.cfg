SPECIFICATION FairSpec
CONSTANTS
    Processes = {p1, p2}
    Accounts = {a1}
    NumInvocations = 3
    None = None
    MaxPending = 2
    MaxFaults = 1
CONSTRAINT OneLogin
PROPERTIES
    WaiterServed
CHECK_DEADLOCK FALSE
