SPECIFICATION Spec
CONSTANTS
    u1 = u1
    u2 = u2
    t1 = t1
    t2 = t2
    Users = {u1, u2}
    NoUser = NoUser
    NumOrders = 1
    NumCodes = 2
    NumBonuses = 1
    CodeAmount <- mcCodeAmount
    BonusAmounts = {1}
    Adjustments <- mcAdjustments
    AdjustedRange <- mcAdjustedRange
    Prices = {2}
    Modes = {"token"}
    Txs = {t1}
    Snapshot = TRUE
INVARIANTS
    CreditsConserved
CHECK_DEADLOCK FALSE
