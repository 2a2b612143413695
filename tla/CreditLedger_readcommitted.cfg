SPECIFICATION Spec
CONSTANTS
    u1 = u1
    u2 = u2
    t1 = t1
    t2 = t2
    Users = {u1}
    NoUser = NoUser
    NumOrders = 2
    NumCodes = 0
    NumBonuses = 0
    CodeAmount <- mcCodeAmount
    BonusAmounts = {1}
    Adjustments = {3}
    AdjustedRange = {0, 3}
    Prices = {1, 2}
    Modes = {"fixed_request", "token"}
    Txs = {t1, t2}
    Snapshot = FALSE
PROPERTIES
    FinishedOnce
CHECK_DEADLOCK FALSE
