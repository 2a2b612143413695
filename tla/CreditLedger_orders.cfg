SPECIFICATION Spec
CONSTANTS
    u1 = u1
    u2 = u2
    t1 = t1
    t2 = t2
    Users = {u1}
    NoUser = NoUser
    NumOrders = 2
    NumCodes = 1
    NumBonuses = 1
    CodeAmount <- mcCodeAmount
    BonusAmounts = {1}
    Adjustments = {1}
    AdjustedRange = {0, 1}
    Prices = {1, 2}
    Modes = {"fixed_request", "token"}
    Txs = {t1, t2}
    Snapshot = TRUE
SYMMETRY TxSymmetry
INVARIANTS
    TypeOK
    HoldsBacked
    BalanceConsistent
    CreditsConserved
PROPERTIES
    FinishedOnce
    PurseSpec
CHECK_DEADLOCK FALSE
