---------------------------- MODULE CreditLedger ----------------------------
(***************************************************************************)
(* The credit tables of the Go back end (backend/internal/repository/      *)
(* finance.go and SwitchTaskLogicalRoute of logical_models.go): credit     *)
(* accounts, billing orders, redeem codes, bonuses and the ledger entries  *)
(* written beside every balance change.                                    *)
(*                                                                         *)
(* A database transaction that begins with a write, or is a single         *)
(* conditional UPDATE, is one action.  A transaction that reads the order  *)
(* first and writes by what it read is two: Begin... keeps the row it read *)
(* in tx[t], Commit... applies the writes.  What happens between depends   *)
(* on the driver (database.Open):                                          *)
(*   Snapshot = TRUE   SQLite.  A transaction reads one snapshot and its   *)
(*                     first write fails (SQLITE_BUSY_SNAPSHOT) if anyone  *)
(*                     committed since, so it can only be rolled back.     *)
(*   Snapshot = FALSE  PostgreSQL at its default READ COMMITTED.  The      *)
(*                     writes are applied to the rows as they are by then. *)
(***************************************************************************)
EXTENDS Totals

CONSTANTS
    Users, NoUser,
    NumOrders,      \* order ids (one per idempotency key) are 1..NumOrders
    NumCodes,       \* redeem codes are 1..NumCodes
    NumBonuses,     \* bonus reference keys of a user are 1..NumBonuses
    CodeAmount,     \* CodeAmount[c]: face value of a redeem code
    BonusAmounts,   \* amounts the credit policy may be set to
    Adjustments,    \* amounts an administrator adds or takes
    AdjustedRange,  \* bound on the sum of adjustments of a user
    Prices,         \* order amounts
    Modes,          \* billing modes in use, of BillingModes
    Txs,            \* database connections running a read-then-write tx
    Snapshot        \* isolation of the database, see above

Orders  == 1..NumOrders
Codes   == 1..NumCodes
Bonuses == 1..NumBonuses

BillingModes == {"fixed_request", "token"}

ASSUME SizesAssumption ==
    NumOrders \in Nat /\ NumCodes \in Nat /\ NumBonuses \in Nat
ASSUME AmountsAssumption ==
    /\ CodeAmount \in [Codes -> Nat]
    /\ BonusAmounts \subseteq Nat \ {0}
    /\ Adjustments \subseteq Int
    /\ AdjustedRange \subseteq Int
    /\ Prices \subseteq Nat \ {0}
    /\ Modes \subseteq BillingModes
ASSUME NamesAssumption == NoUser \notin Users /\ Snapshot \in BOOLEAN

VARIABLES
    available,  \* CreditAccount.AvailableMicrocredits by user
    reserved,   \* CreditAccount.ReservedMicrocredits by user
    orders,     \* BillingOrder rows
    codes,      \* RedeemCode rows
    bonus,      \* amount of the entry with a user's reference key, 0 if none
    adjusted,   \* sum of a user's admin_grant and admin_adjustment entries
    tx          \* read-then-write transactions in progress

vars == <<available, reserved, orders, codes, bonus, adjusted, tx>>

Unfinished == {"reserved", "running", "uncertain"}
Statuses   == Unfinished \cup {"absent", "settled", "refunded"}

NoOrder == [status |-> "absent", user |-> NoUser, mode |-> "fixed_request",
            amount |-> 0, actual |-> 0]
Order == [status : Statuses, user : Users \cup {NoUser}, mode : BillingModes,
          amount : Nat, actual : Nat]

Unused == [status |-> "unused", by |-> NoUser]
Code == [status : {"unused", "disabled"}, by : {NoUser}]
          \cup [status : {"redeemed"}, by : Users]

Idle == [kind |-> "idle", order |-> 0, read |-> NoOrder, view |-> "stale"]
Tx == [kind : {"settle", "refund", "reprice"}, order : Orders,
       read : Order, view : {"fresh", "stale"}]

TypeOK ==
    /\ available \in [Users -> Nat]
    /\ reserved \in [Users -> Nat]
    /\ orders \in [Orders -> Order]
    /\ codes \in [Codes -> Code]
    /\ bonus \in [Users -> [Bonuses -> Nat]]
    /\ adjusted \in [Users -> Int]
    /\ tx \in [Txs -> Tx \cup {Idle}]

Init ==
    /\ available = [u \in Users |-> 0]
    /\ reserved = [u \in Users |-> 0]
    /\ orders = [o \in Orders |-> NoOrder]
    /\ codes = [c \in Codes |-> Unused]
    /\ bonus = [u \in Users |-> [b \in Bonuses |-> 0]]
    /\ adjusted = [u \in Users |-> 0]
    /\ tx = [t \in Txs |-> Idle]

-----------------------------------------------------------------------------
(* Mutant: a transaction goes on after another commit. *)
NotAged(x) == x

(* A commit makes the snapshot of every other open transaction stale;      *)
(* under READ COMMITTED there is no snapshot to go stale.                  *)
Aged(x) == [x EXCEPT !.view = IF Snapshot THEN "stale" ELSE @]
Committed == tx' = [t \in Txs |-> IF tx[t].kind = "idle" THEN Idle ELSE Aged(tx[t])]
CommittedBy(t) ==
    tx' = [s \in Txs |-> IF s = t \/ tx[s].kind = "idle" THEN Idle ELSE Aged(tx[s])]

(* An UPDATE of an account row by the deltas its ledger entries record. *)
Move(u, dAvailable, dReserved) ==
    /\ available' = [available EXCEPT ![u] = @ + dAvailable]
    /\ reserved' = [reserved EXCEPT ![u] = @ + dReserved]

-----------------------------------------------------------------------------
(* Credit sources *)

(* GrantCreditsOnce: the entry with the unique reference key goes in first; *)
(* if the key is taken nothing else is written.                             *)
GrantCreditsOnce(u, b, a) ==
    /\ bonus[u][b] = 0
    /\ bonus' = [bonus EXCEPT ![u][b] = a]
    /\ Move(u, a, 0)
    /\ Committed
    /\ UNCHANGED <<orders, codes, adjusted>>

(* RedeemCode: the code row is taken by a conditional UPDATE. *)
RedeemCode(u, c) ==
    /\ codes[c].status = "unused"
    /\ codes' = [codes EXCEPT ![c] = [status |-> "redeemed", by |-> u]]
    /\ Move(u, CodeAmount[c], 0)
    /\ Committed
    /\ UNCHANGED <<orders, bonus, adjusted>>

(* DisableRedeemCode, and each code of DisableRedeemBatch. *)
DisableRedeemCode(c) ==
    /\ codes[c].status = "unused"
    /\ codes' = [codes EXCEPT ![c].status = "disabled"]
    /\ Committed
    /\ UNCHANGED <<available, reserved, orders, bonus, adjusted>>

(* AdjustCredits: an administrator never takes more than is available. *)
AdjustCredits(u, d) ==
    /\ available[u] + d >= 0
    /\ adjusted[u] + d \in AdjustedRange
    /\ adjusted' = [adjusted EXCEPT ![u] = @ + d]
    /\ Move(u, d, 0)
    /\ Committed
    /\ UNCHANGED <<orders, codes, bonus>>

-----------------------------------------------------------------------------
(* Orders *)

(* Mutant: the balance is not looked at. *)
ReserveOnCredit(o, u, p, m) ==
    /\ orders[o].status = "absent"
    /\ orders' = [orders EXCEPT ![o] =
                    [status |-> "reserved", user |-> u, mode |-> m,
                     amount |-> p, actual |-> 0]]
    /\ Move(u, -p, p)
    /\ Committed
    /\ UNCHANGED <<codes, bonus, adjusted>>

(* reserveBillingOrder, whether for a task, a retry or a proxied call.  A   *)
(* second order with the same idempotency key fails its insert.             *)
ReserveBillingOrder(o, u, p, m) ==
    /\ orders[o].status = "absent"
    /\ available[u] >= p
    /\ orders' = [orders EXCEPT ![o] =
                    [status |-> "reserved", user |-> u, mode |-> m,
                     amount |-> p, actual |-> 0]]
    /\ Move(u, -p, p)
    /\ Committed
    /\ UNCHANGED <<codes, bonus, adjusted>>

MarkBillingRunning(o) ==
    /\ orders[o].status = "reserved"
    /\ orders' = [orders EXCEPT ![o].status = "running"]
    /\ Committed
    /\ UNCHANGED <<available, reserved, codes, bonus, adjusted>>

MarkBillingUncertain(o) ==
    /\ orders[o].status \in {"reserved", "running"}
    /\ orders' = [orders EXCEPT ![o].status = "uncertain"]
    /\ Committed
    /\ UNCHANGED <<available, reserved, codes, bonus, adjusted>>

(* The first statement of SettleBillingOrder and RefundBillingOrder reads   *)
(* the order: a finished one ends the call there.                           *)
BeginFinish(t, o, kind) ==
    /\ tx[t] = Idle
    /\ orders[o].status \in Unfinished
    /\ tx' = [tx EXCEPT ![t] = [kind |-> kind, order |-> o,
                                read |-> orders[o], view |-> "fresh"]]
    /\ UNCHANGED <<available, reserved, orders, codes, bonus, adjusted>>

(* SwitchTaskLogicalRoute updates the task row first and so holds its lock: *)
(* one repricing of an order at a time.  Only an order that is reserved or  *)
(* running is found.                                                        *)
BeginReprice(t, o) ==
    /\ tx[t] = Idle
    /\ \A s \in Txs : ~ (tx[s].kind = "reprice" /\ tx[s].order = o)
    /\ orders[o].status \in {"reserved", "running"}
    /\ tx' = [tx EXCEPT ![t] = [kind |-> "reprice", order |-> o,
                                read |-> orders[o], view |-> "fresh"]]
    /\ UNCHANGED <<available, reserved, orders, codes, bonus, adjusted>>

(* Mutant: the cost of the usage is not compared with the reservation. *)
AnyActuals(read) == IF read.mode = "token" THEN 0..(read.amount + 1) ELSE {read.amount}

(* What the settlement costs: the amount read, or for token billing what    *)
(* the recorded usage comes to, refused when it exceeds the reservation.    *)
Actuals(read) == IF read.mode = "token" THEN 0..read.amount ELSE {read.amount}

(* Mutant: what the usage did not need is not returned. *)
CommitSettleWhole(t, actual) ==
    LET read == tx[t].read
        o    == tx[t].order
    IN
    /\ tx[t].kind = "settle" /\ tx[t].view = "fresh"
    /\ actual \in Actuals(read)
    /\ reserved[read.user] >= read.amount
    /\ orders' = [orders EXCEPT ![o].status = "settled", ![o].actual = actual]
    /\ Move(read.user, 0, - read.amount)
    /\ CommittedBy(t)
    /\ UNCHANGED <<codes, bonus, adjusted>>

(* The rest of SettleBillingOrder.  The account is guarded by the amount    *)
(* that was read; the order row is updated by id alone.                     *)
CommitSettle(t, actual) ==
    LET read == tx[t].read
        o    == tx[t].order
    IN
    /\ tx[t].kind = "settle" /\ tx[t].view = "fresh"
    /\ actual \in Actuals(read)
    /\ reserved[read.user] >= read.amount
    /\ orders' = [orders EXCEPT ![o].status = "settled", ![o].actual = actual]
    /\ Move(read.user, read.amount - actual, - read.amount)
    /\ CommittedBy(t)
    /\ UNCHANGED <<codes, bonus, adjusted>>

(* The rest of RefundBillingOrder, guarded the same way. *)
CommitRefund(t) ==
    LET read == tx[t].read
        o    == tx[t].order
    IN
    /\ tx[t].kind = "refund" /\ tx[t].view = "fresh"
    /\ reserved[read.user] >= read.amount
    /\ orders' = [orders EXCEPT ![o].status = "refunded"]
    /\ Move(read.user, read.amount, - read.amount)
    /\ CommittedBy(t)
    /\ UNCHANGED <<codes, bonus, adjusted>>

(* Mutant: the amount changes and the account does not. *)
CommitRepriceOrderOnly(t, p, m) ==
    LET read  == tx[t].read
        o     == tx[t].order
        delta == p - read.amount
    IN
    /\ tx[t].kind = "reprice" /\ tx[t].view = "fresh"
    /\ available[read.user] >= delta
    /\ reserved[read.user] >= - delta
    /\ orders[o].status \in {"reserved", "running"}
    /\ orders' = [orders EXCEPT ![o].amount = p, ![o].mode = m]
    /\ CommittedBy(t)
    /\ UNCHANGED <<available, reserved, codes, bonus, adjusted>>

(* The rest of SwitchTaskLogicalRoute: the reservation grows or shrinks by  *)
(* the difference, and the order row is updated only while still reserved   *)
(* or running.                                                              *)
CommitReprice(t, p, m) ==
    LET read  == tx[t].read
        o     == tx[t].order
        delta == p - read.amount
    IN
    /\ tx[t].kind = "reprice" /\ tx[t].view = "fresh"
    /\ available[read.user] >= delta
    /\ reserved[read.user] >= - delta
    /\ orders[o].status \in {"reserved", "running"}
    /\ orders' = [orders EXCEPT ![o].amount = p, ![o].mode = m]
    /\ Move(read.user, - delta, delta)
    /\ CommittedBy(t)
    /\ UNCHANGED <<codes, bonus, adjusted>>

(* Any error, a lost connection or a stale snapshot rolls back. *)
Rollback(t) ==
    /\ tx[t].kind # "idle"
    /\ tx' = [tx EXCEPT ![t] = Idle]
    /\ UNCHANGED <<available, reserved, orders, codes, bonus, adjusted>>

-----------------------------------------------------------------------------
Sources ==
    \/ \E u \in Users :
          \/ \E b \in Bonuses, a \in BonusAmounts : GrantCreditsOnce(u, b, a)
          \/ \E c \in Codes : RedeemCode(u, c)
          \/ \E d \in Adjustments : AdjustCredits(u, d)
    \/ \E c \in Codes : DisableRedeemCode(c)

OrderSteps ==
    \E o \in Orders :
       \/ \E u \in Users, p \in Prices, m \in Modes : ReserveBillingOrder(o, u, p, m)
       \/ MarkBillingRunning(o)
       \/ MarkBillingUncertain(o)

TxSteps ==
    \E t \in Txs :
       \/ \E o \in Orders :
             \/ BeginFinish(t, o, "settle")
             \/ BeginFinish(t, o, "refund")
             \/ BeginReprice(t, o)
       \/ \E actual \in Actuals(tx[t].read) : CommitSettle(t, actual)
       \/ CommitRefund(t)
       \/ \E p \in Prices, m \in Modes : CommitReprice(t, p, m)
       \/ Rollback(t)

Next == Sources \/ OrderSteps \/ TxSteps

Spec == Init /\ [][Next]_vars

-----------------------------------------------------------------------------
(* Properties *)

(* What each order row sets aside for u, and what it cost u. *)
Held(x, u) == IF x.user = u /\ x.status \in Unfinished THEN x.amount ELSE 0
Charged(x, u) == IF x.user = u /\ x.status = "settled" THEN x.actual ELSE 0
Cashed(x, u, amount) == IF x.by = u THEN amount ELSE 0

Holds(rows, u) == [o \in Orders |-> Held(rows[o], u)]
Charges(rows, u) == [o \in Orders |-> Charged(rows[o], u)]
Vouchers(rows, u) == [c \in Codes |-> Cashed(rows[c], u, CodeAmount[c])]

(* A user's reserved credits are exactly the holds of that user's           *)
(* unfinished orders, so no order's credits are released twice or stranded. *)
HoldsBacked ==
    \A u \in Users : reserved[u] = Total(Holds(orders, u), NumOrders)

(* Every credit of a user is accounted for: what is available, reserved or  *)
(* was paid for settled orders is what adjustments, bonuses and codes       *)
(* brought in, each of them counted once.                                   *)
CreditsConserved ==
    \A u \in Users :
        available[u] + reserved[u] + Total(Charges(orders, u), NumOrders)
          = adjusted[u] + Total(bonus[u], NumBonuses) + Total(Vouchers(codes, u), NumCodes)

(* "reserved credit balance is inconsistent" is never reported: whenever a  *)
(* finishing transaction may still commit, the account covers its order.    *)
BalanceConsistent ==
    \A t \in Txs :
        tx[t].kind \in {"settle", "refund"} /\ tx[t].view = "fresh"
            => tx[t].read.amount <= reserved[tx[t].read.user]

(* A settled order never becomes refunded nor the reverse, and its cost and *)
(* amount no longer change: RefundBillingOrder answers "settled billing     *)
(* order requires a manual refund", SettleBillingOrder "already refunded".  *)
FinishedOnce ==
    [][\A o \in Orders :
          orders[o].status \in {"settled", "refunded"} => orders'[o] = orders[o]]_vars

(* The ledger implements the abstract purse: the balance a user can spend   *)
(* and the orders holding part of it, each finished once.                   *)
Phase(s) == IF s \in Unfinished THEN "open" ELSE s
PurseOrder(x) == [phase |-> Phase(x.status), user |-> x.user,
                  held |-> x.amount, charged |-> x.actual]
PurseOrders == [o \in Orders |-> PurseOrder(orders[o])]
Purse == INSTANCE CreditPurse WITH spendable <- available, order <- PurseOrders
PurseSpec == Purse!Spec
=============================================================================
