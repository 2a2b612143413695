------------------------- MODULE CreditLedgerProofs -------------------------
(***************************************************************************)
(* Theorems about CreditLedger for every number of users, orders, codes,   *)
(* bonuses and connections.                                                *)
(***************************************************************************)
EXTENDS CreditLedger, WellFoundedInduction, TLAPS

-----------------------------------------------------------------------------
(* Totals: the type of a sum, its value when every summand is zero, what    *)
(* one changed summand does to it, and that it bounds each of its           *)
(* nonnegative summands.                                                    *)

(* A nonempty set of natural numbers has a least element.  The proofs below *)
(* use it where the library would use induction.                            *)
LEMMA LeastElement ==
    ASSUME NEW T \in SUBSET Nat, T # {}
    PROVE  \E m \in T : \A k \in T : m <= k
<1>1. IsWellFoundedOn(OpToRel(<, Nat), Nat)
  BY NatLessThanWellFounded
<1>2. PICK m \in T : \A k \in T : ~ (<<k, m>> \in OpToRel(<, Nat))
  BY <1>1, WFMin
<1> SUFFICES ASSUME NEW k \in T PROVE m <= k
  OBVIOUS
<1>3. ~ (<<k, m>> \in OpToRel(<, Nat))
  BY <1>2
<1>4. <<k, m>> \in Nat \X Nat
  OBVIOUS
<1>5. ~ (k < m)
  BY <1>3, <1>4 DEF OpToRel
<1> QED BY <1>4, <1>5

(* s lists the partial sums of f. *)
IsRunningTotal(s, f, n) ==
    s = [i \in 0..n |-> IF i = 0 THEN 0 ELSE s[i-1] + f[i]]

(* Partial sums of a sequence of integers exist.                            *)
LEMMA RunningTotalExists ==
    ASSUME NEW n \in Nat, NEW f \in [1..n -> Int]
    PROVE  \E s \in [0..n -> Int] : IsRunningTotal(s, f, n)
<1> DEFINE Upto(m) == \E s \in [0..m -> Int] : IsRunningTotal(s, f, m)
           T == {m \in 0..n : ~ Upto(m)}
<1>1. Upto(0)
  <2> DEFINE s == [i \in 0..0 |-> 0]
  <2>1. s \in [0..0 -> Int] OBVIOUS
  <2>2. IsRunningTotal(s, f, 0) BY DEF IsRunningTotal
  <2> QED BY <2>1, <2>2
<1>2. ASSUME NEW m \in 1..n, Upto(m-1) PROVE Upto(m)
  <2>1. PICK s \in [0..(m-1) -> Int] : IsRunningTotal(s, f, m-1)
    BY <1>2
  <2> DEFINE e == [i \in 0..m |-> IF i = m THEN s[m-1] + f[m] ELSE s[i]]
  <2>2. e \in [0..m -> Int] OBVIOUS
  <2>3. \A i \in 0..(m-1) : s[i] = IF i = 0 THEN 0 ELSE s[i-1] + f[i]
    BY <2>1 DEF IsRunningTotal
  <2>4. ASSUME NEW i \in 0..m
        PROVE  e[i] = IF i = 0 THEN 0 ELSE e[i-1] + f[i]
    <3>1. CASE i = m
      <4>1. i # 0 /\ i-1 \in 0..m /\ i-1 # m BY <3>1
      <4>2. e[i-1] = s[m-1] BY <3>1, <4>1
      <4> QED BY <3>1, <4>1, <4>2
    <3>2. CASE i = 0 /\ i # m
      <4>1. i \in 0..(m-1) /\ e[i] = s[i] BY <3>2
      <4> QED BY <3>2, <4>1, <2>3
    <3>3. CASE i # 0 /\ i # m
      <4>1. i \in 0..(m-1) /\ i-1 \in 0..m /\ i-1 # m BY <3>3
      <4>2. e[i] = s[i] /\ e[i-1] = s[i-1] BY <3>3, <4>1
      <4>3. s[i] = s[i-1] + f[i] BY <3>3, <4>1, <2>3
      <4> QED BY <3>3, <4>2, <4>3
    <3> QED BY <3>1, <3>2, <3>3
  <2>5. IsRunningTotal(e, f, m) 
    BY <2>4, <2>2 DEF IsRunningTotal
  <2> HIDE DEF e
  <2> QED BY <2>2, <2>5
<1>3. T = {}
  <2> SUFFICES ASSUME T # {} PROVE FALSE OBVIOUS
  <2>1. PICK m \in T : \A k \in T : m <= k
    <3>1. T \in SUBSET Nat OBVIOUS
    <3> HIDE DEF T
    <3> QED BY <3>1, LeastElement
  <2>2. m # 0 /\ m \in 1..n
    <3>1. m \in 0..n /\ ~ Upto(m) BY <2>1
    <3> HIDE DEF Upto
    <3> QED BY <3>1, <1>1
  <2>3. Upto(m-1) BY <2>1, <2>2
  <2>4. Upto(m) BY <2>2, <2>3, <1>2
  <2> QED BY <2>4, <2>1
<1>4. Upto(n) BY <1>3
<1> QED BY <1>4

(* A sequence has only one list of partial sums.                            *)
LEMMA RunningTotalUnique ==
    ASSUME NEW n \in Nat, NEW f \in [1..n -> Int], NEW s, NEW t,
           IsRunningTotal(s, f, n), IsRunningTotal(t, f, n)
    PROVE  s = t
<1> DEFINE D == {i \in 0..n : s[i] # t[i]}
<1>1. /\ \A i \in 0..n : s[i] = IF i = 0 THEN 0 ELSE s[i-1] + f[i]
      /\ \A i \in 0..n : t[i] = IF i = 0 THEN 0 ELSE t[i-1] + f[i]
  BY DEF IsRunningTotal
<1>2. D = {}
  <2> SUFFICES ASSUME D # {} PROVE FALSE OBVIOUS
  <2>1. PICK m \in D : \A k \in D : m <= k
    <3>1. D \in SUBSET Nat OBVIOUS
    <3> HIDE DEF D
    <3> QED BY <3>1, LeastElement
  <2>2. m # 0 BY <1>1, <2>1
  <2>3. s[m-1] = t[m-1] BY <2>1, <2>2
  <2> QED BY <1>1, <2>1, <2>2, <2>3
<1>3. \A i \in 0..n : s[i] = t[i] BY <1>2
<1>4. s = [i \in 0..n |-> s[i]] BY DEF IsRunningTotal
<1>5. t = [i \in 0..n |-> t[i]] BY DEF IsRunningTotal
<1> QED BY <1>3, <1>4, <1>5

(* RunningTotal, a recursive function, satisfies its defining equation.     *)
LEMMA RunningTotalDef ==
    ASSUME NEW n \in Nat, NEW f \in [1..n -> Int]
    PROVE  /\ RunningTotal(f, n) \in [0..n -> Int]
           /\ IsRunningTotal(RunningTotal(f, n), f, n)
<1>1. PICK s \in [0..n -> Int] : IsRunningTotal(s, f, n)
  BY RunningTotalExists
<1>2. RunningTotal(f, n) = CHOOSE acc : acc = [i \in 0..n |-> IF i = 0 THEN 0 ELSE acc[i-1] + f[i]]
  BY DEF RunningTotal
<1>3. IsRunningTotal(RunningTotal(f, n), f, n)
  BY <1>1, <1>2 DEF IsRunningTotal
<1>4. RunningTotal(f, n) = s
  BY <1>1, <1>3, RunningTotalUnique
<1> QED BY <1>1, <1>3, <1>4

(* The sum of integers is an integer.                                       *)
LEMMA TotalType ==
    ASSUME NEW n \in Nat, NEW f \in [1..n -> Int]
    PROVE  Total(f, n) \in Int
BY RunningTotalDef DEF Total

(* Changing one summand changes the sum by the difference.                  *)
LEMMA TotalUpdate ==
    ASSUME NEW n \in Nat, NEW f \in [1..n -> Int], NEW k \in 1..n, NEW v \in Int
    PROVE  Total([f EXCEPT ![k] = v], n) = Total(f, n) + (v - f[k])
<1> DEFINE g == [f EXCEPT ![k] = v]
           s == RunningTotal(f, n)
           t == [i \in 0..n |-> IF i < k THEN s[i] ELSE s[i] + (v - f[k])]
<1>1. s \in [0..n -> Int] /\ IsRunningTotal(s, f, n)
  BY RunningTotalDef
<1>2. g \in [1..n -> Int] OBVIOUS
<1> HIDE DEF s
<1>3. \A i \in 0..n : s[i] = IF i = 0 THEN 0 ELSE s[i-1] + f[i]
  BY <1>1 DEF IsRunningTotal
<1>4. \A i \in 0..n : t[i] = IF i = 0 THEN 0 ELSE t[i-1] + g[i]
  <2> SUFFICES ASSUME NEW i \in 0..n PROVE t[i] = IF i = 0 THEN 0 ELSE t[i-1] + g[i]
    OBVIOUS
  <2>1. CASE i = 0 BY <2>1, <1>3
  <2>2. CASE i # 0 /\ i < k BY <2>2, <1>1, <1>3
  <2>3. CASE i # 0 /\ i = k
    <3>1. i-1 \in 0..n /\ i-1 < k /\ s[i-1] \in Int /\ s[i] \in Int
      BY <2>3, <1>1
    <3>2. t[i] = s[i] + (v - f[k]) /\ t[i-1] = s[i-1] /\ g[i] = v
      BY <2>3, <3>1
    <3>3. s[i] = s[i-1] + f[k] BY <2>3, <1>3
    <3> QED BY <2>3, <3>1, <3>2, <3>3
  <2>4. CASE i # 0 /\ i > k
    <3>1. i-1 \in 0..n /\ ~ (i-1 < k) /\ s[i-1] \in Int /\ s[i] \in Int
      BY <2>4, <1>1
    <3>2. /\ t[i] = s[i] + (v - f[k]) /\ t[i-1] = s[i-1] + (v - f[k])
          /\ g[i] = f[i]
      BY <2>4, <3>1
    <3>3. s[i] = s[i-1] + f[i] BY <2>4, <1>3
    <3> QED BY <2>4, <3>1, <3>2, <3>3
  <2> QED BY <2>1, <2>2, <2>3, <2>4
<1>5. IsRunningTotal(t, g, n) BY <1>4 DEF IsRunningTotal
<1>6. IsRunningTotal(RunningTotal(g, n), g, n)
  BY <1>2, RunningTotalDef
<1>7. RunningTotal(g, n) = t
  <2> HIDE DEF t, g
  <2> QED BY <1>2, <1>5, <1>6, RunningTotalUnique
<1>8. t[n] = s[n] + (v - f[k]) BY <1>1
<1> QED BY <1>7, <1>8 DEF Total, s

(* The sum of zeros is zero.                                                *)
LEMMA TotalZero ==
    ASSUME NEW n \in Nat
    PROVE  Total([i \in 1..n |-> 0], n) = 0
<1> DEFINE z == [i \in 1..n |-> 0]
           t == [i \in 0..n |-> 0]
<1>1. z \in [1..n -> Int] OBVIOUS
<1>2. IsRunningTotal(t, z, n) BY DEF IsRunningTotal
<1>3. IsRunningTotal(RunningTotal(z, n), z, n) BY <1>1, RunningTotalDef
<1>4. RunningTotal(z, n) = t
  <2> HIDE DEF t, z
  <2> QED BY <1>1, <1>2, <1>3, RunningTotalUnique
<1> QED BY <1>4 DEF Total

(* The sum of natural numbers is natural and at least each summand.         *)
LEMMA TotalNat ==
    ASSUME NEW n \in Nat, NEW f \in [1..n -> Nat], NEW k \in 1..n
    PROVE  Total(f, n) \in Nat /\ f[k] <= Total(f, n)
<1> DEFINE s == RunningTotal(f, n)
           T == {i \in 0..n : ~ (s[i] >= 0 /\ (i >= k => s[i] >= f[k]))}
<1>1. s \in [0..n -> Int] /\ IsRunningTotal(s, f, n)
  BY RunningTotalDef
<1> HIDE DEF s
<1>2. \A i \in 0..n : s[i] = IF i = 0 THEN 0 ELSE s[i-1] + f[i]
  BY <1>1 DEF IsRunningTotal
<1>3. T = {}
  <2> SUFFICES ASSUME T # {} PROVE FALSE OBVIOUS
  <2>1. PICK m \in T : \A j \in T : m <= j
    <3>1. T \in SUBSET Nat OBVIOUS
    <3> HIDE DEF T
    <3> QED BY <3>1, LeastElement
  <2>2. m \in 1..n BY <1>2, <2>1
  <2>3. m - 1 \notin T BY <2>1, <2>2
  <2>4. s[m] = s[m-1] + f[m] BY <1>2, <2>2
  <2> QED BY <2>1, <2>2, <2>3, <2>4, <1>1
<1>4. s[n] >= 0 /\ s[n] >= f[k] BY <1>3
<1> QED BY <1>1, <1>4 DEF Total, s

-----------------------------------------------------------------------------
(* The ledger.                                                              *)
(* Rows and transactions that name an order of some user. *)
Owned ==
    /\ \A o \in Orders : orders[o].status # "absent" => orders[o].user \in Users
    /\ \A t \in Txs : tx[t].kind # "idle" =>
          /\ tx[t].read.status \in Unfinished
          /\ tx[t].read.user \in Users
          /\ orders[tx[t].order].status # "absent"
          /\ orders[tx[t].order].user = tx[t].read.user

(* A transaction that can still commit sees the order as it is. *)
ReadsCurrent ==
    \A t \in Txs : tx[t].kind # "idle" /\ tx[t].view = "fresh"
                     => orders[tx[t].order] = tx[t].read

(* What TypeOK needs to be inductive. *)
TypeInv == TypeOK /\ Owned

(* The empty tables satisfy the type invariant and its strengthening.       *)
LEMMA TypeInvInit == Init => TypeInv
BY DEF Init, TypeInv, TypeOK, Owned, NoOrder, Order, Statuses, Unfinished,
       BillingModes, Unused, Code, Idle

(* The other transactions after a commit. *)
LEMMA TxAfter ==
    ASSUME TypeInv, NEW t, Committed \/ CommittedBy(t)
    PROVE  /\ tx' \in [Txs -> Tx \cup {Idle}]
           /\ \A s \in Txs : tx'[s].kind # "idle" =>
                 /\ tx[s].kind # "idle"
                 /\ tx'[s].order = tx[s].order
                 /\ tx'[s].read = tx[s].read
                 /\ (tx'[s].view = "fresh" => ~ Snapshot)
<1>1. tx \in [Txs -> Tx \cup {Idle}]
  BY DEF TypeInv, TypeOK
<1>2. \A s \in Txs : tx[s].kind # "idle" => tx[s] \in Tx
  BY <1>1 DEF Idle
<1>3. \A s \in Txs : tx[s].kind # "idle" =>
         /\ Aged(tx[s]) \in Tx
         /\ Aged(tx[s]).order = tx[s].order
         /\ Aged(tx[s]).read = tx[s].read
         /\ (Aged(tx[s]).view = "fresh" => ~ Snapshot)
  BY <1>2, NamesAssumption DEF Tx, Aged
<1>4. \A s \in Txs : tx'[s] = Idle \/ (tx[s].kind # "idle" /\ tx'[s] = Aged(tx[s]))
  BY DEF Committed, CommittedBy
<1>5. DOMAIN tx' = Txs /\ tx' = [s \in Txs |-> tx'[s]]
  BY DEF Committed, CommittedBy
<1>6. \A s \in Txs : tx'[s] \in Tx \cup {Idle}
  BY <1>3, <1>4
<1>7. tx' \in [Txs -> Tx \cup {Idle}]
  BY <1>5, <1>6
<1>8. \A s \in Txs : tx'[s].kind # "idle" => tx'[s] # Idle
  BY DEF Idle
<1> QED BY <1>3, <1>4, <1>7, <1>8

(* An account update that keeps both balances nonnegative keeps their       *)
(* types.                                                                   *)
LEMMA MoveType ==
    ASSUME TypeOK, NEW u \in Users, NEW a \in Int, NEW b \in Int, Move(u, a, b),
           available[u] + a >= 0, reserved[u] + b >= 0
    PROVE  available' \in [Users -> Nat] /\ reserved' \in [Users -> Nat]
BY DEF TypeOK, Move

(* No step takes an order row away or gives it to another user. *)
KeepsRows ==
    \A q \in Orders : orders[q].status # "absent" =>
        orders'[q].status # "absent" /\ orders'[q].user = orders[q].user

(* An order step writes one row, of a user who owns it. *)
Writes(o, x) ==
    /\ orders' = [orders EXCEPT ![o] = x]
    /\ x \in Order
    /\ x.user \in Users /\ x.status # "absent"
    /\ orders[o].status # "absent" => x.user = orders[o].user

(* Writing one order row keeps the table well typed, its users known and    *)
(* every existing row with its owner.                                       *)
LEMMA WriteType ==
    ASSUME TypeInv, NEW o \in Orders, NEW x, Writes(o, x)
    PROVE  /\ orders' \in [Orders -> Order]
           /\ \A q \in Orders : orders'[q].status # "absent" => orders'[q].user \in Users
           /\ KeepsRows
BY DEF TypeInv, TypeOK, Owned, Writes, KeepsRows

(* Owned survives a commit that keeps the rows of the orders. *)
LEMMA OwnedAfter ==
    ASSUME TypeInv, NEW t, Committed \/ CommittedBy(t), KeepsRows,
           \A q \in Orders : orders'[q].status # "absent" => orders'[q].user \in Users
    PROVE  tx' \in [Txs -> Tx \cup {Idle}] /\ Owned'
<1>1. \A s \in Txs : tx[s].kind # "idle" => tx[s].order \in Orders
  BY DEF TypeInv, TypeOK, Tx, Idle
<1> QED BY <1>1, TxAfter DEF Owned, KeepsRows, TypeInv

(* Every action keeps the type invariant, on either database.               *)
LEMMA TypeInvStep == ASSUME TypeInv, [Next]_vars PROVE TypeInv'
<1>0. TypeOK BY DEF TypeInv
<1>1. ASSUME NEW u \in Users, NEW b \in Bonuses, NEW a \in BonusAmounts,
             GrantCreditsOnce(u, b, a)
      PROVE  TypeInv'
  <2>1. a \in Nat BY AmountsAssumption
  <2>2. available' \in [Users -> Nat] /\ reserved' \in [Users -> Nat]
    BY <1>0, <1>1, <2>1, MoveType DEF GrantCreditsOnce, TypeOK
  <2>3. bonus' \in [Users -> [Bonuses -> Nat]]
    BY <1>0, <1>1, <2>1 DEF GrantCreditsOnce, TypeOK
  <2> QED BY <1>1, <2>2, <2>3, TxAfter DEF GrantCreditsOnce, TypeInv, TypeOK, Owned
<1>2. ASSUME NEW u \in Users, NEW c \in Codes, RedeemCode(u, c)
      PROVE  TypeInv'
  <2>1. CodeAmount[c] \in Nat BY AmountsAssumption
  <2>2. available' \in [Users -> Nat] /\ reserved' \in [Users -> Nat]
    <3>1. Move(u, CodeAmount[c], 0)
      BY <1>2 DEF RedeemCode
    <3>2. available[u] + CodeAmount[c] >= 0 /\ reserved[u] + 0 >= 0
      BY <1>0, <2>1 DEF TypeOK
    <3> QED BY <1>0, <2>1, <3>1, <3>2, MoveType
  <2>3. codes' \in [Codes -> Code]
    BY <1>0, <1>2 DEF RedeemCode, TypeOK, Code
  <2> QED BY <1>2, <2>2, <2>3, TxAfter DEF RedeemCode, TypeInv, TypeOK, Owned
<1>3. ASSUME NEW u \in Users, NEW d \in Adjustments, AdjustCredits(u, d)
      PROVE  TypeInv'
  <2>1. d \in Int BY AmountsAssumption
  <2>2. available' \in [Users -> Nat] /\ reserved' \in [Users -> Nat]
    BY <1>0, <1>3, <2>1, MoveType DEF AdjustCredits, TypeOK
  <2>3. adjusted' \in [Users -> Int]
    BY <1>0, <1>3, <2>1 DEF AdjustCredits, TypeOK
  <2> QED BY <1>3, <2>2, <2>3, TxAfter DEF AdjustCredits, TypeInv, TypeOK, Owned
<1>4. ASSUME NEW c \in Codes, DisableRedeemCode(c)
      PROVE  TypeInv'
  <2>1. codes' \in [Codes -> Code]
    BY <1>0, <1>4 DEF DisableRedeemCode, TypeOK, Code
  <2> QED BY <1>4, <2>1, TxAfter DEF DisableRedeemCode, TypeInv, TypeOK, Owned
<1>5. ASSUME NEW o \in Orders, NEW u \in Users, NEW p \in Prices, NEW m \in Modes,
             ReserveBillingOrder(o, u, p, m)
      PROVE  TypeInv'
  <2> DEFINE x == [status |-> "reserved", user |-> u, mode |-> m,
                   amount |-> p, actual |-> 0]
  <2>1. p \in Nat /\ m \in BillingModes BY AmountsAssumption
  <2>2. x \in Order /\ x.user \in Users /\ x.status # "absent"
    BY <2>1 DEF Order, Statuses, Unfinished
  <2>3. orders' = [orders EXCEPT ![o] = x]
    BY <1>5 DEF ReserveBillingOrder
  <2>4. available' \in [Users -> Nat] /\ reserved' \in [Users -> Nat]
    BY <1>0, <1>5, <2>1, MoveType DEF ReserveBillingOrder, TypeOK
  <2> HIDE DEF x
  <2>5. Writes(o, x)
    BY <1>5, <2>2, <2>3 DEF Writes, ReserveBillingOrder
  <2>6. tx' \in [Txs -> Tx \cup {Idle}] /\ Owned'
    BY <1>5, <2>5, WriteType, OwnedAfter DEF ReserveBillingOrder
  <2> QED BY <1>0, <1>5, <2>4, <2>5, <2>6, WriteType DEF ReserveBillingOrder, TypeInv, TypeOK
<1>6. ASSUME NEW o \in Orders, MarkBillingRunning(o) \/ MarkBillingUncertain(o)
      PROVE  TypeInv'
  <2>1. PICK s \in {"running", "uncertain"} :
           orders' = [orders EXCEPT ![o] = [orders[o] EXCEPT !.status = s]]
    BY <1>6 DEF MarkBillingRunning, MarkBillingUncertain
  <2>2. Writes(o, [orders[o] EXCEPT !.status = s])
    BY <1>0, <1>6, <2>1 DEF MarkBillingRunning, MarkBillingUncertain, TypeInv, TypeOK,
                Owned, Order, Statuses, Unfinished, Writes
  <2>3. tx' \in [Txs -> Tx \cup {Idle}] /\ Owned'
    BY <1>6, <2>2, WriteType, OwnedAfter DEF MarkBillingRunning, MarkBillingUncertain
  <2> QED BY <1>0, <1>6, <2>2, <2>3, WriteType
          DEF MarkBillingRunning, MarkBillingUncertain, TypeInv, TypeOK
<1>7. ASSUME NEW t \in Txs, NEW o \in Orders,
             \/ BeginFinish(t, o, "settle") \/ BeginFinish(t, o, "refund")
             \/ BeginReprice(t, o)
      PROVE  TypeInv'
  <2>1. PICK k \in {"settle", "refund", "reprice"} :
           tx' = [tx EXCEPT ![t] = [kind |-> k, order |-> o,
                                    read |-> orders[o], view |-> "fresh"]]
    BY <1>7 DEF BeginFinish, BeginReprice
  <2>2. orders[o] \in Order /\ orders[o].status \in Unfinished /\ orders[o].user \in Users
    BY <1>7 DEF BeginFinish, BeginReprice, TypeInv, TypeOK, Owned, Unfinished
  <2>3. tx' \in [Txs -> Tx \cup {Idle}]
    BY <1>0, <2>1, <2>2 DEF TypeOK, Tx
  <2>4. orders' = orders
    BY <1>7 DEF BeginFinish, BeginReprice
  <2>5. \A s \in Txs : s # t => tx'[s] = tx[s]
    BY <1>0, <2>1 DEF TypeOK
  <2>6. tx'[t].read = orders[o] /\ tx'[t].order = o
    BY <1>0, <2>1 DEF TypeOK
  <2>7. orders[o].status # "absent"
    BY <2>2 DEF Unfinished
  <2>8. Owned'
    BY <2>2, <2>4, <2>5, <2>6, <2>7 DEF TypeInv, Owned
  <2> QED BY <1>7, <2>3, <2>8 DEF TypeInv, TypeOK, BeginFinish, BeginReprice
<1>8. ASSUME NEW t \in Txs, NEW a \in Actuals(tx[t].read), CommitSettle(t, a)
      PROVE  TypeInv'
  <2> DEFINE o == tx[t].order
             r == tx[t].read
             x == [orders[o] EXCEPT !.status = "settled", !.actual = a]
  <2>1. r \in Order /\ r.user \in Users /\ o \in Orders
    BY <1>0, <1>8 DEF CommitSettle, TypeInv, TypeOK, Owned, Idle, Tx
  <2>2. a \in 0..r.amount /\ r.amount \in Nat
    BY <2>1, <1>8 DEF Actuals, Order
  <2>3. available' \in [Users -> Nat] /\ reserved' \in [Users -> Nat]
    <3>1. Move(r.user, r.amount - a, - r.amount) /\ reserved[r.user] >= r.amount
      BY <1>8 DEF CommitSettle
    <3> HIDE DEF r
    <3>2. available[r.user] \in Nat /\ reserved[r.user] \in Nat
      BY <1>0, <2>1 DEF TypeOK
    <3>3. /\ available[r.user] + (r.amount - a) >= 0 /\ reserved[r.user] + (- r.amount) >= 0
          /\ r.amount - a \in Int /\ - r.amount \in Int
      BY <2>2, <3>1, <3>2
    <3> QED BY <1>0, <2>1, <3>1, <3>3, MoveType
  <2>4. Writes(o, x)
    <3>1. /\ orders[o] \in Order /\ orders[o].status # "absent"
          /\ orders[o].user = r.user
      BY <1>0, <1>8, <2>1 DEF CommitSettle, TypeInv, TypeOK, Owned
    <3>2. a \in Nat
      BY <2>2
    <3>3. /\ x \in Order /\ x.status # "absent" /\ x.user = orders[o].user
      BY <3>1, <3>2 DEF Order, Statuses
    <3>4. orders' = [orders EXCEPT ![o] = x]
      BY <1>0, <1>8, <2>1 DEF CommitSettle, TypeOK
    <3> QED BY <2>1, <3>1, <3>3, <3>4 DEF Writes
  <2>5. tx' \in [Txs -> Tx \cup {Idle}] /\ Owned'
    BY <1>8, <2>1, <2>4, WriteType, OwnedAfter DEF CommitSettle
  <2> QED BY <1>0, <1>8, <2>1, <2>3, <2>4, <2>5, WriteType DEF CommitSettle, TypeInv, TypeOK
<1>9. ASSUME NEW t \in Txs, CommitRefund(t)
      PROVE  TypeInv'
  <2> DEFINE o == tx[t].order
             r == tx[t].read
             x == [orders[o] EXCEPT !.status = "refunded"]
  <2>1. r \in Order /\ r.user \in Users /\ o \in Orders
    BY <1>0, <1>9 DEF CommitRefund, TypeInv, TypeOK, Owned, Idle, Tx
  <2>2. r.amount \in Nat
    BY <2>1 DEF Order
  <2>3. available' \in [Users -> Nat] /\ reserved' \in [Users -> Nat]
    <3>1. Move(r.user, r.amount, - r.amount) /\ reserved[r.user] >= r.amount
      BY <1>9 DEF CommitRefund
    <3> HIDE DEF r
    <3>2. available[r.user] \in Nat /\ reserved[r.user] \in Nat
      BY <1>0, <2>1 DEF TypeOK
    <3>3. /\ available[r.user] + r.amount >= 0 /\ reserved[r.user] + (- r.amount) >= 0
          /\ - r.amount \in Int
      BY <2>2, <3>1, <3>2
    <3> QED BY <1>0, <2>1, <2>2, <3>1, <3>3, MoveType
  <2>4. Writes(o, x)
    BY <1>0, <1>9, <2>1 DEF CommitRefund, TypeInv, TypeOK, Owned, Order, Statuses, Writes
  <2>5. tx' \in [Txs -> Tx \cup {Idle}] /\ Owned'
    BY <1>9, <2>1, <2>4, WriteType, OwnedAfter DEF CommitRefund
  <2> QED BY <1>0, <1>9, <2>1, <2>3, <2>4, <2>5, WriteType DEF CommitRefund, TypeInv, TypeOK
<1>10. ASSUME NEW t \in Txs, NEW p \in Prices, NEW m \in Modes, CommitReprice(t, p, m)
      PROVE  TypeInv'
  <2> DEFINE o == tx[t].order
             r == tx[t].read
             x == [orders[o] EXCEPT !.amount = p, !.mode = m]
  <2>1. r \in Order /\ r.user \in Users /\ o \in Orders
    BY <1>0, <1>10 DEF CommitReprice, TypeInv, TypeOK, Owned, Idle, Tx
  <2>2. r.amount \in Nat /\ p \in Nat /\ m \in BillingModes
    BY <2>1, AmountsAssumption DEF Order
  <2>3. available' \in [Users -> Nat] /\ reserved' \in [Users -> Nat]
    <3>1. Move(r.user, - (p - r.amount), p - r.amount)
      BY <1>10 DEF CommitReprice
    <3>2. available[r.user] >= p - r.amount /\ reserved[r.user] >= - (p - r.amount)
      BY <1>10 DEF CommitReprice
    <3>3. available[r.user] \in Nat /\ reserved[r.user] \in Nat
      BY <1>0, <2>1 DEF TypeOK
    <3> HIDE DEF r
    <3>4. available[r.user] + (- (p - r.amount)) >= 0 /\ reserved[r.user] + (p - r.amount) >= 0
      BY <3>2, <3>3, <2>2
    <3> QED BY <1>0, <3>1, <3>4, <2>1, <2>2, MoveType
  <2>4. Writes(o, x)
    BY <1>0, <1>10, <2>1, <2>2 DEF CommitReprice, TypeInv, TypeOK, Owned, Order, Writes
  <2>5. tx' \in [Txs -> Tx \cup {Idle}] /\ Owned'
    BY <1>10, <2>1, <2>4, WriteType, OwnedAfter DEF CommitReprice
  <2> QED BY <1>0, <1>10, <2>1, <2>3, <2>4, <2>5, WriteType DEF CommitReprice, TypeInv, TypeOK
<1>11. ASSUME NEW t \in Txs, Rollback(t)
       PROVE  TypeInv'
  BY <1>0, <1>11 DEF Rollback, TypeInv, TypeOK, Owned, Idle
<1>12. ASSUME UNCHANGED vars PROVE TypeInv'
  BY <1>0, <1>12 DEF vars, TypeInv, TypeOK, Owned
<1> QED
  BY <1>1, <1>2, <1>3, <1>4, <1>5, <1>6, <1>7, <1>8, <1>9, <1>10, <1>11, <1>12
     DEF Next, Sources, OrderSteps, TxSteps

(* The account never goes negative, on either database and however the      *)
(* transactions of settlements, refunds and repricings interleave.          *)
THEOREM TypeCorrect == Spec => []TypeOK
<1>1. TypeInv => TypeOK BY DEF TypeInv
<1> QED BY <1>1, TypeInvInit, TypeInvStep, PTL DEF Spec

-----------------------------------------------------------------------------
(* Sums over the order and code rows when one row changes. *)

(* Writing one order row changes a user's sum of holds by the difference of *)
(* that row's hold.                                                         *)
LEMMA HoldsWrite ==
    ASSUME NEW rows \in [Orders -> Order], NEW o \in Orders, NEW x \in Order, NEW u
    PROVE  Total(Holds([rows EXCEPT ![o] = x], u), NumOrders)
             = Total(Holds(rows, u), NumOrders) + (Held(x, u) - Held(rows[o], u))
<1>1. Holds(rows, u) \in [1..NumOrders -> Int] /\ Held(x, u) \in Int
  BY DEF Holds, Held, Order, Orders
<1>2. Holds([rows EXCEPT ![o] = x], u) = [Holds(rows, u) EXCEPT ![o] = Held(x, u)]
  BY DEF Holds, Orders
<1>3. Holds(rows, u)[o] = Held(rows[o], u)
  BY DEF Holds
<1>4. o \in 1..NumOrders /\ NumOrders \in Nat
  BY SizesAssumption DEF Orders
<1>5. Total([Holds(rows, u) EXCEPT ![o] = Held(x, u)], NumOrders)
        = Total(Holds(rows, u), NumOrders) + (Held(x, u) - Holds(rows, u)[o])
  BY <1>1, <1>4, TotalUpdate
<1> QED BY <1>2, <1>3, <1>5

(* Writing one order row changes a user's sum of charges by the difference  *)
(* of that row's charge.                                                    *)
LEMMA ChargesWrite ==
    ASSUME NEW rows \in [Orders -> Order], NEW o \in Orders, NEW x \in Order, NEW u
    PROVE  Total(Charges([rows EXCEPT ![o] = x], u), NumOrders)
             = Total(Charges(rows, u), NumOrders) + (Charged(x, u) - Charged(rows[o], u))
<1>1. Charges(rows, u) \in [1..NumOrders -> Int] /\ Charged(x, u) \in Int
  BY DEF Charges, Charged, Order, Orders
<1>2. Charges([rows EXCEPT ![o] = x], u) = [Charges(rows, u) EXCEPT ![o] = Charged(x, u)]
  BY DEF Charges, Orders
<1>3. Charges(rows, u)[o] = Charged(rows[o], u)
  BY DEF Charges
<1>4. o \in 1..NumOrders /\ NumOrders \in Nat
  BY SizesAssumption DEF Orders
<1>5. Total([Charges(rows, u) EXCEPT ![o] = Charged(x, u)], NumOrders)
        = Total(Charges(rows, u), NumOrders) + (Charged(x, u) - Charges(rows, u)[o])
  BY <1>1, <1>4, TotalUpdate
<1> QED BY <1>2, <1>3, <1>5

(* All four sums of a user are integers.                                    *)
LEMMA SumTypes ==
    ASSUME TypeOK, NEW u \in Users
    PROVE  /\ Total(Holds(orders, u), NumOrders) \in Int
           /\ Total(Charges(orders, u), NumOrders) \in Int
           /\ Total(Vouchers(codes, u), NumCodes) \in Int
           /\ Total(bonus[u], NumBonuses) \in Int
<1>1. Holds(orders, u) \in [1..NumOrders -> Int]
  BY DEF TypeOK, Holds, Held, Order, Orders
<1>2. Charges(orders, u) \in [1..NumOrders -> Int]
  BY DEF TypeOK, Charges, Charged, Order, Orders
<1>3. Vouchers(codes, u) \in [1..NumCodes -> Int]
  BY AmountsAssumption DEF Vouchers, Cashed, Codes
<1>4. bonus[u] \in [1..NumBonuses -> Int]
  BY DEF TypeOK, Bonuses
<1> QED BY <1>1, <1>2, <1>3, <1>4, TotalType, SizesAssumption

(* Setting a summand that was zero adds its value to the sum.               *)
LEMMA TotalSet ==
    ASSUME NEW n \in Nat, NEW f \in [1..n -> Int], NEW k \in 1..n, NEW v \in Int, f[k] = 0
    PROVE  Total([f EXCEPT ![k] = v], n) = Total(f, n) + v
<1>1. Total([f EXCEPT ![k] = v], n) = Total(f, n) + (v - 0)
  BY TotalUpdate
<1> QED BY <1>1

(* The two equations between accounts and rows. *)
Accounted == HoldsBacked /\ CreditsConserved

(* The change of an account by a and b is what its books change by.         *)
LEMMA BalanceShift ==
    ASSUME NEW av \in Int, NEW rv \in Int, NEW tc \in Int, NEW total \in Int,
           NEW a \in Int, NEW b \in Int, NEW co \in Int, NEW cx \in Int,
           av + rv + tc = total, a + b = co - cx
    PROVE  (av + a) + (rv + b) + (tc + (cx - co)) = total
OBVIOUS

(* An order step keeps the accounts if the reservation moves with the hold  *)
(* of the row and the sum of the account with its cost.                     *)
LEMMA AccountedWrite ==
    ASSUME TypeInv, Accounted, NEW o \in Orders, NEW x, Writes(o, x),
           NEW a \in Int, NEW b \in Int, Move(x.user, a, b),
           b = Held(x, x.user) - Held(orders[o], x.user),
           a + b = Charged(orders[o], x.user) - Charged(x, x.user),
           UNCHANGED <<codes, bonus, adjusted>>
    PROVE  Accounted'
<1> DEFINE u == x.user
<1>1. TypeOK /\ orders \in [Orders -> Order] /\ x \in Order /\ u \in Users
  BY DEF TypeInv, TypeOK, Writes
<1>2. ASSUME NEW v \in Users
      PROVE  /\ Total(Holds(orders', v), NumOrders) =
                   Total(Holds(orders, v), NumOrders) + (Held(x, v) - Held(orders[o], v))
             /\ Total(Charges(orders', v), NumOrders) =
                   Total(Charges(orders, v), NumOrders) + (Charged(x, v) - Charged(orders[o], v))
  BY <1>1, HoldsWrite, ChargesWrite DEF Writes
<1>3. ASSUME NEW v \in Users, v # u
      PROVE  /\ Held(x, v) = 0 /\ Held(orders[o], v) = 0
             /\ Charged(x, v) = 0 /\ Charged(orders[o], v) = 0
  BY <1>1, <1>3 DEF Held, Charged, Writes, Unfinished
<1>4. /\ available' = [available EXCEPT ![u] = @ + a]
      /\ reserved' = [reserved EXCEPT ![u] = @ + b]
      /\ codes' = codes /\ bonus' = bonus /\ adjusted' = adjusted
  BY DEF Move
<1>5. /\ available \in [Users -> Nat] /\ reserved \in [Users -> Nat]
      /\ adjusted \in [Users -> Int]
  BY <1>1 DEF TypeOK
<1>6. Held(x, u) \in Int /\ Held(orders[o], u) \in Int
      /\ Charged(x, u) \in Int /\ Charged(orders[o], u) \in Int
  BY <1>1 DEF Held, Charged, Order
<1>7. ASSUME NEW v \in Users
      PROVE  /\ reserved'[v] = Total(Holds(orders', v), NumOrders)
             /\ available'[v] + reserved'[v] + Total(Charges(orders', v), NumOrders)
                  = adjusted'[v] + Total(bonus'[v], NumBonuses)
                      + Total(Vouchers(codes', v), NumCodes)
  <2> DEFINE th == Total(Holds(orders, v), NumOrders)
             tc == Total(Charges(orders, v), NumOrders)
             tv == Total(Vouchers(codes, v), NumCodes)
             tb == Total(bonus[v], NumBonuses)
  <2>1. th \in Int /\ tc \in Int /\ tv \in Int /\ tb \in Int
    BY <1>1, SumTypes
  <2>2. reserved[v] = th /\ available[v] + reserved[v] + tc = adjusted[v] + tb + tv
    BY DEF Accounted, HoldsBacked, CreditsConserved
  <2>3. CASE v = u
    <3> HIDE DEF th, tc, tv, tb
    <3>1. available'[v] = available[v] + a /\ reserved'[v] = reserved[v] + b
      BY <1>4, <1>5, <2>3
    <3>2. /\ Total(Holds(orders', v), NumOrders) = th + (Held(x, v) - Held(orders[o], v))
          /\ Total(Charges(orders', v), NumOrders) = tc + (Charged(x, v) - Charged(orders[o], v))
          /\ Total(bonus'[v], NumBonuses) = tb
          /\ Total(Vouchers(codes', v), NumCodes) = tv
      BY <1>2, <1>4 DEF th, tc, tv, tb
    <3>3. available[v] \in Int /\ reserved[v] \in Int /\ adjusted[v] \in Int /\ adjusted'[v] = adjusted[v]
      BY <1>4, <1>5
    <3>4. /\ Held(x, v) \in Int /\ Held(orders[o], v) \in Int
          /\ Charged(x, v) \in Int /\ Charged(orders[o], v) \in Int
          /\ b = Held(x, v) - Held(orders[o], v)
          /\ a + b = Charged(orders[o], v) - Charged(x, v)
      BY <1>6, <2>3
    <3>5. reserved'[v] = Total(Holds(orders', v), NumOrders)
      BY <2>1, <2>2, <3>1, <3>2, <3>3, <3>4
    <3>6. available'[v] + reserved'[v] + (tc + (Charged(x, v) - Charged(orders[o], v)))
            = adjusted[v] + tb + tv
      <4>1. (available[v] + a) + (reserved[v] + b) + (tc + (Charged(x, v) - Charged(orders[o], v)))
              = adjusted[v] + tb + tv
        <5>1. adjusted[v] + tb + tv \in Int BY <2>1, <3>3
        <5> QED BY <2>1, <2>2, <3>3, <3>4, <5>1, BalanceShift
      <4> QED BY <3>1, <4>1
    <3> QED BY <3>2, <3>3, <3>5, <3>6
  <2>4. CASE v # u
    <3> HIDE DEF th, tc, tv, tb
    <3>1. available'[v] = available[v] /\ reserved'[v] = reserved[v]
      BY <1>4, <1>5, <2>4
    <3>2. /\ Total(Holds(orders', v), NumOrders) = th
          /\ Total(Charges(orders', v), NumOrders) = tc
          /\ Total(bonus'[v], NumBonuses) = tb
          /\ Total(Vouchers(codes', v), NumCodes) = tv
      BY <1>2, <1>3, <1>4, <2>1, <2>4 DEF th, tc, tv, tb
    <3> QED BY <1>4, <2>2, <3>1, <3>2
  <2> QED BY <2>3, <2>4
<1> QED BY <1>7 DEF Accounted, HoldsBacked, CreditsConserved

(* With empty tables every sum is zero.                                     *)
LEMMA AccountedInit == Init => Accounted
<1> SUFFICES ASSUME Init PROVE Accounted
  OBVIOUS
<1>1. ASSUME NEW u \in Users
      PROVE  /\ Holds(orders, u) = [o \in 1..NumOrders |-> 0]
             /\ Charges(orders, u) = [o \in 1..NumOrders |-> 0]
             /\ Vouchers(codes, u) = [c \in 1..NumCodes |-> 0]
             /\ bonus[u] = [b \in 1..NumBonuses |-> 0]
  BY NamesAssumption DEF Init, Holds, Charges, Vouchers, Held, Charged, Cashed,
       NoOrder, Unused, Unfinished, Orders, Codes, Bonuses
<1>2. \A u \in Users : available[u] = 0 /\ reserved[u] = 0 /\ adjusted[u] = 0
  BY DEF Init
<1> QED BY <1>1, <1>2, TotalZero, SizesAssumption DEF Accounted, HoldsBacked, CreditsConserved

(* A bonus, a redeemed code and an adjustment raise available credits by    *)
(* what they add to the right-hand side of CreditsConserved.                *)
LEMMA AccountedSource ==
    ASSUME TypeInv, Accounted, NEW u \in Users, NEW a \in Int, Move(u, a, 0),
           UNCHANGED orders,
           adjusted' \in [Users -> Int],
           \A v \in Users :
              adjusted'[v] + Total(bonus'[v], NumBonuses) + Total(Vouchers(codes', v), NumCodes)
                = adjusted[v] + Total(bonus[v], NumBonuses) + Total(Vouchers(codes, v), NumCodes)
                    + (IF v = u THEN a ELSE 0)
    PROVE  Accounted'
<1>1. /\ available \in [Users -> Nat] /\ reserved \in [Users -> Nat] /\ TypeOK
  BY DEF TypeInv, TypeOK
<1>2. /\ available' = [available EXCEPT ![u] = @ + a]
      /\ reserved' = [reserved EXCEPT ![u] = @ + 0]
      /\ orders' = orders
  BY DEF Move
<1>3. ASSUME NEW v \in Users
      PROVE  /\ reserved'[v] = reserved[v]
             /\ available'[v] = available[v] + (IF v = u THEN a ELSE 0)
  BY <1>1, <1>2
<1>4. ASSUME NEW v \in Users
      PROVE  available'[v] + reserved'[v] + Total(Charges(orders', v), NumOrders)
               = adjusted'[v] + Total(bonus'[v], NumBonuses)
                   + Total(Vouchers(codes', v), NumCodes)
  <2> DEFINE tc == Total(Charges(orders, v), NumOrders)
             rhs == adjusted[v] + Total(bonus[v], NumBonuses) + Total(Vouchers(codes, v), NumCodes)
             rhsp == adjusted'[v] + Total(bonus'[v], NumBonuses)
                       + Total(Vouchers(codes', v), NumCodes)
             d == IF v = u THEN a ELSE 0
  <2>1. tc \in Int /\ rhs \in Int /\ d \in Int
    BY <1>1, SumTypes DEF TypeOK
  <2>2. available[v] + reserved[v] + tc = rhs /\ rhsp = rhs + d
    BY DEF Accounted, CreditsConserved
  <2>3. available'[v] = available[v] + d /\ reserved'[v] = reserved[v]
    BY <1>3
  <2>4. Total(Charges(orders', v), NumOrders) = tc
    BY <1>2
  <2>5. available[v] \in Int /\ reserved[v] \in Int
    BY <1>1
  <2> HIDE DEF tc, rhs, rhsp, d
  <2>6. available'[v] + reserved'[v] + tc = rhsp
    BY <2>1, <2>2, <2>3, <2>5
  <2> QED BY <2>4, <2>6 DEF rhsp
<1>5. \A v \in Users : reserved'[v] = Total(Holds(orders', v), NumOrders)
  BY <1>2, <1>3 DEF Accounted, HoldsBacked
<1> QED BY <1>4, <1>5 DEF Accounted, HoldsBacked, CreditsConserved

-----------------------------------------------------------------------------
(* With snapshots, a transaction that commits acts on the row it read.      *)

(* A commit either is the only one since a transaction read its order or    *)
(* makes that transaction stale.                                            *)
LEMMA ReadsCurrentStep ==
    ASSUME Snapshot, TypeInv, ReadsCurrent, [Next]_vars
    PROVE  ReadsCurrent'
<1>1. ASSUME Committed \/ \E t \in Txs : CommittedBy(t) PROVE ReadsCurrent'
  BY <1>1, TxAfter DEF ReadsCurrent
<1>2. ASSUME NEW t \in Txs, NEW o \in Orders,
             \/ BeginFinish(t, o, "settle") \/ BeginFinish(t, o, "refund")
             \/ BeginReprice(t, o)
      PROVE  ReadsCurrent'
  <2>1. PICK k : tx' = [tx EXCEPT ![t] = [kind |-> k, order |-> o,
                                          read |-> orders[o], view |-> "fresh"]]
    BY <1>2 DEF BeginFinish, BeginReprice
  <2>2. orders' = orders
    BY <1>2 DEF BeginFinish, BeginReprice
  <2> QED BY <2>1, <2>2 DEF ReadsCurrent, TypeInv, TypeOK
<1>3. ASSUME NEW t \in Txs, Rollback(t) PROVE ReadsCurrent'
  BY <1>3 DEF Rollback, ReadsCurrent, Idle, TypeInv, TypeOK
<1>4. ASSUME UNCHANGED vars PROVE ReadsCurrent'
  BY <1>4 DEF vars, ReadsCurrent
<1>5. ASSUME Sources PROVE Committed
  BY <1>5 DEF Sources, GrantCreditsOnce, RedeemCode, DisableRedeemCode, AdjustCredits
<1>6. ASSUME OrderSteps PROVE Committed
  BY <1>6 DEF OrderSteps, ReserveBillingOrder, MarkBillingRunning, MarkBillingUncertain
<1>7. ASSUME NEW t \in Txs,
             \/ \E a \in Actuals(tx[t].read) : CommitSettle(t, a)
             \/ CommitRefund(t)
             \/ \E p \in Prices, m \in Modes : CommitReprice(t, p, m)
      PROVE  CommittedBy(t)
  BY <1>7 DEF CommitSettle, CommitRefund, CommitReprice
<1>8. ASSUME TxSteps PROVE ReadsCurrent'
  BY <1>1, <1>2, <1>3, <1>7, <1>8 DEF TxSteps
<1> QED
  BY <1>1, <1>4, <1>5, <1>6, <1>8 DEF Next

(* The order, the row read and the user of a transaction that commits. *)
LEMMA CommitReads ==
    ASSUME TypeInv, ReadsCurrent, NEW t \in Txs,
           tx[t].kind \in {"settle", "refund", "reprice"}, tx[t].view = "fresh"
    PROVE  /\ tx[t].order \in Orders
           /\ orders[tx[t].order] = tx[t].read
           /\ tx[t].read \in Order
           /\ tx[t].read.status \in Unfinished
           /\ tx[t].read.user \in Users
           /\ tx[t].read.amount \in Nat
BY DEF TypeInv, TypeOK, Owned, ReadsCurrent, Tx, Idle, Order

(* What an unfinished order holds and costs before and after its            *)
(* settlement.                                                              *)
LEMMA SettledRow ==
    ASSUME NEW x \in Order, x.status \in Unfinished, NEW a \in 0..x.amount
    PROVE  LET y == [x EXCEPT !.status = "settled", !.actual = a] IN
           /\ y \in Order /\ y.user = x.user /\ y.status = "settled"
           /\ Held(x, x.user) = x.amount /\ Held(y, x.user) = 0
           /\ Charged(x, x.user) = 0 /\ Charged(y, x.user) = a
<1>1. x.amount \in Nat /\ a \in Nat
  BY DEF Order
<1>2. [x EXCEPT !.status = "settled", !.actual = a] \in Order
  BY <1>1 DEF Order, Statuses
<1> QED BY <1>1, <1>2 DEF Order, Held, Charged, Unfinished

(* What an unfinished order holds and costs before and after its refund.    *)
LEMMA RefundedRow ==
    ASSUME NEW x \in Order, x.status \in Unfinished
    PROVE  LET y == [x EXCEPT !.status = "refunded"] IN
           /\ y \in Order /\ y.user = x.user /\ y.status = "refunded"
           /\ Held(x, x.user) = x.amount /\ Held(y, x.user) = 0
           /\ Charged(x, x.user) = 0 /\ Charged(y, x.user) = 0
BY DEF Order, Held, Charged, Unfinished, Statuses

(* What an unfinished order holds and costs before and after a repricing.   *)
LEMMA RepricedRow ==
    ASSUME NEW x \in Order, x.status \in Unfinished, NEW p \in Nat, NEW m \in BillingModes
    PROVE  LET y == [x EXCEPT !.amount = p, !.mode = m] IN
           /\ y \in Order /\ y.user = x.user /\ y.status = x.status
           /\ Held(x, x.user) = x.amount /\ Held(y, x.user) = p
           /\ Charged(x, x.user) = 0 /\ Charged(y, x.user) = 0
BY DEF Order, Held, Charged, Unfinished, Statuses

(* Marking an unfinished order running or uncertain changes neither its     *)
(* hold nor its cost.                                                       *)
LEMMA MarkedRow ==
    ASSUME NEW x \in Order, x.status \in Unfinished, NEW s \in Unfinished
    PROVE  LET y == [x EXCEPT !.status = s] IN
           /\ y \in Order /\ y.user = x.user /\ y.status = s
           /\ Held(y, x.user) = Held(x, x.user)
           /\ Charged(x, x.user) = 0 /\ Charged(y, x.user) = 0
BY DEF Order, Held, Charged, Unfinished, Statuses

(* A new order holds its price and has cost nothing.                        *)
LEMMA ReservedRow ==
    ASSUME NEW x \in Order, x.status = "absent", NEW u \in Users, NEW p \in Prices, NEW m \in Modes
    PROVE  LET y == [status |-> "reserved", user |-> u, mode |-> m, amount |-> p, actual |-> 0] IN
           /\ y \in Order /\ y.user = u /\ y.status = "reserved"
           /\ Held(y, u) = p /\ Held(x, u) = 0
           /\ Charged(x, u) = 0 /\ Charged(y, u) = 0
BY AmountsAssumption DEF Order, Held, Charged, Unfinished, Statuses

(* Every action keeps the accounts balanced if the transactions that commit *)
(* read current rows.                                                       *)
LEMMA AccountedStep ==
    ASSUME Snapshot, TypeInv, ReadsCurrent, Accounted, [Next]_vars
    PROVE  Accounted'
<1>0. TypeOK /\ orders \in [Orders -> Order]
  BY DEF TypeInv, TypeOK
<1>1. ASSUME NEW u \in Users, NEW b \in Bonuses, NEW a \in BonusAmounts,
             GrantCreditsOnce(u, b, a)
      PROVE  Accounted'
  <2>1. a \in Int /\ NumBonuses \in Nat /\ b \in 1..NumBonuses
    BY AmountsAssumption, SizesAssumption DEF Bonuses
  <2>2. bonus \in [Users -> [1..NumBonuses -> Int]] /\ adjusted \in [Users -> Int]
    BY <1>0 DEF TypeOK, Bonuses
  <2>3. /\ bonus' = [bonus EXCEPT ![u][b] = a] /\ bonus[u][b] = 0
        /\ UNCHANGED <<orders, codes, adjusted>> /\ Move(u, a, 0)
    BY <1>1 DEF GrantCreditsOnce
  <2>4. Total([bonus[u] EXCEPT ![b] = a], NumBonuses) = Total(bonus[u], NumBonuses) + a
    <3> DEFINE f == bonus[u]
    <3>1. f \in [1..NumBonuses -> Int] /\ f[b] = 0
      BY <2>2, <2>3
    <3> HIDE DEF f
    <3>2. Total([f EXCEPT ![b] = a], NumBonuses) = Total(f, NumBonuses) + a
      BY <2>1, <3>1, TotalSet
    <3> QED BY <3>2 DEF f
  <2>5. ASSUME NEW v \in Users
        PROVE  Total(bonus'[v], NumBonuses) = Total(bonus[v], NumBonuses) + (IF v = u THEN a ELSE 0)
    <3>1. CASE v = u
      <4>1. bonus'[v] = [bonus[u] EXCEPT ![b] = a] BY <2>2, <2>3, <3>1
      <4> QED BY <2>4, <3>1, <4>1
    <3>2. CASE v # u
      <4>1. bonus'[v] = bonus[v] BY <2>2, <2>3, <3>2
      <4> QED BY <1>0, <3>2, <4>1, SumTypes
    <3> QED BY <3>1, <3>2
  <2>6. ASSUME NEW v \in Users
        PROVE  adjusted'[v] + Total(bonus'[v], NumBonuses) + Total(Vouchers(codes', v), NumCodes)
                = adjusted[v] + Total(bonus[v], NumBonuses) + Total(Vouchers(codes, v), NumCodes)
                    + (IF v = u THEN a ELSE 0)
    <3>1. adjusted'[v] = adjusted[v] /\ codes' = codes BY <2>3
    <3>2. /\ adjusted[v] \in Int /\ Total(bonus[v], NumBonuses) \in Int
          /\ Total(Vouchers(codes, v), NumCodes) \in Int
      BY <1>0, <2>2, SumTypes
    <3> QED BY <2>1, <2>5, <3>1, <3>2
  <2>7. adjusted' \in [Users -> Int] /\ orders' = orders BY <2>2, <2>3
  <2> QED BY <2>1, <2>3, <2>6, <2>7, AccountedSource
<1>2. ASSUME NEW u \in Users, NEW c \in Codes, RedeemCode(u, c)
      PROVE  Accounted'
  <2> DEFINE a == CodeAmount[c]
             row == [status |-> "redeemed", by |-> u]
  <2>1. a \in Int /\ NumCodes \in Nat /\ c \in 1..NumCodes
    BY AmountsAssumption, SizesAssumption DEF Codes
  <2>2. /\ codes' = [codes EXCEPT ![c] = row] /\ codes[c].status = "unused"
        /\ UNCHANGED <<orders, bonus, adjusted>> /\ Move(u, a, 0)
    BY <1>2 DEF RedeemCode
  <2>3. codes[c].by = NoUser /\ codes \in [Codes -> Code] /\ adjusted \in [Users -> Int]
    BY <1>0, <2>2 DEF TypeOK, Code
  <2> HIDE DEF a
  <2>4. ASSUME NEW v \in Users
        PROVE  Total(Vouchers(codes', v), NumCodes)
                 = Total(Vouchers(codes, v), NumCodes) + (IF v = u THEN a ELSE 0)
    <3> DEFINE f == Vouchers(codes, v)
               d == IF v = u THEN a ELSE 0
    <3>1. f \in [1..NumCodes -> Int] /\ d \in Int
      BY AmountsAssumption, <2>1 DEF Vouchers, Cashed, Codes
    <3>2. f[c] = 0
      BY <2>3, NamesAssumption DEF Vouchers, Cashed
    <3>3. Vouchers(codes', v) = [f EXCEPT ![c] = d]
      BY <2>2, <2>3 DEF Vouchers, Cashed, a
    <3> HIDE DEF f, d
    <3>4. Total([f EXCEPT ![c] = d], NumCodes) = Total(f, NumCodes) + d
      BY <2>1, <3>1, <3>2, TotalSet
    <3> QED BY <3>3, <3>4 DEF f, d
  <2>5. ASSUME NEW v \in Users
        PROVE  adjusted'[v] + Total(bonus'[v], NumBonuses) + Total(Vouchers(codes', v), NumCodes)
                = adjusted[v] + Total(bonus[v], NumBonuses) + Total(Vouchers(codes, v), NumCodes)
                    + (IF v = u THEN a ELSE 0)
    <3>1. adjusted'[v] = adjusted[v] /\ bonus' = bonus BY <2>2
    <3>2. /\ adjusted[v] \in Int /\ Total(bonus[v], NumBonuses) \in Int
          /\ Total(Vouchers(codes, v), NumCodes) \in Int
      BY <1>0, <2>3, SumTypes
    <3> QED BY <2>1, <2>4, <3>1, <3>2
  <2>6. adjusted' \in [Users -> Int] /\ orders' = orders BY <2>2, <2>3
  <2> QED BY <2>1, <2>2, <2>5, <2>6, AccountedSource
<1>3. ASSUME NEW u \in Users, NEW d \in Adjustments, AdjustCredits(u, d)
      PROVE  Accounted'
  <2>1. d \in Int /\ adjusted \in [Users -> Int]
    BY <1>0, AmountsAssumption DEF TypeOK
  <2>2. /\ adjusted' = [adjusted EXCEPT ![u] = @ + d]
        /\ UNCHANGED <<orders, bonus, codes>> /\ Move(u, d, 0)
    BY <1>3 DEF AdjustCredits
  <2>3. ASSUME NEW v \in Users
        PROVE  adjusted'[v] + Total(bonus'[v], NumBonuses) + Total(Vouchers(codes', v), NumCodes)
                = adjusted[v] + Total(bonus[v], NumBonuses) + Total(Vouchers(codes, v), NumCodes)
                    + (IF v = u THEN d ELSE 0)
    <3>1. /\ adjusted'[v] = adjusted[v] + (IF v = u THEN d ELSE 0)
          /\ codes' = codes /\ bonus' = bonus
      BY <2>1, <2>2
    <3>2. /\ adjusted[v] \in Int /\ Total(bonus[v], NumBonuses) \in Int
          /\ Total(Vouchers(codes, v), NumCodes) \in Int
      BY <1>0, <2>1, SumTypes
    <3> QED BY <2>1, <3>1, <3>2
  <2>4. adjusted' \in [Users -> Int] /\ orders' = orders BY <2>1, <2>2
  <2> QED BY <2>1, <2>2, <2>3, <2>4, AccountedSource
<1>4. ASSUME NEW c \in Codes, DisableRedeemCode(c)
      PROVE  Accounted'
  <2>1. /\ codes' = [codes EXCEPT ![c].status = "disabled"] /\ codes \in [Codes -> Code]
        /\ UNCHANGED <<available, reserved, orders, bonus, adjusted>>
    BY <1>0, <1>4 DEF DisableRedeemCode, TypeOK
  <2>2. \A v \in Users : Vouchers(codes', v) = Vouchers(codes, v)
    BY <2>1 DEF Vouchers, Cashed, Code
  <2> QED BY <2>1, <2>2 DEF Accounted, HoldsBacked, CreditsConserved
<1>5. ASSUME NEW o \in Orders, NEW u \in Users, NEW p \in Prices, NEW m \in Modes,
             ReserveBillingOrder(o, u, p, m)
      PROVE  Accounted'
  <2> DEFINE y == [status |-> "reserved", user |-> u, mode |-> m, amount |-> p, actual |-> 0]
  <2>1. orders[o] \in Order /\ orders[o].status = "absent" /\ p \in Int
    BY <1>0, <1>5, AmountsAssumption DEF ReserveBillingOrder
  <2>2. /\ orders' = [orders EXCEPT ![o] = y] /\ Move(u, -p, p)
        /\ UNCHANGED <<codes, bonus, adjusted>>
    BY <1>5 DEF ReserveBillingOrder
  <2>3. /\ y \in Order /\ y.user = u /\ y.status = "reserved"
        /\ Held(y, u) = p /\ Held(orders[o], u) = 0
        /\ Charged(orders[o], u) = 0 /\ Charged(y, u) = 0
    BY <2>1, ReservedRow
  <2> HIDE DEF y
  <2>4. Writes(o, y)
    BY <2>1, <2>2, <2>3 DEF Writes
  <2>5. -p \in Int /\ p = Held(y, y.user) - Held(orders[o], y.user)
        /\ -p + p = Charged(orders[o], y.user) - Charged(y, y.user)
    BY <2>1, <2>3
  <2> QED BY <2>1, <2>2, <2>3, <2>4, <2>5, AccountedWrite
<1>6. ASSUME NEW o \in Orders, MarkBillingRunning(o) \/ MarkBillingUncertain(o)
      PROVE  Accounted'
  <2>1. PICK s \in Unfinished :
           orders' = [orders EXCEPT ![o] = [orders[o] EXCEPT !.status = s]]
    BY <1>0, <1>6 DEF MarkBillingRunning, MarkBillingUncertain, Unfinished
  <2> DEFINE y == [orders[o] EXCEPT !.status = s]
  <2>2. orders[o] \in Order /\ orders[o].status \in Unfinished /\ orders[o].user \in Users
    BY <1>0, <1>6 DEF MarkBillingRunning, MarkBillingUncertain, Unfinished, TypeInv, Owned
  <2>3. /\ y \in Order /\ y.user = orders[o].user /\ y.status = s
        /\ Held(y, orders[o].user) = Held(orders[o], orders[o].user)
        /\ Charged(orders[o], orders[o].user) = 0 /\ Charged(y, orders[o].user) = 0
    BY <2>2, MarkedRow
  <2> HIDE DEF y
  <2>4. Writes(o, y)
    BY <2>1, <2>2, <2>3 DEF Writes, Unfinished, y
  <2>5. Move(y.user, 0, 0) /\ UNCHANGED <<codes, bonus, adjusted>>
    BY <1>0, <1>6, <2>2, <2>3 DEF MarkBillingRunning, MarkBillingUncertain, Move, TypeOK
  <2>6. 0 = Held(y, y.user) - Held(orders[o], y.user)
        /\ 0 + 0 = Charged(orders[o], y.user) - Charged(y, y.user)
    BY <2>2, <2>3 DEF Held, Order
  <2> QED BY <2>4, <2>5, <2>6, AccountedWrite
<1>7. ASSUME NEW t \in Txs, NEW a \in Actuals(tx[t].read), CommitSettle(t, a)
      PROVE  Accounted'
  <2> DEFINE o == tx[t].order
             r == tx[t].read
             y == [r EXCEPT !.status = "settled", !.actual = a]
  <2>1. /\ o \in Orders /\ orders[o] = r /\ r \in Order /\ r.status \in Unfinished
        /\ r.user \in Users /\ r.amount \in Nat
    BY <1>7, CommitReads DEF CommitSettle
  <2>2. a \in 0..r.amount
    BY <2>1 DEF Actuals
  <2>3. /\ orders' = [orders EXCEPT ![o] = y] /\ Move(r.user, r.amount - a, - r.amount)
        /\ UNCHANGED <<codes, bonus, adjusted>>
    BY <1>0, <1>7, <2>1 DEF CommitSettle
  <2> HIDE DEF o, r
  <2>4. /\ y \in Order /\ y.user = r.user /\ y.status = "settled"
        /\ Held(r, r.user) = r.amount /\ Held(y, r.user) = 0
        /\ Charged(r, r.user) = 0 /\ Charged(y, r.user) = a
    BY <2>1, <2>2, SettledRow
  <2> HIDE DEF y
  <2>5. Writes(o, y)
    BY <2>1, <2>3, <2>4 DEF Writes
  <2>6. /\ - r.amount \in Int /\ r.amount - a \in Int
        /\ - r.amount = Held(y, y.user) - Held(orders[o], y.user)
        /\ (r.amount - a) + (- r.amount) = Charged(orders[o], y.user) - Charged(y, y.user)
    BY <2>1, <2>2, <2>4
  <2> QED BY <2>1, <2>3, <2>4, <2>5, <2>6, AccountedWrite
<1>8. ASSUME NEW t \in Txs, CommitRefund(t)
      PROVE  Accounted'
  <2> DEFINE o == tx[t].order
             r == tx[t].read
             y == [r EXCEPT !.status = "refunded"]
  <2>1. /\ o \in Orders /\ orders[o] = r /\ r \in Order /\ r.status \in Unfinished
        /\ r.user \in Users /\ r.amount \in Nat
    BY <1>8, CommitReads DEF CommitRefund
  <2>2. /\ orders' = [orders EXCEPT ![o] = y] /\ Move(r.user, r.amount, - r.amount)
        /\ UNCHANGED <<codes, bonus, adjusted>>
    BY <1>0, <1>8, <2>1 DEF CommitRefund
  <2> HIDE DEF o, r
  <2>3. /\ y \in Order /\ y.user = r.user /\ y.status = "refunded"
        /\ Held(r, r.user) = r.amount /\ Held(y, r.user) = 0
        /\ Charged(r, r.user) = 0 /\ Charged(y, r.user) = 0
    BY <2>1, RefundedRow
  <2> HIDE DEF y
  <2>4. Writes(o, y)
    BY <2>1, <2>2, <2>3 DEF Writes
  <2>5. /\ - r.amount \in Int /\ r.amount \in Int
        /\ - r.amount = Held(y, y.user) - Held(orders[o], y.user)
        /\ r.amount + (- r.amount) = Charged(orders[o], y.user) - Charged(y, y.user)
    BY <2>1, <2>3
  <2> QED BY <2>1, <2>2, <2>3, <2>4, <2>5, AccountedWrite
<1>9. ASSUME NEW t \in Txs, NEW p \in Prices, NEW m \in Modes, CommitReprice(t, p, m)
      PROVE  Accounted'
  <2> DEFINE o == tx[t].order
             r == tx[t].read
             y == [r EXCEPT !.amount = p, !.mode = m]
  <2>1. /\ o \in Orders /\ orders[o] = r /\ r \in Order /\ r.status \in Unfinished
        /\ r.user \in Users /\ r.amount \in Nat
    BY <1>9, CommitReads DEF CommitReprice
  <2>2. p \in Nat /\ m \in BillingModes
    BY AmountsAssumption
  <2>3. /\ orders' = [orders EXCEPT ![o] = y]
        /\ Move(r.user, - (p - r.amount), p - r.amount)
        /\ UNCHANGED <<codes, bonus, adjusted>>
    BY <1>0, <1>9, <2>1 DEF CommitReprice
  <2> HIDE DEF o, r
  <2>4. /\ y \in Order /\ y.user = r.user /\ y.status = r.status
        /\ Held(r, r.user) = r.amount /\ Held(y, r.user) = p
        /\ Charged(r, r.user) = 0 /\ Charged(y, r.user) = 0
    BY <2>1, <2>2, RepricedRow
  <2> HIDE DEF y
  <2>5. Writes(o, y)
    BY <2>1, <2>3, <2>4 DEF Writes, Unfinished
  <2>6. /\ p - r.amount \in Int /\ - (p - r.amount) \in Int
        /\ p - r.amount = Held(y, y.user) - Held(orders[o], y.user)
        /\ (- (p - r.amount)) + (p - r.amount) = Charged(orders[o], y.user) - Charged(y, y.user)
    BY <2>1, <2>2, <2>4
  <2> QED BY <2>1, <2>3, <2>4, <2>5, <2>6, AccountedWrite
<1>10. ASSUME UNCHANGED <<available, reserved, orders, codes, bonus, adjusted>>
       PROVE  Accounted'
  BY <1>10 DEF Accounted, HoldsBacked, CreditsConserved
<1>11. ASSUME NEW t \in Txs, NEW o \in Orders,
              \/ BeginFinish(t, o, "settle") \/ BeginFinish(t, o, "refund")
              \/ BeginReprice(t, o) \/ Rollback(t)
       PROVE  UNCHANGED <<available, reserved, orders, codes, bonus, adjusted>>
  BY <1>11 DEF BeginFinish, BeginReprice, Rollback
<1>12. ASSUME NEW t \in Txs, Rollback(t)
       PROVE  UNCHANGED <<available, reserved, orders, codes, bonus, adjusted>>
  BY <1>12 DEF Rollback
<1>13. ASSUME Sources PROVE Accounted'
  BY <1>1, <1>2, <1>3, <1>4, <1>13 DEF Sources
<1>14. ASSUME OrderSteps PROVE Accounted'
  BY <1>5, <1>6, <1>14 DEF OrderSteps
<1>15. ASSUME TxSteps PROVE Accounted'
  BY <1>7, <1>8, <1>9, <1>10, <1>11, <1>12, <1>15 DEF TxSteps
<1> QED
  BY <1>10, <1>13, <1>14, <1>15 DEF Next, vars

(* The inductive invariant.  ReadsCurrent is what the balances rest on: the *)
(* account is moved by the amount a transaction read, which is right only   *)
(* while the row still says so.                                             *)
IInv == TypeInv /\ ReadsCurrent /\ Accounted

(* The inductive invariant holds of every behaviour on a database whose     *)
(* transactions read snapshots.                                             *)
LEMMA Inductive == ASSUME Snapshot PROVE Spec => []IInv
<1>1. Init => IInv
  BY TypeInvInit, AccountedInit DEF IInv, Init, ReadsCurrent, Idle
<1>2. IInv /\ [Next]_vars => IInv'
  BY TypeInvStep, ReadsCurrentStep, AccountedStep DEF IInv
<1> QED BY <1>1, <1>2, PTL DEF Spec

(* With snapshots, reserved credits are exactly the holds of unfinished     *)
(* orders: nothing is released twice and nothing is stranded.               *)
THEOREM HoldsAreBacked == ASSUME Snapshot PROVE Spec => []HoldsBacked
<1>1. IInv => HoldsBacked BY DEF IInv, Accounted
<1> QED BY <1>1, Inductive, PTL

(* With snapshots, every credit received is still on the account or was     *)
(* paid for one settled order.                                              *)
THEOREM CreditsAreConserved == ASSUME Snapshot PROVE Spec => []CreditsConserved
<1>1. IInv => CreditsConserved BY DEF IInv, Accounted
<1> QED BY <1>1, Inductive, PTL

(* With snapshots, the account guard of a settlement or a refund that can   *)
(* still commit never fails.                                                *)
THEOREM BalanceIsConsistent == ASSUME Snapshot PROVE Spec => []BalanceConsistent
<1>1. IInv => BalanceConsistent
  <2> SUFFICES ASSUME IInv, NEW t \in Txs, tx[t].kind \in {"settle", "refund"},
                      tx[t].view = "fresh"
               PROVE  tx[t].read.amount <= reserved[tx[t].read.user]
    BY DEF BalanceConsistent
  <2> DEFINE o == tx[t].order
             r == tx[t].read
  <2>1. /\ o \in Orders /\ orders[o] = r /\ r \in Order /\ r.status \in Unfinished
        /\ r.user \in Users /\ r.amount \in Nat
    BY CommitReads DEF IInv
  <2> HIDE DEF o, r
  <2>2. Holds(orders, r.user) \in [1..NumOrders -> Nat]
    BY DEF IInv, TypeInv, TypeOK, Holds, Held, Order, Orders
  <2>3. Holds(orders, r.user)[o] = r.amount
    BY <2>1 DEF Holds, Held
  <2>4. Holds(orders, r.user)[o] <= Total(Holds(orders, r.user), NumOrders)
    BY <2>1, <2>2, SizesAssumption, TotalNat DEF Orders
  <2>5. reserved[r.user] = Total(Holds(orders, r.user), NumOrders)
    BY <2>1 DEF IInv, Accounted, HoldsBacked
  <2>6. r.amount <= reserved[r.user]
    BY <2>3, <2>4, <2>5
  <2> QED BY <2>6 DEF r
<1> QED BY <1>1, Inductive, PTL

(* With snapshots, a finished order never changes again. *)
LEMMA FinishedStep ==
    ASSUME IInv, [Next]_vars, NEW o \in Orders, orders[o].status \in {"settled", "refunded"}
    PROVE  orders'[o] = orders[o]
<1>0. orders \in [Orders -> Order] /\ orders[o].status \notin Unfinished
      /\ orders[o].status # "absent"
  BY DEF IInv, TypeInv, TypeOK, Unfinished
<1>1. ASSUME Sources PROVE orders' = orders
  BY <1>1 DEF Sources, GrantCreditsOnce, RedeemCode, AdjustCredits, DisableRedeemCode
<1>2. ASSUME OrderSteps PROVE orders'[o] = orders[o]
  BY <1>0, <1>2 DEF OrderSteps, ReserveBillingOrder, MarkBillingRunning,
                    MarkBillingUncertain, Unfinished
<1>3. ASSUME NEW t \in Txs, NEW a, CommitSettle(t, a) \/ CommitRefund(t)
      PROVE  orders'[o] = orders[o]
  <2>1. tx[t].order # o
    BY <1>0, <1>3, CommitReads DEF CommitSettle, CommitRefund, IInv
  <2> QED BY <1>0, <1>3, <2>1 DEF CommitSettle, CommitRefund
<1>4. ASSUME NEW t \in Txs, NEW p \in Prices, NEW m \in Modes, CommitReprice(t, p, m)
      PROVE  orders'[o] = orders[o]
  BY <1>0, <1>4 DEF CommitReprice
<1>5. ASSUME NEW t \in Txs, NEW q \in Orders,
             \/ BeginFinish(t, q, "settle") \/ BeginFinish(t, q, "refund")
             \/ BeginReprice(t, q) \/ Rollback(t)
      PROVE  orders'[o] = orders[o]
  BY <1>5 DEF BeginFinish, BeginReprice, Rollback
<1>6. ASSUME NEW t \in Txs, Rollback(t) PROVE orders'[o] = orders[o]
  BY <1>6 DEF Rollback
<1>7. ASSUME TxSteps PROVE orders'[o] = orders[o]
  BY <1>3, <1>4, <1>5, <1>6, <1>7 DEF TxSteps
<1> QED BY <1>1, <1>2, <1>7 DEF Next, vars

(* With snapshots, a settled order is never refunded, a refunded order      *)
(* never settled, and what a finished order records stays.                  *)
THEOREM OrdersFinishOnce == ASSUME Snapshot PROVE Spec => FinishedOnce
<1>1. IInv /\ [Next]_vars =>
        [\A o \in Orders :
            orders[o].status \in {"settled", "refunded"} => orders'[o] = orders[o]]_vars
  BY FinishedStep
<1> QED BY <1>1, Inductive, PTL DEF Spec, FinishedOnce

-----------------------------------------------------------------------------
(* Refinement of CreditPurse *)

(* Empty tables are an empty purse.                                         *)
LEMMA PurseInit == Init => Purse!Init
BY DEF Init, Purse!Init, Purse!Absent, PurseOrders, PurseOrder, Phase, NoOrder, Unfinished

(* One order row written, seen through the mapping. *)
LEMMA PurseWrite ==
    ASSUME TypeOK, NEW o \in Orders, NEW x, orders' = [orders EXCEPT ![o] = x]
    PROVE  PurseOrders' = [PurseOrders EXCEPT ![o] = PurseOrder(x)]
BY DEF TypeOK, PurseOrders

(* Every action is a step of the purse or leaves it alone.                  *)
LEMMA PurseStep ==
    ASSUME IInv, [Next]_vars
    PROVE  [Purse!Next]_(Purse!vars)
<1>0. /\ TypeOK /\ orders \in [Orders -> Order] /\ available \in [Users -> Nat]
      /\ TypeInv /\ ReadsCurrent
  BY DEF IInv, TypeInv, TypeOK
<1>a. /\ available' \in [Users -> Nat]
  BY TypeInvStep DEF IInv, TypeInv, TypeOK
<1>b. DOMAIN PurseOrders = Orders /\ \A o \in Orders : PurseOrders[o] = PurseOrder(orders[o])
  BY DEF PurseOrders
<1>1. ASSUME Sources PROVE [Purse!Next]_(Purse!vars)
  <2>1. orders' = orders
    BY <1>1 DEF Sources, GrantCreditsOnce, RedeemCode, AdjustCredits, DisableRedeemCode
  <2>2. PurseOrders' = PurseOrders
    BY <2>1 DEF PurseOrders
  <2>3. CASE available' = available
    BY <2>2, <2>3 DEF Purse!vars
  <2>4. ASSUME NEW u \in Users, NEW a, Move(u, a, 0)
        PROVE  Purse!Transfer(u)
    <3>1. available' = [available EXCEPT ![u] = available'[u]] /\ available'[u] \in Nat
      BY <1>0, <1>a, <2>4 DEF Move
    <3> QED BY <2>2, <3>1 DEF Purse!Transfer
  <2> QED
    BY <1>1, <2>3, <2>4 DEF Purse!Next, Sources, GrantCreditsOnce, RedeemCode,
                            AdjustCredits, DisableRedeemCode
<1>2. ASSUME NEW o \in Orders, NEW u \in Users, NEW p \in Prices, NEW m \in Modes,
             ReserveBillingOrder(o, u, p, m)
      PROVE  Purse!Hold(o, u)
  <2> DEFINE y == [status |-> "reserved", user |-> u, mode |-> m, amount |-> p, actual |-> 0]
  <2>1. /\ orders[o].status = "absent" /\ available[u] >= p /\ p \in Nat
        /\ orders' = [orders EXCEPT ![o] = y]
        /\ available' = [available EXCEPT ![u] = @ + (-p)]
    BY <1>2, AmountsAssumption DEF ReserveBillingOrder, Move
  <2>2. PurseOrder(y) = [phase |-> "open", user |-> u, held |-> p, charged |-> 0]
    BY DEF PurseOrder, Phase, Unfinished
  <2> HIDE DEF y
  <2>3. PurseOrders' = [PurseOrders EXCEPT ![o] = PurseOrder(y)]
    BY <1>0, <2>1, PurseWrite
  <2>4. PurseOrders'[o].held = p
    BY <1>b, <2>2, <2>3
  <2>5. PurseOrders[o].phase = "absent"
    BY <1>b, <2>1 DEF PurseOrder, Phase, Unfinished
  <2>6. available' = [available EXCEPT ![u] = @ - p]
    BY <1>0, <2>1
  <2> QED BY <1>0, <2>1, <2>2, <2>3, <2>4, <2>5, <2>6 DEF Purse!Hold
<1>3. ASSUME NEW o \in Orders, MarkBillingRunning(o) \/ MarkBillingUncertain(o)
      PROVE  UNCHANGED Purse!vars
  <2>1. PICK s \in Unfinished :
           orders' = [orders EXCEPT ![o] = [orders[o] EXCEPT !.status = s]]
    BY <1>3 DEF MarkBillingRunning, MarkBillingUncertain, Unfinished
  <2>2. available' = available /\ orders[o].status \in Unfinished /\ orders[o] \in Order
    BY <1>0, <1>3 DEF MarkBillingRunning, MarkBillingUncertain, Unfinished
  <2>3. PurseOrder([orders[o] EXCEPT !.status = s]) = PurseOrder(orders[o])
    BY <2>1, <2>2 DEF PurseOrder, Phase, Order
  <2>4. PurseOrders' = PurseOrders
    BY <1>0, <1>b, <2>1, <2>3, PurseWrite DEF PurseOrders
  <2> QED BY <2>2, <2>4 DEF Purse!vars
<1>4. ASSUME NEW t \in Txs, NEW a \in Actuals(tx[t].read), CommitSettle(t, a)
      PROVE  \E o \in Orders : Purse!Charge(o)
  <2> DEFINE o == tx[t].order
             r == tx[t].read
             y == [r EXCEPT !.status = "settled", !.actual = a]
  <2>1. /\ o \in Orders /\ orders[o] = r /\ r \in Order /\ r.status \in Unfinished
        /\ r.user \in Users /\ r.amount \in Nat
    BY <1>0, <1>4, CommitReads DEF CommitSettle
  <2>2. a \in 0..r.amount
    BY <2>1 DEF Actuals
  <2>3. /\ orders' = [orders EXCEPT ![o] = y]
        /\ available' = [available EXCEPT ![r.user] = @ + (r.amount - a)]
    BY <1>0, <1>4, <2>1 DEF CommitSettle, Move
  <2> HIDE DEF o, r
  <2>4. /\ PurseOrder(r) = [phase |-> "open", user |-> r.user, held |-> r.amount,
                             charged |-> r.actual]
        /\ PurseOrder(y) = [phase |-> "settled", user |-> r.user, held |-> r.amount,
                             charged |-> a]
    <3>1. y.status = "settled" /\ y.user = r.user /\ y.amount = r.amount /\ y.actual = a
      BY <2>1 DEF Order
    <3> HIDE DEF y
    <3> QED BY <2>1, <3>1 DEF PurseOrder, Phase, Unfinished
  <2> HIDE DEF y
  <2>5. PurseOrders' = [PurseOrders EXCEPT ![o] = PurseOrder(y)]
    BY <1>0, <2>1, <2>3, PurseWrite
  <2>6. /\ PurseOrders[o] = PurseOrder(r) /\ PurseOrders[o].phase = "open"
        /\ PurseOrders[o].held = r.amount /\ PurseOrders[o].user = r.user
    BY <1>b, <2>1, <2>4
  <2>7. PurseOrders' = [PurseOrders EXCEPT ![o] =
                          [phase |-> "settled", user |-> PurseOrders[o].user,
                           held |-> PurseOrders[o].held, charged |-> a]]
    BY <2>4, <2>5, <2>6
  <2>8. PurseOrders'[o].charged = a
    BY <1>b, <2>1, <2>4, <2>5
  <2> QED BY <2>1, <2>2, <2>3, <2>6, <2>7, <2>8 DEF Purse!Charge
<1>5. ASSUME NEW t \in Txs, CommitRefund(t)
      PROVE  \E o \in Orders : Purse!Release(o)
  <2> DEFINE o == tx[t].order
             r == tx[t].read
             y == [r EXCEPT !.status = "refunded"]
  <2>1. /\ o \in Orders /\ orders[o] = r /\ r \in Order /\ r.status \in Unfinished
        /\ r.user \in Users /\ r.amount \in Nat
    BY <1>0, <1>5, CommitReads DEF CommitRefund
  <2>2. /\ orders' = [orders EXCEPT ![o] = y]
        /\ available' = [available EXCEPT ![r.user] = @ + r.amount]
    BY <1>0, <1>5, <2>1 DEF CommitRefund, Move
  <2> HIDE DEF o, r
  <2>3. /\ PurseOrder(y) = [PurseOrder(r) EXCEPT !.phase = "refunded"]
        /\ PurseOrder(r).phase = "open" /\ PurseOrder(r).user = r.user
        /\ PurseOrder(r).held = r.amount
    BY <2>1 DEF PurseOrder, Phase, Order, Unfinished
  <2> HIDE DEF y
  <2>4. PurseOrders' = [PurseOrders EXCEPT ![o] = PurseOrder(y)]
    BY <1>0, <2>1, <2>2, PurseWrite
  <2>5. PurseOrders[o] = PurseOrder(r)
    BY <1>b, <2>1
  <2>6. PurseOrders' = [PurseOrders EXCEPT ![o].phase = "refunded"]
    BY <1>b, <2>1, <2>3, <2>4, <2>5
  <2> QED BY <2>1, <2>2, <2>3, <2>5, <2>6 DEF Purse!Release
<1>6. ASSUME NEW t \in Txs, NEW p \in Prices, NEW m \in Modes, CommitReprice(t, p, m)
      PROVE  \E o \in Orders : Purse!Change(o)
  <2> DEFINE o == tx[t].order
             r == tx[t].read
             y == [r EXCEPT !.amount = p, !.mode = m]
  <2>1. /\ o \in Orders /\ orders[o] = r /\ r \in Order /\ r.status \in Unfinished
        /\ r.user \in Users /\ r.amount \in Nat
    BY <1>0, <1>6, CommitReads DEF CommitReprice
  <2>2. /\ orders' = [orders EXCEPT ![o] = y] /\ available[r.user] >= p - r.amount
        /\ available' = [available EXCEPT ![r.user] = @ + (- (p - r.amount))]
    BY <1>0, <1>6, <2>1 DEF CommitReprice, Move
  <2>3. p \in Nat
    BY AmountsAssumption
  <2> HIDE DEF o, r
  <2>4. /\ PurseOrder(y) = [PurseOrder(r) EXCEPT !.held = p]
        /\ PurseOrder(r).phase = "open" /\ PurseOrder(r).user = r.user
        /\ PurseOrder(r).held = r.amount /\ PurseOrder(y).held = p
    BY <2>1 DEF PurseOrder, Phase, Order, Unfinished
  <2> HIDE DEF y
  <2>5. PurseOrders' = [PurseOrders EXCEPT ![o] = PurseOrder(y)]
    BY <1>0, <2>1, <2>2, PurseWrite
  <2>6. PurseOrders[o] = PurseOrder(r)
    BY <1>b, <2>1
  <2>7. PurseOrders' = [PurseOrders EXCEPT ![o].held = p] /\ PurseOrders'[o].held = p
    BY <1>b, <2>1, <2>4, <2>5, <2>6
  <2>8. available' = [available EXCEPT ![r.user] = @ - (p - r.amount)]
    BY <1>0, <2>1, <2>2, <2>3
  <2>9. /\ PurseOrders[o].phase = "open" /\ PurseOrders[o].user = r.user
        /\ PurseOrders[o].held = r.amount /\ available[r.user] \in Nat
    BY <1>0, <2>1, <2>4, <2>6
  <2>10. p - r.amount <= available[r.user]
    BY <2>1, <2>2, <2>3, <2>9
  <2>11. Purse!Change(o)
    BY <2>3, <2>7, <2>8, <2>9, <2>10 DEF Purse!Change
  <2> QED BY <2>1, <2>11
<1>7. ASSUME UNCHANGED <<available, orders>> PROVE UNCHANGED Purse!vars
  BY <1>7 DEF Purse!vars, PurseOrders
<1>8. ASSUME NEW t \in Txs, NEW o \in Orders,
             \/ BeginFinish(t, o, "settle") \/ BeginFinish(t, o, "refund")
             \/ BeginReprice(t, o)
      PROVE  UNCHANGED <<available, orders>>
  BY <1>8 DEF BeginFinish, BeginReprice
<1>9. ASSUME NEW t \in Txs, Rollback(t) PROVE UNCHANGED <<available, orders>>
  BY <1>9 DEF Rollback
<1>10. ASSUME OrderSteps PROVE [Purse!Next]_(Purse!vars)
  BY <1>2, <1>3, <1>10 DEF OrderSteps, Purse!Next
<1>11. ASSUME TxSteps PROVE [Purse!Next]_(Purse!vars)
  BY <1>4, <1>5, <1>6, <1>7, <1>8, <1>9, <1>11 DEF TxSteps, Purse!Next
<1> QED
  BY <1>1, <1>7, <1>10, <1>11 DEF Next, vars

(* On a database whose transactions read snapshots, the account rows, order *)
(* rows and transactions implement the purse a user is promised: balances   *)
(* move only by transfers and by orders each finished exactly once.         *)
THEOREM ImplementsPurse == ASSUME Snapshot PROVE Spec => PurseSpec
<1>1. Init => Purse!Init BY PurseInit
<1>2. IInv /\ [Next]_vars => [Purse!Next]_(Purse!vars) BY PurseStep
<1> QED BY <1>1, <1>2, Inductive, PTL DEF Spec, PurseSpec, Purse!Spec
=============================================================================
