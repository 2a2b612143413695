---------------------------- MODULE CreditPurse ----------------------------
(***************************************************************************)
(* What the billing tables promise a user, with no account row, no         *)
(* journal and no transactions: a balance the user can spend and orders,   *)
(* each of which holds part of it until it is finished exactly once -      *)
(* charged for at most what it held, the rest returned, or released whole. *)
(* CreditLedger implements it on a database whose transactions see one     *)
(* snapshot (theorem ImplementsPurse of CreditLedgerProofs).               *)
(***************************************************************************)
EXTENDS Integers

CONSTANTS Users, NoUser, Orders

VARIABLES spendable,  \* spendable[u]: credits u may still commit
          order       \* order[o]: what o holds, or how it was finished

vars == <<spendable, order>>

Absent == [phase |-> "absent", user |-> NoUser, held |-> 0, charged |-> 0]

TypeOK ==
    /\ spendable \in [Users -> Nat]
    /\ order \in [Orders -> [phase : {"absent", "open", "settled", "refunded"},
                             user : Users \cup {NoUser},
                             held : Nat, charged : Nat]]

Init ==
    /\ spendable = [u \in Users |-> 0]
    /\ order = [o \in Orders |-> Absent]

(* Credits come in or are taken out by an administrator, never below zero. *)
Transfer(u) ==
    /\ spendable'[u] \in Nat
    /\ spendable' = [spendable EXCEPT ![u] = spendable'[u]]
    /\ UNCHANGED order

(* The order takes its hold out of the balance. *)
Hold(o, u) ==
    LET held == order'[o].held IN
    /\ order[o].phase = "absent"
    /\ held \in Nat /\ held <= spendable[u]
    /\ order' = [order EXCEPT ![o] = [phase |-> "open", user |-> u,
                                      held |-> held, charged |-> 0]]
    /\ spendable' = [spendable EXCEPT ![u] = @ - held]

(* An open order is repriced: the difference moves with the hold. *)
Change(o) ==
    LET held == order'[o].held
        u    == order[o].user
    IN
    /\ order[o].phase = "open"
    /\ held \in Nat /\ held - order[o].held <= spendable[u]
    /\ order' = [order EXCEPT ![o].held = held]
    /\ spendable' = [spendable EXCEPT ![u] = @ - (held - order[o].held)]

(* The order costs at most its hold; what is left goes back. *)
Charge(o) ==
    LET charged == order'[o].charged IN
    /\ order[o].phase = "open"
    /\ charged \in 0..order[o].held
    /\ order' = [order EXCEPT ![o] = [phase |-> "settled", user |-> order[o].user,
                                      held |-> order[o].held, charged |-> charged]]
    /\ spendable' = [spendable EXCEPT
                        ![order[o].user] = @ + (order[o].held - charged)]

(* The order costs nothing. *)
Release(o) ==
    /\ order[o].phase = "open"
    /\ order' = [order EXCEPT ![o].phase = "refunded"]
    /\ spendable' = [spendable EXCEPT ![order[o].user] = @ + order[o].held]

Next ==
    \/ \E u \in Users : Transfer(u)
    \/ \E o \in Orders :
          \/ \E u \in Users : Hold(o, u)
          \/ Change(o)
          \/ Charge(o)
          \/ Release(o)

Spec == Init /\ [][Next]_vars
=============================================================================
