------------------------------- MODULE Totals -------------------------------
(***************************************************************************)
(* Sums of finite sequences of integers.  The credit ledger adds up the    *)
(* holds of a user's billing orders, the redeem codes a user cashed and    *)
(* the bonuses a user received; Total is that sum.  It is a recursive      *)
(* function rather than a RECURSIVE operator, so TLC evaluates it and the  *)
(* proofs can reason about it.                                             *)
(***************************************************************************)
EXTENDS Integers

(* acc[i] is f[1] + ... + f[i] *)
RunningTotal(f, n) ==
    LET acc[i \in 0..n] == IF i = 0 THEN 0 ELSE acc[i - 1] + f[i]
    IN  acc

Total(f, n) == RunningTotal(f, n)[n]
=============================================================================
