--------------------------- MODULE MCCreditLedger ---------------------------
(* Small instances of CreditLedger. *)
EXTENDS CreditLedger, TLC

CONSTANTS u1, u2, t1, t2

mcCodeAmount == [c \in 1..NumCodes |-> 2]
mcAdjustments == {2, -1}
mcAdjustedRange == -1..3

(* Connections are interchangeable. *)
TxSymmetry == Permutations(Txs)
=============================================================================
