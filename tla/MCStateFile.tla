----------------------------- MODULE MCStateFile -----------------------------
(* Small instances of StateFile.                                           *)
EXTENDS StateFile, TLC

CONSTANTS w1, w2, w3, w4

(* One of three writers takes out the record another stored, or none does. *)
mcRemoves == [w \in Writers |-> IF w = w3 THEN w1 ELSE None]
mcRemovesNothing == [w \in Writers |-> None]

(* Writers that only store do the same.                                    *)
Symmetry == Permutations(Writers)

(* Once a living writer was ousted the invariants say no more.             *)
StillClaimed == ~ousted
=============================================================================
