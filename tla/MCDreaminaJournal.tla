-------------------------- MODULE MCDreaminaJournal --------------------------
(* Small instances of DreaminaJournal.                                     *)
EXTENDS DreaminaJournal, TLC

(* Runtimes do the same, and tasks are told apart by their tickets.        *)
Symmetry == Permutations(Runtimes) \cup Permutations(Tasks)
=============================================================================
