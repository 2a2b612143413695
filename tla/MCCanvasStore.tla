---------------------------- MODULE MCCanvasStore ----------------------------
(* Small instances of CanvasStore.                                         *)
EXTENDS CanvasStore, TLC

CONSTANTS t1, t2, n1, e1, e2

(* Every result belongs to the node n1.                                    *)
OneTarget == [e \in Effects |-> n1]

(* The pages do the same, and so do the effects.                           *)
Symmetry == Permutations(Tabs) \cup Permutations(Effects)

-----------------------------------------------------------------------------
(* StampsByCommitOnly without its exception: also of a node that was       *)
(* deleted and stored again, as the undo of its deletion does.             *)
StampsByCommitAlways ==
    [][\A n \in Nodes :
          ~(Stamps(disk'.items[n]) \subseteq Stamps(disk.items[n])) =>
              \E t \in Tabs : lock = t /\ work'[t].pc = "committed" /\ work[t].pc = "ready"]_vars
=============================================================================
