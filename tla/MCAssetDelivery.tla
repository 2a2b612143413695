--------------------------- MODULE MCAssetDelivery --------------------------
(* Small instances of AssetDelivery.                                       *)
EXTENDS AssetDelivery, TLC

CONSTANTS t1, t2

(* The pages do the same.                                                  *)
Symmetry == Permutations(Tabs)
=============================================================================
