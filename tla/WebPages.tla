------------------------------ MODULE WebPages -------------------------------
(* What the models of the web client share: the open pages of one account,  *)
(* the effect keys of the outputs its generations made, and no value.       *)
CONSTANTS Tabs, Effects, None

ASSUME PagesAssumption == None \notin Tabs /\ None \notin Effects
=============================================================================
