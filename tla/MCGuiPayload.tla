---------------------------- MODULE MCGuiPayload ----------------------------
(***************************************************************************)
(* Instances of GuiPayload for TLC: two valid keys and an invalid one, a   *)
(* valid value and an invalid one, room for one field or for two.          *)
(***************************************************************************)
EXTENDS GuiPayload, TLC

CONSTANTS good1, good2

GoodKeySymmetry == Permutations({good1, good2})
=============================================================================
