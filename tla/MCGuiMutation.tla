--------------------------- MODULE MCGuiMutation ---------------------------
(***************************************************************************)
(* Instances of GuiMutation for TLC.  The operations of one owner contend  *)
(* for session s1; op3 reaches the server over another actor's connection; *)
(* s2 is a second session of the same owner, which a lookup may yield in   *)
(* place of s1.                                                            *)
(***************************************************************************)
EXTENDS GuiMutation, TLC

CONSTANTS owner, other, s1, s2, op1, op2, op3, op4

MCOwner == [s \in Sessions |-> owner]
MCTarget == [o \in Operations |-> s1]
MCIssuer == [o \in Operations |-> IF o = op3 THEN other ELSE owner]

OperationSymmetry == Permutations({op1, op2, op4})

HandlerSymmetry == Permutations(Handlers)
=============================================================================
