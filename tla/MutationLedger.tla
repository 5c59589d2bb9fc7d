--------------------------- MODULE MutationLedger ---------------------------
(***************************************************************************)
(* What the GUI mutation boundary promises, with no messages, handlers or  *)
(* retries: every operation is applied at most once, in one step, at the   *)
(* very revision its client named, and that step moves the session to the  *)
(* next revision.                                                          *)
(***************************************************************************)
EXTENDS Integers

CONSTANTS Operations, Sessions, Target, FirstRevision, MaxRevision

VARIABLES
    applied,    \* the operations applied, each with the version it named
    revision    \* the revision of each session

ledgerVars == <<applied, revision>>

Init ==
    /\ applied = {}
    /\ revision = [s \in Sessions |-> FirstRevision]

Apply(o) ==
    /\ \A a \in applied : a.operationId # o
    /\ revision[Target[o]] < MaxRevision
    /\ applied' = applied \cup
         {[operationId |-> o, version |-> revision[Target[o]]]}
    /\ revision' = [revision EXCEPT ![Target[o]] = @ + 1]

Next == \E o \in Operations : Apply(o)

Spec == Init /\ [][Next]_ledgerVars
=============================================================================
