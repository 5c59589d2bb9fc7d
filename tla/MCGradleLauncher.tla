-------------------------- MODULE MCGradleLauncher --------------------------
(***************************************************************************)
(* Instances of GradleLauncher for TLC.                                    *)
(***************************************************************************)
EXTENDS GradleLauncher

AnyZip == {"none", "good", "bad"}
AnyHome == Homes
AnyFault == {"environment", "curl", "network", "content", "unzip", "java"}
=============================================================================
