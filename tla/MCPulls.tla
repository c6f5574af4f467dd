-------------------------------- MODULE MCPulls --------------------------------
(***************************************************************************)
(* An instance of Pulls: up to four items on pages of two, one more than    *)
(* SonarQube's cap.                                                         *)
(***************************************************************************)
EXTENDS Pulls, TLC

MCSymmetry == Permutations(Items)
=============================================================================
