------------------------- MODULE MCMujocoBallBridge -------------------------
(***************************************************************************)
(* Instances of MujocoBallBridge for TLC.                                  *)
(***************************************************************************)
EXTENDS MujocoBallBridge
=============================================================================
