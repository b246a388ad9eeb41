-------------------------- MODULE MCMotionTracking --------------------------
(***************************************************************************)
(* Instances of MotionTracking for TLC.                                    *)
(***************************************************************************)
EXTENDS MotionTracking
=============================================================================
