------------------------- MODULE MCSimulatedDribble -------------------------
(***************************************************************************)
(* Instances of SimulatedDribble for TLC.                                  *)
(***************************************************************************)
EXTENDS SimulatedDribble

Held ==
  [mode |-> "effort_pd", resetRoute |-> TRUE, resetMemory |-> TRUE,
   mujocoReset |-> TRUE, hold |-> 4, period |-> 0]

HeldOnly == {Held}

\* The controller does not touch the simulation.
FreeOnly == {[Held EXCEPT !.mujocoReset = FALSE]}

\* The proofs need it of a simulation that is never restarted.
ASSUME InstanceFits ==
  MaxRestarts = 0 => TimeoutCoversDelay /\ HoldCoversDelays /\ OneHold
=============================================================================
