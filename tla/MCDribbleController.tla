------------------------ MODULE MCDribbleController ------------------------
(***************************************************************************)
(* Instances of DribbleController for TLC.                                 *)
(***************************************************************************)
EXTENDS DribbleController

Position ==
  [mode |-> "position_target", resetRoute |-> TRUE, resetMemory |-> TRUE,
   mujocoReset |-> FALSE, hold |-> 0, period |-> 0]

\* Every activation asks the simulator for a reset, and keeps the policy memory;
\* a target serves all updates of one tick.
Simulated ==
  [Position EXCEPT !.mode = "effort_pd", !.resetMemory = FALSE,
                   !.mujocoReset = TRUE, !.hold = 1, !.period = 1]

\* A target is commanded for two ticks, and an activation with fresh inputs keeps
\* it: stale inputs, or a deactivation, can come between a forward and its reuse.
Periodic == [Position EXCEPT !.mode = "effort_pd", !.resetMemory = FALSE, !.period = 2]

Ungated == [Position EXCEPT !.mode = "rl_controller"]

AllSets == {Position, Simulated, Periodic, Ungated}
PositionOnly == {Position}
SimulatedOnly == {[Simulated EXCEPT !.resetMemory = TRUE]}
=============================================================================
