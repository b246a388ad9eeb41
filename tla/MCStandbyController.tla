------------------------ MODULE MCStandbyController ------------------------
(***************************************************************************)
(* An instance of StandbyController for TLC.                               *)
(***************************************************************************)
EXTENDS StandbyController, SequencesExt

TwoJoints ==
  [joints |-> <<"hip", "knee">>, default |-> <<1, 2>>, kp |-> <<5, 6>>, kd |-> <<7, 8>>,
   reset |-> FALSE]

\* Another order, a reset of the simulator, an array that is too short.
MCConfigs ==
  {TwoJoints,
   [TwoJoints EXCEPT !.joints = Reverse(@), !.reset = TRUE],
   [TwoJoints EXCEPT !.default = <<1>>, !.reset = TRUE]}

AllClaimed == [n \in 1 .. 10 |-> <<IF n <= 5 THEN "hip" ELSE "knee",
                                   Kinds[((n - 1) % 5) + 1]>>]

\* In order, in the opposite order, and with an interface of another joint in the
\* place of one that is needed.
MCClaimOrders ==
  {AllClaimed, Reverse(AllClaimed), [AllClaimed EXCEPT ![9] = <<"waist", "stiffness">>]}

MCPositions == {-1, 1}
=============================================================================
