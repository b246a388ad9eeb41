----------------------------- MODULE CommandTerm -----------------------------
(***************************************************************************)
(* SoftTouchDribbleCommandTerm: the mutex-protected cache of stamped       *)
(* sensor messages, the freshness tests on it, and the route command       *)
(* computed from it.  Subscription callbacks write the cache from executor *)
(* threads; the real-time thread reads it.                                 *)
(*                                                                         *)
(* Time is counted in ticks of the ROS clock.  A sensor payload is         *)
(* abstracted to its stamp.  The route is abstracted to what seeded it (a  *)
(* measured ball, or the fallback point in front of the robot) and to the  *)
(* activation of the controller it was seeded in; the cached command to    *)
(* the ball it was computed from and the stamp of that ball.               *)
(***************************************************************************)
EXTENDS Integers

CONSTANTS
  BaseFromTopic,   \* base_state.source == "topic"
  FrameFromTopic,  \* observation_frame.source == "topic"
  BallTimeout, BaseTimeout, FrameTimeout,   \* in ticks
  MaxTime          \* bound of the model: the clock stops here

ASSUME SourcesAssumption == BaseFromTopic \in BOOLEAN /\ FrameFromTopic \in BOOLEAN
ASSUME TimeoutsAssumption ==
  BallTimeout \in Nat /\ BaseTimeout \in Nat /\ FrameTimeout \in Nat
ASSUME MaxTimeAssumption == MaxTime \in Nat

VARIABLES
  clock,    \* the ROS clock
  now,      \* now_, the time of the running update or activation
  inputs,   \* ball_, base_ and observationFrame_: has* flag and stamp per topic
  route,    \* route_: what its points start from, and since when
  command   \* cachedCommand_, by the ball it was computed from

termVars == <<clock, now, inputs, route, command>>

BallTopics == {"ballPose", "ballTwist"}
BaseTopics == {"basePose", "baseTwist"}
FrameTopics == {"framePose"}

\* A topic that is not selected as a source is not subscribed to, and its
\* freshness test is constantly true: only the subscribed ones are modelled.
Topics == BallTopics \cup (IF BaseFromTopic THEN BaseTopics ELSE {})
                     \cup (IF FrameFromTopic THEN FrameTopics ELSE {})

Timeout(t) == IF t \in BallTopics THEN BallTimeout
              ELSE IF t \in BaseTopics THEN BaseTimeout
              ELSE FrameTimeout

Time == 0 .. MaxTime
Sources == {"none", "fallback", "measured"}
Input == [has : BOOLEAN, stamp : Time]
Route == [seed : Sources, activation : Nat]
Commands == [from : Sources, stamp : Time]

TermTypeOK ==
  /\ clock \in Time
  /\ now \in Time
  /\ inputs \in [Topics -> Input]
  /\ route \in Route
  /\ command \in Commands

NoInputs == [t \in Topics |-> [has |-> FALSE, stamp |-> 0]]

NoRoute == [seed |-> "none", activation |-> 0]

\* cachedCommandValid_ is false.
NoCommand == [from |-> "none", stamp |-> 0]

TermInit ==
  /\ clock = 0
  /\ now = 0
  /\ inputs = NoInputs
  /\ route = NoRoute
  /\ command = NoCommand

-----------------------------------------------------------------------------
\* isFresh: at time 0 every stamp counts as fresh, and so does, at any time, a
\* stamp in the future.
IsFresh(time, stamp, timeout) == time <= 0 \/ time - stamp <= timeout

\* hasFreshPosition, hasFreshVelocity, hasFreshPose, hasFreshTwist.
HasFresh(t, time) == inputs[t].has /\ IsFresh(time, inputs[t].stamp, Timeout(t))

\* hasFreshPolicyInputs.  The code locks the ball, the base and the frame one
\* after the other; now_ does not change meanwhile and stamps only grow, so
\* the conjunction has the value it takes at one instant between them.
FreshInputs(time) == \A t \in Topics : HasFresh(t, time)

\* getBallPositionWorld: the measured ball, or fallbackBallPositionWorld.
BallSource(time) == IF HasFresh("ballPose", time) THEN "measured" ELSE "fallback"

\* What route_.reset or route_.update returns for that ball.
CommandFromBall(time) ==
  [from |-> BallSource(time),
   stamp |-> IF BallSource(time) = "measured" THEN inputs["ballPose"].stamp ELSE 0]

\* SoftTouchDribbleCommandTerm::reset, during the given activation.
ResetRoute(time, activation) ==
  /\ route' = [seed |-> BallSource(time), activation |-> activation]
  /\ command' = CommandFromBall(time)

\* Mutant of RefreshRouteCommand: the command is computed only once.
RefreshOnce(time) ==
  /\ command' = IF command = NoCommand THEN CommandFromBall(time) ELSE command
  /\ UNCHANGED route

\* refreshRouteCommand: the route keeps its origin, the command follows the ball.
RefreshRouteCommand(time) ==
  /\ command' = CommandFromBall(time)
  /\ UNCHANGED route

\* getRouteCommand computes the command when none is cached.
GetRouteCommand(time) ==
  IF command = NoCommand THEN RefreshRouteCommand(time) ELSE UNCHANGED <<route, command>>

KeepRoute == UNCHANGED <<route, command>>

\* Mutant of Accepts: every message is taken.
AcceptsAny(t, stamp) == TRUE

\* setBallPosition, setBallVelocity, setBasePose, setBaseAngularVelocity and
\* setObservationFramePose: a message older than the stored one is dropped.
Accepts(t, stamp) == ~(inputs[t].has /\ stamp < inputs[t].stamp)

SetInput(t, stamp) ==
  /\ inputs' = IF Accepts(t, stamp)
               THEN [inputs EXCEPT ![t] = [has |-> TRUE, stamp |-> stamp]]
               ELSE inputs
  /\ UNCHANGED <<clock, now, route, command>>

\* The ROS clock moves on.
Tick ==
  /\ clock < MaxTime
  /\ clock' = clock + 1
  /\ UNCHANGED <<now, inputs, route, command>>

\* What an observation built in this state depends on.
Stamps == [t \in Topics |-> inputs[t].stamp]
=============================================================================
