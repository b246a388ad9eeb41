-------------------------- MODULE SimulatedDribble --------------------------
(***************************************************************************)
(* The controller and the simulator it is tested on, as the launch file    *)
(* softtouch_dribble_mujoco joins them: DribbleController, reset requests  *)
(* from its on_activate to the bridge plugin of MuJoCo, MujocoBallBridge,  *)
(* and ball messages from the plugin to the controller's subscriptions.    *)
(* Both run on the time of the simulation.  Neither knows when the other   *)
(* has heard of a request, or of a restart.                                *)
(***************************************************************************)
EXTENDS DribbleController

CONSTANTS
  PublishPeriod,   \* 1 / publish_rate_hz of the bridge
  RequestDelay,    \* ticks a request may take
  MessageDelay,    \* ticks a ball message may take
  MaxRestarts      \* bound of the model

ASSUME DelaysAssumption ==
  /\ PublishPeriod \in Nat
  /\ RequestDelay \in Nat
  /\ MessageDelay \in Nat
  /\ MaxRestarts \in Nat

VARIABLES
  \* the variables of the bridge
  loop, qpos, sensed, request, taken, holdUntil, lastPublish, published,
  routeSize, dots, received, served, promise, promisedIn,
  \* the topics
  requests,        \* reset requests under way: at most one, the queue's depth
  wire,            \* ball messages under way
  \* where things come from
  simulation,      \* number of restarts of the simulator so far
  askedBy,         \* the activation behind each request the bridge has received
  inputOf,         \* the origin of each input in the controller's cache
  seedOf           \* the origin of the ball the route was seeded from

bridgeVars == <<loop, qpos, sensed, request, taken, holdUntil, lastPublish, published,
                routeSize, dots, received, served, promise, promisedIn>>
topicVars == <<requests, wire>>
originVars == <<simulation, askedBy, inputOf, seedOf>>
systemVars == <<vars, bridgeVars, topicVars, originVars>>

Bridge ==
  INSTANCE MujocoBallBridge
  WITH ResetEnabled <- TRUE, ApplyOnConfigure <- TRUE, ApplyOnReset <- TRUE,
       InitialHold <- 0, NumDots <- 0, RouteSizes <- {0},
       Holds <- {p.hold : p \in ParameterSets},
       AllowRestart <- MaxRestarts > 0, MaxRequests <- MaxActivations,
       pc <- loop, time <- clock

\* An origin names a simulation and the activation whose reset it was last put in.
Origins == [simulation : 0 .. MaxRestarts, reset : 0 .. MaxActivations]
NoOrigin == [simulation |-> 0, reset |-> 0]

\* The activation whose request the bridge has served last.
ResetFor(n) == IF n = 0 THEN 0 ELSE askedBy[n]

SystemTypeOK ==
  /\ TypeOK
  /\ Bridge!TypeOK
  /\ requests \subseteq [hold : Nat, sent : Time, by : Nat]
  /\ wire \subseteq [topic : BallTopics, stamp : Time, of : Origins]
  /\ simulation \in 0 .. MaxRestarts
  /\ askedBy \in Seq(1 .. MaxActivations)
  /\ Len(askedBy) = received
  /\ inputOf \in [Topics -> Origins]
  /\ seedOf \in Origins

SystemInit ==
  /\ Init
  /\ Bridge!Init
  /\ requests = {}
  /\ wire = {}
  /\ simulation = 0
  /\ askedBy = <<>>
  /\ inputOf = [t \in Topics |-> NoOrigin]
  /\ seedOf = NoOrigin

-----------------------------------------------------------------------------
\* A reset of the route takes its ball from the cache.
RouteIsReset ==
  \/ pendingStartup /\ ~pendingStartup' /\ params.resetRoute
  \/ pendingReset /\ ~pendingReset'
  \/ route' # route

TrackSeed == seedOf' = IF RouteIsReset THEN inputOf["ballPose"] ELSE seedOf

\* A callback or a step of the controller that sends nothing.
Control ==
  /\ Configure \/ ActivateFails \/ Deactivate \/ Cleanup \/ Update
  /\ TrackSeed
  /\ UNCHANGED <<bridgeVars, topicVars, simulation, askedBy, inputOf>>

\* on_activate publishes its request; one that is still under way is replaced.
ActivateAndRequest ==
  /\ Activate
  /\ requests' = IF params.mujocoReset
                 THEN {[hold |-> params.hold, sent |-> clock, by |-> activations']}
                 ELSE requests
  /\ TrackSeed
  /\ UNCHANGED <<bridgeVars, wire, simulation, askedBy, inputOf>>

ReceiveRequest ==
  \E r \in requests :
    /\ Bridge!HandleResetRequest
    /\ request'.hold = r.hold
    /\ requests' = {}
    /\ askedBy' = Append(askedBy, r.by)
    /\ UNCHANGED <<termVars, controllerVars, wire, simulation, inputOf, seedOf>>

\* Update of the bridge, which publishes the ball pose and the ball twist.
BridgeTakes ==
  /\ Bridge!TakeRequest
  /\ UNCHANGED <<termVars, controllerVars, topicVars, originVars>>

BridgeServes ==
  /\ Bridge!Serve
  /\ wire' =
       IF Bridge!PublishDue
       THEN wire \cup [topic : BallTopics, stamp : {clock},
                       of : {[simulation |-> simulation, reset |-> ResetFor(served')]}]
       ELSE wire
  /\ UNCHANGED <<termVars, controllerVars, requests, originVars>>

\* The physics: time passes, but nothing is under way for longer than its delay.
Physics ==
  /\ Bridge!Step
  /\ \A r \in requests : clock - r.sent < RequestDelay
  /\ \A m \in wire : clock - m.stamp < MessageDelay
  /\ UNCHANGED <<now, inputs, route, command, controllerVars, topicVars, originVars>>

\* stampToSeconds: a stamp of zero is replaced by the time of the node.
StampToSeconds(stamp) == IF stamp = 0 THEN clock ELSE stamp

\* handleBallPose and handleBallTwist.  The messages of a topic come in order.
Deliver ==
  \E m \in wire :
    /\ \A n \in wire : n.topic = m.topic => n.stamp >= m.stamp
    /\ wire' = wire \ {m}
    /\ IF lifecycle \in {"inactive", "active"}
       THEN /\ SetInput(m.topic, StampToSeconds(m.stamp))
            /\ inputOf' = IF Accepts(m.topic, StampToSeconds(m.stamp))
                          THEN [inputOf EXCEPT ![m.topic] = m.of]
                          ELSE inputOf
       ELSE UNCHANGED <<termVars, inputOf>>
    /\ UNCHANGED <<controllerVars, bridgeVars, requests, simulation, askedBy, seedOf>>

\* The user restarts the simulator.  Messages under way are taken to be lost.
RestartSimulation ==
  /\ simulation < MaxRestarts
  /\ Bridge!Reset
  /\ simulation' = simulation + 1
  /\ wire' = {}
  /\ UNCHANGED <<now, inputs, route, command, controllerVars, requests, askedBy, inputOf,
                 seedOf>>

SystemNext ==
  \/ Control \/ ActivateAndRequest
  \/ ReceiveRequest \/ BridgeTakes \/ BridgeServes \/ Physics
  \/ Deliver

SystemSpec == SystemInit /\ [][SystemNext]_systemVars

\* The same with restarts of the simulator.
RestartSpec == SystemInit /\ [][SystemNext \/ RestartSimulation]_systemVars

-----------------------------------------------------------------------------
(* Parameters that fit together; the proofs say which property needs which *)

\* The turns of the loop from one ball message to the next.
Gap == IF PublishPeriod = 0 THEN 1 ELSE PublishPeriod

\* A ball is fresh until the next one has come.
TimeoutCoversDelay == BallTimeout >= Gap + MessageDelay

\* A hold is long enough for the request to be taken and a ball to come back.
HoldCoversDelays ==
  \A p \in ParameterSets :
    p.mujocoReset => p.hold >= RequestDelay + MessageDelay + 2 /\ p.hold > 2 * MessageDelay

\* Reconfiguring the node does not change the hold.
OneHold ==
  \A p, q \in ParameterSets : p.mujocoReset /\ q.mujocoReset => p.hold = q.hold

-----------------------------------------------------------------------------
(* Properties *)

\* When the reset hold of the controller is over, its route starts at the ball of
\* the simulation it has asked for: the request has reached the bridge, and a ball
\* of the new state the cache, while the hold lasted.
RouteFromResetBall ==
  params.mujocoReset /\ params.resetRoute /\ Settled =>
    route.seed = "measured" /\ seedOf.reset = activations

\* The simulator does not let the robot go before the controller commands it...
ReleasedIntoControl ==
  loop = "step" /\ qpos # "reset" /\ lifecycle = "active" /\ ResetFor(served) = activations
    => ~InHold

\* ... and the policy does not act on a robot that is still held for longer than the
\* request took, and the turn of the loop that took it.
HeldPolicy ==
  params.mujocoReset /\ lifecycle = "active" /\ written = "policy"
    => holdUntil <= clock + RequestDelay + 1

\* In an undisturbed simulation the gate, once open, stays open: the bridge
\* publishes often enough for the timeout.
GateStaysOpen ==
  lifecycle = "active" /\ (\A t \in Topics : inputs[t].has) => FreshInputs(clock)

\* The policy acts on the ball of the simulation that is running; at the latest when
\* this simulation has run for longer than a ball is taken to be fresh.
PolicyOnThisSimulation ==
  [][WriteTarget /\ clock > BallTimeout =>
       \A t \in Topics : inputOf[t].simulation = simulation]_systemVars
=============================================================================
