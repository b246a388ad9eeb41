-------------------------- MODULE DribbleController --------------------------
(***************************************************************************)
(* SoftTouchDribbleController: its lifecycle callbacks and update(), which *)
(* run on the real-time thread of the controller manager, interleaved with *)
(* the subscription callbacks that fill the CommandTerm cache.             *)
(*                                                                         *)
(* update() is cut where a callback can run between two reads of the cache *)
(* that the code treats as one:                                            *)
(*   idle -> inputs   setNow, the reset-hold early return, startup reset   *)
(*   inputs -> dispatch   first freshness test, delayed reset, refresh     *)
(*   dispatch -> build    ControllerBase::update, second freshness test    *)
(*   build -> idle    observation, policy forward, joint command           *)
(***************************************************************************)
EXTENDS CommandTerm, Sequences

CONSTANTS
  ParameterSets,              \* values the parameters of the node may have
  ActorHistoryLength,
  Visualize,                  \* softtouch.visualization.enabled
  MaxActivations              \* bound of the model

GatedModes == {"position_target", "effort_pd"}

Modes == GatedModes \cup {"rl_controller"}

\* mujoco_reset_hold_s and policy_update_period_s in ticks.
Parameters ==
  [mode : Modes, resetRoute : BOOLEAN, resetMemory : BOOLEAN,
   mujocoReset : BOOLEAN, hold : Nat, period : Nat]

ASSUME ParametersAssumption == ParameterSets \subseteq Parameters
ASSUME NumbersAssumption ==
  /\ Visualize \in BOOLEAN
  /\ ActorHistoryLength \in Nat \ {0}
  /\ MaxActivations \in Nat

VARIABLES
  lifecycle,        \* the lifecycle state of the node
  params,           \* the parameters as loadSoftTouchConfig has read them
  pc,               \* where the real-time thread is in update()
  freshAtStart,     \* freshPolicyInputs, the local of update()
  pendingStartup,   \* pendingStartupPolicyReset_
  skipUntil,        \* skipPolicyUntilTime_
  pendingReset,     \* pendingFreshInputRouteReset_
  target,           \* effortTargetPolicyOrder_, hasEffortTarget_ and
                    \*   lastEffortPolicyUpdateTime_, with the stamps and
                    \*   the route the target was computed from
  history,          \* actorFrameHistory_: the route behind each frame
  memory,           \* the policy's previous actions: the routes behind the
                    \*   forwards they accumulate since the last policy reset
  activations,      \* number of activations so far
  written           \* joint command written since now was set

flagVars == <<pendingStartup, skipUntil, pendingReset>>
policyVars == <<target, history, memory>>
vars == <<termVars, lifecycle, params, pc, freshAtStart, flagVars, policyVars,
          activations, written>>

NoTarget ==
  [has |-> FALSE, at |-> 0, basis |-> [t \in Topics |-> 0], route |-> NoRoute]

Lifecycle == {"unconfigured", "inactive", "active", "finalized"}
Steps == {"idle", "inputs", "dispatch", "build"}
Writes == {"none", "hold", "policy"}
Target == [has : BOOLEAN, at : Time, basis : [Topics -> Time], route : Route]

TypeOK ==
  /\ TermTypeOK
  /\ lifecycle \in Lifecycle
  /\ params \in Parameters
  /\ pc \in Steps
  /\ freshAtStart \in BOOLEAN
  /\ pendingStartup \in BOOLEAN
  /\ skipUntil \in Nat
  /\ pendingReset \in BOOLEAN
  /\ target \in Target
  /\ history \in Seq(Route)
  /\ Len(history) \in {0, ActorHistoryLength}
  /\ memory \subseteq Route
  /\ activations \in Nat
  /\ written \in Writes

Init ==
  /\ TermInit
  /\ lifecycle = "unconfigured"
  /\ params \in ParameterSets
  /\ pc = "idle"
  /\ freshAtStart = FALSE
  /\ pendingStartup = FALSE
  /\ skipUntil = 0
  /\ pendingReset = FALSE
  /\ target = NoTarget
  /\ history = <<>>
  /\ memory = {}
  /\ activations = 0
  /\ written = "none"

-----------------------------------------------------------------------------
(* Lifecycle callbacks *)

\* softtouchPolicy_->reset(), hasEffortTarget_ = false, resetObservationHistory().
ResetPolicyMemory ==
  /\ target' = NoTarget
  /\ history' = <<>>
  /\ memory' = {}

\* on_configure: new policy, new command term, no target.  The pending flags,
\* the skip time and the frame history keep their values.  The base class may
\* fail (back to unconfigured), a parameter or the model be refused (finalized).
Configure ==
  /\ lifecycle = "unconfigured"
  /\ lifecycle' \in {"inactive", "unconfigured", "finalized"}
  /\ params' \in ParameterSets
  /\ now' = 0
  /\ inputs' = NoInputs
  /\ route' = NoRoute
  /\ command' = NoCommand
  /\ target' = NoTarget
  /\ memory' = {}
  /\ written' = "none"
  /\ UNCHANGED <<clock, pc, freshAtStart, flagVars, history, activations>>

\* on_activate returns ERROR, because the base class failed, the widths do not match or
\* a reset of the route throws: the node is finalized.
ActivateFails ==
  /\ lifecycle = "inactive"
  /\ lifecycle' = "finalized"
  /\ UNCHANGED <<termVars, params, pc, freshAtStart, flagVars, policyVars,
                 activations, written>>

\* RlController::on_activate is not in the repository.  MotionTrackingController
\* relies on it to reset its command term, so it may also reset this route, at
\* the time of the last setNow, and the memory of the policy.
BaseResetsRoute == KeepRoute \/ ResetRoute(now, activations + 1)

BaseResetsPolicy == memory' \in {{}, memory}

\* Mutant of ActivateRoute: the inputs are not tested.
ActivateRouteUntested ==
  IF ~params.resetRoute
  THEN BaseResetsRoute /\ UNCHANGED <<now, pendingReset>>
  ELSE /\ now' = clock
       /\ ResetRoute(clock, activations + 1)
       /\ pendingReset' = FALSE

\* The route part of on_activate, at the time setNow has just set.
ActivateRoute ==
  IF ~params.resetRoute
  THEN BaseResetsRoute /\ UNCHANGED <<now, pendingReset>>
  ELSE /\ now' = clock
       /\ IF FreshInputs(clock)
          THEN ResetRoute(clock, activations + 1) /\ pendingReset' = FALSE
          ELSE BaseResetsRoute /\ pendingReset' = TRUE

\* The MuJoCo part of on_activate: request a reset and hold the policy back.
ActivateHold ==
  IF params.mujocoReset
  THEN /\ skipUntil' = clock + params.hold
       /\ pendingStartup' = TRUE
  ELSE UNCHANGED <<skipUntil, pendingStartup>>

\* configureObservationLayout empties the frame history whatever the flags say.
Activate ==
  /\ lifecycle = "inactive"
  /\ activations < MaxActivations
  /\ lifecycle' = "active"
  /\ activations' = activations + 1
  /\ history' = <<>>
  /\ IF params.resetMemory
     THEN target' = NoTarget /\ memory' = {}
     ELSE BaseResetsPolicy /\ UNCHANGED target
  /\ ActivateRoute
  /\ ActivateHold
  /\ written' = "none"
  /\ UNCHANGED <<clock, inputs, params, pc, freshAtStart>>

\* on_deactivate: nothing but the base class.
Deactivate ==
  /\ lifecycle = "active"
  /\ pc = "idle"
  /\ lifecycle' = "inactive"
  /\ UNCHANGED <<termVars, params, pc, freshAtStart, flagVars, policyVars,
                 activations, written>>

\* on_cleanup is the base class's: every member of the controller survives.
Cleanup ==
  /\ lifecycle = "inactive"
  /\ lifecycle' = "unconfigured"
  /\ UNCHANGED <<termVars, params, pc, freshAtStart, flagVars, policyVars,
                 activations, written>>

-----------------------------------------------------------------------------
(* update() *)

\* publishVisualization, at most once per period: it asks for the route command,
\* which is computed when none is cached.
PublishVisualization(time) == KeepRoute \/ (Visualize /\ GetRouteCommand(time))

\* Mutant of InHold: the policy starts one tick early.
HoldEndsEarly == pendingStartup /\ clock + 1 < skipUntil

\* The simulator still holds the state that on_activate asked it to reset to.
InHold == pendingStartup /\ clock < skipUntil

\* setNow, and the early return while the simulator holds its reset state.
UpdateHeld ==
  /\ lifecycle = "active"
  /\ pc = "idle"
  /\ InHold
  /\ now' = clock
  /\ written' = "none"
  /\ PublishVisualization(clock)
  /\ UNCHANGED <<clock, inputs, lifecycle, params, pc, freshAtStart, flagVars,
                 policyVars, activations>>

\* The resets that update() makes once the hold is over; the inputs may be stale.
StartupReset ==
  IF pendingStartup
  THEN /\ ResetPolicyMemory
       /\ IF params.resetRoute
          THEN ResetRoute(clock, activations)
          ELSE KeepRoute
  ELSE UNCHANGED <<policyVars, route, command>>

\* setNow and the startup reset.
UpdateStart ==
  /\ lifecycle = "active"
  /\ pc = "idle"
  /\ ~InHold
  /\ pc' = "inputs"
  /\ now' = clock
  /\ written' = "none"
  /\ StartupReset
  /\ pendingStartup' = FALSE
  /\ UNCHANGED <<clock, inputs, lifecycle, params, freshAtStart, skipUntil,
                 pendingReset, activations>>

\* Mutants of DelayedReset: the flag stays set; the policy is not reset.
DelayedResetKeepsFlag ==
  ResetPolicyMemory /\ ResetRoute(now, activations) /\ UNCHANGED pendingReset

DelayedResetOfRoute ==
  ResetRoute(now, activations) /\ pendingReset' = FALSE /\ UNCHANGED policyVars

\* The reset that on_activate postponed, made as soon as the inputs are fresh,
\* whatever reset_policy_memory_on_activate says.
DelayedReset ==
  ResetPolicyMemory /\ ResetRoute(now, activations) /\ pendingReset' = FALSE

\* The first freshness test, the delayed route reset, the route refresh.
CheckInputs ==
  /\ pc = "inputs"
  /\ pc' = "dispatch"
  /\ freshAtStart' = FreshInputs(now)
  /\ IF pendingReset /\ FreshInputs(now)
     THEN DelayedReset
     ELSE /\ UNCHANGED <<policyVars, pendingReset>>
          /\ IF pendingReset THEN KeepRoute ELSE RefreshRouteCommand(now)
  /\ UNCHANGED <<clock, now, inputs, lifecycle, params, pendingStartup,
                 skipUntil, activations, written>>

\* A reset of the route throws out of update(), after that of the policy: a frame that
\* reset() looks up is not in the robot's model.  The controller is taken out.
UpdateThrows ==
  /\ \/ /\ lifecycle = "active" /\ pc = "idle"
        /\ ~InHold /\ pendingStartup /\ params.resetRoute
        /\ now' = clock
        /\ written' = "none"
     \/ /\ pc = "inputs"
        /\ pendingReset /\ FreshInputs(now)
        /\ UNCHANGED <<now, written>>
  /\ lifecycle' = "finalized"
  /\ pc' = "idle"
  /\ ResetPolicyMemory
  /\ UNCHANGED <<clock, inputs, route, command, params, freshAtStart, flagVars, activations>>

\* ControllerBase::update did not return OK: nothing is written.
BaseUpdateFails ==
  /\ pc = "dispatch"
  /\ pc' = "idle"
  /\ PublishVisualization(now)
  /\ UNCHANGED <<clock, now, inputs, lifecycle, params, freshAtStart, flagVars,
                 policyVars, activations, written>>

\* ControllerBase::update is done; the second freshness test fails, and
\* holdCurrentPositionTarget commands the measured joint positions.
HoldTarget ==
  /\ pc = "dispatch"
  /\ params.mode \in GatedModes
  /\ ~FreshInputs(now)
  /\ pc' = "idle"
  /\ written' = "hold"
  /\ PublishVisualization(now)
  /\ UNCHANGED <<clock, now, inputs, lifecycle, params, freshAtStart, flagVars,
                 policyVars, activations>>

\* The second freshness test succeeds.
PassGate ==
  /\ pc = "dispatch"
  /\ params.mode \in GatedModes
  /\ FreshInputs(now)
  /\ pc' = "build"
  /\ UNCHANGED <<termVars, lifecycle, params, freshAtStart, flagVars,
                 policyVars, activations, written>>

\* buildPolicyObservation's deque: filled with the first frame, then shifted.
Pushed(frame) ==
  IF history = <<>> THEN [i \in 1 .. ActorHistoryLength |-> frame]
  ELSE Append(Tail(history), frame)

\* Mutant of ShouldUpdatePolicy: the period is not tested.
UpdateOnlyWithoutTarget == ~target.has

ShouldUpdatePolicy ==
  \/ ~target.has
  \/ params.period <= 0
  \/ now - target.at >= params.period

\* updatePositionTarget and updateEffortPd behind the gate.  A tick that is
\* not due for a forward still builds an observation, and so pushes a frame.
WriteTarget ==
  /\ pc = "build"
  /\ pc' = "idle"
  /\ written' = "policy"
  /\ history' = Pushed(route)
  /\ GetRouteCommand(now)
  /\ IF ShouldUpdatePolicy
     THEN /\ target' = [has |-> TRUE, at |-> now, basis |-> Stamps,
                        route |-> route]
          /\ memory' = memory \cup {route}
     ELSE UNCHANGED <<target, memory>>
  /\ UNCHANGED <<clock, now, inputs, lifecycle, params, freshAtStart,
                 flagVars, activations>>

\* RlController::update, outside the repository: it evaluates the policy with
\* no test of the inputs.
RlControllerUpdate ==
  /\ pc = "dispatch"
  /\ params.mode = "rl_controller"
  /\ pc' = "idle"
  /\ written' = "policy"
  /\ memory' = memory \cup {route}
  /\ GetRouteCommand(now)
  /\ UNCHANGED <<clock, now, inputs, lifecycle, params, freshAtStart,
                 flagVars, target, history, activations>>

-----------------------------------------------------------------------------
(* Callbacks and clock *)

controllerVars == <<lifecycle, params, pc, freshAtStart, flagVars, policyVars,
                    activations, written>>

\* handleBallPose, handleBallTwist, handleBasePose, handleBaseTwist and
\* handleObservationFramePose.  Delivery is best effort: a message may be lost,
\* late, repeated or overtaken, and the clock that stamps it need not be this
\* node's: any stamp may arrive.
HandleMessage(t) ==
  /\ lifecycle \in {"inactive", "active"}
  /\ \E stamp \in Time : SetInput(t, stamp)
  /\ UNCHANGED controllerVars

ClockTick == Tick /\ UNCHANGED controllerVars

Update ==
  \/ UpdateHeld \/ UpdateStart \/ CheckInputs \/ UpdateThrows
  \/ BaseUpdateFails \/ HoldTarget \/ PassGate \/ WriteTarget
  \/ RlControllerUpdate

Transition == Configure \/ Activate \/ ActivateFails \/ Deactivate \/ Cleanup

Next ==
  \/ Transition
  \/ Update
  \/ \E t \in Topics : HandleMessage(t)
  \/ ClockTick

Spec == Init /\ [][Next]_vars

-----------------------------------------------------------------------------
(* Properties *)

\* Behind the gate the policy only runs, and its target is only commanded, on inputs
\* that are all fresh for this update.  The test is made before the observation is read
\* term by term: no callback in between may put an input back.
PolicyOnFreshInputs ==
  params.mode \in GatedModes /\ (pc = "build" \/ written = "policy") => FreshInputs(now)

Settled == lifecycle = "active" /\ ~pendingReset /\ ~pendingStartup

\* Once an activation no longer waits for inputs, its route was seeded in this
\* activation; and from a measured ball, unless a reset of the simulator has been
\* requested since the node was started.
RouteFromThisActivation ==
  params.resetRoute /\ Settled =>
    /\ route.activation = activations
    /\ skipUntil = 0 => route.seed = "measured"

\* The same after a reset of the simulator.
RouteFromMeasuredBall == params.resetRoute /\ Settled => route.seed = "measured"

\* No frame, target or previous action of another route outlives the reset
\* that replaced it: a policy never mixes two routes in one observation.
MemoryMatchesRoute ==
  /\ params.resetRoute
  /\ params.resetMemory \/ params.mujocoReset
  /\ Settled
  => /\ \A i \in DOMAIN history : history[i] = route
     /\ target.has => target.route = route
     /\ memory \subseteq {route}

\* A commanded target rests on measurements no older than their timeout plus
\* the policy period, also when a stale interval or a deactivation came between
\* the forward and the reuse of its result.
TargetAge ==
  params.mode \in GatedModes /\ written = "policy" =>
    \A t \in Topics : now - target.basis[t] <= Timeout(t) + params.period

\* If the inputs were fresh when update() tested them first, the postponed route
\* reset has been made and the route command the policy is given was computed
\* from a ball that is fresh now, not from one it was computed from before: only
\* messages that arrive between the two tests can let the policy run on another.
CommandFromFreshBall ==
  pc \in {"dispatch", "build"} /\ freshAtStart =>
    /\ ~pendingReset
    /\ command.from = "measured"
    /\ IsFresh(now, command.stamp, BallTimeout)

\* While the simulator holds its reset state, update() commands nothing.
NoCommandDuringHold ==
  written # "none" => ~pendingStartup /\ (params.mujocoReset => now >= skipUntil)

\* What the proofs add to the properties above to make them inductive: update()
\* only runs while the node is active, writes last, leaves the hold first, and
\* gets past the gate only in the modes that have one.
UpdateInv ==
  /\ now <= clock
  /\ pc # "idle" => lifecycle = "active" /\ written = "none" /\ ~pendingStartup
  /\ pc = "build" => params.mode \in GatedModes

HoldOver ==
  params.mujocoReset /\ lifecycle = "active" /\ ~pendingStartup => now >= skipUntil

TargetFreshWhenComputed ==
  target.has => \A t \in Topics : IsFresh(target.at, target.basis[t], Timeout(t))

\* The policy waits for the delayed route reset: it never runs while the reset
\* that on_activate postponed is still pending.
PolicyAfterRouteReset == pc = "build" => ~pendingReset

\* The controller keeps the promise of GatedPolicy: the steps of update() and the
\* messages between them have the effect of one step that tests and commands.
Gate ==
  INSTANCE GatedPolicy
  WITH Timeouts <- [t \in Topics |-> Timeout(t)],
       active <- lifecycle = "active",
       gated <- params.mode \in GatedModes,
       period <- params.period,
       target <- [has |-> target.has, at |-> target.at, basis |-> target.basis]

ImplementsGate == Gate!Spec

\* The real-time thread keeps calling update() and update() returns.
Fairness == WF_vars(Update)

FairSpec == Spec /\ Fairness

\* If from some time on the controller stays active, the inputs stay fresh and
\* the reset hold is over, the postponed route reset is eventually made.
Ready == lifecycle = "active" /\ FreshInputs(clock) /\ clock >= skipUntil

PendingResetCompletes == <>[]Ready => <>[]~pendingReset
=============================================================================
