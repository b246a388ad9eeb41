----------------------- MODULE DribbleControllerProofs -----------------------
(***************************************************************************)
(* Theorems about DribbleController, for every value of its constants.     *)
(***************************************************************************)
EXTENDS DribbleController, SequenceTheorems, TLAPS

LEMMA TopicsFact == "ballPose" \in Topics /\ \A t \in Topics : Timeout(t) \in Nat
  BY TimeoutsAssumption DEF Topics, BallTopics, Timeout

LEMMA TimeFact == Time \subseteq Nat /\ 0 \in Time
  BY MaxTimeAssumption DEF Time

\* The deque keeps its length and holds old frames and the new one.
LEMMA PushedFrames ==
  ASSUME NEW S, history \in Seq(S), NEW frame \in S,
         Len(history) \in {0, ActorHistoryLength}
  PROVE  /\ Pushed(frame) \in Seq(S)
         /\ Len(Pushed(frame)) = ActorHistoryLength
<1> ActorHistoryLength \in Nat \ {0}
  BY NumbersAssumption
<1>1. CASE history = <<>>
  <2> DEFINE filled == [i \in 1 .. ActorHistoryLength |-> frame]
  <2>1. filled \in Seq(S) /\ Len(filled) = ActorHistoryLength
    OBVIOUS
  <2> QED BY <1>1, <2>1 DEF Pushed
<1>2. CASE history # <<>>
  <2>1. Len(history) = ActorHistoryLength
    BY <1>2
  <2>2. Tail(history) \in Seq(S) /\ Len(Tail(history)) = Len(history) - 1
    BY <1>2
  <2>3. /\ Append(Tail(history), frame) \in Seq(S)
        /\ Len(Append(Tail(history), frame)) = Len(Tail(history)) + 1
    BY <2>2, AppendProperties
  <2> QED BY <1>2, <2>1, <2>2, <2>3 DEF Pushed
<1> QED BY <1>1, <1>2

LEMMA CommandFromBallType ==
  ASSUME TypeOK, NEW time PROVE CommandFromBall(time) \in Commands
<1>1. BallSource(time) \in Sources
  BY DEF BallSource, Sources
<1>2. inputs["ballPose"].stamp \in Time /\ 0 \in Time
  BY TopicsFact, MaxTimeAssumption DEF TypeOK, TermTypeOK, Input, Time
<1> QED BY <1>1, <1>2 DEF CommandFromBall, Commands

LEMMA ResetRouteType ==
  ASSUME TypeOK, NEW time, NEW activation \in Nat, ResetRoute(time, activation)
  PROVE  route' \in Route /\ command' \in Commands
<1>1. BallSource(time) \in Sources
  BY DEF BallSource, Sources
<1> QED BY <1>1, CommandFromBallType DEF ResetRoute, Route

LEMMA BaseRouteType ==
  ASSUME TypeOK, BaseResetsRoute PROVE route' \in Route /\ command' \in Commands
<1>1. CASE KeepRoute
  BY <1>1 DEF KeepRoute, TypeOK, TermTypeOK
<1>2. CASE ResetRoute(now, activations + 1)
  <2>1. activations + 1 \in Nat
    BY DEF TypeOK
  <2> QED BY <1>2, <2>1, ResetRouteType
<1> QED BY <1>1, <1>2 DEF BaseResetsRoute

\* The markers never change the route.
LEMMA PublishedRoute ==
  ASSUME NEW time, PublishVisualization(time)
  PROVE  route' = route /\ (TypeOK => command' \in Commands)
BY CommandFromBallType
DEF PublishVisualization, KeepRoute, GetRouteCommand, RefreshRouteCommand, TypeOK, TermTypeOK

-----------------------------------------------------------------------------
\* Type correctness: every variable of the controller and of the command term
\* keeps its type, and the frame history is empty or full.
THEOREM TypeCorrect == Spec => []TypeOK
<1> USE TimeFact
<1>1. Init => TypeOK
  <2> SUFFICES ASSUME Init PROVE TypeOK
    OBVIOUS
  <2>1. TermTypeOK
    BY DEF Init, TermInit, TermTypeOK, NoInputs, NoRoute, NoCommand, Input, Route, Commands,
           Sources
  <2>2. target \in Target
    BY DEF Init, NoTarget, Target, NoRoute, Route, Sources
  <2>3. history \in Seq(Route) /\ Len(history) = 0
    BY EmptySeq DEF Init
  <2> QED BY <2>1, <2>2, <2>3, ParametersAssumption DEF Init, TypeOK, Lifecycle, Steps, Writes
<1>2. TypeOK /\ [Next]_vars => TypeOK'
  <2> SUFFICES ASSUME TypeOK, [Next]_vars PROVE TypeOK'
    OBVIOUS
  <2> USE DEF TypeOK, TermTypeOK
  <2>1. CommandFromBall(now) \in Commands /\ NoCommand \in Commands
    BY CommandFromBallType, MaxTimeAssumption DEF NoCommand, Commands, Sources, Time
  <2>2. NoTarget \in Target /\ NoRoute \in Route /\ <<>> \in Seq(Route) /\ Len(<<>>) = 0
    BY EmptySeq DEF NoTarget, Target, NoRoute, Route, Sources
  <2>3. NoInputs \in [Topics -> Input]
    BY DEF NoInputs, Input
  <2>4. CASE Configure
    BY <2>1, <2>2, <2>3, <2>4, ParametersAssumption DEF Configure, Lifecycle, Writes, flagVars
  <2>5. CASE Activate
    <3>1. target' \in Target /\ memory' \subseteq Route
      BY <2>2, <2>5 DEF Activate, BaseResetsPolicy
    <3>2. /\ now' \in Time
          /\ route' \in Route
          /\ command' \in Commands
          /\ pendingReset' \in BOOLEAN
      <4>1. ActivateRoute /\ activations + 1 \in Nat
        BY <2>5 DEF Activate
      <4>2. CASE ~params.resetRoute
        BY <4>1, <4>2, BaseRouteType DEF ActivateRoute
      <4>3. CASE params.resetRoute /\ FreshInputs(clock)
        <5>1. ResetRoute(clock, activations + 1) /\ pendingReset' = FALSE /\ now' = clock
          BY <4>1, <4>3 DEF ActivateRoute
        <5> QED BY <4>1, <5>1, ResetRouteType
      <4>4. CASE params.resetRoute /\ ~FreshInputs(clock)
        BY <4>1, <4>4, BaseRouteType DEF ActivateRoute
      <4> QED BY <4>2, <4>3, <4>4
    <3>3. skipUntil' \in Nat /\ pendingStartup' \in BOOLEAN
      <4>1. clock + params.hold \in Nat
        BY MaxTimeAssumption DEF Time, Parameters
      <4> QED BY <2>5, <4>1 DEF Activate, ActivateHold
    <3> QED BY <2>2, <2>5, <3>1, <3>2, <3>3 DEF Activate, Lifecycle, Writes
  <2>6. CASE ActivateFails \/ Deactivate \/ Cleanup
    BY <2>6 DEF ActivateFails, Deactivate, Cleanup, Lifecycle, termVars, flagVars, policyVars
  <2>7. CASE UpdateHeld
    BY <2>7, PublishedRoute DEF UpdateHeld, Writes, flagVars, policyVars
  <2>8. CASE UpdateStart
    <3>1. /\ target' \in Target
          /\ history' \in Seq(Route)
          /\ Len(history') \in {0, ActorHistoryLength}
          /\ memory' \subseteq Route
          /\ route' \in Route
          /\ command' \in Commands
      <4>1. CASE pendingStartup /\ params.resetRoute
        <5>1. ResetPolicyMemory /\ ResetRoute(clock, activations)
          BY <2>8, <4>1 DEF UpdateStart, StartupReset
        <5> QED BY <2>2, <5>1, ResetRouteType DEF ResetPolicyMemory
      <4>2. CASE pendingStartup /\ ~params.resetRoute
        BY <2>2, <2>8, <4>2 DEF UpdateStart, StartupReset, ResetPolicyMemory, KeepRoute
      <4>3. CASE ~pendingStartup
        BY <2>8, <4>3 DEF UpdateStart, StartupReset, policyVars
      <4> QED BY <4>1, <4>2, <4>3
    <3> QED BY <2>8, <3>1 DEF UpdateStart, Steps, Writes
  <2>9. CASE CheckInputs
    <3>1. /\ target' \in Target
          /\ history' \in Seq(Route)
          /\ Len(history') \in {0, ActorHistoryLength}
          /\ memory' \subseteq Route
          /\ route' \in Route
          /\ command' \in Commands
          /\ pendingReset' \in BOOLEAN
      <4>1. CASE pendingReset /\ FreshInputs(now)
        <5>1. DelayedReset
          BY <2>9, <4>1 DEF CheckInputs
        <5> QED BY <2>2, <5>1, ResetRouteType DEF DelayedReset, ResetPolicyMemory
      <4>2. CASE ~(pendingReset /\ FreshInputs(now))
        BY <2>1, <2>9, <4>2 DEF CheckInputs, KeepRoute, RefreshRouteCommand, policyVars
      <4> QED BY <4>1, <4>2
    <3>2. FreshInputs(now) \in BOOLEAN
      BY DEF FreshInputs
    <3> QED BY <2>9, <3>1, <3>2 DEF CheckInputs, Steps
  <2>10. CASE BaseUpdateFails \/ HoldTarget \/ PassGate
    BY <2>10, PublishedRoute DEF BaseUpdateFails, HoldTarget, PassGate, termVars, flagVars,
                                 policyVars, Steps, Writes
  <2>11. CASE WriteTarget
    <3>1. history' \in Seq(Route) /\ Len(history') = ActorHistoryLength
      BY <2>11, PushedFrames DEF WriteTarget
    <3>2. Stamps \in [Topics -> Time]
      BY DEF Stamps, Input
    <3>3. target' \in Target /\ memory' \subseteq Route
      <4>1. CASE ShouldUpdatePolicy
        <5>1. /\ target' = [has |-> TRUE, at |-> now, basis |-> Stamps, route |-> route]
              /\ memory' = memory \cup {route}
          BY <2>11, <4>1 DEF WriteTarget
        <5> QED BY <3>2, <5>1 DEF Target
      <4>2. CASE ~ShouldUpdatePolicy
        BY <2>11, <4>2 DEF WriteTarget
      <4> QED BY <4>1, <4>2
    <3>4. route' \in Route /\ command' \in Commands
      BY <2>1, <2>11 DEF WriteTarget, GetRouteCommand, RefreshRouteCommand
    <3> QED BY <2>11, <3>1, <3>3, <3>4 DEF WriteTarget, flagVars, Steps, Writes
  <2>12. CASE RlControllerUpdate
    <3>1. route' \in Route /\ command' \in Commands
      BY <2>1, <2>12 DEF RlControllerUpdate, GetRouteCommand, RefreshRouteCommand
    <3> QED BY <2>12, <3>1 DEF RlControllerUpdate, flagVars, Steps, Writes
  <2>13. ASSUME NEW t \in Topics, HandleMessage(t) PROVE TypeOK'
    <3>1. PICK stamp \in Time : SetInput(t, stamp)
      BY <2>13 DEF HandleMessage
    <3>2. stamp \in Time
      BY <3>1, MaxTimeAssumption DEF Time
    <3>3. inputs' \in [Topics -> Input]
      BY <3>1, <3>2 DEF SetInput, Input
    <3> QED BY <2>13, <3>1, <3>3 DEF HandleMessage, SetInput, controllerVars, flagVars, policyVars
  <2>14. CASE ClockTick
    <3>1. clock' \in Time
      BY <2>14, MaxTimeAssumption DEF ClockTick, Tick, Time
    <3> QED BY <2>14, <3>1 DEF ClockTick, Tick, controllerVars, flagVars, policyVars
  <2>15. CASE UNCHANGED vars
    BY <2>15 DEF vars, termVars, flagVars, policyVars
  <2>16. CASE UpdateThrows
    BY <2>2, <2>16 DEF UpdateThrows, ResetPolicyMemory, Lifecycle, Steps, Writes, flagVars
  <2> QED
    BY <2>4, <2>5, <2>6, <2>7, <2>8, <2>9, <2>10, <2>11, <2>12, <2>13, <2>14, <2>15, <2>16
    DEF Next, Transition, Update
<1> QED BY <1>1, <1>2, PTL DEF Spec
\* The parameters are read by Configure only.
LEMMA ParametersKept ==
  ASSUME [Next]_vars, lifecycle' = "active" PROVE params' = params
<1> USE DEF controllerVars, termVars, flagVars, policyVars
<1>1. CASE Transition
  BY <1>1 DEF Transition, Configure, Activate, ActivateFails, Deactivate, Cleanup
<1>2. CASE Update
  BY <1>2 DEF Update, UpdateHeld, UpdateStart, CheckInputs, UpdateThrows, BaseUpdateFails,
              HoldTarget, PassGate, WriteTarget, RlControllerUpdate
<1>3. CASE (\E t \in Topics : HandleMessage(t)) \/ ClockTick \/ UNCHANGED vars
  BY <1>3 DEF HandleMessage, ClockTick, vars
<1> QED BY <1>1, <1>2, <1>3 DEF Next

-----------------------------------------------------------------------------
\* update() runs only while the node is active, and has written nothing yet.
LEMMA UpdateInvHolds == Spec => []UpdateInv
<1>1. Init => UpdateInv
  BY DEF Init, TermInit, UpdateInv
<1>2. TypeOK /\ UpdateInv /\ [Next]_vars => UpdateInv'
  <2> SUFFICES ASSUME TypeOK, UpdateInv, [Next]_vars PROVE UpdateInv'
    OBVIOUS
  <2> USE DEF UpdateInv
  <2>1. clock \in Nat /\ now \in Nat
    BY MaxTimeAssumption DEF TypeOK, TermTypeOK, Time
  <2>2. CASE Configure
    BY <2>1, <2>2 DEF Configure
  <2>3. CASE Activate
    <3>1. pc = "idle" /\ pc' = "idle" /\ clock' = clock
      BY <2>3 DEF Activate
    <3>2. now' = clock \/ now' = now
      BY <2>3 DEF Activate, ActivateRoute
    <3> QED BY <2>1, <3>1, <3>2
  <2>4. CASE ActivateFails \/ Deactivate \/ Cleanup
    BY <2>4 DEF ActivateFails, Deactivate, Cleanup, termVars, flagVars
  <2>5. CASE UpdateHeld \/ UpdateStart
    BY <2>1, <2>5 DEF UpdateHeld, UpdateStart, flagVars
  <2>6. CASE CheckInputs
    BY <2>6 DEF CheckInputs
  <2>7. CASE BaseUpdateFails \/ HoldTarget \/ PassGate
    BY <2>7 DEF BaseUpdateFails, HoldTarget, PassGate, termVars, flagVars
  <2>8. CASE WriteTarget \/ RlControllerUpdate
    BY <2>8 DEF WriteTarget, RlControllerUpdate, flagVars
  <2>9. ASSUME NEW t \in Topics, HandleMessage(t) PROVE UpdateInv'
    BY <2>9 DEF HandleMessage, SetInput, controllerVars, flagVars
  <2>10. CASE ClockTick
    BY <2>1, <2>10 DEF ClockTick, Tick, controllerVars, flagVars
  <2>11. CASE UNCHANGED vars
    BY <2>11 DEF vars, termVars, flagVars
  <2>12. CASE UpdateThrows
    BY <2>1, <2>12 DEF UpdateThrows, flagVars
  <2> QED
    BY <2>2, <2>3, <2>4, <2>5, <2>6, <2>7, <2>8, <2>9, <2>10, <2>11, <2>12
    DEF Next, Transition, Update
<1> QED BY <1>1, <1>2, TypeCorrect, PTL DEF Spec

\* A message can make an input fresh but never stale: older ones are dropped.
LEMMA MessageKeepsFresh ==
  ASSUME TypeOK, NEW t \in Topics, HandleMessage(t)
  PROVE  \A u \in Topics : HasFresh(u, now) => HasFresh(u, now)'
<1>1. PICK stamp \in Time : SetInput(t, stamp)
  BY DEF HandleMessage
<1>2. now' = now /\ now \in Int /\ stamp \in Int
  BY <1>1, MaxTimeAssumption DEF SetInput, TypeOK, TermTypeOK, Time
<1>3. ASSUME NEW u \in Topics, HasFresh(u, now) PROVE HasFresh(u, now)'
  <2>1. inputs \in [Topics -> Input] /\ inputs[u].stamp \in Int /\ Timeout(u) \in Int
    BY TopicsFact, MaxTimeAssumption DEF TypeOK, TermTypeOK, Input, Time
  <2>2. CASE inputs' = inputs \/ u # t
    <3>1. inputs'[u] = inputs[u]
      BY <1>1, <2>1, <2>2 DEF SetInput
    <3> QED BY <1>2, <1>3, <3>1 DEF HasFresh, IsFresh, Timeout
  <2>3. CASE inputs' # inputs /\ u = t
    <3>1. Accepts(t, stamp) /\ inputs'[t] = [has |-> TRUE, stamp |-> stamp]
      BY <1>1, <2>1, <2>3 DEF SetInput
    <3>2. stamp >= inputs[t].stamp
      BY <1>2, <1>3, <2>1, <2>3, <3>1 DEF Accepts, HasFresh
    <3>3. IsFresh(now, stamp, Timeout(t))
      BY <1>2, <1>3, <2>1, <2>3, <3>2 DEF HasFresh, IsFresh
    <3> QED BY <1>2, <2>3, <3>1, <3>3 DEF HasFresh, IsFresh, Timeout
  <2> QED BY <2>2, <2>3
<1> QED BY <1>3

LEMMA MessageKeepsInputsFresh ==
  ASSUME TypeOK, NEW t \in Topics, HandleMessage(t), FreshInputs(now)
  PROVE  FreshInputs(now)'
BY MessageKeepsFresh DEF FreshInputs, Topics

LEMMA SameInputsFresh ==
  ASSUME UNCHANGED <<now, inputs>>, FreshInputs(now)
  PROVE  FreshInputs(now)'
BY DEF FreshInputs, HasFresh, IsFresh, Timeout, Topics

-----------------------------------------------------------------------------
\* In the two gated modes the policy runs, and its target is commanded, on
\* inputs that are all fresh for the running update, whatever messages arrive
\* between the test and the reads.
THEOREM GateHolds == Spec => []PolicyOnFreshInputs
<1>1. Init => PolicyOnFreshInputs
  BY DEF Init, PolicyOnFreshInputs
<1>2. TypeOK /\ UpdateInv /\ PolicyOnFreshInputs /\ [Next]_vars => PolicyOnFreshInputs'
  <2> SUFFICES ASSUME TypeOK, UpdateInv, PolicyOnFreshInputs, [Next]_vars
               PROVE  PolicyOnFreshInputs'
    OBVIOUS
  <2> USE DEF PolicyOnFreshInputs
  <2>1. CASE Configure \/ Activate
    <3>1. pc = "idle"
      BY <2>1 DEF UpdateInv, Configure, Activate
    <3> QED BY <2>1, <3>1 DEF Configure, Activate
  <2>2. CASE ActivateFails \/ Deactivate \/ Cleanup
    BY <2>2, SameInputsFresh DEF ActivateFails, Deactivate, Cleanup, termVars
  <2>3. CASE UpdateHeld \/ UpdateStart
    BY <2>3 DEF UpdateHeld, UpdateStart
  <2>4. CASE CheckInputs \/ BaseUpdateFails \/ HoldTarget
    BY <2>4 DEF CheckInputs, BaseUpdateFails, HoldTarget, UpdateInv
  <2>5. CASE PassGate
    BY <2>5, SameInputsFresh DEF PassGate, termVars
  <2>6. CASE WriteTarget
    BY <2>6, SameInputsFresh DEF WriteTarget
  <2>7. CASE RlControllerUpdate
    BY <2>7 DEF RlControllerUpdate, GatedModes
  <2>8. ASSUME NEW t \in Topics, HandleMessage(t) PROVE PolicyOnFreshInputs'
    BY <2>8, MessageKeepsInputsFresh DEF HandleMessage, controllerVars
  <2>9. CASE ClockTick
    BY <2>9, SameInputsFresh DEF ClockTick, Tick, controllerVars
  <2>10. CASE UNCHANGED vars
    BY <2>10, SameInputsFresh DEF vars, termVars
  <2>11. CASE UpdateThrows
    BY <2>11 DEF UpdateThrows, UpdateInv
  <2> QED
    BY <2>1, <2>2, <2>3, <2>4, <2>5, <2>6, <2>7, <2>8, <2>9, <2>10, <2>11
    DEF Next, Transition, Update
<1> QED BY <1>1, <1>2, TypeCorrect, UpdateInvHolds, PTL DEF Spec

-----------------------------------------------------------------------------
LEMMA FreshRouteIsMeasured ==
  ASSUME NEW time, NEW activation, FreshInputs(time), ResetRoute(time, activation)
  PROVE  /\ route' = [seed |-> "measured", activation |-> activation]
         /\ command'.from = "measured"
         /\ IsFresh(time, command'.stamp, BallTimeout)
BY TopicsFact DEF FreshInputs, ResetRoute, CommandFromBall, BallSource, HasFresh, Timeout,
                  BallTopics

RouteInv ==
  /\ RouteFromThisActivation
  /\ pendingStartup => skipUntil > 0
  /\ params.mujocoReset => params.hold > 0

\* A settled controller follows a route that was seeded in this activation, and
\* from a measured ball as long as no reset of the simulator has been requested.
THEOREM RouteSeeded ==
  ASSUME \A p \in ParameterSets : p.mujocoReset => p.hold > 0
  PROVE  Spec => []RouteFromThisActivation
<1>1. Init => RouteInv
  BY DEF Init, RouteInv, RouteFromThisActivation, Settled
<1>2. TypeOK /\ RouteInv /\ [Next]_vars => RouteInv'
  <2> SUFFICES ASSUME TypeOK, RouteInv, [Next]_vars PROVE RouteInv'
    OBVIOUS
  <2> USE DEF RouteInv, RouteFromThisActivation, Settled
  <2>1. CASE Configure \/ ActivateFails \/ Deactivate \/ Cleanup
    BY <2>1 DEF Configure, ActivateFails, Deactivate, Cleanup, flagVars
  <2>2. CASE Activate
    <3>1. /\ activations' = activations + 1
          /\ params' = params
          /\ ActivateRoute
          /\ ActivateHold
      BY <2>2 DEF Activate
    <3>2. /\ params.mujocoReset => skipUntil' > 0
          /\ ~params.mujocoReset => UNCHANGED <<skipUntil, pendingStartup>>
      <4>1. CASE params.mujocoReset
        <5>1. params.hold \in Nat /\ params.hold > 0 /\ clock \in Nat
          BY <4>1, MaxTimeAssumption DEF TypeOK, TermTypeOK, Parameters, Time
        <5>2. clock + params.hold > 0
          BY <5>1
        <5> QED BY <3>1, <4>1, <5>2 DEF ActivateHold
      <4> QED BY <3>1, <4>1 DEF ActivateHold
    <3>3. pendingStartup' => skipUntil' > 0
      BY <3>2
    <3>4. params'.resetRoute /\ Settled' =>
            /\ route'.activation = activations'
            /\ skipUntil' = 0 => route'.seed = "measured"
      <4>1. CASE params.resetRoute /\ FreshInputs(clock)
        <5>1. ResetRoute(clock, activations + 1)
          BY <3>1, <4>1 DEF ActivateRoute
        <5>2. route' = [seed |-> "measured", activation |-> activations + 1]
          BY <4>1, <5>1, FreshRouteIsMeasured
        <5> QED BY <3>1, <5>2
      <4>2. CASE params.resetRoute /\ ~FreshInputs(clock)
        BY <3>1, <4>2 DEF ActivateRoute
      <4> QED BY <3>1, <4>1, <4>2
    <3> QED BY <3>1, <3>3, <3>4
  <2>3. CASE UpdateHeld
    BY <2>3, PublishedRoute DEF UpdateHeld, flagVars
  <2>4. CASE UpdateStart
    BY <2>4 DEF UpdateStart, StartupReset, ResetRoute
  <2>5. CASE CheckInputs
    <3>1. UNCHANGED <<lifecycle, activations, pendingStartup, params, skipUntil>>
      BY <2>5 DEF CheckInputs
    <3>2. CASE pendingReset /\ FreshInputs(now)
      <4>1. ResetRoute(now, activations)
        BY <2>5, <3>2 DEF CheckInputs, DelayedReset
      <4> QED BY <3>1, <3>2, <4>1, FreshRouteIsMeasured
    <3>3. CASE ~(pendingReset /\ FreshInputs(now))
      BY <2>5, <3>1, <3>3 DEF CheckInputs, KeepRoute, RefreshRouteCommand
    <3> QED BY <3>2, <3>3
  <2>6. CASE BaseUpdateFails \/ HoldTarget \/ PassGate
    BY <2>6, PublishedRoute DEF BaseUpdateFails, HoldTarget, PassGate, termVars, flagVars
  <2>7. CASE WriteTarget \/ RlControllerUpdate
    BY <2>7 DEF WriteTarget, RlControllerUpdate, GetRouteCommand, RefreshRouteCommand, flagVars
  <2>8. ASSUME NEW t \in Topics, HandleMessage(t) PROVE RouteInv'
    BY <2>8 DEF HandleMessage, SetInput, controllerVars, flagVars
  <2>9. CASE ClockTick \/ UNCHANGED vars
    BY <2>9 DEF ClockTick, Tick, vars, termVars, controllerVars, flagVars
  <2>10. CASE UpdateThrows
    BY <2>10 DEF UpdateThrows, flagVars
  <2> QED
    BY <2>1, <2>2, <2>3, <2>4, <2>5, <2>6, <2>7, <2>8, <2>9, <2>10
    DEF Next, Transition, Update
<1>3. RouteInv => RouteFromThisActivation
  BY DEF RouteInv
<1> QED BY <1>1, <1>2, <1>3, TypeCorrect, PTL DEF Spec

-----------------------------------------------------------------------------
\* Pushing a frame of the present route keeps a history of the present route.
LEMMA PushedSameRoute ==
  ASSUME TypeOK, \A i \in DOMAIN history : history[i] = route
  PROVE  \A i \in DOMAIN Pushed(route) : Pushed(route)[i] = route
<1>1. history \in Seq(Route) /\ route \in Route
  BY DEF TypeOK, TermTypeOK
<1>2. CASE history = <<>>
  BY <1>2 DEF Pushed
<1>3. CASE history # <<>>
  <2> DEFINE t == Tail(history)
  <2>1. /\ t \in Seq(Route)
        /\ Len(t) = Len(history) - 1
        /\ Len(history) \in Nat
        /\ DOMAIN history = 1 .. Len(history)
    BY <1>1, <1>3, HeadTailProperties, LenProperties
  <2>2. \A i \in 1 .. Len(t) : t[i] = route
    BY <1>1, <1>3, <2>1, HeadTailProperties
  <2>3. /\ Append(t, route) \in Seq(Route)
        /\ Len(Append(t, route)) = Len(t) + 1
        /\ \A i \in 1 .. Len(t) : Append(t, route)[i] = t[i]
        /\ Append(t, route)[Len(t) + 1] = route
    BY <1>1, <2>1, AppendProperties
  <2>4. DOMAIN Append(t, route) = 1 .. Len(t) + 1 /\ Len(t) \in Nat
    BY <2>1, <2>3, LenProperties
  <2> HIDE DEF t
  <2>5. \A i \in 1 .. Len(t) + 1 : i \in 1 .. Len(t) \/ i = Len(t) + 1
    BY <2>4
  <2>6. \A i \in DOMAIN Append(t, route) : Append(t, route)[i] = route
    BY <2>2, <2>3, <2>4, <2>5
  <2> QED BY <1>3, <2>6 DEF Pushed, t
<1> QED BY <1>2, <1>3

MemoryOf(r) ==
  /\ \A i \in DOMAIN history : history[i] = r
  /\ target.has => target.route = r
  /\ memory \subseteq {r}

LEMMA ClearedMemory ==
  ASSUME NEW r, ResetPolicyMemory
  PROVE  MemoryOf(r)'
BY DEF ResetPolicyMemory, MemoryOf, NoTarget

\* A settled controller's frame history, target and previous actions all come
\* from the route it follows now, in every mode and with either kind of reset.
THEOREM MemoryFollowsRoute == Spec => []MemoryMatchesRoute
<1>1. Init => MemoryMatchesRoute
  BY DEF Init, MemoryMatchesRoute, Settled
<1>2. TypeOK /\ UpdateInv /\ MemoryMatchesRoute /\ [Next]_vars => MemoryMatchesRoute'
  <2> SUFFICES ASSUME TypeOK, UpdateInv, MemoryMatchesRoute, [Next]_vars,
                      (params.resetRoute /\ Settled)',
                      (params.resetMemory \/ params.mujocoReset)'
               PROVE  MemoryOf(route)'
    BY DEF MemoryMatchesRoute, MemoryOf
  <2>0. params' = params
    BY ParametersKept DEF Settled
  <2>1. Settled => MemoryOf(route)
    BY <2>0 DEF MemoryMatchesRoute, MemoryOf
  <2>2. ASSUME Settled, UNCHANGED <<route, history, target, memory>>
        PROVE  MemoryOf(route)'
    BY <2>1, <2>2 DEF MemoryOf
  <2>3. CASE Configure \/ ActivateFails \/ Deactivate \/ Cleanup
    BY <2>3 DEF Configure, ActivateFails, Deactivate, Cleanup, Settled
  <2>4. CASE Activate
    <3>1. ~params.mujocoReset
      BY <2>4 DEF Activate, ActivateHold, Settled
    <3> QED BY <2>0, <2>4, <3>1 DEF Activate, MemoryOf, NoTarget
  <2>5. CASE UpdateHeld
    BY <2>2, <2>5, PublishedRoute DEF UpdateHeld, flagVars, policyVars, Settled
  <2>6. CASE UpdateStart
    <3>1. CASE pendingStartup
      BY <2>6, <3>1, ClearedMemory DEF UpdateStart, StartupReset
    <3>2. CASE ~pendingStartup
      BY <2>2, <2>6, <3>2 DEF UpdateStart, StartupReset, policyVars, Settled
    <3> QED BY <3>1, <3>2
  <2>7. CASE CheckInputs
    <3>1. CASE pendingReset /\ FreshInputs(now)
      BY <2>7, <3>1, ClearedMemory DEF CheckInputs, DelayedReset
    <3>2. CASE ~(pendingReset /\ FreshInputs(now))
      <4>1. UNCHANGED <<policyVars, pendingReset, pendingStartup, lifecycle, route>>
        BY <2>7, <3>2 DEF CheckInputs, KeepRoute, RefreshRouteCommand
      <4> QED BY <2>2, <4>1 DEF Settled, policyVars
    <3> QED BY <3>1, <3>2
  <2>8. CASE BaseUpdateFails \/ HoldTarget \/ PassGate
    BY <2>2, <2>8, PublishedRoute
    DEF BaseUpdateFails, HoldTarget, PassGate, termVars, flagVars, policyVars, Settled
  <2>9. CASE WriteTarget
    <3>1. Settled /\ UNCHANGED route
      BY <2>9 DEF WriteTarget, flagVars, Settled, GetRouteCommand, RefreshRouteCommand
    <3>2. \A i \in DOMAIN history' : history'[i] = route
      BY <2>1, <2>9, <3>1, PushedSameRoute DEF WriteTarget, MemoryOf
    <3>3. (target.has => target.route = route)' /\ memory' \subseteq {route}
      BY <2>1, <2>9, <3>1 DEF WriteTarget, MemoryOf
    <3> QED BY <3>1, <3>2, <3>3 DEF MemoryOf
  <2>10. CASE RlControllerUpdate
    <3>1. Settled /\ UNCHANGED <<route, history, target>>
      BY <2>10 DEF RlControllerUpdate, flagVars, Settled, GetRouteCommand, RefreshRouteCommand
    <3>2. memory' \subseteq {route}
      BY <2>1, <2>10, <3>1 DEF RlControllerUpdate, MemoryOf
    <3> QED BY <2>1, <3>1, <3>2 DEF MemoryOf
  <2>11. ASSUME NEW t \in Topics, HandleMessage(t) PROVE MemoryOf(route)'
    BY <2>2, <2>11 DEF HandleMessage, SetInput, controllerVars, flagVars, policyVars, Settled
  <2>12. CASE ClockTick \/ UNCHANGED vars
    BY <2>2, <2>12 DEF ClockTick, Tick, vars, termVars, controllerVars, flagVars,
                       policyVars, Settled
  <2>13. CASE UpdateThrows
    BY <2>13 DEF UpdateThrows, Settled
  <2> QED
    BY <2>3, <2>4, <2>5, <2>6, <2>7, <2>8, <2>9, <2>10, <2>11, <2>12, <2>13
    DEF Next, Transition, Update
<1> QED BY <1>1, <1>2, TypeCorrect, UpdateInvHolds, PTL DEF Spec

-----------------------------------------------------------------------------
\* A freshness test that succeeds at the start of update() also means that the
\* postponed route reset is done and the command is computed from a fresh ball.
THEOREM FreshStartIsConsistent == Spec => []CommandFromFreshBall
<1>1. Init => CommandFromFreshBall
  BY DEF Init, CommandFromFreshBall
<1>2. UpdateInv /\ CommandFromFreshBall /\ [Next]_vars => CommandFromFreshBall'
  <2> SUFFICES ASSUME UpdateInv, CommandFromFreshBall, [Next]_vars
               PROVE  CommandFromFreshBall'
    OBVIOUS
  <2> USE DEF CommandFromFreshBall
  <2>1. CASE Configure \/ Activate
    BY <2>1 DEF Configure, Activate, UpdateInv
  <2>2. CASE ActivateFails \/ Deactivate \/ Cleanup
    BY <2>2 DEF ActivateFails, Deactivate, Cleanup, termVars, flagVars
  <2>3. CASE UpdateHeld \/ UpdateStart
    BY <2>3 DEF UpdateHeld, UpdateStart
  <2>4. CASE CheckInputs
    <3>1. freshAtStart' = FreshInputs(now)
      BY <2>4 DEF CheckInputs
    <3>2. CASE pendingReset /\ FreshInputs(now)
      <4>1. ResetRoute(now, activations) /\ ~pendingReset'
        BY <2>4, <3>2 DEF CheckInputs, DelayedReset
      <4>2. command'.from = "measured" /\ IsFresh(now, command'.stamp, BallTimeout)
        BY <3>2, <4>1, FreshRouteIsMeasured
      <4>3. IsFresh(now', command'.stamp, BallTimeout)
        BY <2>4, <4>2 DEF CheckInputs
      <4> QED BY <4>1, <4>2, <4>3
    <3>3. CASE ~pendingReset /\ FreshInputs(now)
      <4>1. HasFresh("ballPose", now) /\ Timeout("ballPose") = BallTimeout
        BY <3>3, TopicsFact DEF FreshInputs, Timeout, BallTopics
      <4>2. command' = CommandFromBall(now) /\ now' = now /\ ~pendingReset'
        BY <2>4, <3>3 DEF CheckInputs, RefreshRouteCommand
      <4> QED BY <4>1, <4>2 DEF CommandFromBall, BallSource, HasFresh
    <3> QED BY <3>1, <3>2, <3>3
  <2>5. CASE BaseUpdateFails \/ HoldTarget \/ PassGate
    BY <2>5 DEF BaseUpdateFails, HoldTarget, PassGate, termVars, flagVars
  <2>6. CASE WriteTarget \/ RlControllerUpdate
    BY <2>6 DEF WriteTarget, RlControllerUpdate
  <2>7. ASSUME NEW t \in Topics, HandleMessage(t) PROVE CommandFromFreshBall'
    BY <2>7 DEF HandleMessage, SetInput, controllerVars, flagVars
  <2>8. CASE ClockTick \/ UNCHANGED vars
    BY <2>8 DEF ClockTick, Tick, vars, termVars, controllerVars, flagVars
  <2>9. CASE UpdateThrows
    BY <2>9 DEF UpdateThrows
  <2> QED
    BY <2>1, <2>2, <2>3, <2>4, <2>5, <2>6, <2>7, <2>8, <2>9 DEF Next, Transition, Update
<1> QED BY <1>1, <1>2, UpdateInvHolds, PTL DEF Spec

-----------------------------------------------------------------------------
HoldInv == NoCommandDuringHold /\ HoldOver

\* Nothing is commanded before the hold of the simulator's reset state is over.
THEOREM HoldRespected == Spec => []NoCommandDuringHold
<1>1. Init => HoldInv
  BY DEF Init, HoldInv, NoCommandDuringHold, HoldOver
<1>2. TypeOK /\ UpdateInv /\ HoldInv /\ [Next]_vars => HoldInv'
  <2> SUFFICES ASSUME TypeOK, UpdateInv, HoldInv, [Next]_vars PROVE HoldInv'
    OBVIOUS
  <2> USE DEF HoldInv, NoCommandDuringHold, HoldOver, UpdateInv
  <2>1. clock \in Nat /\ now \in Nat /\ skipUntil \in Nat
    BY MaxTimeAssumption DEF TypeOK, TermTypeOK, Time
  <2>2. CASE Configure \/ Cleanup \/ ActivateFails \/ Deactivate
    BY <2>2 DEF Configure, Cleanup, ActivateFails, Deactivate, termVars, flagVars
  <2>3. CASE Activate
    BY <2>3 DEF Activate, ActivateHold
  <2>4. CASE UpdateHeld
    BY <2>4 DEF UpdateHeld, InHold, flagVars
  <2>5. CASE UpdateStart
    BY <2>1, <2>5 DEF UpdateStart, InHold
  <2>6. CASE CheckInputs
    BY <2>6 DEF CheckInputs
  <2>7. CASE BaseUpdateFails \/ HoldTarget \/ PassGate
    BY <2>7 DEF BaseUpdateFails, HoldTarget, PassGate, termVars, flagVars
  <2>8. CASE WriteTarget \/ RlControllerUpdate
    BY <2>8 DEF WriteTarget, RlControllerUpdate, flagVars
  <2>9. ASSUME NEW t \in Topics, HandleMessage(t) PROVE HoldInv'
    BY <2>9 DEF HandleMessage, SetInput, controllerVars, flagVars
  <2>10. CASE ClockTick \/ UNCHANGED vars
    BY <2>10 DEF ClockTick, Tick, vars, termVars, controllerVars, flagVars
  <2>11. CASE UpdateThrows
    BY <2>11 DEF UpdateThrows
  <2> QED
    BY <2>2, <2>3, <2>4, <2>5, <2>6, <2>7, <2>8, <2>9, <2>10, <2>11
    DEF Next, Transition, Update
<1>3. HoldInv => NoCommandDuringHold
  BY DEF HoldInv
<1> QED BY <1>1, <1>2, <1>3, TypeCorrect, UpdateInvHolds, PTL DEF Spec

-----------------------------------------------------------------------------
AgeInv == TargetAge /\ TargetFreshWhenComputed

LEMMA AgeInvKept ==
  ASSUME AgeInv, target' = target \/ target' = NoTarget,
         \/ written' = written /\ now' = now /\ target' = target /\ params' = params
         \/ written' # "policy"
  PROVE  AgeInv'
BY DEF AgeInv, TargetAge, TargetFreshWhenComputed, NoTarget, IsFresh, Topics, Timeout

\* A commanded target never rests on measurements older than their timeout plus
\* the policy period.
THEOREM TargetAgeBounded == Spec => []TargetAge
<1>1. Init => AgeInv
  BY DEF Init, AgeInv, TargetAge, TargetFreshWhenComputed, NoTarget
<1>2. TypeOK /\ UpdateInv /\ PolicyOnFreshInputs /\ AgeInv /\ [Next]_vars => AgeInv'
  <2> SUFFICES ASSUME TypeOK, UpdateInv, PolicyOnFreshInputs, AgeInv, [Next]_vars
               PROVE  AgeInv'
    OBVIOUS
  <2>1. CASE Configure \/ Activate \/ UpdateHeld
    BY <2>1, AgeInvKept DEF Configure, Activate, UpdateHeld, policyVars
  <2>2. CASE ActivateFails \/ Deactivate \/ Cleanup
    BY <2>2, AgeInvKept DEF ActivateFails, Deactivate, Cleanup, termVars, policyVars
  <2>3. CASE UpdateStart
    BY <2>3, AgeInvKept DEF UpdateStart, StartupReset, ResetPolicyMemory, policyVars
  <2>4. CASE CheckInputs
    <3>1. target' = target \/ target' = NoTarget
      BY <2>4 DEF CheckInputs, DelayedReset, ResetPolicyMemory, policyVars
    <3>2. written' # "policy"
      BY <2>4 DEF CheckInputs, UpdateInv
    <3> QED BY <3>1, <3>2, AgeInvKept
  <2>5. CASE BaseUpdateFails \/ HoldTarget \/ PassGate
    BY <2>5, AgeInvKept DEF BaseUpdateFails, HoldTarget, PassGate, termVars, policyVars
  <2>6. CASE WriteTarget /\ params.mode \in GatedModes
    <3>1. FreshInputs(now)
      BY <2>6 DEF WriteTarget, PolicyOnFreshInputs
    <3>2. \A t \in Topics : /\ Stamps[t] \in Nat
                            /\ Timeout(t) \in Nat
                            /\ IsFresh(now, Stamps[t], Timeout(t))
      BY <3>1, TopicsFact, MaxTimeAssumption
      DEF FreshInputs, HasFresh, Stamps, TypeOK, TermTypeOK, Input, Time
    <3>3. now \in Nat /\ now' = now /\ params.period \in Nat /\ params' = params
      BY <2>6, MaxTimeAssumption DEF WriteTarget, TypeOK, TermTypeOK, Time, Parameters
    <3>4. CASE ShouldUpdatePolicy
      <4>1. target' = [has |-> TRUE, at |-> now, basis |-> Stamps, route |-> route]
        BY <2>6, <3>4 DEF WriteTarget
      <4>2. TargetFreshWhenComputed'
        BY <3>2, <4>1 DEF TargetFreshWhenComputed, IsFresh, Topics, Timeout
      <4>3. \A t \in Topics : now - Stamps[t] <= Timeout(t) + params.period
        BY <3>2, <3>3 DEF IsFresh
      <4>4. TargetAge'
        BY <3>3, <4>1, <4>3 DEF TargetAge, Topics, Timeout
      <4> QED BY <4>2, <4>4 DEF AgeInv
    <3>5. CASE ~ShouldUpdatePolicy
      <4>1. target' = target /\ target.has /\ now - target.at < params.period
        <5>1. target.at \in Nat
          BY MaxTimeAssumption DEF TypeOK, Target, Time
        <5> QED BY <2>6, <3>3, <3>5, <5>1 DEF WriteTarget, ShouldUpdatePolicy
      <4>2. TargetFreshWhenComputed'
        BY <4>1 DEF AgeInv, TargetFreshWhenComputed, IsFresh, Topics, Timeout
      <4>3. ASSUME NEW t \in Topics
            PROVE  now - target.basis[t] <= Timeout(t) + params.period
        <5>1. target.at \in Nat /\ target.basis[t] \in Nat /\ Timeout(t) \in Nat
          BY TopicsFact, MaxTimeAssumption DEF TypeOK, Target, Time
        <5>2. IsFresh(target.at, target.basis[t], Timeout(t))
          BY <4>1 DEF AgeInv, TargetFreshWhenComputed
        <5> QED BY <3>3, <4>1, <5>1, <5>2 DEF IsFresh
      <4>4. TargetAge'
        BY <3>3, <4>1, <4>3 DEF TargetAge, Topics, Timeout
      <4> QED BY <4>2, <4>4 DEF AgeInv
    <3> QED BY <3>4, <3>5
  <2>7. CASE params.mode \notin GatedModes /\ WriteTarget
    <3>1. FALSE
      BY <2>7 DEF WriteTarget, UpdateInv
    <3> QED BY <3>1
  <2>8. CASE RlControllerUpdate
    <3>1. TargetFreshWhenComputed' /\ params'.mode \notin GatedModes
      BY <2>8 DEF RlControllerUpdate, AgeInv, TargetFreshWhenComputed, IsFresh, Topics,
                  Timeout, GatedModes
    <3> QED BY <3>1 DEF AgeInv, TargetAge
  <2>9. ASSUME NEW t \in Topics, HandleMessage(t) PROVE AgeInv'
    BY <2>9, AgeInvKept DEF HandleMessage, SetInput, controllerVars, policyVars
  <2>10. CASE ClockTick \/ UNCHANGED vars
    BY <2>10, AgeInvKept DEF ClockTick, Tick, vars, termVars, controllerVars, policyVars
  <2>11. CASE UpdateThrows
    <3>1. target' = NoTarget /\ written' # "policy"
      BY <2>11 DEF UpdateThrows, ResetPolicyMemory, UpdateInv
    <3> QED BY <3>1, AgeInvKept
  <2> QED
    BY <2>1, <2>2, <2>3, <2>4, <2>5, <2>6, <2>7, <2>8, <2>9, <2>10, <2>11
    DEF Next, Transition, Update
<1>3. AgeInv => TargetAge
  BY DEF AgeInv
<1> QED BY <1>1, <1>2, <1>3, TypeCorrect, UpdateInvHolds, GateHolds, PTL DEF Spec

-----------------------------------------------------------------------------
GateTarget == [has |-> target.has, at |-> target.at, basis |-> target.basis]

LEMMA ForgottenOrKept ==
  ASSUME target' = target \/ target' = NoTarget
  PROVE  GateTarget' \in {GateTarget, Gate!NoTarget}
<1>1. CASE target' = target
  <2>1. GateTarget' = GateTarget
    BY <1>1 DEF GateTarget
  <2> QED BY <2>1
<1>2. CASE target' = NoTarget
  <2>1. NoTarget.has = FALSE /\ NoTarget.at = 0 /\ NoTarget.basis = [t \in Topics |-> 0]
    BY DEF NoTarget
  <2>2. GateTarget' = Gate!NoTarget
    BY <1>2, <2>1 DEF GateTarget, Gate!NoTarget
  <2> QED BY <2>2
<1> QED BY <1>1, <1>2

LEMMA GateTopics ==
  /\ Gate!AllFresh <=> FreshInputs(now)
  /\ Gate!AllFresh' <=> FreshInputs(now)'
BY DEF Gate!AllFresh, FreshInputs, HasFresh, IsFresh

\* A message is kept if it is not older, and changes its own topic only.
LEMMA MessageIsReceived ==
  ASSUME TypeOK, NEW t \in Topics, HandleMessage(t), inputs' # inputs
  PROVE  Gate!Receive(t)
<1> USE DEF controllerVars, policyVars
<1>1. PICK stamp \in Time : SetInput(t, stamp)
  BY DEF HandleMessage
<1>2. Accepts(t, stamp) /\ inputs' = [inputs EXCEPT ![t] = [has |-> TRUE, stamp |-> stamp]]
  BY <1>1 DEF SetInput
<1>3. inputs[t].stamp \in Int /\ stamp \in Int /\ inputs'[t] = [has |-> TRUE, stamp |-> stamp]
  BY <1>2, MaxTimeAssumption DEF TypeOK, TermTypeOK, Input, Time
<1>4. inputs[t].has => inputs'[t].stamp >= inputs[t].stamp
  BY <1>2, <1>3 DEF Accepts
<1>5. inputs' = [inputs EXCEPT ![t] = [has |-> TRUE, stamp |-> inputs'[t].stamp]]
  BY <1>2, <1>3
<1>6. UNCHANGED <<clock, now, lifecycle, params, target, written>>
  BY <1>1 DEF SetInput, HandleMessage
<1> QED BY <1>4, <1>5, <1>6 DEF Gate!Receive

\* What a forward or the reuse of its result commands, the gate allows.
LEMMA WriteIsCommand ==
  ASSUME TypeOK, UpdateInv, PolicyOnFreshInputs, WriteTarget
  PROVE  Gate!Command
<1>1. /\ lifecycle = "active"
      /\ written = "none"
      /\ written' = "policy"
      /\ UNCHANGED <<clock, now, inputs, lifecycle, params>>
  BY DEF WriteTarget, UpdateInv
<1>2. params.mode \in GatedModes => Gate!AllFresh
  BY GateTopics DEF WriteTarget, PolicyOnFreshInputs
<1>3. CASE ShouldUpdatePolicy
  <2>1. target' = [has |-> TRUE, at |-> now, basis |-> Stamps, route |-> route]
    BY <1>3 DEF WriteTarget
  <2> QED BY <1>1, <1>2, <2>1 DEF Gate!Command, Stamps
<1>4. CASE ~ShouldUpdatePolicy
  <2>1. target' = target /\ target.has /\ ~(now - target.at >= params.period)
    BY <1>4 DEF WriteTarget, ShouldUpdatePolicy
  <2>2. now \in Int /\ target.at \in Int /\ params.period \in Int
    BY MaxTimeAssumption DEF TypeOK, TermTypeOK, Target, Time, Parameters
  <2>3. now - target.at < params.period
    BY <2>1, <2>2
  <2> QED BY <1>1, <1>2, <2>1, <2>3 DEF Gate!Command
<1> QED BY <1>3, <1>4

\* update(), in its four steps and with messages between them, does what
\* GatedPolicy does in one: the test made before the observation is built still
\* holds when the command is written.
THEOREM GateImplemented == Spec => ImplementsGate
<1>1. Init => Gate!Init
  <2> SUFFICES ASSUME Init PROVE Gate!Init
    OBVIOUS
  <2>1. params.period \in Nat
    BY ParametersAssumption DEF Init, Parameters
  <2>2. (params.mode \in GatedModes) \in BOOLEAN
    BY DEF GatedModes
  <2> QED BY <2>1, <2>2 DEF Init, TermInit, Gate!Init, NoTarget, NoInputs, Gate!NoTarget,
                            Gate!NoInputs
<1>2. TypeOK /\ UpdateInv /\ PolicyOnFreshInputs /\ [Next]_vars => [Gate!Next]_(Gate!vars)
  <2> SUFFICES ASSUME TypeOK, UpdateInv, PolicyOnFreshInputs, [Next]_vars
               PROVE  [Gate!Next]_(Gate!vars)
    OBVIOUS
  <2> USE DEF flagVars, policyVars, termVars
  <2>1. CASE Configure
    <3>1. params'.period \in Nat /\ (params'.mode \in GatedModes) \in BOOLEAN
      BY <2>1, ParametersAssumption DEF Configure, Parameters, GatedModes
    <3>2. Gate!Configure
      BY <2>1, <3>1 DEF Configure, Gate!Configure, NoTarget, NoInputs, Gate!NoTarget, Gate!NoInputs
    <3> QED BY <3>2 DEF Gate!Next
  <2>2. CASE Activate
    <3>1. now' \in {now, clock}
      BY <2>2 DEF Activate, ActivateRoute
    <3>2. target' = target \/ target' = NoTarget
      BY <2>2 DEF Activate
    <3>3. GateTarget' \in {GateTarget, Gate!NoTarget}
      BY <3>2, ForgottenOrKept
    <3>4. Gate!Activate
      BY <2>2, <3>1, <3>3 DEF Activate, Gate!Activate, GateTarget
    <3> QED BY <3>4 DEF Gate!Next
  <2>3. CASE ActivateFails \/ Cleanup
    BY <2>3 DEF ActivateFails, Cleanup, Gate!vars
  <2>4. CASE Deactivate
    <3>1. Gate!Deactivate
      BY <2>4 DEF Deactivate, Gate!Deactivate
    <3> QED BY <3>1 DEF Gate!Next
  <2>5. CASE UpdateHeld
    <3>1. Gate!Begin
      BY <2>5 DEF UpdateHeld, Gate!Begin
    <3> QED BY <3>1 DEF Gate!Next
  <2>6. CASE UpdateStart
    <3>1. target' = target \/ target' = NoTarget
      BY <2>6 DEF UpdateStart, StartupReset, ResetPolicyMemory
    <3>2. GateTarget' \in {GateTarget, Gate!NoTarget}
      BY <3>1, ForgottenOrKept
    <3>3. Gate!Begin
      BY <2>6, <3>2 DEF UpdateStart, Gate!Begin, GateTarget
    <3> QED BY <3>3 DEF Gate!Next
  <2>7. CASE CheckInputs
    <3>1. /\ lifecycle = "active"
          /\ written = "none"
          /\ UNCHANGED <<clock, now, inputs, lifecycle, params, written>>
      BY <2>7 DEF CheckInputs, UpdateInv
    <3>2. target' = target \/ target' = NoTarget
      BY <2>7 DEF CheckInputs, DelayedReset, ResetPolicyMemory
    <3>3. CASE target' = target
      BY <3>1, <3>3 DEF Gate!vars
    <3>4. CASE target' = NoTarget
      <4>1. Gate!Forget
        BY <3>1, <3>4 DEF Gate!Forget, NoTarget, Gate!NoTarget
      <4> QED BY <4>1 DEF Gate!Next
    <3> QED BY <3>2, <3>3, <3>4
  <2>8. CASE BaseUpdateFails \/ PassGate
    BY <2>8 DEF BaseUpdateFails, PassGate, Gate!vars
  <2>9. CASE HoldTarget
    <3>1. Gate!Hold
      BY <2>9 DEF HoldTarget, UpdateInv, Gate!Hold
    <3> QED BY <3>1 DEF Gate!Next
  <2>10. CASE WriteTarget
    BY <2>10, WriteIsCommand DEF Gate!Next
  <2>11. CASE RlControllerUpdate
    <3>1. params.mode \notin GatedModes /\ lifecycle = "active" /\ written = "none"
      BY <2>11 DEF RlControllerUpdate, UpdateInv, GatedModes
    <3>2. Gate!Command
      BY <2>11, <3>1 DEF RlControllerUpdate, Gate!Command
    <3> QED BY <3>2 DEF Gate!Next
  <2>12. ASSUME NEW t \in Topics, HandleMessage(t) PROVE [Gate!Next]_(Gate!vars)
    <3>1. CASE inputs' = inputs
      BY <2>12, <3>1 DEF HandleMessage, SetInput, controllerVars, Gate!vars
    <3>2. CASE inputs' # inputs
      BY <2>12, <3>2, MessageIsReceived DEF Gate!Next
    <3> QED BY <3>1, <3>2
  <2>13. CASE ClockTick
    <3>1. clock' > clock
      BY <2>13, MaxTimeAssumption DEF ClockTick, Tick, TypeOK, TermTypeOK, Time
    <3>2. Gate!Tick
      BY <2>13, <3>1 DEF ClockTick, Tick, controllerVars, Gate!Tick
    <3> QED BY <3>2 DEF Gate!Next
  <2>14. CASE UNCHANGED vars
    BY <2>14 DEF vars, Gate!vars
  <2>15. CASE UpdateThrows
    <3>1. /\ lifecycle = "active" /\ lifecycle' # "active"
          /\ now' \in {now, clock}
          /\ written' = "none"
          /\ UNCHANGED <<clock, inputs, params>>
      BY <2>15 DEF UpdateThrows, UpdateInv
    <3>2. target' = NoTarget
      BY <2>15 DEF UpdateThrows, ResetPolicyMemory
    <3>3. Gate!Break
      BY <3>1, <3>2 DEF Gate!Break, NoTarget, Gate!NoTarget
    <3> QED BY <3>3 DEF Gate!Next
  <2> QED
    BY <2>1, <2>2, <2>3, <2>4, <2>5, <2>6, <2>7, <2>8, <2>9, <2>10, <2>11, <2>12, <2>13, <2>14,
       <2>15
    DEF Next, Transition, Update
<1> QED BY <1>1, <1>2, TypeCorrect, UpdateInvHolds, GateHolds, PTL
        DEF Spec, ImplementsGate, Gate!Spec
=============================================================================
