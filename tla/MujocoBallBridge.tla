-------------------------- MODULE MujocoBallBridge --------------------------
(***************************************************************************)
(* SoftTouchMujocoBallBridgePlugin, enabled, in the loop of the simulator: *)
(* each turn calls Update and then advances the physics by one tick.       *)
(* Reset requests and route markers come from executor threads, between    *)
(* any two steps of Update.  The user may restart the simulation at any    *)
(* turn, which moves its clock back to 0.                                  *)
(*                                                                         *)
(* The physical state is abstracted to where it comes from: the reset      *)
(* state file, the simulator's own restart, or the physics.                *)
(***************************************************************************)
EXTENDS Integers

CONSTANTS
  ResetEnabled, ApplyOnConfigure, ApplyOnReset,  \* reset.*
  InitialHold,       \* reset.hold_until_time_s
  PublishPeriod,     \* 1 / publish_rate_hz, 0 to publish in every turn
  NumDots,           \* route_dot_* bodies of the scene
  Holds,             \* hold durations that requests ask for
  RouteSizes,        \* number of points of a received route
  AllowRestart,      \* the user may restart the simulation
  MaxTime,           \* bound of the model: the simulation ends
  MaxRequests        \* bound of the model

ASSUME FlagsAssumption ==
  /\ ResetEnabled \in BOOLEAN
  /\ ApplyOnConfigure \in BOOLEAN
  /\ ApplyOnReset \in BOOLEAN
  /\ AllowRestart \in BOOLEAN
ASSUME SizesAssumption ==
  /\ InitialHold \in Nat
  /\ PublishPeriod \in Nat
  /\ NumDots \in Nat
  /\ Holds \subseteq Nat
  /\ RouteSizes \subseteq Nat
  /\ MaxTime \in Nat
  /\ MaxRequests \in Nat

VARIABLES
  pc,           \* next in the loop: take and serve (Update), or step
  time,         \* data->time
  qpos,         \* where the generalised positions come from
  sensed,       \* the same of the sensor data
  request,      \* resetRequested_, resetRequestHoldDuration_
  taken,        \* requested, requestHoldDuration: locals of Update
  holdUntil,    \* resetHoldUntilTime_
  lastPublish,  \* lastPublishTime_
  published,    \* the last ball and base messages
  routeSize,    \* routePoints_.size()
  dots,         \* the point of the route each dot is at; -1 is underground
  received,     \* number of requests received
  served,       \* how many of them a reset has been applied for
  promise,      \* ticks the last of those still asks for; -1 when it is over
  promisedIn    \* the simulation it was made in: this one, or before a restart

loopVars == <<pc, time, qpos, sensed>>
requestVars == <<request, taken, received, served>>
promiseVars == <<holdUntil, promise, promisedIn>>
publishVars == <<lastPublish, published, dots>>
vars == <<loopVars, requestVars, promiseVars, publishVars, routeSize>>

Origins == {"reset", "restart", "physics"}
Messages == [stamp : 0 .. MaxTime, ball : Origins, base : Origins, current : BOOLEAN]
Dots == 0 .. NumDots - 1
DotPoints == {-1} \cup UNION {0 .. size - 1 : size \in RouteSizes}

TypeOK ==
  /\ pc \in {"take", "serve", "step"}
  /\ time \in 0 .. MaxTime
  /\ qpos \in Origins
  /\ sensed \in Origins
  /\ request \in [pending : BOOLEAN, hold : Nat]
  /\ taken \in [has : BOOLEAN, hold : Nat, upTo : Nat]
  /\ holdUntil \in Nat
  /\ lastPublish \in Int
  /\ published \in Messages
  /\ routeSize \in RouteSizes \cup {0}
  /\ dots \in [Dots -> DotPoints]
  /\ received \in Nat
  /\ served \in Nat
  /\ promise \in Int
  /\ promisedIn \in {"this", "earlier"}

\* lastPublishTime_ = -1.0e30: long enough ago to publish at once.
LongAgo == -PublishPeriod

\* Configure
Init ==
  /\ pc = "take"
  /\ time = 0
  /\ qpos = IF ResetEnabled /\ ApplyOnConfigure THEN "reset" ELSE "restart"
  /\ sensed = qpos
  /\ request = [pending |-> FALSE, hold |-> 0]
  /\ taken = [has |-> FALSE, hold |-> 0, upTo |-> 0]
  /\ holdUntil = InitialHold
  /\ lastPublish = LongAgo
  /\ published = [stamp |-> 0, ball |-> "restart", base |-> "restart", current |-> FALSE]
  /\ routeSize = 0
  /\ dots = [i \in Dots |-> -1]
  /\ received = 0
  /\ served = 0
  /\ promise = IF ResetEnabled /\ InitialHold > 0 THEN InitialHold ELSE -1
  /\ promisedIn = "this"

-----------------------------------------------------------------------------
\* handleResetRequest: a later request replaces one that was not taken yet.
HandleResetRequest ==
  /\ ResetEnabled
  /\ time < MaxTime
  /\ received < MaxRequests
  /\ received' = received + 1
  /\ \E hold \in Holds : request' = [pending |-> TRUE, hold |-> hold]
  /\ UNCHANGED <<loopVars, taken, served, promiseVars, publishVars, routeSize>>

\* handleRouteMarkers
HandleRouteMarkers ==
  /\ routeSize' \in RouteSizes
  /\ UNCHANGED <<loopVars, requestVars, promiseVars, publishVars>>

\* Update, the block under resetRequestMutex_.
TakeRequest ==
  /\ pc = "take"
  /\ pc' = "serve"
  /\ taken' = [has |-> request.pending, hold |-> request.hold, upTo |-> received]
  /\ request' = [request EXCEPT !.pending = FALSE]
  /\ UNCHANGED <<time, qpos, sensed, received, served, promiseVars,
                 publishVars, routeSize>>

\* Mutant of HoldEnd: an earlier hold that would last longer is kept.
HoldEndLatest ==
  IF taken.has /\ time + taken.hold > holdUntil THEN time + taken.hold ELSE holdUntil

\* Another: the duration is taken for a time.
HoldEndAbsolute == IF taken.has THEN taken.hold ELSE holdUntil

HoldEnd == IF taken.has THEN time + taken.hold ELSE holdUntil

\* Mutant of Held: the last tick of the hold is left out.
HeldShort == ResetEnabled /\ HoldEnd > 0 /\ time < HoldEnd

\* The reset state is held, now that a request may have been taken.
Held == ResetEnabled /\ HoldEnd > 0 /\ time <= HoldEnd

\* Mutant of ApplyResetState: no mj_forward, the sensors keep their values.
ApplyWithoutForward == qpos' = "reset" /\ UNCHANGED sensed

\* applyResetState, with its mj_forward.
ApplyResetState == qpos' = "reset" /\ sensed' = "reset"

\* lastPublishTime_ after the resets of this Update.
PublishedBefore == IF taken.has \/ Held THEN LongAgo ELSE lastPublish

\* Mutant of PublishDue: only when more than the period has passed.
PublishDueLate == PublishPeriod = 0 \/ time - PublishedBefore > PublishPeriod

PublishDue == PublishPeriod = 0 \/ time - PublishedBefore >= PublishPeriod

\* Mutant of DotPoint: spread over one dot too many.
DotPointShort(i, size) ==
  IF NumDots > 1 THEN (i * (size - 1) + (NumDots - 1) \div 2) \div NumDots ELSE 0

\* updateRouteDots: the dots are spread over the route, rounded to its points.
DotPoint(i, size) ==
  IF NumDots > 1 THEN (i * (size - 1) + (NumDots - 1) \div 2) \div (NumDots - 1) ELSE 0

\* The ball is published from the sensors, the base from the positions; both kinds of
\* message are enabled (publish_ball_state, publish_base_state) and the scene has a ball.
Publish ==
  /\ lastPublish' = time
  /\ published' = [stamp |-> time, ball |-> sensed', base |-> qpos', current |-> TRUE]
  /\ dots' = [i \in Dots |-> IF routeSize < 2 THEN -1 ELSE DotPoint(i, routeSize)]

ServeTaken ==
  /\ pc = "serve"
  /\ pc' = "step"
  /\ IF taken.has \/ Held THEN ApplyResetState ELSE UNCHANGED <<qpos, sensed>>
  /\ holdUntil' = HoldEnd
  /\ served' = IF taken.has THEN taken.upTo ELSE served
  /\ promise' = IF taken.has THEN taken.hold ELSE promise
  /\ promisedIn' = IF taken.has THEN "this" ELSE promisedIn
  /\ IF PublishDue
     THEN Publish
     ELSE lastPublish' = PublishedBefore /\ UNCHANGED <<published, dots>>
  /\ taken' = [taken EXCEPT !.has = FALSE]
  /\ UNCHANGED <<time, received, routeSize>>

\* Mutant of Serve: the request is cleared when it has been served.
ServeThenClear == ServeTaken /\ request' = [request EXCEPT !.pending = FALSE]

\* Update, after the block under the mutex.
Serve == ServeTaken /\ UNCHANGED request

\* mj_step: the sensor data is of the positions before the step.
Step ==
  /\ pc = "step"
  /\ time < MaxTime
  /\ pc' = "take"
  /\ time' = time + 1
  /\ sensed' = qpos
  /\ qpos' = "physics"
  /\ promise' = IF promise >= 0 THEN promise - 1 ELSE promise
  /\ UNCHANGED <<requestVars, holdUntil, promisedIn, publishVars, routeSize>>

\* The simulator restarts, and calls Reset of the plugin.
Reset ==
  /\ AllowRestart
  /\ pc \in {"take", "step"}
  /\ pc' = "take"
  /\ time' = 0
  /\ IF ResetEnabled /\ ApplyOnReset
     THEN ApplyResetState /\ lastPublish' = LongAgo
     ELSE qpos' = "restart" /\ sensed' = "restart" /\ UNCHANGED lastPublish
  /\ published' = [published EXCEPT !.current = FALSE]
  /\ promisedIn' = "earlier"
  /\ UNCHANGED <<requestVars, holdUntil, promise, dots, routeSize>>

Next ==
  \/ HandleResetRequest \/ HandleRouteMarkers
  \/ TakeRequest \/ Serve \/ Step
  \/ Reset

Spec == Init /\ [][Next]_vars

\* The loop of the simulator goes on.
FairSpec == Spec /\ WF_vars(TakeRequest \/ Serve \/ Step)

-----------------------------------------------------------------------------
(* Properties *)

\* No request is lost between the executor thread and Update: while one is not
\* served, it waits or has been taken, also when it came during an Update.
NoRequestLost ==
  received > served => request.pending \/ (taken.has /\ pc = "serve" /\ taken.upTo > served)

\* Every request is served, alone or by the reset for a later one.
EveryRequestServed == \A n \in 1 .. MaxRequests : received >= n ~> served >= n

\* When a turn of the loop leaves the reset state, its ball and base messages
\* show it, with the time of this turn: a controller that waits for the reset
\* does not first see the state before it.
ResetPublishedAtOnce ==
  pc = "step" /\ qpos = "reset" =>
    published = [stamp |-> time, ball |-> "reset", base |-> "reset", current |-> TRUE]

\* A restart does not stop the messages when Reset applies the reset state, and with it
\* sets the publish time back; or when a request has been served since.
RestartOvercome == (ResetEnabled /\ ApplyOnReset) \/ promisedIn = "this"

\* As long as no restart that did not set the publish time back has moved the clock
\* behind it, the messages are never further behind than the period.  After one that did
\* not (reset.enabled, false by default, or reset.apply_on_reset is off) Update returns
\* early until the clock has caught up: that case is exempt, the code stops publishing.
PublishedOnTime ==
  RestartOvercome /\ pc = "step" =>
    /\ published.current
    /\ published.stamp <= time
    /\ time - published.stamp < PublishPeriod \/ time = published.stamp

\* The reset state is held for as long as the last request asked for, also over
\* a restart of the simulation.
HeldAsPromised == pc = "step" /\ promise >= 0 => qpos = "reset"

\* ... and no longer, except for the hold at the start of every simulation: the
\* robot is not kept in the reset state when its controller begins to command it.
ReleasedAsPromised ==
  pc = "step" /\ time > InitialHold /\ qpos = "reset" /\ promisedIn = "this" =>
    promise >= 0

\* The same, also when the user restarts the simulation after a request.
ReleasedAfterRestart ==
  pc = "step" /\ time > InitialHold /\ qpos = "reset" => promise >= 0

\* The dots span the whole route, in order.
DotsSpanRoute ==
  NumDots > 1 /\ dots[0] # -1 =>
    /\ dots[0] = 0
    /\ \E size \in RouteSizes : dots[NumDots - 1] = size - 1
    /\ \A i \in 1 .. NumDots - 1 : dots[i-1] <= dots[i]

\* What the proofs add.  What waits, and what has been taken, is exactly what is
\* not served.
RequestInv ==
  /\ request.pending \/ taken.has => ResetEnabled
  /\ taken.has =>
       /\ pc = "serve" /\ served < taken.upTo /\ taken.upTo <= received
       /\ request.pending <=> received > taken.upTo
  /\ ~taken.has => served <= received /\ (request.pending <=> received > served)

\* A reset state that no Update has seen yet will be published by the next one.
ResetStateInv ==
  pc # "step" /\ qpos = "reset" => time = 0 /\ sensed = "reset" /\ lastPublish = LongAgo

PublishInv ==
  RestartOvercome =>
    \/ lastPublish = LongAgo
    \/ published.current /\ lastPublish = published.stamp /\ lastPublish <= time

\* A promise is backed by the hold; and, until a restart, the other way round.
HoldInv ==
  promise >= 0 =>
    /\ ResetEnabled
    /\ time + promise <= holdUntil
    /\ pc = "step" \/ holdUntil = 0 => qpos = "reset"

ReleaseInv ==
  /\ promise >= -1
  /\ promisedIn = "this" =>
       IF promise >= 0 THEN holdUntil = time + promise
       ELSE holdUntil < time \/ holdUntil <= InitialHold
=============================================================================
