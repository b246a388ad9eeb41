# TLA+ verification of the SoftTouch dribbling controller

The repository holds a ros2_control controller that makes a Unitree G1 robot
dribble a ball with a neural policy (`src/src`, `src/include`), a MuJoCo plugin
that simulates the ball, and the motion-capture tools that feed the controller
on the real robot (`src/tools`). This directory specifies the parts whose
correctness depends on order, time and interleaving.

## 1. The system

| Component | State | Operations | Talks to |
|---|---|---|---|
| `SoftTouchDribbleCommandTerm` | newest stamped ball, base and observation-frame messages, each group under its mutex; `now_`; the route; the cached route command | five setters, freshness tests, `reset`, `refreshRouteCommand`, `getRouteCommand`, getters with fallbacks | written by subscription callbacks (executor threads), read by `update()` (real-time thread) and by the observation terms |
| `SoftTouchDribbleController` | pending startup reset, skip time, pending route reset, last target and its time, frame history, joint mappings, observation layout | `on_configure`, `on_activate`, `on_deactivate`, `update`, message handlers, visualisation | ros2_control lifecycle, `RlController` (legged_control2), the command term, the policy |
| `SoftTouchDribbleRoute` | points, speeds, filled segments, heading, ball segment, random state | `reset`, `update` with lazy extension | owned by the command term |
| `SoftTouchDribbleOnnxPolicy` | previous raw and latent actions, joint target, clip limits, metadata | `parseMetadata`, `reset`, `forward` | called by the controller |
| `SoftTouchMujocoBallBridgePlugin` | reset request, hold end, publish times, route dots | `Configure`, `Reset`, `Update`, reset subscription | publishes ball and base, serves reset requests of the controllers |
| `MotionTrackingController`, `MotionCommand`, `MotionOnnxPolicy` | motion step, motion alignment, target, hold flags | the same lifecycle; joint command from a recorded motion | `RlController` |
| `SoftTouchStandbyController` | start pose, interpolation start | `on_configure`, `on_activate`, `update` | joint command interfaces |
| Mocap tools | ball tracker (last position, velocity, misses), UDP sender and receiver, ball bridge | callbacks, timers, receive thread | UDP, ROS topics, the controller's inputs |
| `fall_monitor.py` | last height, fall time | pose callback, timer | base pose topic |

The controller runs the policy only behind a freshness gate: ball position,
ball velocity and, where they come from topics, base pose, base twist and
observation frame must each be present and younger than their timeout. On
activation the route is laid out from the ball; when the inputs are not fresh,
this reset is postponed and made by `update()`.

Behaviours that are hard to get right, and what makes each component correct:

* Callbacks run between any two reads of the cache, and messages come late,
  repeated or overtaken. The policy must never run on an input that went stale
  between the test and the use.
* Activation, simulator hold, startup reset, postponed reset, deactivation and
  reactivation come in any order. The route must be seeded from the ball that is
  there now, and nothing the policy remembers may belong to an earlier route.
* Between policy periods the last target is reused; its age must stay bounded.
* A postponed reset must be made eventually.
* The route is extended lazily while the ball moves: what the command reads must
  have been laid out.
* The simulator resets by request of either controller, holds the reset state and
  may move its clock back.
* Tracker, sender, receiver and bridge each stamp and republish: an old ball must
  not look new.

## 2. Plan

1. `CommandTerm`, `DribbleController` and their proofs: the gate, the resets, the memory.
2. `GatedPolicy`: what the controller promises, with `update()` in one step, and the
   refinement by `DribbleController`, model-checked and proved.
3. `DribbleRoute` and its proofs: lazy extension, indices of the command, array bounds.
4. `MujocoBallBridge` and its proofs: reset request, hold, simulator restart.
5. `MotionTracking` and its proofs: motion steps, alignment, target reuse.
6. `JointOrder`, `PolicyInterface` and their proofs: joint orders, metadata, observation
   layout, history, clip.
7. `StandbyController` and its proofs: interfaces claimed, ramp.
8. `SimulatedDribble` and its proofs: controller and bridge composed, with delays.
9. `MocapBall` and its proofs: tracker, receiver and cache composed.

All of this is done. What is left is listed in section 6.

Parameters are constants with named assumptions, each operation is one action,
invariants are conjunctions of named parts, and modules with theorems use no
recursive operator.

## 3. Modules

### `CommandTerm`

The cache. A topic is a model value of the set `Topics`, which the two source
parameters determine (a source that is not a topic is not subscribed to and its
test is constantly true). A payload is abstracted to its stamp. `Accepts` is the
stamp test of the setters, `IsFresh` is `isFresh` with its special case for time
0 and its acceptance of stamps in the future. The route is abstracted to what
seeded it, a measured ball or the fallback point in front of the robot, and to
the activation it was seeded in; the cached command to the ball it was computed
from. `FreshInputs` is one conjunction where the code locks three mutexes in
turn; `now_` does not change meanwhile and an accepted stamp never decreases, so
the conjunction has the value it takes at one instant between the locks.

### `DribbleController`

`update()` is cut at the points where a callback can run between two reads that
the code treats as one:

| `pc` before → after | Code |
|---|---|
| idle → idle | `UpdateHeld`: setNow and the early return of the simulator hold |
| idle → inputs | `UpdateStart`: setNow, startup reset |
| idle or inputs → idle | `UpdateThrows`: one of the two route resets throws |
| inputs → dispatch | `CheckInputs`: first freshness test, postponed reset, route refresh |
| dispatch → idle | `BaseUpdateFails`, `HoldTarget` (second test fails), `RlControllerUpdate` |
| dispatch → build | `PassGate`: second test succeeds |
| build → idle | `WriteTarget`: observation, forward when due, joint command |

`history`, `memory` and `target` record which route each frame, previous action
and target comes from, and `target` which stamps it rests on. `written` is what
the running update has commanded. `publishVisualization` asks for the route
command and so computes it when none is cached; it is part of the actions at
whose end the code calls it.

`UpdateThrows` is an exception of `reset()` (lines 28 to 38 of the command term: a frame it
looks up is not in the robot's model) that nothing in `update()` catches; the node is
finalised. The tests of `commandTerm_` for null have no action: one that is null makes
`hasFreshPolicyInputs` return false (line 545), as missing inputs do, and the term is
created with the first observation or command that needs it.

External and modelled from their use: `ControllerBase::update` (may fail),
`RlController::update` (evaluates the policy, no gate), the lifecycle (a failed
activation finalises the node; `on_cleanup` of the base class keeps every member
of this class), the clock. `RlController::on_activate` may or may not reset the
command terms and the policy: `MotionTrackingController` relies on it to reset
its term, so both are allowed.

`on_activate` and `on_configure` are atomic. The handlers are enabled from
configuration to cleanup; after a cleanup the next configuration replaces the
term, so what they wrote would be lost anyway.

The parameters of a configuration are one record (`params`), read anew by every
`Configure`, so that flags set under one configuration meet another.

### `GatedPolicy`

The abstract specification: an update is stamped, may forget its target, and ends by
commanding nothing, the measured positions or a target; a target is commanded only at an
instant at which all inputs are fresh, and is either computed from the inputs of that
instant or younger than the period. There is no route, no hold, no pending flag, and no
point of `update()` at which a message could arrive; an update may be broken off, and the
controller with it (`Break`). `DribbleController` implements it
(`ImplementsGate`): the two freshness tests, the term-by-term reading of the cache and
the reuse of a target amount to one test at the instant of the command. Modes, timeouts
and periods map directly; a target loses the route it was computed on.

### `JointOrder` and `PolicyInterface`

What the numbers of an observation and of an action mean. `Configure` is metadata parsing
and the configuration of the clip, `Activate` the comparison of widths
(`LayoutAccepted`) and the joint mapping, `WriteTarget` the frame, the history, the
assembly and the command. A number of an observation is a term, its place in the term and
the frame in which it was measured; a number nobody wrote is `Garbage`, as the memory
of an uninitialised Eigen vector is. An entry of a joint vector carries the joint it
is about. The three orders (policy, controller, robot model) are in `JointOrder`.
That the controller commands no joint twice and no more joints than the policy has is
assumed (`SetupsAssumption`); beyond it the code writes outside its vector. `TermsOnce` says that no term is configured twice in one setup.
Limits, factors and targets are counted in units of `Fine`, fine enough for the clip to be
exact. `MetadataParses` has the lengths that parsing compares (of the joint names, the
default positions, the action scales and the observation names) and a latent width above 0;
`OutputsFit` the widths of the two outputs, which only `forward` compares.

### `StandbyController`

The ramp to the default pose. The claimed interfaces are a sequence, lent anew at every
activation; `commandIndexByName_` is a function from interfaces to places in it.
`CallsMade`, `CallsTo` and `LastOf` are the loop over `setCommand`, with the exception
that would leave it in the middle. Positions are integers times `Scale`, so that the
interpolation is exact. The clock may be set back under the ramp (`Restart`). A missing
interface ends in an exception out of `update()`, which finalises the node
(`UpdateThrows`). The simulator reset that activation may publish (lines 90 to 92) is left
out: nothing in this controller depends on it.

### `SimulatedDribble`

`DribbleController` and an instance of `MujocoBallBridge`, on one clock, joined by the
request topic (depth 1: a newer request replaces an older one) and the ball topics, with
bounded delays. `Control` is a step of the controller that sends nothing,
`ActivateAndRequest` the activation that publishes the request. `StampToSeconds` replaces
a stamp of zero by the time of the node, as the code does. Origins (which
simulation, reset for which activation) travel with the messages into the cache and
the route. `RestartSpec` adds a restart by the user, which neither controller nor topics
know of.

### `MocapBall`

The ball of the real robot. A marker waits in `queue` for the subscriber. The tracker has
two threads, the callback and the timer, that share `group`, the filter and the stamps
without a lock, so that `process_group` is cut at every access to what they share:

| `phase` of a thread | Code of `ros1_unlabeled_ball_udp_sender.py` |
|---|---|
| idle → take | `EnterProcessGroup`: the tests of `callback` and `flush_if_idle` (79 to 94) |
| idle → loaded → mark → idle | `LoadGroup`, `AppendMarker`, `MarkHandled`: the list is read, appended to, and the marker noted (88 to 90) |
| take → read → choose | `ReadGroup`, `ReplaceGroup` (149, 150) |
| choose → idle | `ReturnEmpty` (151) |
| choose → stamp → send | `Measure`, `StampMeasurement` (154 to 184) |
| choose → miss → predict → keep → send | `FindNothing`, `HandleMiss`, `Predict`, `KeepPrediction` (160 to 201); a hold goes from miss to send, a loss to idle |
| send → idle | `PublishBall` (213 to 251) |

A thread that has read the list before the other replaced it shares that list (`Readers`);
a marker that the callback appends to a list already taken comes late, and is seen or not
(`late`), or is lost when the list was replaced unread (`lost`). A timer that has read a
prediction's start from the filter may write it back after the callback has measured
(`kept`).

A position is abstracted to its `Origin`: the stamp of the measurement behind it, so that a
predicted ball remains distinguishable from a measured one, and whether both threads have
been in `process_group` at once since that measurement. `framed` and `seen` count the
latest frames of which a thread has taken a marker, or a candidate. `Receive` drains the
socket to its last packet and may reject it as a jump; what it publishes enters the cache
of `CommandTerm`, whose tests are the controller's. Stamps of the two computers are taken
to be of one clock, and the delay of the ROS topic is part of the delay of the socket.

### `DribbleRoute`

Lengths are counted in ticks, `SegmentTicks` to a segment, so that the floor in
the index of the next speed and the interpolation of points are exact integer
operations. An entry of the arrays is abstracted to the reset that laid it out and
to its bend. The geometry is left out: the closest segment is any one that the
search may find, anywhere on the way back, or ahead as far as the ball can have
moved. `Reset` includes the `update()` it ends with. Each chunk of `Build` draws
its bends as `sampleHumanKappa` does, carrying what is left of a big turn.

`MaxAdvance` is an assumption on the environment. It bounds how much further
than ever before on this route the closest segment may be found in one update. The
ball moves less than a segment (0.25 m) per control period, but after an input
gap, or for a ball near the centre of a bend, the closest segment can jump by
more. `ParametersFit` says what the parameters must satisfy for a given
`MaxAdvance`; the deployed ones do for 1 and for no larger value, because one
segment is laid out per update. When it is exceeded, the index of the next speed
can pass the filled part, because it is clamped to the array only, and the
command then carries a speed of zero or of an earlier route.

### `MujocoBallBridge`

The plugin in the loop of the simulator: `TakeRequest` (the block of `Update`
under `resetRequestMutex_`), `Serve` (the rest of `Update`), `Step` (the physics,
external), again. `HandleResetRequest` and `HandleRouteMarkers` run on executor
threads between any two of them. `Reset` is the call the simulator makes when the
user restarts it.

The physical state is abstracted to where it comes from: the reset state file, a
restart, or the physics; the sensor data, which lag a step behind the positions
until `mj_forward`, have an origin of their own. `promise`, `promisedIn`, `received`,
`served` and `published.current` are history variables: what the last request asked for
and in which simulation, which requests have been served, and whether the last message is of the running
simulation. A turn is one tick of time. There is a ball, and its state is published:
`publish_ball_state` and `publish_base_state`, which switch messages off for good, and a
scene without a ball are left out.

### `MotionTracking`

The second controller plays a recorded motion back. The policy holds the counter
`timeStep` and the `frame` it last fetched; the command term holds the frame it
`aligned` with the robot. `update()` has two parts, the hold and startup reset
(`UpdateHeld`, `UpdateStart`), and what the action mode does (`WriteTarget` for the two
target modes, `RlControllerUpdate` for the third). No callback runs beside them.
`forwards`, `firstForward`, `resets` and `target.reset` are history variables. That
`RlController::on_activate` resets the policy and then the term is taken from
their use: where no simulator reset is requested nothing else aligns the motion, and
`MotionCommandTerm::reset` indexes frames that only a reset policy has. `lengths` says
whether the vectors of the policy have the lengths that `makeJointTarget` and the mapping
compare: with wrong ones every update evaluates the policy, which advances the motion, and
then commands nothing, because `update()` catches the exception (line 171).

## 4. Runs

| Run | Module | Shows |
|---|---|---|
| `gate` | `MCDribbleController` | no interleaving runs the policy on stale inputs, keeps an old route, mixes routes or reuses a target for too long; the controller implements `GatedPolicy`; a postponed reset is made |
| `race` | `MCDribbleController` | violated: the policy may run with the route reset still postponed, when a message arrives between the two freshness tests |
| `fallback_route` | `MCDribbleController` | violated: the startup reset seeds the route without a freshness test |
| `route` | `MCDribbleRoute` | big turns across chunks, array bounds, stability of laid segments; nothing unlaid is read and the preview is never cut |
| `bridge` | `MCMujocoBallBridge` | requests are not lost and are served, holds neither cut nor stretched, resets published at once, messages on time, dots on the route, with restarts (messages: those that apply the reset state) |
| `bridge_restart` | `MCMujocoBallBridge` | violated: the end of the hold is an absolute time that survives a restart of the clock |
| `motion` | `MCMotionTracking` | a motion starts aligned at its first frame, loses and repeats no frame, keeps its pace, and commands nothing of an earlier motion |
| `layout` | `MCPolicyInterface` | an accepted model gets the observation it was trained on and nothing unwritten, does not throw in the middle of a walk, and every joint its own target in its own range |
| `standby` | `MCStandbyController` | every joint its own command on its way, all interfaces or none, no jump, the default pose at the end |
| `simulated` | `MCSimulatedDribble` | the route starts at the ball of the reset state; the robot is released when the controller commands it, and not much later; the gate stays open |
| `restart_stale` | `MCSimulatedDribble` | violated: after a restart of the simulator, inputs of the earlier simulation pass for fresh |
| `mocap` | `MCMocapBall` | a predicted ball expires, the gate stays open through jumps and occlusions, no group is left in the tracker |

Type invariants are proved (section 5) and not repeated by the runs, except for
`RouteInBounds` of `route` and that of `layout` (no number that is not one); neither are the two
`NoCommandDuringHold`.

Runs `gate`, `race` and `fallback_route`. `MaxTime` stops the clock and bounds stamps.
Timeouts are one tick, so that an input gets stale and fresh again within three; two
activations are enough for the state of one to meet the other. `gate` draws every
configuration from four (`position_target`; `effort_pd` with a simulator reset, a hold
and a period of one tick, keeping the memory; `effort_pd` with a period of two and neither
reset, so that stale inputs or a deactivation come between a forward and the reuse of its
target; `rl_controller`), so that each mode follows each. Base and observation frame do
not come from topics. A
history of two lets one frame survive beside a new one. Stamps are drawn from the whole of
`0 .. MaxTime` at any time: the sender's clock need not agree with the node's.
`CHECK_DEADLOCK FALSE` is set because a node whose activation failed, at the end of
time, really stops; the same holds of `layout`, `motion` and `standby`, and in `simulated`
and `mocap` time itself ends.

Run `route` instantiates `MCDribbleRoute`: 8 segments in chunks of 2 after 3, so that the
last chunk is a short one, turns of 2 or 3 segments, so that they cross chunks, two
resets, so that an earlier route lies beneath, and the largest preview that fits.
`MCDribbleRoute` also evaluates `ParametersFit` for the numbers of
`softtouch_dribble_controllers.yaml`, in units of 0.05 m: with the theorems, this
carries the two command properties over to the deployed route.

The runs `bridge` and `bridge_restart` instantiate `MCMujocoBallBridge`. `MaxTime` ends the simulation; holds
of 0 and 2 ticks end on, before and after the publish period of 2. Two or three
requests are enough for one to replace another before, while and after it is
served. `NumDots` of 4 does not divide the routes of 3 and 6 points, so that the
rounding shows.

Run `motion` instantiates `MCMotionTracking`: a stride of 2 over 5 frames from frame 1, so that
the motion wraps between frames and 4 forwards pass its end; periods and holds of
2 ticks; two activations, with any mode before and after and vectors of the right lengths
or of either wrong one. It has no deadlock
check because a finalised node, or the end of time, really stops.

Run `layout` instantiates `MCPolicyInterface`: three terms of widths 2, 1 and 1, of
which the last is the decoder's, and three joints. Thirty-eight models and eleven setups:
models with true metadata (five choices and orders of terms, one of them without a term
of the actor, histories of 1 and 2, widths declared or left to the controller) and models
wrong in one of their fields; setups with terms and joints in other orders, a joint
missing, and each source of limits. Three frames overflow
a history of two. Raw targets lie beyond both limits.

Run `standby`: two joints in two orders, interfaces claimed in two orders or with one
missing, a ramp of two ticks, a clock of three that may be set back at any time, two
activations.

Runs `simulated` and `restart_stale`. A tick is half the publish period of the bridge. A
request and a ball message take at most one tick; a request waits for a turn of the
loop, a message for the next publication. The timeout of 3 is a period and a delay, the
smallest that keeps the gate open, and a hold of 4 is what a request, a reset and a first
ball need. Deployed with the bridge's topics, the hold is 0.06 s and the timeout 0.10 s,
six and ten publish periods of 0.01 s, where the run has two and one and a half. Two activations, each with a reset, let the second request follow a
simulation that runs. `restart_stale` needs no reset at all and leaves it out.

Run `mocap`. A tick is the period of a frame, longer than the frame gap. Five frames: the
first has the ball; in the second it is lost, with or without another marker, or comes with
one; in the third it may be covered; then it is seen again. Time runs to 8, past a timeout
and a hold. `BallStaysFresh` holds as long as the timeout exceeds the lag of the tracker
twice, that of the link, and a refused jump, and the hold time covers the lag of the tracker
(`TimeoutCoversLags`), here 6 > 2 * 2 + 0 + 1 and 3 >= 2; `MCMocapBall` assumes it. The lag
counts twice because one thread may send its frame that much after the other has sent a
later one. With a timeout of 4 TLC finds the gate closing; with 5 it does not in these frames,
the proof needs 6. Deployed, the timeout is 0.10 s, jumps are refused for 0.05 s and the
tracker flushes after 0.01 s, which leaves the rest for frames and the network.
`JumpCheckMaxDt` of 1 lets a refused jump be followed by an accepted one.

Fairness. `gate` and `standby`: weak fairness of `Update`, because the controller manager
calls `update()` of an active controller at its update rate and every path of it returns;
`standby` also of the clock. Nothing is assumed of messages: `PendingResetCompletes`
assumes fresh inputs instead. `bridge`: weak fairness of the loop of the simulator, which
calls `Update` in every turn; a restart does not stop it. `mocap`: weak fairness of
time, of the two threads of the tracker (a subscriber thread and a `rospy.Timer`) and of
the receive loop.

### Findings

* `race`. `update()` tests the inputs twice. A message between the tests lets the policy
  run, on the old route, while the reset is pending.
* `fallback_route`. The startup reset after a simulator hold does not test the inputs; the
  route may start at the fallback ball in front of the robot, and stays there.
* `bridge_restart`. `resetHoldUntilTime_` survives a restart that moves the clock back: the
  robot is held until the old time comes again.
* `restart_stale`. So does the cache of the controller: its stamps lie in the future, pass
  for fresh, and refuse the messages of the new simulation.

Six smaller remarks have no run. In most of them the code does what no document speaks of.

* A model with terms of the decoder only, or before those of the actor, passes every test of
  `configureObservationLayout` (lines 552 to 611 of the controller) and throws in the first
  update, in `buildPolicyObservation` (lines 629 and 676). One whose outputs are not as wide as its
  metadata says throws in the first `forward`. `AcceptedModelRuns` excludes these.
* `rl_controller` mode has no gate, although the log of line 299 of the controller says
  that the target is held; `PolicyOnFreshInputs` speaks of the two other modes.
* Widths are compared on activation, where the repository's README (lines 178 to 180) says
  that a mismatch fails at configure time.
* A restart of the simulation with `reset.enabled` false (the default, line 137 of the plugin)
  or `apply_on_reset` false leaves `lastPublishTime_` in the future (lines 217 to 230), and
  line 265 returns until the old time comes again: the messages stop for as long as the
  simulation had run. `PublishedOnTime` and `MessagesOnTime` have as their condition that the
  restart applied the reset state, or that none has happened since.
* The tracker's timer can compute a prediction (line 199), the callback then measure, and the
  timer write its prediction over the new position (line 200). Later misses send this older ball
  for up to `max_hold_time` after the newer measurement. `HeldBallExpires` exempts a
  ball if both threads have been in `process_group` at once since its measurement.
* A marker appended to a list that the other thread has replaced unread (lines 88, 149 and
  150) is lost. `BallStaysFresh` asks for frames of which a thread has taken a marker.

## 5. Theorems

Every safety and action property that a run expects to hold is proved here, for every
value of the constants that satisfies the named assumptions; where a property needs
parameters that fit together, the theorem has that as its hypothesis, and the MC module
of the run assumes that its instance fits.

`DribbleControllerProofs` proves the safety properties above for every value of
the constants, from the named assumptions on them only.

* `TypeCorrect`: the type invariant, inductive by itself. `PushedFrames` is the
  lemma that the frame deque keeps its length.
* `UpdateInvHolds`: `update()` only runs while the node is active, writes last, and
  has left the hold. The other theorems need it.
* `GateHolds`: for the gated modes. The lemma behind it is `MessageKeepsFresh`: an
  accepted message never makes a fresh input stale, since stamps only grow.
* `RouteSeeded`: the route is of this activation, and from a measured ball unless a MuJoCo
  reset has been requested (then it is violated, run `fallback_route`), provided that such
  a reset always comes with a hold. `FreshRouteIsMeasured`: a route reset on fresh inputs is seeded
  from a measured ball.
* `MemoryFollowsRoute`: in all modes. `PushedSameRoute` and `ClearedMemory` are the
  two ways a step keeps the memory on one route.
* `FreshStartIsConsistent`, `HoldRespected` (with `HoldOver`), `TargetAgeBounded` (with
  `TargetFreshWhenComputed`, and `GateHolds` for the step that computes a target).
* `GateImplemented`: `Spec => ImplementsGate`. Each step maps to one of `GatedPolicy` or to
  a stutter: `WriteIsCommand` for the last step of an update, which needs `GateHolds`'s
  invariant (the inputs are still fresh) and `ShouldUpdatePolicy`'s negation (the target is
  young enough); `ForgottenOrKept` for the resets; `MessageIsReceived` for the callbacks.

`DribbleRouteProofs`, for every value of the parameters:

* `RouteTypeCorrect`: no chunk passes the end of the arrays and every index of the
  command is in range. `BuildFacts` says what a chunk changes; `ExtendFacts`,
  `ResetFacts` and `UpdateFacts` carry it to the operations.
* `LaidSegmentsStay`: only a reset replaces a laid segment.
* `CommandReadsThisRoute` and `PreviewAlwaysReached`, for parameters that fit. Both
  rest on `RouteInv`: the filled part is of this route (`FilledByThisRoute`) and
  reaches far enough ahead of the furthest segment (`HeadroomKept`). The extension
  looks at the segment of the previous update, which may lie further back than the
  furthest one. The headroom is kept all the same, because the update that finds
  the ball further back still extends for where it was before; `HeadroomKept`
  therefore asks for `MaxAdvance` more segments while the ball is behind.
* `TurnsLaidWhole`: from `TurnInv`, which speaks of every run of segments of a big turn
  (`Run`): it has the length of a turn, or ends at the filled part and has it with what is
  still to be laid. `OneMoreSegment` is the step, `ChunkWhole` the induction over a chunk.

`MujocoBallBridgeProofs`, for every value of the flags, periods and sizes:

* `BridgeTypeCorrect`, with `DotInRange` for the index of a dot.
* `RequestsSurvive`: the lemma `RequestsAccounted` says that what waits and what has
  been taken is exactly what is not served.
* `ResetShownAtOnce`: a reset state that no `Update` has seen yet is of time 0 and
  has set the publish time back (`ResetStateInv`).
* `MessagesOnTime`, from `PublishInv`: the publish time is that of the last message,
  or long ago, as long as restarts apply the reset state or none has happened since.
* `HoldKept`, if restarts apply the reset state, and `HoldReleased`, until a restart
  (after one it is violated, run `bridge_restart`). `HoldInv` and `ReleaseInv` relate
  the promise to the end of the hold.
* `DotsSpanTheRoute`, from `QuotientUnique` and `QuotientOrdered`: division with rounding
  is monotonic, which the provers are not told.

`MotionTrackingProofs`, for every length, start, stride, period and hold:

* `MotionTypeCorrect`, with `PolicyStepInRange` for the modulus.
* `AlignedAtReset` and `FramesStayInStep`, inductive once `UpdateOfActive` says that
  only an active controller forwards; `OneMoreStride` is the step of the product.
* `HoldRespected`, with `HoldOver`: once nothing is pending, the hold is over.
* `TargetIsOfThisMotion` and `PaceKept`: `TargetInv` says that a target exists exactly
  when the motion has begun and the lengths of the vectors are those of the joints, so that
  the first forward after a reset never waits for the period; `PaceInv` relates the time of
  the target to the number of forwards. Where no target can be made the policy runs in
  every update, and `PaceKept` says nothing.

`PolicyInterfaceProofs`, for every number of joints, every metadata and every setup:

* `ControlOrderOwnJoint`: the vector in control order has every entry at its joint.
  `MappingByName` and `MappingReachesAll` rest on a counting argument: a policy of as
  many joints as are controlled, each found, leaves none out.
* `EveryJointItsOwn`: `CommandsOwnJoint`, from `OrderInv` (the mapping is that of this
  model and these joints; the kept target is of this model).
* `TypeCorrect`: no vector ever has a number nobody wrote, whatever the metadata says.
  `LoadedInv` keeps what activation has compared: the layout is that of this model and
  these terms.
* `AcceptedModelNeverThrows`: the assembly can only throw on a layout that activation
  refuses (`AcceptedAssembles`), and `forward` only where the outputs do not have the widths
  of the metadata. `CursorSums` says where the cursor of the assembly
  is after every term.
* `TargetStaysInRange`, from `RangeInv`: a kept target is inside the range of its joint in
  this setup. `ClippedInRange` needs the exact units.
* `PolicyInputMeasured`: the parts of a frame are cut out of it without a gap or an overlap
  (`FrameOnce`), so that nothing unmeasured is among them, and nothing twice when no
  term is configured twice (`TermsOnce`; a setup may do that, and then repeats it).
* `PolicyInputAsTrained`: for any terms, widths and history, from `HistoryInv`: the
  history holds the last frames of this activation, the oldest repeated until there are
  enough (`FlattenPad`). `ActorStacked` and `NewestDecoder` equate the two parts of the
  assembled vector with those of `TrainedLayout`. The hypothesis that the metadata is true
  (`MetadataTrue`) is part of the property: nothing in the model file could confirm it.

The last four speak of sums and joined sequences of any length, which the community
modules define by recursion. `StepByStep` is induction for a set of numbers in place of
a predicate; `Sums` and `Joined` describe such a recursion by what it has after
each step, `SumIs` and `FlattenIs` say that the folds end there.

`StandbyControllerProofs`, for every configuration, claim order and ramp:

* `StandbyTypeCorrect`; `IndexInv` (an index that has been built is complete and finds
  every interface) is needed so that every value that is commanded is a number.
* `AllOrNothingHolds`: with a complete index every call is made (`EveryCallIsMade`).
* `EveryJointOnItsWay`: `CommandsOwnJoint`, when no joint is named twice.
  `CommandOfJoint` says that each interface is set by exactly one call, `OnTheWay` that an
  interpolation lies between its ends. Nothing is assumed of the clock.
* `NeverJumps`: `NoJump`, when no joint is named twice, from `RampInv` (what a joint was
  last commanded is the ramp at the time of that command, and there is a ramp before the
  first). Exempt are the first command when `config.reset` asks for the default position at
  once, and the first update after the clock was set back, in which the ramp starts again
  from the old pose. `RampStep` bounds the way between two shares of the ramp by their difference,
  which `AlphaSteady` bounds by the time between them.

`SimulatedDribbleProofs`, for every hold, delay and period, and from the third theorem on
for those that fit:

* `ComponentsKept`: a behaviour of the composition is one of each component, so that what
  is proved of them holds in it.
* `RobotReleasedIntoControl`: the hold of the simulator ends no earlier than that of the
  controller. `SystemInv` says of every request under way, received or taken that
  it was sent no later than now, and that a served one set the end of the hold to
  its turn plus its hold, and so beyond `skipPolicyUntilTime_`.
* `GateKeptOpen`, if the timeout covers a publish period and the delay of a message
  (`TimeoutCoversDelay`): the bridge is never late with a message (`PaceInv`), none is on
  its way for longer than the delay (`WireTimes`), and for every time from the first message
  on the cache or the wire has one that is recent enough (`InputsCovered`). With a period of
  2, a delay of 1 and a timeout of 2, TLC finds the gate closing.
* `PolicyNotHeldLong`, if all configurations ask for the same hold (`OneHold`): wherever a
  request is, the hold it ends in exceeds that of the controller by no more than its delay
  (`LateBy`).
* `RouteStartsAtResetBall`, if the hold covers both delays (`HoldCoversDelays`):
  `OlderThanTurn` orders the messages under way, `StoredInv` the cache; `AnswerInv` says
  where the answer to the request is (waiting, taken, served and held, on the wire,
  in the cache) and by when it has to be at the next place; `SeedInv` that the route follows
  it. With both delays 1, a hold of 3 is too short, so that the bound is exact. The second
  half of `HoldCoversDelays`, more than twice the delay of a message, is there because
  a message stamped 0 takes the time at which it is received: with a delay of 3 and a hold
  of 6, an old one can pass for new.

`MocapBallProofs`, for every lag, timeout and hold time:

* `PipelineTypeCorrect`: types, the order of the markers (`MarkersInOrder`), where the
  callback can be while the timer swaps the group (`CallbackInv`), and that what a thread
  processes is of one frame (`WorkInv`). `SwapMoves` is what the swap does to each thread.
* `HeldBallsExpire`: from `AloneInv`, two threads in `process_group` at once mark the ball as
  shared; `AgeInv`, else the filtered ball is the one last measured and recent enough for
  what is about to be sent; and `PacketsExpire`, so are the packets. The limit is the longer
  of `max_predict_time` and `max_hold_time`.
* `BallKeptFresh`: `BallStaysFresh`, if the timeout covers the lags and the ball is the only
  input from a topic (`OnlyBall`; the model has no sender for others). `LagInv` has five
  parts: how old a marker may be at each place (`MarkersLag`); how far the packets in the
  socket can be out of turn (`PacketsLag`); that the cache is as new as what the receiver
  last let through (`Published`); that a thread which has refused candidates has a recent
  measurement to hold, even if the other has measured meanwhile (`Refused`); and that every
  frame taken is with a thread, in the socket, or has reached the cache up to what may
  replace it (`FramesArrive`, where a frame without a candidate may also have been dropped
  because no measurement was recent, `Unsent`). `FilterArrives` and `ReceiveServes` are the
  two steps a frame takes; `LagsKeepFresh` picks the latest frame that can no longer be
  under way.

Only model-checked is liveness: `PendingResetCompletes`, `EveryRequestServed`,
`ReachesDefault` and `EveryGroupProcessed`, whose proofs need fairness and `ENABLED`, which
the prover does not treat. The four runs that expect a violation have nothing to prove. The
induction theorems of the library take a predicate as parameter and cannot be used with
the provers at hand; inductions over data go through the least element of the set of
numbers that fail instead (`LeastElement`).

The strengthenings `UpdateInv`, `HoldOver` and `TargetFreshWhenComputed` are stated
in `DribbleController`.

## 6. Not modelled

* Numeric content: transforms, curvature and speeds of the route, the policy network and
  its latent state, torques, the tracker's filter and gate, twists. Where a decision hangs
  on a number, both outcomes are possible.
* The declaration and validation of parameters one by one, and debug topics.
* In `SimulatedDribble`: the loss of a message or of a request, and the base topics that the
  plugin publishes too (line 273), so nothing is said for `base_state.source` of `topic`. A
  lost request is never repeated; the route then starts at whatever ball is cached.
* In `MocapBall`: the observation frame, which the real run also takes from a topic.
* The two accesses to `commandTerm_` by a callback and by `on_configure` at once: a
  data race whose outcome depends on the executor.
* `ros1_mocap_udp_sender.py` (it forwards each message) and
  `bridge_softtouch_mocap_ball.py` (the way around UDP).
* `fall_monitor.py` and the sweep scripts, which evaluate runs from outside; launch
  files, which choose constants; the export and display tools.
* `RlController`, `ControllerBase`, the controller manager, ROS and MuJoCo are external and
  modelled from how this code uses them.
