-------------------------- MODULE StandbyController --------------------------
(***************************************************************************)
(* SoftTouchStandbyController: from the pose measured at the activation,   *)
(* or from the default pose when the simulator is asked to reset, it ramps *)
(* the joints to the default pose.  The joints, their default positions    *)
(* and gains are parameters, each an array; the command interfaces the     *)
(* controller has claimed are found by name, once per activation.          *)
(***************************************************************************)
EXTENDS Integers, Sequences, FiniteSets

CONSTANTS
  Joints,           \* names of the robot's joints
  Configs,          \* values of the parameters: joints, default, kp, kd, reset
  TotalTime,        \* total_time in ticks
  Positions,        \* joint positions that may be measured
  ClaimOrders,      \* orders in which the command interfaces may be claimed
  AllowRestart,     \* the simulator may restart, and its time with it
  MaxTime,          \* bounds of the model
  MaxActivations

Kinds == <<"position", "velocity", "effort", "stiffness", "damping">>
Interfaces == Joints \X {Kinds[k] : k \in DOMAIN Kinds}

Config == [joints : Seq(Joints), default : Seq(Int), kp : Seq(Int), kd : Seq(Int),
           reset : BOOLEAN]

ASSUME ConfigsAssumption == Configs \subseteq Config
ASSUME ClaimsAssumption == ClaimOrders \subseteq Seq(Interfaces)
ASSUME TimesAssumption ==
  /\ TotalTime \in Nat
  /\ MaxTime \in Nat
  /\ MaxActivations \in Nat
  /\ Positions \subseteq Int
  /\ AllowRestart \in BOOLEAN

VARIABLES
  clock,         \* the time the controller manager passes to update()
  lifecycle,
  config,        \* jointNameInControl_, defaultPosition_, kp_, kd_ and
                 \*   mujocoResetOnActivate_
  claimed,       \* command_interfaces_
  start,         \* startPosition_
  startTime,     \* startTime_
  firstUpdate,   \* firstUpdate_
  index,         \* commandIndexByName_: the place of an interface in claimed
  indexBuilt,    \* commandIndexBuilt_
  commands,      \* the command of every interface of the robot, the position
                 \*   times Scale
  activations,   \* number of activations so far
  measured,      \* the pose of the joints at the last activation
  touched,       \* interfaces commanded in this activation
  commandedAt    \* time of the last command

vars == <<clock, lifecycle, config, claimed, start, startTime, firstUpdate, index,
          indexBuilt, commands, activations, measured, touched, commandedAt>>

rampVars == <<start, startTime, firstUpdate>>
indexVars == <<index, indexBuilt>>
commandVars == <<commands, touched, commandedAt>>

\* Position commands are kept as integers: Scale times the command.
Scale == IF TotalTime = 0 THEN 1 ELSE TotalTime

NumJoints == Len(config.joints)

TypeOK ==
  /\ clock \in 0 .. MaxTime
  /\ lifecycle \in {"unconfigured", "inactive", "active", "finalized"}
  /\ config \in Configs
  /\ claimed \in ClaimOrders
  /\ start \in Seq(Int)
  /\ lifecycle \in {"inactive", "active"} => Len(start) = NumJoints
  /\ startTime \in 0 .. MaxTime
  /\ firstUpdate \in BOOLEAN
  /\ DOMAIN index \subseteq Interfaces /\ index \in [DOMAIN index -> Nat]
  /\ indexBuilt \in BOOLEAN
  /\ commands \in [Interfaces -> Int]
  /\ activations \in 0 .. MaxActivations
  /\ DOMAIN measured \subseteq Joints /\ measured \in [DOMAIN measured -> Positions]
  /\ touched \subseteq Interfaces
  /\ commandedAt \in 0 .. MaxTime

Init ==
  /\ clock = 0
  /\ lifecycle = "unconfigured"
  /\ config \in Configs
  /\ claimed \in ClaimOrders
  /\ start = <<>>
  /\ startTime = 0
  /\ firstUpdate = TRUE
  /\ index = <<>>
  /\ indexBuilt = FALSE
  /\ commands = [i \in Interfaces |-> 0]
  /\ activations = 0
  /\ measured = <<>>
  /\ touched = {}
  /\ commandedAt = 0

-----------------------------------------------------------------------------
\* readVectorParam refuses an array whose length is not that of the joint names.
WellFormed(c) ==
  /\ c.joints # <<>>
  /\ \A v \in {c.default, c.kp, c.kd} : Len(v) = Len(c.joints)

\* on_configure; ERROR finalizes the node.
Configure ==
  /\ lifecycle = "unconfigured"
  /\ config' \in Configs
  /\ IF WellFormed(config')
     THEN lifecycle' = "inactive" /\ start' = config'.default
     ELSE lifecycle' = "finalized" /\ UNCHANGED start
  /\ UNCHANGED <<clock, claimed, startTime, firstUpdate, indexVars, commandVars,
                 activations, measured>>

\* Mutants of NewRamp and NewIndex: those of the activation before are kept.
RampKept == UNCHANGED firstUpdate
IndexKept == UNCHANGED indexBuilt

NewRamp == firstUpdate' = TRUE
NewIndex == indexBuilt' = FALSE

\* on_activate.  The controller manager has lent the interfaces again.  With
\* reset.mujoco_reset_on_activate a reset of the simulator is requested.
Activate ==
  /\ lifecycle = "inactive"
  /\ activations < MaxActivations
  /\ lifecycle' = "active"
  /\ activations' = activations + 1
  /\ claimed' \in ClaimOrders
  /\ measured' \in [{config.joints[i] : i \in 1 .. NumJoints} -> Positions]
  /\ start' = IF config.reset THEN config.default
              ELSE [i \in 1 .. NumJoints |-> measured'[config.joints[i]]]
  /\ NewRamp
  /\ NewIndex
  /\ touched' = {}
  /\ UNCHANGED <<clock, config, startTime, index, commands, commandedAt>>

\* The base class fails, or a joint is unknown to the robot's model: ERROR.
ActivateFails ==
  /\ lifecycle = "inactive"
  /\ lifecycle' = "finalized"
  /\ UNCHANGED <<clock, config, claimed, rampVars, indexVars, commandVars, activations,
                 measured>>

\* The base class's on_deactivate and on_cleanup.
Leave ==
  /\ \/ lifecycle = "active" /\ lifecycle' = "inactive"
     \/ lifecycle = "inactive" /\ lifecycle' = "unconfigured"
  /\ UNCHANGED <<clock, config, claimed, rampVars, indexVars, commandVars, activations,
                 measured>>

-----------------------------------------------------------------------------
(* update() *)

\* What setCommand is called with, in the order of its calls.
NumCalls == NumJoints * Len(Kinds)
CallJoint(n) == ((n - 1) \div Len(Kinds)) + 1
CallKind(n) == Kinds[((n - 1) % Len(Kinds)) + 1]
CallInterface(n) == <<config.joints[CallJoint(n)], CallKind(n)>>
Calls == 1 .. NumCalls

\* buildCommandIndex, the index an update uses, and where it finds an interface.
BuiltIndex ==
  [i \in {claimed[n] : n \in DOMAIN claimed} |-> CHOOSE n \in DOMAIN claimed : claimed[n] = i]

UsedIndex == IF indexBuilt THEN index ELSE BuiltIndex

\* Mutant of IndexComplete: the interfaces are not looked up in advance.
IndexNotTested == TRUE

IndexComplete == \A n \in Calls : CallInterface(n) \in DOMAIN UsedIndex

\* An interface of a joint is missing: buildCommandIndex throws out of update(), and
\* the controller is taken out.
UpdateThrows ==
  /\ lifecycle = "active"
  /\ ~indexBuilt /\ ~IndexComplete
  /\ index' = BuiltIndex
  /\ lifecycle' = "finalized"
  /\ UNCHANGED <<clock, config, claimed, rampVars, indexBuilt, commandVars, activations,
                 measured>>

\* Mutant of Alpha: not clamped at the end of the ramp.
AlphaUnclamped(elapsed) ==
  IF TotalTime = 0 THEN 1 ELSE IF elapsed < 0 THEN 0 ELSE elapsed

\* alpha times Scale.
Alpha(elapsed) ==
  IF TotalTime = 0 THEN 1
  ELSE IF elapsed < 0 THEN 0
  ELSE IF elapsed > TotalTime THEN TotalTime
  ELSE elapsed

\* target times Scale.
RampTarget(joint, elapsed) ==
  (Scale - Alpha(elapsed)) * start[joint] + Alpha(elapsed) * config.default[joint]

CallValue(n, elapsed) ==
  CASE CallKind(n) = "position" -> RampTarget(CallJoint(n), elapsed)
    [] CallKind(n) \in {"velocity", "effort"} -> 0
    [] CallKind(n) = "stiffness" -> config.kp[CallJoint(n)]
    [] CallKind(n) = "damping" -> config.kd[CallJoint(n)]

\* The calls before the first one that finds no place in the index and throws, and
\* those of them that set an interface of the robot: the last one counts.
CallsMade(places) ==
  LET missing == {n \in Calls : CallInterface(n) \notin DOMAIN places}
  IN  {n \in Calls : \A m \in missing : n < m}

CallsTo(places, i) == {n \in CallsMade(places) : claimed[places[CallInterface(n)]] = i}

LastOf(calls) == CHOOSE n \in calls : \A m \in calls : m <= n

RampStart == IF firstUpdate THEN clock ELSE startTime

\* ControllerBase::update, outside the repository, may fail: nothing is done then.
Update ==
  /\ lifecycle = "active"
  /\ indexBuilt \/ IndexComplete
  /\ index' = UsedIndex
  /\ indexBuilt' = TRUE
  /\ startTime' = RampStart
  /\ firstUpdate' = FALSE
  /\ commands' = [i \in Interfaces |->
                    LET calls == CallsTo(index', i)
                    IN  IF calls = {} THEN commands[i]
                        ELSE CallValue(LastOf(calls), clock - RampStart)]
  /\ touched' = touched \cup {i \in Interfaces : CallsTo(index', i) # {}}
  /\ commandedAt' = clock
  /\ UNCHANGED <<clock, lifecycle, config, claimed, start, activations, measured>>

Tick ==
  /\ clock < MaxTime
  /\ clock' = clock + 1
  /\ UNCHANGED <<lifecycle, config, claimed, rampVars, indexVars, commandVars,
                 activations, measured>>

\* The simulator restarts and its clock starts from zero.
Restart ==
  /\ AllowRestart
  /\ clock' = 0
  /\ clock > 0
  /\ UNCHANGED <<lifecycle, config, claimed, rampVars, indexVars, commandVars,
                 activations, measured>>

Next ==
  \/ Configure \/ Activate \/ ActivateFails \/ Leave
  \/ Update \/ UpdateThrows
  \/ Tick \/ Restart

Spec == Init /\ [][Next]_vars

-----------------------------------------------------------------------------
(* Properties *)

Commanding == lifecycle = "active" /\ ~firstUpdate

Position(i) == commands[<<config.joints[i], "position">>]

Between(x, a, b) == (a <= x /\ x <= b) \/ (b <= x /\ x <= a)

\* Every joint gets its own gains and a position on the way from where it was
\* measured at this activation to its own default position, in whatever order the
\* interfaces are claimed, the joints configured, and the time read.
CommandsOwnJoint ==
  Commanding =>
    \A i \in 1 .. NumJoints :
      /\ commands[<<config.joints[i], "stiffness">>] = config.kp[i]
      /\ commands[<<config.joints[i], "damping">>] = config.kd[i]
      /\ Between(Position(i), Scale * config.default[i],
                 Scale * IF config.reset THEN config.default[i]
                         ELSE measured[config.joints[i]])

\* Either none of the interfaces has been commanded in an activation or all those
\* of all joints: a missing one is found before the first command.
AllOrNothing ==
  lifecycle = "active" =>
    touched \in {{}, {CallInterface(n) : n \in Calls}}

Abs(x) == IF x < 0 THEN -x ELSE x

\* The first position an activation commands is the one the joint was measured in, unless
\* it is to start from the default pose (config.reset); and no later one moves it by more
\* than the time since the last command allows.  The update right after the clock was set
\* back is exempt: it goes back on the ramp.
NoJump ==
  [][Update /\ TotalTime > 0 =>
      \A i \in 1 .. NumJoints :
        IF touched = {}
        THEN config.reset \/ Position(i)' = Scale * measured[config.joints[i]]
        ELSE clock >= commandedAt =>
               Abs(Position(i)' - Position(i)) <=
                 (clock - commandedAt) * Abs(config.default[i] - start[i])]_vars

\* The real-time thread keeps calling update(), and time keeps passing.
Fairness == WF_vars(Update) /\ WF_vars(Tick)

FairSpec == Spec /\ Fairness

AtDefault ==
  Commanding /\ \A i \in 1 .. NumJoints : Position(i) = Scale * config.default[i]

\* A controller that stays active on a robot with all interfaces ends in the default
\* pose and stays there, once its clock is no longer set back: also one that was set
\* back in the middle of the ramp.  MaxTime must leave room for the ramp.
ReachesDefault ==
  /\ <>[](lifecycle = "active" /\ IndexComplete /\ startTime + TotalTime <= MaxTime)
  /\ <>[][clock' >= clock]_vars
  => <>[]AtDefault
=============================================================================
