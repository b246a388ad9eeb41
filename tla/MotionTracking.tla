--------------------------- MODULE MotionTracking ---------------------------
(***************************************************************************)
(* MotionTrackingController, with its MotionCommandTerm and                *)
(* MotionOnnxPolicy: a recorded motion is played back, one stride at a     *)
(* forward of the policy, from where the robot stands at the reset.        *)
(*                                                                         *)
(* Lifecycle callbacks and update() run one after the other.  update() is  *)
(* cut after the startup reset, only so that each part is one action.      *)
(***************************************************************************)
EXTENDS Integers

CONSTANTS
  StartStep, MotionLength, LoopMotion, TimeStepStride,  \* motion.*
  ActionPolicyPeriod,        \* policy_update_period_s, in ticks
  MujocoResetHoldDuration,   \* in ticks
  MaxTime, MaxActivations, MaxForwards   \* bounds of the model

TargetModes == {"position_target", "effort_pd"}
Modes == TargetModes \cup {"rl_controller"}

ASSUME MotionAssumption ==
  /\ StartStep \in Nat
  /\ MotionLength \in Nat
  /\ LoopMotion \in BOOLEAN
  /\ TimeStepStride \in Nat \ {0}
ASSUME ControllerAssumption ==
  /\ ActionPolicyPeriod \in Nat
  /\ MujocoResetHoldDuration \in Nat
  /\ MaxTime \in Nat
  /\ MaxActivations \in Nat
  /\ MaxForwards \in Nat

VARIABLES
  clock,           \* the node's clock
  lifecycle,       \* the lifecycle state of the node
  mode,            \* actionCommandMode_
  requestsReset,   \* mujocoResetOnActivate_
  lengths,         \* which lengths in the metadata of the policy are wrong
  pc,              \* where update() is
  pendingStartup,  \* pendingStartupPolicyReset_
  skipUntil,       \* skipPolicyUntilTime_
  timeStep,        \* timeStep_ of the policy
  frame,           \* frame of the motion in jointPosition_, bodyPositions_, ...
  aligned,         \* the frame that worldToInit_ puts where the robot stood
  target,          \* hasActionTarget_, lastActionPolicyUpdateTime_, and the
                   \*   reset since which the target was computed
  resets,          \* number of policy resets so far
  forwards,        \* number of forwards since the last one
  firstForward,    \* the time of the first of them
  activations,     \* number of activations so far
  written          \* what update() has commanded

startupVars == <<pendingStartup, skipUntil>>
motionVars == <<timeStep, frame, resets, forwards, firstForward>>
configVars == <<mode, requestsReset, lengths>>
vars == <<clock, lifecycle, configVars, pc, startupVars, motionVars, aligned, target,
          activations, written>>

\* The lengths in the metadata are compared when they are used: none is wrong, one that a
\* target is computed from, or one that it is commanded with.
Lengths == {"right", "wrongForTarget", "wrongForCommand"}

\* bodyPositions_ is empty until the first forward.
NoFrame == -1

\* The frames the model may be asked for.
Frames == IF LoopMotion /\ MotionLength > 0 THEN 0 .. (MotionLength - 1) ELSE Nat

NoTarget == [has |-> FALSE, at |-> 0, reset |-> 0]

TypeOK ==
  /\ clock \in 0 .. MaxTime
  /\ lifecycle \in {"unconfigured", "inactive", "active", "finalized"}
  /\ mode \in Modes
  /\ requestsReset \in BOOLEAN
  /\ lengths \in Lengths
  /\ pc \in {"idle", "ready"}
  /\ pendingStartup \in BOOLEAN
  /\ skipUntil \in Nat
  /\ timeStep \in Nat
  /\ frame \in Frames \cup {NoFrame}
  /\ aligned \in Frames \cup {NoFrame}
  /\ target \in [has : BOOLEAN, at : 0 .. MaxTime, reset : Nat]
  /\ resets \in Nat
  /\ forwards \in Nat
  /\ firstForward \in 0 .. MaxTime
  /\ activations \in Nat
  /\ written \in {"none", "policy"}

Init ==
  /\ clock = 0
  /\ lifecycle = "unconfigured"
  /\ mode = "rl_controller"
  /\ requestsReset = FALSE
  /\ lengths = "right"
  /\ pc = "idle"
  /\ pendingStartup = FALSE
  /\ skipUntil = 0
  /\ timeStep = 0
  /\ frame = NoFrame
  /\ aligned = NoFrame
  /\ target = NoTarget
  /\ resets = 0
  /\ forwards = 0
  /\ firstForward = 0
  /\ activations = 0
  /\ written = "none"

-----------------------------------------------------------------------------
(* MotionOnnxPolicy and MotionCommandTerm *)

\* policyStep, the time_step input of the model.
PolicyStep(step) == IF LoopMotion /\ MotionLength > 0 THEN step % MotionLength ELSE step

\* MotionOnnxPolicy::forward, on an observation.
Forward ==
  /\ forwards < MaxForwards
  /\ frame' = PolicyStep(timeStep)
  /\ timeStep' = timeStep + TimeStepStride
  /\ forwards' = forwards + 1
  /\ firstForward' = IF forwards = 0 THEN clock ELSE firstForward
  /\ UNCHANGED resets

\* Mutant of ResetPolicy: timeStep_ is not put back before the forward.
ResetKeepsStep ==
  /\ frame' = PolicyStep(timeStep)
  /\ timeStep' = timeStep + TimeStepStride
  /\ resets' = resets + 1
  /\ forwards' = 0
  /\ UNCHANGED firstForward

\* MotionOnnxPolicy::reset: a forward on zeros fetches the first frame, and the
\* next forward evaluates the frame after it.
ResetPolicy ==
  /\ frame' = PolicyStep(StartStep)
  /\ timeStep' = StartStep + TimeStepStride
  /\ resets' = resets + 1
  /\ forwards' = 0
  /\ UNCHANGED firstForward

\* Mutant of AlignMotion: the term is reset before the policy.
AlignBeforePolicy == aligned' = frame

\* MotionCommandTerm::reset, after that of the policy: the frame that the policy
\* holds is put where the robot stands.
AlignMotion == aligned' = frame'

-----------------------------------------------------------------------------
(* Lifecycle callbacks *)

\* Mutant of ForgetTarget: the target is kept.
KeepTarget == UNCHANGED target

\* hasActionTarget_ is false again.
ForgetTarget == target' = [target EXCEPT !.has = FALSE]

\* on_configure: the parameters are read, with a new policy, a new command term
\* and no target.  The pending flag and the skip time keep their values.
Configure ==
  /\ lifecycle = "unconfigured"
  /\ lifecycle' \in {"inactive", "unconfigured", "finalized"}
  /\ mode' \in Modes
  /\ requestsReset' \in BOOLEAN
  /\ lengths' \in Lengths
  /\ timeStep' = 0
  /\ frame' = NoFrame
  /\ aligned' = NoFrame
  /\ ForgetTarget
  /\ written' = "none"
  /\ UNCHANGED <<clock, pc, startupVars, resets, forwards, firstForward, activations>>

\* The base class fails, or a joint of the policy is missing.
ActivateFails ==
  /\ lifecycle = "inactive"
  /\ lifecycle' = "finalized"
  /\ UNCHANGED <<clock, configVars, pc, startupVars, motionVars, aligned, target, activations, written>>

\* on_activate.  RlController::on_activate resets the policy and the command
\* term: nothing else aligns the motion where no MuJoCo reset is requested, and
\* the term reads frames that only a policy that was reset has.
Activate ==
  /\ lifecycle = "inactive"
  /\ activations < MaxActivations
  /\ lifecycle' = "active"
  /\ activations' = activations + 1
  /\ ResetPolicy
  /\ AlignMotion
  /\ ForgetTarget
  /\ IF requestsReset
     THEN skipUntil' = clock + MujocoResetHoldDuration /\ pendingStartup' = TRUE
     ELSE UNCHANGED startupVars
  /\ written' = "none"
  /\ UNCHANGED <<clock, configVars, pc>>

\* on_deactivate: only the base class.
Deactivate ==
  /\ lifecycle = "active"
  /\ pc = "idle"
  /\ lifecycle' = "inactive"
  /\ UNCHANGED <<clock, configVars, pc, startupVars, motionVars, aligned, target, activations, written>>

\* on_cleanup is the base class's.
Cleanup ==
  /\ lifecycle = "inactive"
  /\ lifecycle' = "unconfigured"
  /\ UNCHANGED <<clock, configVars, pc, startupVars, motionVars, aligned, target, activations, written>>

-----------------------------------------------------------------------------
(* update() *)

InHold == pendingStartup /\ clock < skipUntil

\* The early return: ControllerBase::update only.
UpdateHeld ==
  /\ lifecycle = "active"
  /\ pc = "idle"
  /\ InHold
  /\ written' = "none"
  /\ UNCHANGED <<clock, lifecycle, configVars, pc, startupVars, motionVars, aligned, target, activations>>

StartupReset ==
  IF pendingStartup
  THEN ResetPolicy /\ AlignMotion /\ ForgetTarget
  ELSE UNCHANGED <<motionVars, aligned, target>>

UpdateStart ==
  /\ lifecycle = "active"
  /\ pc = "idle"
  /\ ~InHold
  /\ pc' = "ready"
  /\ StartupReset
  /\ pendingStartup' = FALSE
  /\ written' = "none"
  /\ UNCHANGED <<clock, lifecycle, configVars, skipUntil, activations>>

\* ControllerBase::update or RlController::update did not return OK.
BaseUpdateFails ==
  /\ pc = "ready"
  /\ pc' = "idle"
  /\ UNCHANGED <<clock, lifecycle, configVars, startupVars, motionVars, aligned, target, activations, written>>

\* Mutant of ShouldUpdatePolicy: the time of the last forward is not looked at.
UpdateAlways == TRUE

ShouldUpdatePolicy ==
  \/ ~target.has
  \/ ActionPolicyPeriod <= 0
  \/ clock - target.at >= ActionPolicyPeriod

\* updatePositionTarget and updateEffortPd.  A wrong length throws after the forward: no
\* target then, or no command.  update() catches it and returns an error.
WriteTarget ==
  /\ pc = "ready"
  /\ mode \in TargetModes
  /\ pc' = "idle"
  /\ IF ShouldUpdatePolicy
     THEN /\ Forward
          /\ target' = IF lengths = "wrongForTarget" THEN target
                       ELSE [has |-> TRUE, at |-> clock, reset |-> resets]
     ELSE UNCHANGED <<motionVars, target>>
  /\ written' = IF lengths = "right" THEN "policy" ELSE written
  /\ UNCHANGED <<clock, lifecycle, configVars, startupVars, aligned, activations>>

\* RlController::update: when it evaluates the policy is its own matter.
RlControllerUpdate ==
  /\ pc = "ready"
  /\ mode = "rl_controller"
  /\ pc' = "idle"
  /\ Forward \/ UNCHANGED motionVars
  /\ written' = "policy"
  /\ UNCHANGED <<clock, lifecycle, configVars, startupVars, aligned, target, activations>>

\* The time of an update() is the clock's when it starts.
ClockTick ==
  /\ pc = "idle"
  /\ clock < MaxTime
  /\ clock' = clock + 1
  /\ written' = "none"
  /\ UNCHANGED <<lifecycle, configVars, pc, startupVars, motionVars, aligned, target, activations>>

Transition == Configure \/ Activate \/ ActivateFails \/ Deactivate \/ Cleanup

Update ==
  \/ UpdateHeld \/ UpdateStart
  \/ BaseUpdateFails \/ WriteTarget \/ RlControllerUpdate

Next == Transition \/ Update \/ ClockTick

Spec == Init /\ [][Next]_vars

-----------------------------------------------------------------------------
(* Properties *)

\* What is put where the robot stood is the first frame of the motion, also
\* when an earlier activation left the policy in the middle of it.
AlignedToFirstFrame == lifecycle = "active" => aligned = PolicyStep(StartStep)

\* The frame that the observation compares the robot with and the frame that the
\* model will evaluate next go together: no reset, hold or reuse of a target
\* puts one ahead of the other, repeats a frame or leaves one out.
FramesInStep ==
  lifecycle = "active" =>
    /\ frame = PolicyStep(StartStep + TimeStepStride * forwards)
    /\ timeStep = StartStep + TimeStepStride * (forwards + 1)

\* The motion never runs faster than a stride per period, once there is a target: where
\* none can be computed, and so nothing is commanded, every update tries.
MotionNotAhead ==
  lifecycle = "active" /\ mode \in TargetModes /\ target.has =>
    firstForward + (forwards - 1) * ActionPolicyPeriod <= clock

\* While the simulator holds its reset state nothing is commanded.
NoCommandDuringHold == written = "policy" => ~pendingStartup /\ skipUntil <= clock

\* A target is commanded only in the motion it was computed in: not after the
\* reset that starts the motion again, nor in another activation.
TargetOfThisMotion ==
  written = "policy" /\ mode \in TargetModes => target.has /\ target.reset = resets

\* What the proofs add.
HoldOver == ~pendingStartup => skipUntil <= clock

UpdateInv ==
  pc = "ready" => lifecycle = "active" /\ written = "none" /\ ~pendingStartup

TargetInv ==
  lifecycle = "active" /\ mode \in TargetModes =>
    /\ target.has <=> forwards > 0 /\ lengths # "wrongForTarget"
    /\ target.has => target.reset = resets

PaceInv ==
  lifecycle = "active" /\ mode \in TargetModes /\ target.has =>
    /\ target.at <= clock
    /\ firstForward + (forwards - 1) * ActionPolicyPeriod <= target.at
=============================================================================
