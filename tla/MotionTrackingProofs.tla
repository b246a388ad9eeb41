------------------------ MODULE MotionTrackingProofs ------------------------
(***************************************************************************)
(* Theorems about MotionTracking, for every value of its constants.        *)
(***************************************************************************)
EXTENDS MotionTracking, TLAPS

\* A frame that the policy asks for is one the motion has.
LEMMA PolicyStepInRange ==
  ASSUME NEW step \in Nat
  PROVE  PolicyStep(step) \in Frames
<1>1. CASE LoopMotion /\ MotionLength > 0
  <2>1. step % MotionLength \in 0 .. (MotionLength - 1)
    BY <1>1, MotionAssumption
  <2> QED BY <1>1, <2>1 DEF PolicyStep, Frames
<1>2. CASE ~(LoopMotion /\ MotionLength > 0)
  BY <1>2 DEF PolicyStep, Frames
<1> QED BY <1>1, <1>2

LEMMA OneMoreStride ==
  ASSUME NEW n \in Nat
  PROVE  /\ TimeStepStride * n \in Nat
         /\ TimeStepStride * (n + 1) = TimeStepStride * n + TimeStepStride
BY MotionAssumption

LEMMA OneMorePeriod ==
  ASSUME NEW n \in Nat
  PROVE  /\ (n - 1) * ActionPolicyPeriod \in Int
         /\ ((n + 1) - 1) * ActionPolicyPeriod
               = (n - 1) * ActionPolicyPeriod + ActionPolicyPeriod
BY ControllerAssumption

\* What a reset of the policy leaves, and the alignment after it.
LEMMA ResetType ==
  ASSUME TypeOK, ResetPolicy
  PROVE  /\ timeStep' \in Nat /\ frame' \in Frames
         /\ resets' \in Nat /\ forwards' \in Nat /\ firstForward' \in 0 .. MaxTime
<1>1. PolicyStep(StartStep) \in Frames
  BY MotionAssumption, PolicyStepInRange
<1> QED BY <1>1, MotionAssumption DEF ResetPolicy, TypeOK

\* The time of a target, and the reset it belongs to, keep their type.
Targets == [has : BOOLEAN, at : 0 .. MaxTime, reset : Nat]

LEMMA ForgetTargetType ==
  ASSUME TypeOK, ForgetTarget
  PROVE  target' \in Targets
BY DEF TypeOK, ForgetTarget, Targets

\* What a forward leaves.
LEMMA ForwardType ==
  ASSUME TypeOK, Forward
  PROVE  /\ timeStep' \in Nat /\ frame' \in Frames
         /\ resets' \in Nat /\ forwards' \in Nat /\ firstForward' \in 0 .. MaxTime
<1>1. PolicyStep(timeStep) \in Frames
  BY PolicyStepInRange DEF TypeOK
<1>2. timeStep + TimeStepStride \in Nat /\ forwards + 1 \in Nat
  BY MotionAssumption DEF TypeOK
<1>3. (IF forwards = 0 THEN clock ELSE firstForward) \in 0 .. MaxTime
  BY DEF TypeOK
<1> QED BY <1>1, <1>2, <1>3 DEF Forward, TypeOK

\* The frame of a looping motion is always one that it has, and every variable
\* keeps its type.
THEOREM MotionTypeCorrect == Spec => []TypeOK
<1>0. MaxTime \in Nat /\ 0 \in 0 .. MaxTime /\ MujocoResetHoldDuration \in Nat
  BY ControllerAssumption
<1>1. Init => TypeOK
  <2>1. NoTarget \in [has : BOOLEAN, at : 0 .. MaxTime, reset : Nat]
    BY <1>0 DEF NoTarget
  <2>2. Init => pendingStartup \in BOOLEAN /\ requestsReset \in BOOLEAN
    BY DEF Init
  <2>3. 0 \in Nat
    OBVIOUS
  <2> QED BY <1>0, <2>1, <2>2, <2>3, Zenon DEF Init, TypeOK, Modes, TargetModes, Lengths
<1>2. TypeOK /\ [Next]_vars => TypeOK'
  <2> SUFFICES ASSUME TypeOK, [Next]_vars PROVE TypeOK'
    OBVIOUS
  <2>1. CASE Configure
    BY <2>1 DEF TypeOK, Configure, ForgetTarget, startupVars, NoFrame
  <2>2. CASE Activate
    <3>1. ResetPolicy /\ aligned' = frame'
      BY <2>2 DEF Activate, AlignMotion
    <3>2. ResetPolicy => /\ timeStep' \in Nat /\ frame' \in Frames
             /\ resets' \in Nat /\ forwards' \in Nat /\ firstForward' \in 0 .. MaxTime
      BY ResetType
    <3>3. skipUntil' \in Nat
      <4>1. clock + MujocoResetHoldDuration \in Nat
        BY <1>0 DEF TypeOK
      <4> QED BY <2>2, <4>1 DEF TypeOK, Activate, startupVars
    <3>4. pendingStartup' \in BOOLEAN
      BY <2>2 DEF TypeOK, Activate, startupVars
    <3>5. target' \in Targets
      BY <2>2, ForgetTargetType DEF Activate
    <3> QED BY <2>2, <3>1, <3>2, <3>3, <3>4, <3>5 DEF TypeOK, Activate, Targets, configVars
  <2>3. CASE ActivateFails \/ Deactivate \/ Cleanup \/ BaseUpdateFails \/ UpdateHeld
    BY <2>3 DEF TypeOK, ActivateFails, Deactivate, Cleanup, BaseUpdateFails, UpdateHeld,
                startupVars, motionVars, configVars
  <2>4. CASE UpdateStart
    <3>1. CASE pendingStartup
      <4>1. ResetPolicy /\ aligned' = frame' /\ ForgetTarget
        BY <2>4, <3>1 DEF UpdateStart, StartupReset, AlignMotion
      <4>2. ResetPolicy => /\ timeStep' \in Nat /\ frame' \in Frames
              /\ resets' \in Nat /\ forwards' \in Nat /\ firstForward' \in 0 .. MaxTime
        BY ResetType
      <4> QED BY <2>4, <4>1, <4>2 DEF TypeOK, UpdateStart, ForgetTarget, configVars
    <3>2. CASE ~pendingStartup
      BY <2>4, <3>2 DEF TypeOK, UpdateStart, StartupReset, motionVars, configVars
    <3> QED BY <3>1, <3>2 DEF TypeOK
  <2>5. CASE WriteTarget
    <3>1. /\ timeStep' \in Nat /\ frame' \in Frames \cup {NoFrame}
          /\ resets' \in Nat /\ forwards' \in Nat /\ firstForward' \in 0 .. MaxTime
      BY <2>5, ForwardType DEF WriteTarget, TypeOK, motionVars
    <3>2. [has |-> TRUE, at |-> clock, reset |-> resets] \in Targets /\ target \in Targets
      BY DEF TypeOK, Targets
    <3>3. target' \in Targets
      BY <2>5, <3>2 DEF WriteTarget, TypeOK, Targets
    <3> QED BY <2>5, <3>1, <3>3 DEF TypeOK, WriteTarget, Targets, startupVars, configVars
  <2>6. CASE RlControllerUpdate
    <3>1. /\ timeStep' \in Nat /\ frame' \in Frames \cup {NoFrame}
          /\ resets' \in Nat /\ forwards' \in Nat /\ firstForward' \in 0 .. MaxTime
      BY <2>6, ForwardType DEF RlControllerUpdate, TypeOK, motionVars
    <3> QED BY <2>6, <3>1 DEF TypeOK, RlControllerUpdate, startupVars, configVars
  <2>7. CASE ClockTick
    BY <1>0, <2>7 DEF TypeOK, ClockTick, startupVars, motionVars, configVars
  <2>8. CASE UNCHANGED vars
    BY <2>8 DEF TypeOK, vars, startupVars, motionVars, configVars
  <2> QED BY <2>1, <2>2, <2>3, <2>4, <2>5, <2>6, <2>7, <2>8 DEF Next, Transition, Update
<1> QED BY <1>1, <1>2, PTL DEF Spec

\* Whatever an earlier activation or the hold left in the policy, what is put
\* where the robot stood is the first frame.
THEOREM AlignedAtReset == Spec => []AlignedToFirstFrame
<1>1. Init => AlignedToFirstFrame
  BY DEF Init, AlignedToFirstFrame
<1>2. AlignedToFirstFrame /\ [Next]_vars => AlignedToFirstFrame'
  <2> SUFFICES ASSUME AlignedToFirstFrame, [Next]_vars PROVE AlignedToFirstFrame'
    OBVIOUS
  <2> USE DEF AlignedToFirstFrame
  <2>1. CASE Configure \/ ActivateFails \/ Deactivate \/ Cleanup
    BY <2>1 DEF Configure, ActivateFails, Deactivate, Cleanup
  <2>2. CASE Activate
    BY <2>2 DEF Activate, ResetPolicy, AlignMotion
  <2>3. CASE UpdateStart
    BY <2>3 DEF UpdateStart, StartupReset, ResetPolicy, AlignMotion
  <2>4. CASE UpdateHeld \/ BaseUpdateFails \/ WriteTarget \/ RlControllerUpdate \/ ClockTick
    BY <2>4 DEF UpdateHeld, BaseUpdateFails, WriteTarget, RlControllerUpdate, ClockTick
  <2>5. CASE UNCHANGED vars
    BY <2>5 DEF vars
  <2> QED BY <2>1, <2>2, <2>3, <2>4, <2>5 DEF Next, Transition, Update
<1> QED BY <1>1, <1>2, PTL DEF Spec

\* A part of update() that forwards is one of an active controller, after the
\* hold.
LEMMA UpdateOfActive == Spec => []UpdateInv
<1>1. Init => UpdateInv
  BY DEF Init, UpdateInv
<1>2. UpdateInv /\ [Next]_vars => UpdateInv'
  BY DEF UpdateInv, Next, Transition, Update, Configure, Activate, ActivateFails, Deactivate,
         Cleanup, UpdateHeld, UpdateStart, BaseUpdateFails, WriteTarget,
         RlControllerUpdate, ClockTick, vars, startupVars
<1> QED BY <1>1, <1>2, PTL DEF Spec

\* For every start, stride and length: the frame that the robot is compared with
\* and the frame that is evaluated next stay one stride apart.
THEOREM FramesStayInStep == Spec => []FramesInStep
<1>1. Init => FramesInStep
  BY DEF Init, FramesInStep
<1>2. TypeOK /\ UpdateInv /\ FramesInStep /\ [Next]_vars => FramesInStep'
  <2> SUFFICES ASSUME TypeOK, UpdateInv, FramesInStep, [Next]_vars PROVE FramesInStep'
    OBVIOUS
  <2> USE DEF FramesInStep
  <2>1. ASSUME ResetPolicy PROVE FramesInStep'
    <3>1. /\ StartStep + TimeStepStride * 0 = StartStep
          /\ StartStep + TimeStepStride * (0 + 1) = StartStep + TimeStepStride
      BY MotionAssumption
    <3> QED BY <2>1, <3>1 DEF ResetPolicy
  <2>2. ASSUME Forward, lifecycle = "active" PROVE FramesInStep'
    <3>1. forwards' = forwards + 1 /\ frame' = PolicyStep(timeStep)
      BY <2>2 DEF Forward
    <3>2. timeStep = StartStep + TimeStepStride * (forwards + 1)
      BY <2>2
    <3>3. forwards + 1 \in Nat
      BY DEF TypeOK
    <3>4. TimeStepStride * ((forwards + 1) + 1) = TimeStepStride * (forwards + 1) + TimeStepStride
      BY <3>3, OneMoreStride
    <3>5. TimeStepStride * (forwards + 1) \in Nat
      BY <3>3, OneMoreStride
    <3>6. timeStep + TimeStepStride = StartStep + TimeStepStride * ((forwards + 1) + 1)
      BY <3>2, <3>4, <3>5, MotionAssumption
    <3>7. timeStep' = timeStep + TimeStepStride
      BY <2>2 DEF Forward
    <3> QED BY <3>1, <3>2, <3>6, <3>7
  <2>3. ASSUME UNCHANGED motionVars, lifecycle' = "active" => lifecycle = "active"
        PROVE  FramesInStep'
    BY <2>3 DEF motionVars
  <2>4. CASE Configure \/ ActivateFails \/ Deactivate \/ Cleanup
    BY <2>4 DEF Configure, ActivateFails, Deactivate, Cleanup
  <2>5. CASE Activate
    BY <2>1, <2>5 DEF Activate
  <2>6. CASE UpdateStart
    BY <2>1, <2>3, <2>6 DEF UpdateStart, StartupReset
  <2>7. CASE UpdateHeld \/ BaseUpdateFails \/ ClockTick
    BY <2>3, <2>7 DEF UpdateHeld, BaseUpdateFails, ClockTick
  <2>8. CASE WriteTarget
    BY <2>2, <2>3, <2>8 DEF WriteTarget, UpdateInv
  <2>9. CASE RlControllerUpdate
    BY <2>2, <2>3, <2>9 DEF RlControllerUpdate, UpdateInv
  <2>10. CASE UNCHANGED vars
    BY <2>3, <2>10 DEF vars
  <2> QED BY <2>4, <2>5, <2>6, <2>7, <2>8, <2>9, <2>10 DEF Next, Transition, Update
<1> QED BY <1>1, <1>2, MotionTypeCorrect, UpdateOfActive, PTL DEF Spec

\* Nothing is commanded while the simulator holds its reset state, whatever the
\* activations before this one left pending.
THEOREM HoldRespected == Spec => []NoCommandDuringHold
<1> DEFINE Inv == HoldOver /\ NoCommandDuringHold
<1>1. Init => Inv
  BY DEF Init, HoldOver, NoCommandDuringHold
<1>2. TypeOK /\ UpdateInv /\ Inv /\ [Next]_vars => Inv'
  <2> SUFFICES ASSUME TypeOK, UpdateInv, Inv, [Next]_vars PROVE Inv'
    OBVIOUS
  <2> USE DEF HoldOver, NoCommandDuringHold
  <2>1. CASE ActivateFails \/ Deactivate \/ Cleanup \/ UpdateHeld \/ Configure
    BY <2>1 DEF ActivateFails, Deactivate, Cleanup, UpdateHeld, Configure, startupVars
  <2>2. CASE Activate
    BY <2>2 DEF Activate, startupVars
  <2>3. CASE UpdateStart
    <3>1. pendingStartup => skipUntil <= clock
      BY <2>3 DEF UpdateStart, InHold, TypeOK
    <3> QED BY <2>3, <3>1 DEF UpdateStart
  <2>4. CASE BaseUpdateFails
    BY <2>4 DEF BaseUpdateFails, startupVars
  <2>5. CASE WriteTarget \/ RlControllerUpdate
    <3>1. ~pendingStartup
      BY <2>5 DEF WriteTarget, RlControllerUpdate, UpdateInv
    <3> QED BY <2>5, <3>1 DEF WriteTarget, RlControllerUpdate, startupVars
  <2>6. CASE ClockTick
    <3>1. skipUntil <= clock => skipUntil <= clock + 1
      BY DEF TypeOK
    <3>2. clock' = clock + 1 /\ UNCHANGED startupVars /\ written' = "none"
      BY <2>6 DEF ClockTick
    <3> QED BY <3>1, <3>2 DEF startupVars
  <2>7. CASE UNCHANGED vars
    BY <2>7 DEF vars, startupVars
  <2> QED BY <2>1, <2>2, <2>3, <2>4, <2>5, <2>6, <2>7 DEF Next, Transition, Update
<1> QED BY <1>1, <1>2, MotionTypeCorrect, UpdateOfActive, PTL DEF Spec

\* There is a target exactly when the motion has begun and the metadata lets one be
\* computed, and it is of this motion.
LEMMA TargetAndMotion == Spec => []TargetInv
<1>1. Init => TargetInv
  BY DEF Init, TargetInv
<1>2. TypeOK /\ UpdateInv /\ TargetInv /\ [Next]_vars => TargetInv'
  <2> SUFFICES ASSUME TypeOK, UpdateInv, TargetInv, [Next]_vars PROVE TargetInv'
    OBVIOUS
  <2> USE DEF TargetInv
  <2>1. ASSUME ResetPolicy, ForgetTarget PROVE TargetInv'
    <3>1. forwards' = 0 /\ ~(forwards' > 0)
      BY <2>1 DEF ResetPolicy
    <3>2. target'.has = FALSE
      BY <2>1 DEF ForgetTarget, TypeOK
    <3> QED BY <3>1, <3>2
  <2>2. ASSUME UNCHANGED <<motionVars, target, mode, lengths>>, lifecycle' = "active" => lifecycle = "active"
        PROVE  TargetInv'
    BY <2>2 DEF motionVars
  <2>3. CASE Configure \/ ActivateFails \/ Deactivate \/ Cleanup
    BY <2>3 DEF Configure, ActivateFails, Deactivate, Cleanup
  <2>4. CASE Activate
    BY <2>1, <2>4 DEF Activate
  <2>5. CASE UpdateStart
    BY <2>1, <2>2, <2>5 DEF UpdateStart, StartupReset, configVars
  <2>6. CASE UpdateHeld \/ BaseUpdateFails \/ ClockTick
    BY <2>2, <2>6 DEF UpdateHeld, BaseUpdateFails, ClockTick, configVars
  <2>7. CASE WriteTarget
    <3>1. CASE ShouldUpdatePolicy
      <4>1. /\ Forward /\ UNCHANGED <<mode, lengths>>
            /\ target' = IF lengths = "wrongForTarget" THEN target
                         ELSE [has |-> TRUE, at |-> clock, reset |-> resets]
        BY <2>7, <3>1 DEF WriteTarget, configVars
      <4>2. forwards' > 0
        <5>1. forwards + 1 > 0
          BY DEF TypeOK
        <5> QED BY <4>1, <5>1 DEF Forward
      <4>3. resets' = resets
        BY <4>1 DEF Forward
      <4>4. lifecycle = "active" /\ mode \in TargetModes
        BY <2>7 DEF WriteTarget, UpdateInv
      <4> QED BY <4>1, <4>2, <4>3, <4>4
    <3>2. CASE ~ShouldUpdatePolicy
      BY <2>2, <2>7, <3>2 DEF WriteTarget, configVars
    <3> QED BY <3>1, <3>2
  <2>8. CASE RlControllerUpdate
    BY <2>8 DEF RlControllerUpdate, TargetModes, configVars
  <2>9. CASE UNCHANGED vars
    BY <2>2, <2>9 DEF vars, configVars
  <2> QED BY <2>3, <2>4, <2>5, <2>6, <2>7, <2>8, <2>9 DEF Next, Transition, Update
<1> QED BY <1>1, <1>2, MotionTypeCorrect, UpdateOfActive, PTL DEF Spec

\* No target outlives the reset that starts the motion again, nor its activation.
THEOREM TargetIsOfThisMotion == Spec => []TargetOfThisMotion
<1>1. Init => TargetOfThisMotion
  BY DEF Init, TargetOfThisMotion
<1>2. TypeOK /\ UpdateInv /\ TargetInv /\ TargetInv' /\ TargetOfThisMotion /\ [Next]_vars
        => TargetOfThisMotion'
  <2> SUFFICES ASSUME TypeOK, UpdateInv, TargetInv, TargetInv', TargetOfThisMotion, [Next]_vars
               PROVE  TargetOfThisMotion'
    OBVIOUS
  <2> USE DEF TargetOfThisMotion
  <2>1. CASE Configure \/ Activate \/ UpdateHeld \/ UpdateStart \/ ClockTick
    BY <2>1 DEF Configure, Activate, UpdateHeld, UpdateStart, ClockTick
  <2>2. CASE ActivateFails \/ Deactivate \/ Cleanup \/ BaseUpdateFails
    BY <2>2 DEF ActivateFails, Deactivate, Cleanup, BaseUpdateFails, motionVars, configVars
  <2>3. CASE WriteTarget
    <3>1. mode \in TargetModes /\ lifecycle = "active" /\ UNCHANGED <<lifecycle, mode>>
      BY <2>3 DEF WriteTarget, UpdateInv, configVars
    <3>2. CASE ShouldUpdatePolicy
      BY <2>3, <3>2 DEF WriteTarget, Forward
    <3>3. CASE ~ShouldUpdatePolicy
      BY <2>3, <3>1, <3>3 DEF WriteTarget, ShouldUpdatePolicy, TargetInv, motionVars
    <3> QED BY <3>2, <3>3
  <2>4. CASE RlControllerUpdate
    BY <2>4 DEF RlControllerUpdate, TargetModes, configVars
  <2>5. CASE UNCHANGED vars
    BY <2>5 DEF vars, motionVars, configVars
  <2> QED BY <2>1, <2>2, <2>3, <2>4, <2>5 DEF Next, Transition, Update
<1> QED BY <1>1, <1>2, MotionTypeCorrect, UpdateOfActive, TargetAndMotion, PTL DEF Spec

\* For every period: where there are targets, n forwards take at least n - 1 periods.
THEOREM PaceKept == Spec => []MotionNotAhead
<1>1. Init => PaceInv
  BY DEF Init, PaceInv
<1>2. TypeOK /\ UpdateInv /\ TargetInv /\ PaceInv /\ [Next]_vars => PaceInv'
  <2> SUFFICES ASSUME TypeOK, UpdateInv, TargetInv, PaceInv, [Next]_vars PROVE PaceInv'
    OBVIOUS
  <2> USE DEF PaceInv
  <2>1. ASSUME ForgetTarget PROVE PaceInv'
    BY <2>1 DEF ForgetTarget, TypeOK
  <2>2. ASSUME UNCHANGED <<clock, motionVars, target, mode>>,
               lifecycle' = "active" => lifecycle = "active"
        PROVE  PaceInv'
    BY <2>2 DEF motionVars
  <2>3. CASE Configure \/ ActivateFails \/ Deactivate \/ Cleanup
    BY <2>3 DEF Configure, ActivateFails, Deactivate, Cleanup
  <2>4. CASE Activate
    BY <2>1, <2>4 DEF Activate
  <2>5. CASE UpdateStart
    BY <2>1, <2>2, <2>5 DEF UpdateStart, StartupReset, configVars
  <2>6. CASE UpdateHeld \/ BaseUpdateFails
    BY <2>2, <2>6 DEF UpdateHeld, BaseUpdateFails, configVars
  <2>7. CASE ClockTick
    <3>1. target.at <= clock => target.at <= clock + 1
      BY DEF TypeOK
    <3>2. clock' = clock + 1 /\ UNCHANGED <<lifecycle, mode, motionVars, target>>
      BY <2>7 DEF ClockTick, configVars
    <3> QED BY <3>1, <3>2 DEF motionVars
  <2>8. CASE WriteTarget
    <3>1. mode \in TargetModes /\ lifecycle = "active"
      BY <2>8 DEF WriteTarget, UpdateInv
    <3>2. CASE ~ShouldUpdatePolicy
      BY <2>2, <2>8, <3>2 DEF WriteTarget, configVars
    <3>3. CASE ShouldUpdatePolicy
      <4>1. /\ Forward /\ clock' = clock
            /\ target' = IF lengths = "wrongForTarget" THEN target
                         ELSE [has |-> TRUE, at |-> clock, reset |-> resets]
        BY <2>8, <3>3 DEF WriteTarget
      <4>2. clock <= clock /\ clock \in Int
        BY DEF TypeOK
      <4>3. CASE lengths = "wrongForTarget"
        BY <3>1, <4>1, <4>3 DEF TargetInv
      <4>4. lengths # "wrongForTarget" => target'.at = clock
        BY <4>1
      <4>5. CASE lengths # "wrongForTarget" /\ forwards = 0
        <5>1. forwards' = 1 /\ firstForward' = clock
          BY <4>1, <4>5 DEF Forward
        <5>2. clock + (1 - 1) * ActionPolicyPeriod <= clock
          BY <4>2, ControllerAssumption
        <5> QED BY <4>1, <4>2, <4>4, <4>5, <5>1, <5>2
      <4>6. CASE lengths # "wrongForTarget" /\ forwards > 0
        <5>1. target.has
          BY <3>1, <4>6 DEF TargetInv
        <5>2. ActionPolicyPeriod <= 0 \/ clock - target.at >= ActionPolicyPeriod
          BY <3>3, <5>1 DEF ShouldUpdatePolicy
        <5>3. target.at \in Int /\ firstForward \in Int /\ forwards \in Nat
          BY DEF TypeOK
        <5>4. target.at <= clock /\ firstForward + (forwards - 1) * ActionPolicyPeriod <= target.at
          BY <3>1, <5>1
        <5>5. target.at + ActionPolicyPeriod <= clock
          BY <4>2, <5>2, <5>3, <5>4, ControllerAssumption
        <5>6. /\ (forwards - 1) * ActionPolicyPeriod \in Int
              /\ ((forwards + 1) - 1) * ActionPolicyPeriod
                    = (forwards - 1) * ActionPolicyPeriod + ActionPolicyPeriod
          BY <5>3, OneMorePeriod
        <5> DEFINE k == (forwards - 1) * ActionPolicyPeriod
        <5> HIDE DEF k
        <5>7. firstForward + (k + ActionPolicyPeriod) <= clock
          <6>1. k \in Int /\ firstForward + k <= target.at
            BY <5>4, <5>6 DEF k
          <6> QED BY <4>2, <5>3, <5>5, <6>1, ControllerAssumption
        <5>8. firstForward + ((forwards + 1) - 1) * ActionPolicyPeriod <= clock
          BY <5>6, <5>7 DEF k
        <5>9. forwards' = forwards + 1 /\ firstForward' = firstForward
          BY <4>1, <4>6, <5>3 DEF Forward
        <5> QED BY <4>1, <4>2, <4>4, <4>6, <5>8, <5>9
      <4> QED BY <4>3, <4>5, <4>6 DEF TypeOK
    <3> QED BY <3>2, <3>3
  <2>9. CASE RlControllerUpdate
    BY <2>9 DEF RlControllerUpdate, TargetModes, configVars
  <2>10. CASE UNCHANGED vars
    BY <2>2, <2>10 DEF vars, configVars
  <2> QED BY <2>3, <2>4, <2>5, <2>6, <2>7, <2>8, <2>9, <2>10 DEF Next, Transition, Update
<1>3. TypeOK /\ PaceInv => MotionNotAhead
  <2> SUFFICES ASSUME TypeOK, PaceInv,
                      lifecycle = "active", mode \in TargetModes, target.has
               PROVE  firstForward + (forwards - 1) * ActionPolicyPeriod <= clock
    BY DEF MotionNotAhead
  <2>1. (forwards - 1) * ActionPolicyPeriod \in Int
    BY OneMorePeriod DEF TypeOK
  <2>2. target.at <= clock /\ firstForward + (forwards - 1) * ActionPolicyPeriod <= target.at
    BY DEF PaceInv
  <2>3. clock \in Int /\ target.at \in Int /\ firstForward \in Int
    BY DEF TypeOK
  <2> QED BY <2>1, <2>2, <2>3
<1> QED BY <1>1, <1>2, <1>3, MotionTypeCorrect, UpdateOfActive, TargetAndMotion, PTL DEF Spec
=============================================================================
