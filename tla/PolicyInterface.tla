--------------------------- MODULE PolicyInterface ---------------------------
(***************************************************************************)
(* How SoftTouchDribbleController and its ONNX policy agree on what the    *)
(* numbers of an observation and of an action mean: the metadata that is   *)
(* parsed in on_configure, the layout that is checked in on_activate, and  *)
(* the history, the assembly and the joint vectors of update().            *)
(*                                                                         *)
(* A component of an observation is abstracted to the term it belongs to,  *)
(* its place in the term and the number of the frame it was measured in.   *)
(* The inputs, the routes and the hold of update() are in                  *)
(* DribbleController; here an update holds or forwards as it likes.        *)
(***************************************************************************)
EXTENDS JointOrder, FiniteSets, SequencesExt

CONSTANTS
  Terms,            \* names of observation terms
  DecoderTerms,     \* "decoder_..." and "last_decoded_action"
  Size,             \* getSize of the term that parserObservation adds
  Models,           \* ONNX models: metadata, and widths of the input and the outputs
  Setups,           \* parameters, and what the base class makes of them
  FactorNum, FactorDen,   \* joint_limit_factor
  RawTargets,       \* joint targets before the clip
  MaxFrames         \* bound of the model

ASSUME TermsAssumption ==
  /\ DecoderTerms \subseteq Terms
  /\ Size \in [Terms -> Nat \ {0}]
ASSUME FactorAssumption == FactorDen \in Nat \ {0} /\ FactorNum \in 1 .. FactorDen
ASSUME TargetsAssumption == RawTargets \subseteq Int
ASSUME BoundAssumption == MaxFrames \in Nat
\* Names, widths that were parsed as unsigned numbers, and names of joints; the
\* lengths are what the metadata says and may disagree, also with the outputs (actions
\* and latent).  Of default_joint_pos and action_scale only the length matters here.
ASSUME ModelsAssumption ==
  \A m \in Models :
    /\ m.names \in Seq(Terms) /\ m.dims \in Seq(Nat)
    /\ {m.actorDim, m.history, m.decoderDim, m.obsInput} \subseteq Nat
    /\ {m.defaults, m.scales, m.latentDim, m.actions, m.latent} \subseteq Nat
    /\ m.joints \in Seq(JointNames)
\* The controller commands no more joints than the policy has, and none twice.
ASSUME SetupsAssumption ==
  \A s \in Setups :
    /\ s.managed \in Seq(Terms)
    /\ s.paramLimits \in Seq(Int \X Int)
    /\ s.hardLimits \in [JointNames -> Int \X Int]
    /\ s.controlOrder \in Seq(JointNames)
    /\ Len(s.controlOrder) <= NumJoints
    /\ \A c, d \in DOMAIN s.controlOrder :
         s.controlOrder[c] = s.controlOrder[d] => c = d

VARIABLES
  lifecycle,
  model,         \* the loaded metadata
  managed,       \* the terms of observationManager_, in order
  controlOrder,
  clip,          \* clipJointTarget_, jointTargetLower_, jointTargetUpper_
  layout,        \* actorHistoryLength_, actorObservationDim_,
                 \*   actorSingleFrameDim_, decoderStateDim_
  toControl,     \* policyToControlIndex_
  frames,        \* actorFrameHistory_
  frameNo,       \* frames measured so far
  firstFrame,    \* the first of them since the history was last emptied
  obs,           \* the assembled observation of the last update
  target,        \* effortTargetPolicyOrder_
  command,       \* the last position command, in control order
  outcome        \* of the last update

loadedVars == <<model, managed, controlOrder, clip>>
layoutVars == <<layout, toControl>>
historyVars == <<frames, frameNo, firstFrame, obs>>
vars == <<lifecycle, loadedVars, layoutVars, historyVars, target, command, outcome>>

NoModel == [names |-> <<>>, dims |-> <<>>, actorDim |-> 0, history |-> 1,
            decoderDim |-> 0, obsInput |-> 0, joints |-> <<>>, defaults |-> 0, scales |-> 0,
            latentDim |-> 0, actions |-> 0, latent |-> 0]
NoLayout == [history |-> 1, actorDim |-> 0, single |-> 0, decoderDim |-> 0]
NoClip == [on |-> FALSE, range |-> [p \in Joints |-> <<0, 0>>]]
NoMapping == [p \in Joints |-> NotFound]

Cells == [term : Terms, part : Nat \ {0}, frame : Nat \ {0}]
Garbage == [term |-> "uninitialised", part |-> 0, frame |-> 0]
Entries == [from : JointNames, at : Int] \cup {Unwritten}

TypeOK ==
  /\ lifecycle \in {"unconfigured", "inactive", "active", "finalized"}
  /\ model \in Models \cup {NoModel}
  /\ managed \in {s.managed : s \in Setups} \cup {<<>>}
  /\ controlOrder \in {s.controlOrder : s \in Setups} \cup {<<>>}
  /\ clip.on \in BOOLEAN /\ clip.range \in [Joints -> Int \X Int]
  /\ layout \in [history : Nat \ {0}, actorDim : Nat, single : Nat, decoderDim : Nat]
  /\ toControl \in [Joints -> 0 .. NumJoints]
  /\ frames \in Seq(Seq(Cells))
  /\ frames = <<>> \/ Len(frames) = layout.history
  /\ frameNo \in 0 .. MaxFrames
  /\ firstFrame \in 1 .. frameNo + 1
  /\ obs \in Seq(Cells \cup {Garbage})
  /\ target \in {<<>>} \cup [Joints -> Entries]
  /\ command \in {<<>>} \cup [Joints -> Entries]
  /\ outcome \in {"none", "held", "policy", "threw"}

Init ==
  /\ lifecycle = "unconfigured"
  /\ model = NoModel
  /\ managed = <<>>
  /\ controlOrder = <<>>
  /\ clip = NoClip
  /\ layout = NoLayout
  /\ toControl = NoMapping
  /\ frames = <<>>
  /\ frameNo = 0
  /\ firstFrame = 1
  /\ obs = <<>>
  /\ target = <<>>
  /\ command = <<>>
  /\ outcome = "none"

-----------------------------------------------------------------------------
(* on_configure *)

SumOf(widths) == FoldLeft(LAMBDA sum, width : sum + width, 0, widths)

\* parseMetadata does not throw: a field that is absent has its default.
MetadataParses(m) ==
  /\ m.defaults = NumJoints /\ m.scales = NumJoints
  /\ m.latentDim > 0
  /\ Len(m.joints) = NumJoints
  /\ m.names # <<>> => Len(m.names) = Len(m.dims)

Usable(range) == range[1] < range[2]

\* configureJointTargetClip: the limits of the parameters, which are in policy
\* order, or else those of the robot description, which are found by name.
ClipRanges(m, s) ==
  IF s.paramLimits # <<>> THEN s.paramLimits
  ELSE [p \in Joints |-> s.hardLimits[m.joints[p]]]

ConfiguredClip(ranges) ==
  IF \E p \in Joints : Usable(ranges[p])
  THEN [on |-> TRUE, range |-> [p \in Joints |-> ranges[p]]]
  ELSE NoClip

\* The base class parses the observation terms and claims the command joints.
\* Limits of a wrong length, and metadata that does not parse, throw.  The frame
\* history keeps its frames.
Configure ==
  /\ lifecycle = "unconfigured"
  /\ \E m \in Models, s \in Setups :
       /\ MetadataParses(m)
       /\ s.clipTarget /\ s.paramLimits # <<>> => Len(s.paramLimits) = NumJoints
       /\ model' = m
       /\ managed' = s.managed
       /\ controlOrder' = s.controlOrder
       /\ clip' = IF s.clipTarget THEN ConfiguredClip(ClipRanges(m, s)) ELSE NoClip
  /\ lifecycle' = "inactive"
  /\ target' = <<>>
  /\ command' = <<>>
  /\ outcome' = "none"
  /\ UNCHANGED <<layoutVars, historyVars>>

-----------------------------------------------------------------------------
(* on_activate *)

\* Widths that the metadata declares for the actor's and the decoder's terms.
DimsOf(m, which) ==
  SumOf([i \in DOMAIN m.names |-> IF m.names[i] \in which THEN m.dims[i] ELSE 0])

ActorDims(m) == DimsOf(m, Terms \ DecoderTerms)
DecoderDims(m) == DimsOf(m, DecoderTerms)

\* observationManager_->getSize(), every term with a history of one frame.
ManagedSize == SumOf([i \in DOMAIN managed |-> Size[managed[i]]])

\* A width of 0 is not declared, and taken from the terms.
LayoutOf(m) ==
  LET history == IF m.history > 1 THEN m.history ELSE 1
      actorDim == IF m.actorDim = 0 THEN ActorDims(m) * history ELSE m.actorDim
  IN [history |-> history, actorDim |-> actorDim, single |-> actorDim \div history,
      decoderDim |-> IF m.decoderDim = 0 THEN DecoderDims(m) ELSE m.decoderDim]

\* Mutants of LayoutAccepted: a width is not compared.
LayoutAcceptedUnmanaged ==
  LET l == LayoutOf(model)
  IN /\ model.names # <<>> /\ model.dims # <<>>
     /\ l.actorDim % l.history = 0
     /\ l.single = ActorDims(model) /\ l.decoderDim = DecoderDims(model)
     /\ l.actorDim + l.decoderDim = model.obsInput

LayoutAcceptedAnyInput ==
  LET l == LayoutOf(model)
  IN /\ model.names # <<>> /\ model.dims # <<>>
     /\ l.actorDim % l.history = 0
     /\ l.single = ActorDims(model) /\ l.decoderDim = DecoderDims(model)
     /\ ManagedSize = l.single + l.decoderDim

\* configureObservationLayout does not throw.
LayoutAccepted ==
  LET l == LayoutOf(model)
  IN /\ model.names # <<>> /\ model.dims # <<>>
     /\ l.actorDim % l.history = 0
     /\ l.single = ActorDims(model)
     /\ l.decoderDim = DecoderDims(model)
     /\ ManagedSize = l.single + l.decoderDim
     /\ l.actorDim + l.decoderDim = model.obsInput

\* Mutant of ResetObservationHistory: nothing is cleared.
KeepObservationHistory == UNCHANGED frames /\ firstFrame' = frameNo + 1

ResetObservationHistory == frames' = <<>> /\ firstFrame' = frameNo + 1

Activate ==
  /\ lifecycle = "inactive"
  /\ LayoutAccepted
  /\ layout' = LayoutOf(model)
  /\ toControl' = PolicyToControlIndex(model.joints, controlOrder)
  /\ MappingComplete(toControl')
  /\ ResetObservationHistory
  /\ lifecycle' = "active"
  /\ outcome' = "none"
  /\ obs' = <<>>
  /\ command' = <<>>
  /\ target' \in {<<>>, target}
  /\ UNCHANGED <<loadedVars, frameNo>>

\* An exception of either check, or a failure of the base class, is an ERROR:
\* the node is finalized.
ActivateFails ==
  /\ lifecycle = "inactive"
  /\ lifecycle' = "finalized"
  /\ UNCHANGED <<loadedVars, layoutVars, historyVars, target, command, outcome>>

Deactivate ==
  /\ lifecycle = "active"
  /\ lifecycle' = "inactive"
  /\ obs' = <<>>
  /\ command' = <<>>
  /\ outcome' = "none"
  /\ UNCHANGED <<loadedVars, layoutVars, frames, frameNo, firstFrame, target>>

Cleanup ==
  /\ lifecycle = "inactive"
  /\ lifecycle' = "unconfigured"
  /\ UNCHANGED <<loadedVars, layoutVars, historyVars, target, command, outcome>>

-----------------------------------------------------------------------------
(* update() *)

\* observationManager_->getValue(): the terms one after the other.
MeasuredFrame(number) ==
  FlattenSeq([i \in DOMAIN managed |->
    [k \in 1 .. Size[managed[i]] |->
       [term |-> managed[i], part |-> k, frame |-> number]]])

\* frame.segment(from, width): what lies outside the frame is not initialised.
Segment(frame, from, width) ==
  [k \in 1 .. width |-> IF from + k <= Len(frame) THEN frame[from + k] ELSE Garbage]

\* Mutant of Pushed: the oldest frame is not dropped.
PushedWithoutPop(frame) ==
  IF frames = <<>> THEN [i \in 1 .. layout.history |-> frame]
  ELSE Append(frames, frame)

Pushed(frame) ==
  IF frames = <<>> THEN [i \in 1 .. layout.history |-> frame]
  ELSE Append(Tail(frames), frame)

\* The terms the assembly visits: it stops at the first term of the decoder.
VisitedTerms ==
  {i \in DOMAIN model.names : \A j \in 1 .. i : model.names[j] \notin DecoderTerms}

\* actorTermCursor when the assembly comes to a term, and after the last.
CursorAt(i) == SumOf(SubSeq(model.dims, 1, i - 1))

VisitedWidth == CursorAt(Cardinality(VisitedTerms) + 1)

\* None of the exceptions of buildPolicyObservation.
Assembles ==
  /\ ManagedSize = layout.single + layout.decoderDim
  /\ VisitedWidth = layout.single
  /\ layout.single > 0

\* Mutant of ActorHistory: frame by frame instead of term by term.
ActorHistoryByFrame(history) ==
  FlattenSeq([j \in DOMAIN history |-> Segment(history[j], 0, VisitedWidth)])

\* The two nested loops of buildPolicyObservation: every term over all frames.
ActorHistory(history) ==
  FlattenSeq([i \in 1 .. Cardinality(VisitedTerms) |->
    FlattenSeq([j \in DOMAIN history |->
      Segment(history[j], CursorAt(i), model.dims[i])])])

\* vector_t obs(getObservationSize()), and the segments written into it.
Assembled(history, frame) ==
  LET actor == ActorHistory(history)
      decoder == Segment(frame, Len(frame) - layout.decoderDim, layout.decoderDim)
  IN [k \in 1 .. model.obsInput |->
        IF k <= Len(actor) THEN actor[k]
        ELSE IF k - layout.actorDim \in 1 .. layout.decoderDim
             THEN decoder[k - layout.actorDim]
        ELSE Garbage]

\* A target is sent in parts of 1/(2 * FactorDen), in which the centre of a range
\* and half of the reduced range are whole numbers.
Fine(position) == 2 * FactorDen * position

\* Mutant of Clipped: the limit is taken at the index in control order.
ClippedInControlOrder(p, raw) ==
  LET range == clip.range[toControl[p]]
      center == FactorDen * (range[1] + range[2])
      half == FactorNum * (range[2] - range[1])
  IN IF ~clip.on \/ ~Usable(range) THEN Fine(raw)
     ELSE IF Fine(raw) < center - half THEN center - half
     ELSE IF Fine(raw) > center + half THEN center + half
     ELSE Fine(raw)

\* SoftTouchDribbleOnnxPolicy::forward: the range is shrunk around its centre.
Clipped(p, raw) ==
  LET range == clip.range[p]
      center == FactorDen * (range[1] + range[2])
      half == FactorNum * (range[2] - range[1])
  IN IF ~clip.on \/ ~Usable(range) THEN Fine(raw)
     ELSE IF Fine(raw) < center - half THEN center - half
     ELSE IF Fine(raw) > center + half THEN center + half
     ELSE Fine(raw)

\* holdCurrentPositionTarget
Hold ==
  /\ lifecycle = "active"
  /\ command' = PolicyVectorToControlOrder(toControl,
       ReadPolicyJointPosition(model.joints,
         [i \in DOMAIN ModelOrder |-> [from |-> ModelOrder[i], at |-> 0]]))
  /\ outcome' = "held"
  /\ obs' = <<>>
  /\ UNCHANGED <<lifecycle, loadedVars, layoutVars, frames, frameNo, firstFrame, target>>

\* The startup reset or the delayed route reset at the beginning of an update.
ResetMemory ==
  /\ lifecycle = "active"
  /\ ResetObservationHistory
  /\ target' = <<>>
  /\ obs' = <<>>
  /\ outcome' = "none"
  /\ UNCHANGED <<lifecycle, loadedVars, layoutVars, frameNo, command>>

\* buildPolicyObservation
BuildObservation ==
  /\ frameNo < MaxFrames
  /\ frameNo' = frameNo + 1
  /\ frames' = Pushed(SubSeq(MeasuredFrame(frameNo'), 1, layout.single))
  /\ obs' = Assembled(frames', MeasuredFrame(frameNo'))
  /\ UNCHANGED firstFrame

\* None of the exceptions of forward, which compares its outputs with the metadata.
OutputsFit == model.actions = NumJoints /\ model.latent = model.latentDim

\* updatePositionTarget and updateEffortPd: forward when it is due, and command
\* the target of this or of the last forward.
WriteTarget ==
  /\ lifecycle = "active"
  /\ Assembles
  /\ BuildObservation
  /\ \/ /\ OutputsFit
        /\ \E raw \in RawTargets :
             target' = [p \in Joints |-> [from |-> model.joints[p], at |-> Clipped(p, raw)]]
     \/ target # <<>> /\ UNCHANGED target
  /\ command' = PolicyVectorToControlOrder(toControl, target')
  /\ outcome' = "policy"
  /\ UNCHANGED <<lifecycle, loadedVars, layoutVars>>

\* An exception of buildPolicyObservation, or of forward, leaves update(); the controller
\* manager takes the controller out.
UpdateThrows ==
  /\ lifecycle = "active"
  /\ ~Assembles \/ ~OutputsFit
  /\ lifecycle' = "finalized"
  /\ outcome' = "threw"
  /\ UNCHANGED <<loadedVars, layoutVars, historyVars, target, command>>

Next ==
  \/ Configure \/ Activate \/ ActivateFails \/ Deactivate \/ Cleanup
  \/ Hold \/ ResetMemory \/ WriteTarget \/ UpdateThrows

Spec == Init /\ [][Next]_vars

-----------------------------------------------------------------------------
(* Properties *)

\* The terms are parsed in the order of the metadata, and are as wide as it says.
MetadataTrue ==
  managed = model.names /\ \A i \in DOMAIN model.names : model.dims[i] = Size[model.names[i]]

DecoderTermsLast ==
  \A i, j \in DOMAIN model.names :
    i < j /\ model.names[i] \in DecoderTerms => model.names[j] \in DecoderTerms

\* The frames of the last updates, oldest first, as the training stacks them:
\* before there are enough of them, the first one is repeated.
StackedFrames ==
  [j \in 1 .. layout.history |->
     LET number == frameNo - layout.history + j
     IN IF number < firstFrame THEN firstFrame ELSE number]

TermOver(name, numbers) ==
  FlattenSeq([j \in DOMAIN numbers |->
    [k \in 1 .. Size[name] |-> [term |-> name, part |-> k, frame |-> numbers[j]]]])

\* The terms of one kind in the order of the metadata, each over its frames.
TermsOver(which, numbers) ==
  FlattenSeq([i \in DOMAIN model.names |->
    IF model.names[i] \in which THEN TermOver(model.names[i], numbers) ELSE <<>>])

\* README.md, "Observation layouts": the actor's terms are stacked term by term,
\* oldest to newest, and the newest decoder state follows.
TrainedLayout ==
  TermsOver(Terms \ DecoderTerms, StackedFrames) \o TermsOver(DecoderTerms, <<frameNo>>)

\* The policy is given what it was trained on: the history of every term of the
\* actor, oldest to newest, from frames of this activation that follow one
\* another, and the decoder state of the newest frame.
ObservationAsTrained ==
  outcome = "policy" /\ MetadataTrue => obs = TrainedLayout

\* No observation term is configured twice.
TermsOnce ==
  \A s \in Setups : \A i, j \in DOMAIN s.managed : s.managed[i] = s.managed[j] => i = j

\* Whatever the metadata says: if update() gets to the policy, every number of
\* the obs input was measured, none twice in one frame.
ObservationMeasured ==
  outcome = "policy" =>
    /\ \A k \in DOMAIN obs : obs[k] # Garbage
    /\ layout.actorDim + layout.decoderDim = Len(obs)
    /\ layout.history = 1 => \A j, k \in DOMAIN obs : obs[j] = obs[k] => j = k

\* A model that passes the activation does not end the controller in the middle
\* of a walk, if there are terms of the actor, those of the decoder come after
\* them, and its outputs are as wide as it says.  The activation looks at none of the three.
AcceptedModelRuns ==
  outcome = "threw" => ~DecoderTermsLast \/ ActorDims(model) = 0 \/ ~OutputsFit

\* Every joint is commanded, by what was computed or measured for this joint,
\* whatever the orders of the policy, of the controller and of the robot model.
CommandsOwnJoint ==
  outcome \in {"held", "policy"} =>
    \A c \in Joints : command[c].from = controlOrder[c]

\* The policy's target for a joint keeps, from either limit of this joint, half
\* of what joint_limit_factor takes off its range.
TargetInOwnRange ==
  outcome = "policy" /\ clip.on =>
    \A p \in Joints :
      LET range == clip.range[p]
          margin == (FactorDen - FactorNum) * (range[2] - range[1])
          sent == command[toControl[p]].at
      IN Usable(range) =>
           /\ Fine(range[1]) + margin <= sent
           /\ sent <= Fine(range[2]) - margin
=============================================================================
