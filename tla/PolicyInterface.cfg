SPECIFICATION Spec
CONSTANTS
  NumJoints = 3
  JointNames <- MCJointNames
  ModelOrder <- MCModelOrder
  Terms <- MCTerms
  DecoderTerms <- MCDecoderTerms
  Size <- MCSize
  Models <- MCModels
  Setups <- MCSetups
  FactorNum = 1
  FactorDen = 2
  RawTargets <- MCRawTargets
  MaxFrames = 3
INVARIANT TypeOK
INVARIANT ObservationAsTrained
INVARIANT ObservationMeasured
INVARIANT AcceptedModelRuns
INVARIANT CommandsOwnJoint
INVARIANT TargetInOwnRange
CHECK_DEADLOCK FALSE
