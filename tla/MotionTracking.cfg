SPECIFICATION Spec
CONSTANTS
  StartStep = 1
  MotionLength = 5
  LoopMotion = TRUE
  TimeStepStride = 2
  ActionPolicyPeriod = 2
  MujocoResetHoldDuration = 2
  MaxTime = 6
  MaxActivations = 2
  MaxForwards = 4
INVARIANT AlignedToFirstFrame
INVARIANT FramesInStep
INVARIANT MotionNotAhead
INVARIANT TargetOfThisMotion
CHECK_DEADLOCK FALSE
