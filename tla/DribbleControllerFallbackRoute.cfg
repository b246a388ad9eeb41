SPECIFICATION Spec
CONSTANTS
  Visualize = TRUE
  BaseFromTopic = FALSE
  FrameFromTopic = FALSE
  BallTimeout = 1
  BaseTimeout = 1
  FrameTimeout = 1
  MaxTime = 4
  ParameterSets <- SimulatedOnly
  ActorHistoryLength = 1
  MaxActivations = 1
INVARIANT RouteFromMeasuredBall
CHECK_DEADLOCK FALSE
