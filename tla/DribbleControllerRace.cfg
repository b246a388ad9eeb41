SPECIFICATION Spec
CONSTANTS
  Visualize = TRUE
  BaseFromTopic = FALSE
  FrameFromTopic = TRUE
  BallTimeout = 1
  BaseTimeout = 1
  FrameTimeout = 1
  MaxTime = 2
  ParameterSets <- PositionOnly
  ActorHistoryLength = 1
  MaxActivations = 1
INVARIANT PolicyAfterRouteReset
CHECK_DEADLOCK FALSE
