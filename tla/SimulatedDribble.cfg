SPECIFICATION SystemSpec
CONSTANTS
  Visualize = FALSE
  BaseFromTopic = FALSE
  FrameFromTopic = FALSE
  BallTimeout = 3
  BaseTimeout = 1
  FrameTimeout = 1
  MaxTime = 7
  ParameterSets <- HeldOnly
  ActorHistoryLength = 1
  MaxActivations = 2
  PublishPeriod = 2
  RequestDelay = 1
  MessageDelay = 1
  MaxRestarts = 0
INVARIANT RouteFromResetBall
INVARIANT ReleasedIntoControl
INVARIANT HeldPolicy
INVARIANT GateStaysOpen
CHECK_DEADLOCK FALSE
