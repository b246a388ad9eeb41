SPECIFICATION RestartSpec
CONSTANTS
  Visualize = FALSE
  BaseFromTopic = FALSE
  FrameFromTopic = FALSE
  BallTimeout = 1
  BaseTimeout = 1
  FrameTimeout = 1
  MaxTime = 4
  ParameterSets <- FreeOnly
  ActorHistoryLength = 1
  MaxActivations = 1
  PublishPeriod = 1
  RequestDelay = 1
  MessageDelay = 1
  MaxRestarts = 1
PROPERTY PolicyOnThisSimulation
CHECK_DEADLOCK FALSE
