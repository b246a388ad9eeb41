SPECIFICATION FairSpec
CONSTANTS
  Visualize = TRUE
  BaseFromTopic = FALSE
  FrameFromTopic = FALSE
  BallTimeout = 1
  BaseTimeout = 1
  FrameTimeout = 1
  MaxTime = 3
  ParameterSets <- AllSets
  ActorHistoryLength = 2
  MaxActivations = 2
INVARIANT PolicyOnFreshInputs
INVARIANT RouteFromThisActivation
INVARIANT MemoryMatchesRoute
INVARIANT CommandFromFreshBall
INVARIANT TargetAge
PROPERTY ImplementsGate
PROPERTY PendingResetCompletes
CHECK_DEADLOCK FALSE
