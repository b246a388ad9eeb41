SPECIFICATION FairSpec
CONSTANTS
  ResetEnabled = TRUE
  ApplyOnConfigure = TRUE
  ApplyOnReset = TRUE
  InitialHold = 1
  PublishPeriod = 2
  NumDots = 4
  Holds = {0, 2}
  RouteSizes = {0, 3, 6}
  AllowRestart = TRUE
  MaxTime = 5
  MaxRequests = 2
INVARIANT NoRequestLost
INVARIANT HeldAsPromised
INVARIANT ResetPublishedAtOnce
INVARIANT PublishedOnTime
INVARIANT DotsSpanRoute
INVARIANT ReleasedAsPromised
PROPERTY EveryRequestServed
