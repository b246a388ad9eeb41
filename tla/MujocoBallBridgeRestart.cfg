SPECIFICATION Spec
CONSTANTS
  ResetEnabled = TRUE
  ApplyOnConfigure = TRUE
  ApplyOnReset = TRUE
  InitialHold = 0
  PublishPeriod = 2
  NumDots = 1
  Holds = {0, 2}
  RouteSizes = {0}
  AllowRestart = TRUE
  MaxTime = 5
  MaxRequests = 1
INVARIANT ReleasedAfterRestart
