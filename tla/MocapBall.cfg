SPECIFICATION FairSpec
CONSTANTS
  BaseFromTopic = FALSE
  FrameFromTopic = FALSE
  BallTimeout = 6
  BaseTimeout = 1
  FrameTimeout = 1
  MaxTime = 8
  FrameShapes <- Shapes
  MaxPredict = 1
  MaxHold = 3
  StaleHold = FALSE
  JumpCheckMaxDt = 1
  TrackerLag = 2
  LinkLag = 0
INVARIANT HeldBallExpires
INVARIANT BallStaysFresh
PROPERTY EveryGroupProcessed
CHECK_DEADLOCK FALSE
