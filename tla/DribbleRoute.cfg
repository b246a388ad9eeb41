SPECIFICATION Spec
CONSTANTS
  NumSegments = 8
  SegmentTicks = 2
  Lookahead = 1
  PreviewArc = 2
  LazyExtend = TRUE
  InitSegments = 3
  ExtendChunk = 2
  ExtendMargin = 5
  HumanMode = TRUE
  MinTurn = 2
  MaxTurn = 3
  MaxAdvance = 2
  MaxResets = 2
INVARIANT RouteInBounds
INVARIANT TurnsComplete
PROPERTY LaidSegmentsKept
INVARIANT CommandFromThisRoute
INVARIANT PreviewReached
