SPECIFICATION FairSpec
CONSTANTS
  Joints = {"hip", "knee", "waist"}
  Configs <- MCConfigs
  TotalTime = 2
  Positions <- MCPositions
  ClaimOrders <- MCClaimOrders
  AllowRestart = TRUE
  MaxTime = 3
  MaxActivations = 2
INVARIANT CommandsOwnJoint
INVARIANT AllOrNothing
PROPERTY NoJump
PROPERTY ReachesDefault
CHECK_DEADLOCK FALSE
