--------------------------- MODULE MCDribbleRoute ---------------------------
(***************************************************************************)
(* Instances of DribbleRoute for TLC.                                      *)
(***************************************************************************)
EXTENDS DribbleRoute

ASSUME InstanceFits == ParametersFit

\* The parameters of softtouch_dribble_controllers.yaml, in ticks of 0.05 m.
Deployed == INSTANCE DribbleRoute WITH
  NumSegments <- 400, SegmentTicks <- 5, Lookahead <- 16, PreviewArc <- 20,
  LazyExtend <- TRUE, InitSegments <- 9, ExtendChunk <- 1, ExtendMargin <- 10,
  HumanMode <- TRUE, MaxAdvance <- 1

\* They fit, for a ball that gets at most one segment further in an update ...
ASSUME DeployedFits == Deployed!ParametersFit

\* ... and for nothing faster.
Faster == INSTANCE DribbleRoute WITH
  NumSegments <- 400, SegmentTicks <- 5, Lookahead <- 16, PreviewArc <- 20,
  LazyExtend <- TRUE, InitSegments <- 9, ExtendChunk <- 1, ExtendMargin <- 10,
  HumanMode <- TRUE, MaxAdvance <- 2

ASSUME DeployedFitsNoFaster == ~Faster!ParametersFit
=============================================================================
