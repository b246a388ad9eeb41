---------------------------- MODULE DribbleRoute ----------------------------
(***************************************************************************)
(* SoftTouchDribbleRoute: a polyline of equal segments laid out ahead of   *)
(* the ball, a few segments at a time, and the command read from it.       *)
(*                                                                         *)
(* Lengths along the route are counted in ticks, SegmentTicks to a         *)
(* segment.  A segment is abstracted to the reset that laid it out and to  *)
(* its bend; a point belongs to the segment that ends in it.  The arrays   *)
(* keep what was laid out before: entries past the filled part are zero or *)
(* belong to an earlier route.                                             *)
(***************************************************************************)
EXTENDS Integers

CONSTANTS
  NumSegments,      \* routeSpeed_.size()
  SegmentTicks,     \* routeSegmentLength
  Lookahead,        \* routeLookahead, in ticks
  PreviewArc,       \* routePreviewArc, in ticks
  LazyExtend,       \* routeLazyExtend
  InitSegments,     \* routeInitSegments
  ExtendChunk,      \* routeExtendChunk
  ExtendMargin,     \* routeExtendAheadMarginSegments
  HumanMode,        \* cmdMode_ == 4: weave with big turns
  MinTurn, MaxTurn, \* length of a big turn in segments
  MaxAdvance,       \* the ball gets at most this many segments further in an update
  MaxResets         \* bound of the model

ASSUME RouteAssumption ==
  /\ NumSegments \in Nat \ {0}
  /\ SegmentTicks \in Nat \ {0}
  /\ Lookahead \in Nat
  /\ PreviewArc \in Nat
  /\ LazyExtend \in BOOLEAN
  /\ InitSegments \in Nat
  /\ ExtendChunk \in Nat
  /\ ExtendMargin \in Nat
  /\ HumanMode \in BOOLEAN
  /\ MaxAdvance \in Nat
  /\ MaxResets \in Nat

\* A big turn takes ceil(angle / ...) segments, and never less than two.
ASSUME TurnAssumption ==
  MinTurn \in Nat /\ MaxTurn \in Nat /\ 2 <= MinTurn /\ MinTurn <= MaxTurn

VARIABLES
  segments,    \* routePoints_ and routeSpeed_
  filled,      \* routeFilledSegments_
  turnLeft,    \* humanDribbleBigRemain_
  lastBall,    \* lastBallSegmentIndex_
  furthest,    \* the furthest segment the ball was found at since the reset
  resets,      \* number of resets so far
  command      \* the last command, by the segments it was read from

vars == <<segments, filled, turnLeft, lastBall, furthest, resets, command>>

Segments == 0 .. NumSegments - 1
Bends == {"none", "arc", "weave", "big"}
Segment == [route : Nat, bend : Bends]
Command == [segment : Segments, along : 0 .. SegmentTicks,
            nextSpeed : Segments, target : Segments, preview : Segments]

RouteInBounds ==
  /\ segments \in [Segments -> Segment]
  /\ filled \in 0 .. NumSegments
  /\ turnLeft \in Nat
  /\ lastBall \in -1 .. NumSegments - 1
  /\ furthest \in Segments
  /\ resets \in Nat
  /\ command \in Command

Smaller(a, b) == IF a < b THEN a ELSE b

\* clampInt
Clamp(x, low, high) == IF x < low THEN low ELSE IF x > high THEN high ELSE x

Init ==
  /\ segments = [i \in Segments |-> [route |-> 0, bend |-> "none"]]
  /\ filled = 0
  /\ turnLeft = 0
  /\ lastBall = -1
  /\ furthest = 0
  /\ resets = 0
  /\ command = [segment |-> 0, along |-> 0, nextSpeed |-> 0, target |-> 0, preview |-> 0]

-----------------------------------------------------------------------------
\* sampleHumanKappa: how much is left of a big turn after each of n segments.
\* A new turn starts, by chance, only when none is under way.
TurnsLeft(n, start) ==
  {left \in [0 .. n -> 0 .. MaxTurn - 1] :
     /\ left[0] = start
     /\ \A i \in 1 .. n :
          IF left[i-1] > 0 THEN left[i] = left[i-1] - 1
          ELSE left[i] \in {0} \cup MinTurn - 1 .. MaxTurn - 1}

Bend(left, i) ==
  IF ~HumanMode THEN "arc"
  ELSE IF left[i-1] > 0 \/ left[i] > 0 THEN "big" ELSE "weave"

\* Mutant of Build: a chunk starts one segment early.
BuildOverlapping(n, offset, start, route) ==
  \E left \in IF HumanMode THEN TurnsLeft(n, start) ELSE {[i \in 0 .. n |-> start]} :
    /\ segments' = [i \in Segments |->
         IF offset - 1 <= i /\ i < offset - 1 + n
         THEN [route |-> route, bend |-> Bend(left, i - offset + 2)]
         ELSE segments[i]]
    /\ turnLeft' = left[n]
    /\ filled' = offset + n

\* buildRouteChunk: n segments from offset on, which continue a turn of which
\* start segments are left.
Build(n, offset, start, route) ==
  \E left \in IF HumanMode THEN TurnsLeft(n, start) ELSE {[i \in 0 .. n |-> start]} :
    /\ segments' = [i \in Segments |->
         IF offset <= i /\ i < offset + n
         THEN [route |-> route, bend |-> Bend(left, i - offset + 1)]
         ELSE segments[i]]
    /\ turnLeft' = left[n]
    /\ filled' = offset + n

\* Segments ahead of the ball's own that a point at this distance reaches.
Ahead(along, distance) == (along + distance) \div SegmentTicks

\* routePointAtArcLength: the segment a point is interpolated on.
SegmentAt(i, end) == Clamp(Smaller(i, end - 1), 0, NumSegments - 1)

\* The command for a ball next to the point `along` on segment i, on a route
\* filled up to end.  Only points, not speeds, are kept within the filled part.
CommandAt(i, along, end) ==
  [segment |-> i, along |-> along,
   nextSpeed |-> Clamp(i + Ahead(along, Lookahead), 0, NumSegments - 1),
   target |-> SegmentAt(i + Ahead(along, Lookahead), end),
   preview |-> SegmentAt(i + Ahead(along, Lookahead + PreviewArc), end)]

\* Mutant of TurnAtReset: the turn of the previous route goes on.
TurnKeptAtReset == turnLeft

\* humanDribbleBigRemain_ = 0 when a route is started.
TurnAtReset == 0

InitialSegments ==
  IF LazyExtend THEN Clamp(InitSegments, 1, NumSegments) ELSE NumSegments

\* reset: lay out the first segments from the ball; the update() it ends with
\* finds the ball at the start of the route, and does not extend it.
Reset ==
  /\ resets < MaxResets
  /\ resets' = resets + 1
  /\ Build(InitialSegments, 0, TurnAtReset, resets + 1)
  /\ lastBall' = 0
  /\ furthest' = 0
  /\ command' = CommandAt(0, 0, InitialSegments)

\* Mutant of NeedsExtension: the margin is ignored until the end is near.
NeedsExtensionAtEnd ==
  LazyExtend /\ lastBall >= 0 /\ filled < NumSegments /\ filled - lastBall <= ExtendChunk

\* The conditions of extendRoutesIfNeeded, on the ball of the previous update.
NeedsExtension ==
  /\ LazyExtend
  /\ lastBall >= 0
  /\ filled < NumSegments
  /\ filled - lastBall < ExtendMargin
  /\ ExtendChunk > 0

\* Mutant of ExtendIfNeeded: the last chunk may pass the end of the arrays.
ExtendPastEnd ==
  IF NeedsExtension
  THEN Build(ExtendChunk, filled, turnLeft, resets)
  ELSE UNCHANGED <<segments, filled, turnLeft>>

\* extendRoutesIfNeeded
ExtendIfNeeded ==
  IF NeedsExtension
  THEN Build(Smaller(ExtendChunk, NumSegments - filled), filled, turnLeft, resets)
  ELSE UNCHANGED <<segments, filled, turnLeft>>

\* What the search for the closest segment may find: any segment the ball has
\* been at, however far back, or one not further ahead than it can have moved.
\* A route that was never reset has one segment, of length zero.
NearestSegments(end) ==
  {0} \cup {i \in Segments : i < end /\ i <= furthest + MaxAdvance}

\* update, with the ball next to any point of any such segment.
Update ==
  /\ ExtendIfNeeded
  /\ \E i \in NearestSegments(filled') :
       \E along \in IF filled' = 0 THEN {0} ELSE 0 .. SegmentTicks :
         /\ lastBall' = i
         /\ furthest' = IF i > furthest THEN i ELSE furthest
         /\ command' = CommandAt(i, along, filled')
  /\ UNCHANGED resets

Next == Reset \/ Update

Spec == Init /\ [][Next]_vars

-----------------------------------------------------------------------------
(* Properties *)

\* Every segment the command reads, for its speeds as well as its directions,
\* was laid out by the last reset: never a speed of an earlier route or one
\* that was never set.
CommandFromThisRoute ==
  resets > 0 =>
    \A i \in {command.segment, command.nextSpeed, command.target, command.preview} :
      segments[i].route = resets

\* The target and the preview point lie as far ahead as they are configured to,
\* unless the route as a whole ends there: the lazy extension is never noticed.
PreviewReached ==
  resets > 0 /\ filled < NumSegments =>
    /\ command.target = command.segment + Ahead(command.along, Lookahead)
    /\ command.preview = command.segment + Ahead(command.along, Lookahead + PreviewArc)

IsBig(i) == segments[i].bend = "big"

\* A big turn is laid out whole: its segments may come in several chunks, and a
\* reset may cut it short, but none is shorter than the shortest turn.
TurnsComplete ==
  \A first, last \in 0 .. filled - 1 :
    /\ \A i \in first .. last : IsBig(i)
    /\ first <= last
    /\ first > 0 => ~IsBig(first - 1)
    /\ last < filled - 1 /\ ~IsBig(last + 1)
    => last - first + 1 >= MinTurn

\* The route ahead of the robot does not change under it: only a reset replaces
\* a segment that is laid out.
LaidSegmentsKept ==
  [][resets' = resets => \A i \in 0 .. filled - 1 : segments'[i] = segments[i]]_vars

\* What the proofs add: the filled part is of this route, and long enough.
FilledByThisRoute ==
  resets > 0 => /\ filled > 0
                /\ lastBall >= 0 /\ lastBall <= furthest /\ furthest < filled
                /\ command = CommandAt(lastBall, command.along, filled)
                /\ \A i \in Segments : i < filled => segments[i].route = resets

\* The number of segments kept ahead of the ball.
Headroom == Smaller(InitialSegments, ExtendMargin - MaxAdvance)

\* The extension looks at the last segment only; it keeps the headroom ahead of
\* the furthest one because it runs once more before a ball that was found
\* further back can be found ahead of it again.
HeadroomKept ==
  resets > 0 =>
    \/ filled = NumSegments
    \/ /\ LazyExtend
       /\ filled >= furthest + Headroom
       /\ lastBall < furthest => filled >= furthest + Headroom + MaxAdvance

\* The parameters fit: the extension keeps pace with the ball, and the preview
\* of a ball at the end of its segment stays within the headroom.
ParametersFit ==
  /\ MaxAdvance <= ExtendChunk
  /\ \A along \in 0 .. SegmentTicks :
       /\ Ahead(along, Lookahead) < Headroom
       /\ Ahead(along, Lookahead + PreviewArc) < Headroom
=============================================================================
