-------------------------- MODULE DribbleRouteProofs --------------------------
(***************************************************************************)
(* Theorems about DribbleRoute: whatever its parameters, it stays within   *)
(* its arrays and keeps what it has laid out; with parameters that fit,    *)
(* the command only reads what the last reset has laid out.                *)
(***************************************************************************)
EXTENDS DribbleRoute, WellFoundedInduction, TLAPS

LEMMA AheadNat ==
  ASSUME NEW along \in Nat, NEW distance \in Nat
  PROVE  Ahead(along, distance) \in Nat
BY RouteAssumption DEF Ahead

LEMMA InitialSegmentsRange == InitialSegments \in 1 .. NumSegments
BY RouteAssumption DEF InitialSegments, Clamp

LEMMA HeadroomBounds ==
  Headroom \in Int /\ Headroom <= InitialSegments /\ Headroom <= ExtendMargin - MaxAdvance
BY InitialSegmentsRange, RouteAssumption DEF Headroom, Smaller

LEMMA CommandType ==
  ASSUME NEW i \in Segments, NEW along \in 0 .. SegmentTicks, NEW end \in 0 .. NumSegments
  PROVE  CommandAt(i, along, end) \in Command
<1> DEFINE near == Ahead(along, Lookahead)
           far == Ahead(along, Lookahead + PreviewArc)
<1>1. near \in Nat /\ far \in Nat
  <2>1. along \in Nat /\ Lookahead \in Nat /\ Lookahead + PreviewArc \in Nat
    BY RouteAssumption
  <2> QED BY <2>1, AheadNat
<1> HIDE DEF near, far
<1>2. /\ Clamp(i + near, 0, NumSegments - 1) \in Segments
      /\ SegmentAt(i + near, end) \in Segments
      /\ SegmentAt(i + far, end) \in Segments
  BY <1>1, RouteAssumption DEF Clamp, SegmentAt, Smaller, Segments
<1> QED BY <1>2 DEF CommandAt, Command, near, far

\* A chunk is laid out from its offset on, and nothing else changes.
LEMMA BuildFacts ==
  ASSUME RouteInBounds, NEW n \in Nat, NEW offset \in Nat, offset + n <= NumSegments,
         NEW start \in Nat, NEW route \in Nat, Build(n, offset, start, route)
  PROVE  /\ segments' \in [Segments -> Segment]
         /\ turnLeft' \in Nat
         /\ filled' = offset + n
         /\ \A i \in Segments : i < offset => segments'[i] = segments[i]
         /\ \A i \in Segments :
              offset <= i /\ i < offset + n => segments'[i].route = route
<1>1. PICK left \in IF HumanMode THEN TurnsLeft(n, start) ELSE {[i \in 0 .. n |-> start]} :
        /\ segments' = [i \in Segments |->
             IF offset <= i /\ i < offset + n
             THEN [route |-> route, bend |-> Bend(left, i - offset + 1)]
             ELSE segments[i]]
        /\ turnLeft' = left[n]
        /\ filled' = offset + n
  BY DEF Build
<1>2. left[n] \in Nat
  <2>1. n \in 0 .. n
    OBVIOUS
  <2>2. CASE HumanMode
    BY <1>1, <2>1, <2>2, TurnAssumption DEF TurnsLeft
  <2>3. CASE ~HumanMode
    BY <1>1, <2>1, <2>3
  <2> QED BY <2>2, <2>3
<1>3. \A i : Bend(left, i) \in Bends
  BY DEF Bend, Bends
<1>4. segments' \in [Segments -> Segment]
  BY <1>1, <1>3 DEF RouteInBounds, Segment
<1> QED BY <1>1, <1>2, <1>4 DEF Segments

LEMMA ExtendFacts ==
  ASSUME RouteInBounds, ExtendIfNeeded
  PROVE  /\ segments' \in [Segments -> Segment]
         /\ turnLeft' \in Nat
         /\ filled' \in filled .. NumSegments
         /\ filled' = IF NeedsExtension
                      THEN filled + Smaller(ExtendChunk, NumSegments - filled)
                      ELSE filled
         /\ \A i \in Segments : i < filled => segments'[i] = segments[i]
         /\ \A i \in Segments : filled <= i /\ i < filled' => segments'[i].route = resets
<1> USE RouteAssumption
<1>1. filled \in 0 .. NumSegments /\ turnLeft \in Nat /\ resets \in Nat
  BY DEF RouteInBounds
<1>2. CASE NeedsExtension
  <2> DEFINE n == Smaller(ExtendChunk, NumSegments - filled)
  <2>1. n \in Nat /\ filled + n <= NumSegments
    BY <1>1 DEF Smaller
  <2>2. Build(n, filled, turnLeft, resets)
    BY <1>2 DEF ExtendIfNeeded
  <2> HIDE DEF n
  <2>3. /\ segments' \in [Segments -> Segment]
        /\ turnLeft' \in Nat
        /\ filled' = filled + n
        /\ \A i \in Segments : i < filled => segments'[i] = segments[i]
        /\ \A i \in Segments :
             filled <= i /\ i < filled + n => segments'[i].route = resets
    BY <1>1, <2>1, <2>2, BuildFacts
  <2> QED BY <1>1, <1>2, <2>1, <2>3 DEF n
<1>3. CASE ~NeedsExtension
  <2>1. segments' = segments /\ filled' = filled /\ turnLeft' = turnLeft
    BY <1>3 DEF ExtendIfNeeded
  <2> QED BY <1>1, <1>3, <2>1 DEF RouteInBounds, Segments
<1> QED BY <1>2, <1>3

LEMMA ResetFacts ==
  ASSUME RouteInBounds, Reset
  PROVE  /\ segments' \in [Segments -> Segment]
         /\ turnLeft' \in Nat
         /\ filled' = InitialSegments
         /\ \A i \in Segments : i < filled' => segments'[i].route = resets'
<1>1. resets \in Nat /\ resets' = resets + 1 /\ resets + 1 \in Nat
  BY DEF Reset, RouteInBounds
<1>2. InitialSegments \in Nat /\ 0 + InitialSegments <= NumSegments
  BY InitialSegmentsRange, RouteAssumption
<1>3. Build(InitialSegments, 0, 0, resets + 1)
  BY DEF Reset, TurnAtReset
<1>4. /\ segments' \in [Segments -> Segment]
      /\ turnLeft' \in Nat
      /\ filled' = 0 + InitialSegments
      /\ \A i \in Segments :
           0 <= i /\ i < 0 + InitialSegments => segments'[i].route = resets + 1
  BY <1>1, <1>2, <1>3, BuildFacts
<1> QED BY <1>1, <1>2, <1>4 DEF Segments

LEMMA UpdateFacts ==
  ASSUME RouteInBounds, Update
  PROVE  /\ ExtendIfNeeded
         /\ resets' = resets
         /\ lastBall' \in Segments
         /\ furthest' \in Segments
         /\ lastBall' = 0 \/ lastBall' <= furthest + MaxAdvance
         /\ furthest' = IF lastBall' > furthest THEN lastBall' ELSE furthest
         /\ filled' > 0 => lastBall' < filled'
         /\ command' \in Command
         /\ command'.along \in 0 .. SegmentTicks
         /\ command' = CommandAt(lastBall', command'.along, filled')
<1> USE RouteAssumption
<1>1. PICK i \in NearestSegments(filled') :
        \E along \in IF filled' = 0 THEN {0} ELSE 0 .. SegmentTicks :
          /\ lastBall' = i
          /\ furthest' = IF i > furthest THEN i ELSE furthest
          /\ command' = CommandAt(i, along, filled')
  BY DEF Update
<1>2. PICK along \in 0 .. SegmentTicks :
        /\ lastBall' = i
        /\ furthest' = IF i > furthest THEN i ELSE furthest
        /\ command' = CommandAt(i, along, filled')
  BY <1>1
<1>3. ExtendIfNeeded /\ filled' \in 0 .. NumSegments
  BY ExtendFacts DEF Update, RouteInBounds
<1>4. i \in Segments
  BY <1>1 DEF NearestSegments, Segments
<1>5. command' \in Command /\ command'.along = along
  <2>1. CommandAt(i, along, filled') \in Command
    BY <1>3, <1>4, CommandType
  <2> QED BY <1>2, <2>1 DEF CommandAt
<1>6. /\ lastBall' = 0 \/ lastBall' <= furthest + MaxAdvance
      /\ filled' > 0 => lastBall' < filled'
  BY <1>1, <1>2 DEF NearestSegments
<1>7. furthest' \in Segments
  BY <1>2, <1>4 DEF RouteInBounds
<1> QED BY <1>2, <1>3, <1>4, <1>5, <1>6, <1>7 DEF Update

-----------------------------------------------------------------------------
\* The route never leaves its arrays, whatever the ball does and however often
\* it is extended or reset.
THEOREM RouteTypeCorrect == Spec => []RouteInBounds
<1>1. Init => RouteInBounds
  BY RouteAssumption DEF Init, RouteInBounds, Segment, Bends, Command, Segments
<1>2. RouteInBounds /\ [Next]_vars => RouteInBounds'
  <2> SUFFICES ASSUME RouteInBounds, [Next]_vars PROVE RouteInBounds'
    OBVIOUS
  <2>1. CASE Reset
    <3>1. InitialSegments \in 0 .. NumSegments /\ 0 \in Segments /\ 0 \in 0 .. SegmentTicks
      BY InitialSegmentsRange, RouteAssumption DEF Segments
    <3>2. command' \in Command
      BY <2>1, <3>1, CommandType DEF Reset
    <3>3. resets' \in Nat /\ lastBall' \in -1 .. NumSegments - 1 /\ furthest' \in Segments
      BY <2>1, <3>1, RouteAssumption DEF Reset, RouteInBounds, Segments
    <3> QED BY <2>1, <3>1, <3>2, <3>3, ResetFacts DEF RouteInBounds
  <2>2. CASE Update
    <3>1. filled' \in 0 .. NumSegments /\ lastBall' \in -1 .. NumSegments - 1
      BY <2>2, ExtendFacts, UpdateFacts, RouteAssumption DEF RouteInBounds, Segments
    <3> QED BY <2>2, <3>1, ExtendFacts, UpdateFacts DEF RouteInBounds
  <2>3. CASE UNCHANGED vars
    BY <2>3 DEF vars, RouteInBounds
  <2> QED BY <2>1, <2>2, <2>3 DEF Next
<1> QED BY <1>1, <1>2, PTL DEF Spec

\* The route ahead of the robot is replaced by a reset only.
THEOREM LaidSegmentsStay == Spec => LaidSegmentsKept
<1>1. RouteInBounds /\ [Next]_vars =>
        [resets' = resets => \A i \in 0 .. filled - 1 : segments'[i] = segments[i]]_vars
  <2> SUFFICES ASSUME RouteInBounds, Next, resets' = resets
               PROVE  \A i \in 0 .. filled - 1 : segments'[i] = segments[i]
    OBVIOUS
  <2>1. ~Reset
    BY DEF Reset, RouteInBounds
  <2>2. \A i \in Segments : i < filled => segments'[i] = segments[i]
    BY <2>1, ExtendFacts, UpdateFacts DEF Next
  <2> QED BY <2>2, RouteAssumption DEF RouteInBounds, Segments
<1> QED BY <1>1, RouteTypeCorrect, PTL DEF Spec, LaidSegmentsKept

-----------------------------------------------------------------------------
RouteInv == FilledByThisRoute /\ HeadroomKept

LEMMA RouteInvHolds == MaxAdvance <= ExtendChunk => (Spec => []RouteInv)
<1> SUFFICES ASSUME MaxAdvance <= ExtendChunk PROVE Spec => []RouteInv
  OBVIOUS
<1> USE RouteAssumption
<1>1. Init => RouteInv
  BY DEF Init, RouteInv, FilledByThisRoute, HeadroomKept
<1>2. RouteInBounds /\ RouteInv /\ [Next]_vars => RouteInv'
  <2> SUFFICES ASSUME RouteInBounds, RouteInv, [Next]_vars PROVE RouteInv'
    OBVIOUS
  <2>1. CASE Reset
    <3>1. InitialSegments \in 1 .. NumSegments /\ filled' = InitialSegments
      BY <2>1, InitialSegmentsRange, ResetFacts
    <3>2. lastBall' = 0 /\ furthest' = 0 /\ command' = CommandAt(0, 0, InitialSegments)
      BY <2>1 DEF Reset
    <3>3. command' = CommandAt(lastBall', command'.along, filled')
      BY <3>1, <3>2 DEF CommandAt
    <3>4. FilledByThisRoute'
      BY <2>1, <3>1, <3>2, <3>3, ResetFacts DEF FilledByThisRoute, CommandAt
    <3>5. ASSUME LazyExtend PROVE HeadroomKept'
      <4>1. filled' >= 0 + Headroom
        BY <3>1, HeadroomBounds
      <4> QED BY <3>2, <3>5, <4>1 DEF HeadroomKept, Headroom, InitialSegments
    <3>6. ASSUME ~LazyExtend PROVE HeadroomKept'
      BY <3>1, <3>6 DEF HeadroomKept, InitialSegments
    <3> QED BY <3>4, <3>5, <3>6 DEF RouteInv
  <2>2. CASE Update
    <3> SUFFICES ASSUME resets > 0 PROVE RouteInv'
      BY <2>2, UpdateFacts DEF RouteInv, FilledByThisRoute, HeadroomKept
    <3>1. filled \in Nat /\ filled > 0 /\ lastBall \in Nat /\ furthest \in Nat
          /\ lastBall <= furthest /\ furthest < filled
      BY DEF RouteInv, FilledByThisRoute, RouteInBounds, Segments
    <3>1b. \A i \in Segments : i < filled => segments[i].route = resets
      BY DEF RouteInv, FilledByThisRoute
    <3>2. /\ filled' \in Nat /\ filled' > 0 /\ lastBall' \in Nat /\ furthest' \in Nat
          /\ lastBall' < filled' /\ filled' >= filled
      BY <2>2, <3>1, ExtendFacts, UpdateFacts DEF Segments, RouteInBounds
    <3>2a. lastBall' <= furthest' /\ furthest' < filled'
      BY <2>2, <3>1, <3>2, UpdateFacts
    <3>3. \A i \in Segments : i < filled' => segments'[i].route = resets'
      BY <2>2, <3>1, <3>2, <3>1b, ExtendFacts, UpdateFacts DEF Segments
    <3>4. FilledByThisRoute'
      BY <2>2, <3>2, <3>2a, <3>3, UpdateFacts DEF FilledByThisRoute, CommandAt
    <3>5. filled = NumSegments => filled' = NumSegments
      BY <2>2, <3>1, ExtendFacts, UpdateFacts
    <3>6. ASSUME filled # NumSegments
          PROVE  LazyExtend /\ (filled' = NumSegments \/ filled' >= furthest + Headroom + MaxAdvance)
      <4>1. LazyExtend
        BY <3>6 DEF RouteInv, HeadroomKept
      <4>2. /\ filled >= furthest + Headroom
            /\ lastBall < furthest => filled >= furthest + Headroom + MaxAdvance
        BY <3>6 DEF RouteInv, HeadroomKept
      <4>3. Headroom \in Int /\ Headroom <= ExtendMargin - MaxAdvance
        BY HeadroomBounds
      <4>4. /\ MaxAdvance \in Nat /\ ExtendChunk \in Nat /\ ExtendMargin \in Nat
            /\ MaxAdvance <= ExtendChunk
        BY RouteAssumption
      <4>5. filled + ExtendChunk >= furthest + Headroom + MaxAdvance
        BY <3>1, <4>2, <4>3, <4>4
      <4>6. CASE NeedsExtension
        <5>1. filled' = filled + Smaller(ExtendChunk, NumSegments - filled)
          BY <2>2, <4>6, ExtendFacts, UpdateFacts
        <5>2. CASE ExtendChunk < NumSegments - filled
          <6>1. filled' = filled + ExtendChunk
            BY <5>1, <5>2 DEF Smaller
          <6>2. filled' >= furthest + Headroom + MaxAdvance
            BY <4>5, <6>1
          <6> QED BY <4>1, <6>2
        <5>3. CASE ~(ExtendChunk < NumSegments - filled)
          <6>1. filled' = NumSegments
            BY <3>1, <5>1, <5>3 DEF Smaller
          <6> QED BY <4>1, <6>1
        <5> QED BY <5>2, <5>3
      <4>7. CASE ~NeedsExtension
        <5>1. filled' = filled
          BY <2>2, <4>7, ExtendFacts, UpdateFacts
        <5>2. lastBall >= 0 /\ filled < NumSegments
          BY <3>1, <3>6 DEF RouteInBounds
        <5>3. ~(filled - lastBall < ExtendMargin) \/ ~(ExtendChunk > 0)
          BY <4>1, <4>7, <5>2 DEF NeedsExtension
        <5>4. filled >= furthest + Headroom + MaxAdvance
          BY <3>1, <4>2, <4>3, <4>4, <4>5, <5>3
        <5>5. filled' >= furthest + Headroom + MaxAdvance
          BY <5>1, <5>4
        <5> QED BY <4>1, <5>5
      <4> QED BY <4>6, <4>7
    <3>7. HeadroomKept'
      <4>1. CASE filled' = NumSegments
        BY <4>1 DEF HeadroomKept
      <4>2. CASE LazyExtend /\ filled' >= furthest + Headroom + MaxAdvance
        <5>1. Headroom \in Int /\ MaxAdvance \in Nat
          BY HeadroomBounds
        <5>2. furthest' <= furthest + MaxAdvance
          BY <2>2, <3>1, <5>1, UpdateFacts
        <5>3. \A f \in Nat : f <= furthest + MaxAdvance =>
                f + Headroom <= furthest + Headroom + MaxAdvance
          BY <3>1, <5>1
        <5>4. filled' >= furthest' + Headroom
          <6>1. furthest' + Headroom <= furthest + Headroom + MaxAdvance
            BY <3>2, <5>2, <5>3
          <6>2. furthest' + Headroom \in Int /\ furthest + Headroom + MaxAdvance \in Int
            BY <3>1, <3>2, <5>1
          <6> QED BY <3>2, <4>2, <6>1, <6>2
        <5>5. lastBall' < furthest' => furthest' = furthest
          BY <2>2, <3>1, <3>2, UpdateFacts
        <5>6. lastBall' < furthest' => filled' >= furthest' + Headroom + MaxAdvance
          BY <4>2, <5>5
        <5>7. LazyExtend
          BY <4>2
        <5> QED BY <5>4, <5>6, <5>7 DEF HeadroomKept, Headroom, InitialSegments
      <4> QED BY <3>5, <3>6, <4>1, <4>2
    <3> QED BY <3>4, <3>7 DEF RouteInv
  <2>3. CASE UNCHANGED vars
    BY <2>3 DEF vars, RouteInv, FilledByThisRoute, HeadroomKept
  <2> QED BY <2>1, <2>2, <2>3 DEF Next
<1> QED BY <1>1, <1>2, RouteTypeCorrect, PTL DEF Spec

\* Where the command is read: below the end of the filled part, or clamped to it.
LEMMA CommandIndices ==
  ASSUME ParametersFit, RouteInBounds, RouteInv, resets > 0
  PROVE  /\ \A i \in {command.segment, command.nextSpeed, command.target, command.preview} :
              i \in Segments /\ i < filled
         /\ PreviewReached
<1> USE RouteAssumption
<1> DEFINE near == Ahead(command.along, Lookahead)
           far == Ahead(command.along, Lookahead + PreviewArc)
<1>1. command.along \in 0 .. SegmentTicks
  BY DEF RouteInBounds, Command
<1>2. near \in Nat /\ far \in Nat
  <2>1. command.along \in Nat /\ Lookahead \in Nat /\ Lookahead + PreviewArc \in Nat
    BY <1>1
  <2> QED BY <2>1, AheadNat
<1>3. near < Headroom /\ far < Headroom /\ Headroom \in Int
  BY <1>1, HeadroomBounds DEF ParametersFit
<1>4. /\ filled \in 1 .. NumSegments /\ lastBall \in 0 .. filled - 1
      /\ filled = NumSegments \/ filled >= lastBall + Headroom
  <2>1. /\ filled \in 1 .. NumSegments /\ lastBall \in 0 .. filled - 1
        /\ furthest \in Nat /\ lastBall <= furthest
    BY DEF RouteInv, FilledByThisRoute, RouteInBounds, Segments
  <2>2. filled = NumSegments \/ filled >= furthest + Headroom
    BY DEF RouteInv, HeadroomKept
  <2> QED BY <1>3, <2>1, <2>2
<1>5. /\ command.segment = lastBall
      /\ command.nextSpeed = Clamp(lastBall + near, 0, NumSegments - 1)
      /\ command.target = SegmentAt(lastBall + near, filled)
      /\ command.preview = SegmentAt(lastBall + far, filled)
  <2>1. command = CommandAt(lastBall, command.along, filled)
    BY DEF RouteInv, FilledByThisRoute
  <2> QED BY <2>1 DEF CommandAt
<1> HIDE DEF near, far
<1>6. \A i \in {command.segment, command.nextSpeed, command.target, command.preview} :
        i \in Segments /\ i < filled
  BY <1>2, <1>3, <1>4, <1>5 DEF Clamp, SegmentAt, Smaller, Segments
<1>7. ASSUME filled < NumSegments
      PROVE  command.target = lastBall + near /\ command.preview = lastBall + far
  BY <1>2, <1>3, <1>4, <1>5, <1>7 DEF Clamp, SegmentAt, Smaller
<1> QED BY <1>5, <1>6, <1>7 DEF PreviewReached, near, far

\* With parameters that fit, the command never reads a segment that the last
\* reset has not laid out.
THEOREM CommandReadsThisRoute == ParametersFit => (Spec => []CommandFromThisRoute)
<1> SUFFICES ASSUME ParametersFit PROVE Spec => []CommandFromThisRoute
  OBVIOUS
<1>1. RouteInBounds /\ RouteInv => CommandFromThisRoute
  BY CommandIndices DEF CommandFromThisRoute, RouteInv, FilledByThisRoute
<1>2. Spec => []RouteInv
  BY RouteInvHolds DEF ParametersFit
<1> QED BY <1>1, <1>2, RouteTypeCorrect, PTL

\* With parameters that fit, the lazy extension never shortens the preview.
THEOREM PreviewAlwaysReached == ParametersFit => (Spec => []PreviewReached)
<1> SUFFICES ASSUME ParametersFit PROVE Spec => []PreviewReached
  OBVIOUS
<1>1. RouteInBounds /\ RouteInv => PreviewReached
  BY CommandIndices DEF PreviewReached
<1>2. Spec => []RouteInv
  BY RouteInvHolds DEF ParametersFit
<1> QED BY <1>1, <1>2, RouteTypeCorrect, PTL

-----------------------------------------------------------------------------
(* Big turns *)

\* Induction over the segments of a chunk goes by the least one that fails.
LEMMA LeastElement ==
  ASSUME NEW T, T \subseteq Nat, T # {}
  PROVE  \E x \in T : \A y \in T : x <= y
<1>1. IsWellFoundedOn(OpToRel(<, Nat), Nat)
  BY NatLessThanWellFounded, Zenon
<1>2. PICK x \in T : \A y \in T : ~ (<<y, x>> \in OpToRel(<, Nat))
  BY <1>1, WFMin, Zenon
<1>3. \A y \in T : ~(y < x)
  BY <1>2 DEF OpToRel
<1> QED BY <1>3

LEMMA StepByStep ==
  ASSUME NEW n \in Nat, NEW T, 0 \in T, \A j \in 0 .. n - 1 : j \in T => j + 1 \in T
  PROVE  n \in T
<1> SUFFICES ASSUME n \notin T PROVE FALSE
  OBVIOUS
<1>1. (0 .. n) \ T \subseteq Nat /\ (0 .. n) \ T # {}
  BY SMT
<1>2. PICK x \in (0 .. n) \ T : \A y \in (0 .. n) \ T : x <= y
  BY <1>1, LeastElement
<1>3. x # 0 /\ x - 1 \in 0 .. n - 1
  BY <1>2
<1>4. x - 1 \in T
  BY <1>2, <1>3
<1> QED BY <1>2, <1>3, <1>4

\* A run of segments of a big turn, in the first `end` segments, that starts at
\* first and goes on at least to last.
Run(segs, first, last) ==
  /\ first <= last
  /\ \A i \in first .. last : segs[i].bend = "big"
  /\ first > 0 => segs[first - 1].bend # "big"

\* The turns in the first `end` segments, with `left` segments of the last one to
\* come: each that is over has its length, and the last one will have it.
TurnsWhole(segs, end, left) ==
  /\ left > 0 => end > 0 /\ segs[end - 1].bend = "big"
  /\ \A first, last \in 0 .. end - 1 :
       Run(segs, first, last) =>
         IF last = end - 1 THEN end - first + left >= MinTurn
         ELSE segs[last + 1].bend # "big" => last - first + 1 >= MinTurn

\* One more segment: it continues a turn, may start one, or is not of a turn.
LEMMA OneMoreSegment ==
  ASSUME NEW segs, NEW end \in Nat, NEW left \in Nat, NEW next \in Nat,
         TurnsWhole(segs, end, left),
         IF left > 0 THEN next = left - 1 ELSE next = 0 \/ next >= MinTurn - 1,
         segs[end].bend = "big" <=> left > 0 \/ next > 0
  PROVE  TurnsWhole(segs, end + 1, next)
<1> USE TurnAssumption
<1>1. next > 0 => end + 1 > 0 /\ segs[end].bend = "big"
  OBVIOUS
<1>2. ASSUME NEW first \in 0 .. end, NEW last \in 0 .. end, Run(segs, first, last)
      PROVE  IF last = end THEN (end + 1) - first + next >= MinTurn
             ELSE segs[last + 1].bend # "big" => last - first + 1 >= MinTurn
  <2>1. /\ first <= last
        /\ \A i \in first .. last : segs[i].bend = "big"
        /\ first > 0 => segs[first - 1].bend # "big"
    BY <1>2 DEF Run
  <2>2. CASE last = end
    <3>1. left > 0 \/ next > 0
      BY <2>1, <2>2
    <3>2. CASE first = end
      <4>1. left = 0
        BY <2>1, <3>2 DEF TurnsWhole
      <4> QED BY <2>2, <3>1, <3>2, <4>1
    <3>3. CASE first < end
      <4>1. end - 1 \in 0 .. end - 1 /\ first \in 0 .. end - 1 /\ first <= end - 1
        BY <3>3
      <4>2. Run(segs, first, end - 1)
        BY <2>1, <2>2, <4>1 DEF Run
      <4>3. end - first + left >= MinTurn
        BY <4>1, <4>2 DEF TurnsWhole
      <4> QED BY <2>2, <4>3
    <3> QED BY <3>2, <3>3
  <2>3. CASE last < end
    <3> SUFFICES ASSUME segs[last + 1].bend # "big" PROVE last - first + 1 >= MinTurn
      BY <2>3
    <3>1. last \in 0 .. end - 1 /\ first \in 0 .. end - 1
      BY <2>1, <2>3
    <3>2. CASE last = end - 1
      <4>1. left = 0
        BY <3>2
      <4>2. end - first + left >= MinTurn
        BY <1>2, <3>1, <3>2 DEF TurnsWhole
      <4> QED BY <3>2, <4>1, <4>2
    <3>3. CASE last # end - 1
      BY <1>2, <3>1, <3>3 DEF TurnsWhole
    <3> QED BY <3>2, <3>3
  <2> QED BY <2>2, <2>3
<1> QED BY <1>1, <1>2 DEF TurnsWhole

\* What is whole stays so while only later segments change.
LEMMA TurnsWholeKept ==
  ASSUME NEW segs, NEW others, NEW end \in Nat, NEW left \in Nat,
         \A i \in 0 .. end - 1 : others[i] = segs[i],
         TurnsWhole(segs, end, left)
  PROVE  TurnsWhole(others, end, left)
<1>1. left > 0 => end > 0 /\ others[end - 1].bend = "big"
  BY DEF TurnsWhole
<1>2. ASSUME NEW first \in 0 .. end - 1, NEW last \in 0 .. end - 1, Run(others, first, last)
      PROVE  IF last = end - 1 THEN end - first + left >= MinTurn
             ELSE others[last + 1].bend # "big" => last - first + 1 >= MinTurn
  <2>1. Run(segs, first, last)
    BY <1>2 DEF Run
  <2>2. IF last = end - 1 THEN end - first + left >= MinTurn
        ELSE segs[last + 1].bend # "big" => last - first + 1 >= MinTurn
    BY <2>1 DEF TurnsWhole
  <2> QED BY <2>2
<1> QED BY <1>1, <1>2 DEF TurnsWhole

\* A chunk goes on with the turn that was under way, however it cuts the turns.
LEMMA ChunkWhole ==
  ASSUME RouteInBounds, HumanMode, NEW n \in Nat, NEW offset \in Nat, offset + n <= NumSegments,
         NEW start \in Nat, NEW route \in Nat, Build(n, offset, start, route),
         TurnsWhole(segments, offset, start)
  PROVE  turnLeft' \in Nat /\ TurnsWhole(segments', offset + n, turnLeft')
<1>1. PICK left \in TurnsLeft(n, start) :
        /\ segments' = [i \in Segments |->
             IF offset <= i /\ i < offset + n
             THEN [route |-> route, bend |-> Bend(left, i - offset + 1)]
             ELSE segments[i]]
        /\ turnLeft' = left[n]
  BY DEF Build
<1>2. /\ left \in [0 .. n -> 0 .. MaxTurn - 1]
      /\ left[0] = start
      /\ \A i \in 1 .. n :
           IF left[i-1] > 0 THEN left[i] = left[i-1] - 1
           ELSE left[i] \in {0} \cup MinTurn - 1 .. MaxTurn - 1
  BY DEF TurnsLeft
<1>3. \A j \in 0 .. n : left[j] \in Nat
  BY <1>2, TurnAssumption
<1> DEFINE T == {j \in 0 .. n : TurnsWhole(segments', offset + j, left[j])}
<1>4. 0 \in T
  <2>1. \A i \in 0 .. offset - 1 : segments'[i] = segments[i]
    BY <1>1, RouteAssumption DEF Segments
  <2>2. TurnsWhole(segments', offset, start)
    BY <2>1, TurnsWholeKept
  <2> QED BY <1>2, <2>2
<1>5. ASSUME NEW j \in 0 .. n - 1, j \in T
      PROVE  j + 1 \in T
  <2>1. j \in 0 .. n /\ j + 1 \in 1 .. n /\ (j + 1) - 1 = j /\ offset + j \in Nat
    OBVIOUS
  <2>2. left[j] \in Nat /\ left[j + 1] \in Nat
    BY <1>3, <2>1
  <2>3. IF left[j] > 0 THEN left[j + 1] = left[j] - 1
        ELSE left[j + 1] = 0 \/ left[j + 1] >= MinTurn - 1
    BY <1>2, <2>1, TurnAssumption
  <2>4. segments'[offset + j].bend = Bend(left, j + 1)
    <3>1. offset + j \in Segments /\ offset <= offset + j /\ offset + j < offset + n
          /\ (offset + j) - offset + 1 = j + 1
      BY RouteAssumption DEF Segments
    <3> QED BY <1>1, <3>1
  <2>5. segments'[offset + j].bend = "big" <=> left[j] > 0 \/ left[j + 1] > 0
    BY <2>1, <2>4 DEF Bend
  <2>6. TurnsWhole(segments', (offset + j) + 1, left[j + 1])
    BY <1>5, <2>1, <2>2, <2>3, <2>5, OneMoreSegment
  <2> QED BY <2>1, <2>6
<1> HIDE DEF T
<1>6. n \in T
  BY <1>4, <1>5, StepByStep
<1> QED BY <1>1, <1>3, <1>6 DEF T

\* The turns are whole after every reset and every extension; without the human
\* mode there are none.
TurnInv ==
  IF HumanMode THEN TurnsWhole(segments, filled, turnLeft)
  ELSE \A i \in Segments : segments[i].bend # "big"

LEMMA BuildTurns ==
  ASSUME RouteInBounds, NEW n \in Nat, NEW offset \in Nat, offset + n <= NumSegments,
         NEW start \in Nat, NEW route \in Nat, Build(n, offset, start, route),
         HumanMode => TurnsWhole(segments, offset, start),
         ~HumanMode => TurnInv
  PROVE  TurnInv'
<1>1. CASE HumanMode
  <2>1. filled' = offset + n
    BY DEF Build
  <2> QED BY <1>1, <2>1, ChunkWhole DEF TurnInv
<1>2. CASE ~HumanMode
  <2>1. \A left, i : Bend(left, i) # "big"
    BY <1>2 DEF Bend
  <2> QED BY <1>2, <2>1 DEF TurnInv, Build
<1> QED BY <1>1, <1>2

\* For all lengths of turns, chunks and margins: no turn is cut short by the chunks
\* in which it is laid out.
THEOREM TurnsLaidWhole == Spec => []TurnsComplete
<1>1. Init => TurnInv
  <2> SUFFICES ASSUME Init PROVE TurnInv
    OBVIOUS
  <2>1. filled = 0 /\ turnLeft = 0 /\ \A i \in Segments : segments[i].bend = "none"
    BY DEF Init
  <2>2. TurnsWhole(segments, 0, 0)
    BY DEF TurnsWhole
  <2> QED BY <2>1, <2>2 DEF TurnInv
<1>2. RouteInBounds /\ TurnInv /\ [Next]_vars => TurnInv'
  <2> SUFFICES ASSUME RouteInBounds, TurnInv, [Next]_vars PROVE TurnInv'
    OBVIOUS
  <2>1. CASE Reset
    <3>1. InitialSegments \in Nat /\ 0 + InitialSegments <= NumSegments
          /\ resets + 1 \in Nat
      BY InitialSegmentsRange, RouteAssumption DEF RouteInBounds
    <3>2. Build(InitialSegments, 0, 0, resets + 1)
      BY <2>1 DEF Reset, TurnAtReset
    <3>3. TurnsWhole(segments, 0, 0)
      BY DEF TurnsWhole
    <3> QED BY <3>1, <3>2, <3>3, BuildTurns
  <2>2. CASE ExtendIfNeeded
    <3>1. CASE NeedsExtension
      <4> DEFINE n == Smaller(ExtendChunk, NumSegments - filled)
      <4>1. /\ n \in Nat /\ filled \in Nat /\ filled + n <= NumSegments
            /\ turnLeft \in Nat /\ resets \in Nat
        BY RouteAssumption DEF Smaller, RouteInBounds
      <4>2. Build(n, filled, turnLeft, resets)
        BY <2>2, <3>1 DEF ExtendIfNeeded
      <4> HIDE DEF n
      <4> QED BY <4>1, <4>2, BuildTurns DEF TurnInv
    <3>2. CASE ~NeedsExtension
      BY <2>2, <3>2 DEF ExtendIfNeeded, TurnInv
    <3> QED BY <3>1, <3>2
  <2>3. CASE UNCHANGED vars
    BY <2>3 DEF vars, TurnInv
  <2> QED BY <2>1, <2>2, <2>3 DEF Next, Update
<1>3. RouteInBounds /\ TurnInv => TurnsComplete
  <2> SUFFICES ASSUME RouteInBounds, TurnInv,
                      NEW first \in 0 .. filled - 1, NEW last \in 0 .. filled - 1,
                      \A i \in first .. last : IsBig(i),
                      first <= last,
                      first > 0 => ~IsBig(first - 1),
                      last < filled - 1, ~IsBig(last + 1)
               PROVE  last - first + 1 >= MinTurn
    BY DEF TurnsComplete
  <2>1. filled \in 0 .. NumSegments /\ first \in Segments
    BY RouteAssumption DEF RouteInBounds, Segments
  <2>2. IsBig(first)
    BY <2>1
  <2>3. HumanMode
    BY <2>1, <2>2 DEF TurnInv, IsBig
  <2>4. Run(segments, first, last)
    BY DEF Run, IsBig
  <2> QED BY <2>1, <2>3, <2>4 DEF TurnInv, TurnsWhole, IsBig
<1> QED BY <1>1, <1>2, <1>3, RouteTypeCorrect, PTL DEF Spec
=============================================================================
