--------------------------- MODULE MocapBallProofs ---------------------------
(***************************************************************************)
(* Proofs about MocapBall, for all lags, hold times and timeouts: its      *)
(* types, that a held ball expires, and that the ball stays fresh when the *)
(* timeout covers the lags.                                                *)
(***************************************************************************)
EXTENDS MocapBall, SequenceTheorems, TLAPS

USE DEF Threads, Marker, Origin, Packet

\* The list that the threads share holds markers of one frame: that of the last marker
\* handled, or of the one the callback is about to have handled.  A late append is to the
\* list that the timer is processing.
CallbackInv ==
  /\ phase["callback"] \in {"loaded", "late", "lost", "mark"} => queue # <<>>
  /\ phase["callback"] \in {"late", "lost"} => group = {}
  /\ phase["callback"] = "late" => phase["timer"] \notin Swapping
  /\ phase["callback"] = "loaded" /\ group # {} => Head(queue).stamp = lastMarker.stamp
  /\ \A m \in group :
       m.stamp = IF phase["callback"] = "mark" THEN Head(queue).stamp ELSE lastMarker.stamp
  /\ phase["callback"] = "late" /\ phase["timer"] = "choose" =>
       \A m \in work["timer"] : m.stamp = Head(queue).stamp

\* A thread has a list of its own, with markers of one frame, from the moment it is
\* replaced until the end of process_group.
WorkInv ==
  \A t \in Threads :
    /\ phase[t] \notin Processing \cup {"replaced"} => work[t] = {}
    /\ \A m, n \in work[t] : m.stamp = n.stamp

\* What process_group does after the swap.
FilterStep(t) ==
  \/ ReturnEmpty(t) \/ Measure(t) \/ StampMeasurement(t)
  \/ FindNothing(t) \/ HandleMiss(t) \/ Predict(t) \/ KeepPrediction(t)
  \/ PublishBall(t)

LEMMA TimeIsNatural == Time \subseteq Nat /\ 0 \in Time
  BY MaxTimeAssumption DEF Time

\* The messages of a frame are markers of its stamp.
LEMMA FramesOfMarkers ==
  ASSUME NEW s \in Time, NEW shape \in FrameShapes[s]
  PROVE  /\ Frame(s, shape) \in Seq(Marker)
         /\ \A i \in DOMAIN Frame(s, shape) : Frame(s, shape)[i].stamp = s
  <1>1. shape \in Seq(BOOLEAN)  BY PipelineAssumption
  <1>2. Len(shape) \in Nat /\ DOMAIN shape = 1 .. Len(shape)
    BY <1>1, LenProperties
  <1>3. \A i \in 1 .. Len(shape) : shape[i] \in BOOLEAN  BY <1>1, <1>2, ElementOfSeq
  <1>4. Frame(s, shape) \in [1 .. Len(shape) -> Marker]  BY <1>2, <1>3 DEF Frame
  <1>5. Frame(s, shape) \in Seq(Marker)
    <2> HIDE DEF Marker
    <2> QED  BY <1>2, <1>4, SeqDef
  <1> QED  BY <1>5 DEF Frame

LEMMA HeadIsMarker ==
  ASSUME TypeOK, queue # <<>>
  PROVE  Head(queue) \in Marker /\ Tail(queue) \in Seq(Marker)
  <1> HIDE DEF Marker
  <1>1. queue \in Seq(Marker)  BY DEF TypeOK
  <1> QED  BY <1>1, HeadTailProperties

LEMMA HeadInOrder ==
  ASSUME TypeOK, MarkersInOrder, queue # <<>>
  PROVE  lastMarker.stamp <= Head(queue).stamp /\ Head(queue).stamp <= clock
  <1>1. 1 \in DOMAIN queue /\ Head(queue) = queue[1]  BY DEF TypeOK
  <1> QED  BY <1>1 DEF MarkersInOrder

\* Every thread takes markers.
LEMMA StampsOfMarkers ==
  ASSUME TypeOK, NEW t \in Threads, NEW stamp \in StampOf(work[t])
  PROVE  /\ stamp \in Time
         /\ \E m \in work[t] : m.stamp = stamp
         /\ \A m \in work[t] : m.stamp <= stamp /\ m.stamp \in Time
  <1>1. work[t] \subseteq Marker  BY DEF TypeOK
  <1> QED  BY <1>1 DEF StampOf

\* A packet is added to the socket.
LEMMA SendType ==
  ASSUME TypeOK, NEW stamp \in Time
  PROVE  Append(socket, [stamp |-> stamp, origin |-> track.origin]) \in Seq(Packet)
  <1>1. [stamp |-> stamp, origin |-> track.origin] \in Packet  BY DEF TypeOK
  <1> QED  BY <1>1 DEF TypeOK

LEMMA PublishType ==
  ASSUME TypeOK, NEW packet \in Packet, Publish(packet)
  PROVE  /\ prev' \in [has : BOOLEAN, stamp : Time]
         /\ inputs' \in [Topics -> Input]
         /\ ball' \in Origin
  <1>1. inputs \in [Topics -> Input]  BY DEF TypeOK, TermTypeOK
  <1>2. [has |-> TRUE, stamp |-> packet.stamp] \in Input  BY DEF Input
  <1>3. \A t \in Topics :
          (IF t \in BallTopics /\ Accepts(t, packet.stamp)
           THEN [has |-> TRUE, stamp |-> packet.stamp] ELSE inputs[t]) \in Input
    BY <1>1, <1>2
  <1>4. inputs' \in [Topics -> Input]  BY <1>3 DEF Publish
  <1>5. prev' \in [has : BOOLEAN, stamp : Time]  BY DEF Publish
  <1>6. ball' \in Origin  BY DEF Publish, TypeOK
  <1> QED  BY <1>4, <1>5, <1>6

LEMMA LastPacket ==
  ASSUME TypeOK, socket # <<>>
  PROVE  /\ Len(socket) \in DOMAIN socket
         /\ socket[Len(socket)] \in Packet
  <1> HIDE DEF Packet
  <1>1. socket \in Seq(Packet)  BY DEF TypeOK
  <1> QED  BY <1>1, ElementOfSeq, EmptySeq, LenProperties

LEMMA CountedType ==
  ASSUME TypeOK, NEW markers \in SUBSET Marker, Counted(markers)
  PROVE  framed' \subseteq Time /\ seen' \subseteq Time
  <1>1. CASE UNCHANGED frameVars  BY <1>1 DEF frameVars, TypeOK
  <1>2. ASSUME NEW m \in markers, framed' = Extended(framed, m.stamp),
               seen' \in {seen, Extended(seen, m.stamp)}
        PROVE  framed' \subseteq Time /\ seen' \subseteq Time
    BY <1>2 DEF TypeOK, Extended
  <1> QED  BY <1>1, <1>2 DEF Counted

\* The steps of a thread after the swap leave the group and the queue alone.
LEMMA FilterFrame ==
  ASSUME TypeOK, NEW t \in Threads, FilterStep(t)
  PROVE  /\ UNCHANGED <<termVars, queue, group, lastMarker, prev, ball, frameVars>>
         /\ phase[t] \in Processing
         /\ \/ \E next \in Processing \ {"choose"} : GoesTo(t, next) /\ UNCHANGED work
            \/ GoesTo(t, "idle") /\ work' = [work EXCEPT ![t] = {}]
  <1> USE DEF Processing, Leave, receiverVars
  <1>2. CASE ReturnEmpty(t)  BY <1>2 DEF ReturnEmpty
  <1>3. CASE Measure(t)  BY <1>3 DEF Measure
  <1>4. CASE StampMeasurement(t)  BY <1>4 DEF StampMeasurement
  <1>5. CASE FindNothing(t)  BY <1>5 DEF FindNothing
  <1>6. CASE HandleMiss(t)  BY <1>6 DEF HandleMiss
  <1>7. CASE Predict(t)  BY <1>7 DEF Predict
  <1>8. CASE KeepPrediction(t)  BY <1>8 DEF KeepPrediction
  <1>9. CASE PublishBall(t)  BY <1>9 DEF PublishBall
  <1> QED  BY <1>2, <1>3, <1>4, <1>5, <1>6, <1>7, <1>8, <1>9 DEF FilterStep

\* What they do to the filter and to the socket.
LEMMA FilterType ==
  ASSUME TypeOK, NEW t \in Threads, FilterStep(t)
  PROVE  /\ track' \in [has : BOOLEAN, measured : Time, origin : Origin]
         /\ socket' \in Seq(Packet)
         /\ kept' \in [Threads -> Time]
  <1> USE DEF TypeOK, receiverVars
  <1>1. 0 \in Time  BY TimeIsNatural
  <1>2. CASE ReturnEmpty(t)  BY <1>1, <1>2 DEF ReturnEmpty, Leave
  <1>3. CASE Measure(t)
    <2>1. PICK stamp \in StampOf(work[t]) :
            track' = [track EXCEPT !.origin = [from |-> stamp, shared |-> OtherProcessing(t)]]
      BY <1>3 DEF Measure
    <2>2. stamp \in Time /\ OtherProcessing(t) \in BOOLEAN
      BY StampsOfMarkers DEF OtherProcessing
    <2> QED  BY <1>3, <2>1, <2>2 DEF Measure
  <1>4. CASE StampMeasurement(t)
    <2>1. PICK stamp \in StampOf(work[t]) :
            track' = [track EXCEPT !.has = TRUE, !.measured = stamp]
      BY <1>4, Zenon DEF StampMeasurement
    <2>2. stamp \in Time  BY StampsOfMarkers
    <2> QED  BY <1>4, <2>1, <2>2 DEF StampMeasurement
  <1>5. CASE FindNothing(t)  BY <1>5 DEF FindNothing
  <1>6. CASE HandleMiss(t)  BY <1>1, <1>6 DEF HandleMiss, Leave
  <1>7. CASE Predict(t)  BY <1>7 DEF Predict
  <1>8. CASE KeepPrediction(t)  BY <1>8 DEF KeepPrediction
  <1>9. CASE PublishBall(t)
    <2>1. PICK stamp \in StampOf(work[t]) :
            socket' = Append(socket, [stamp |-> stamp, origin |-> track.origin])
      BY <1>9 DEF PublishBall
    <2>2. stamp \in Time  BY StampsOfMarkers
    <2>3. socket' \in Seq(Packet)  BY <2>1, <2>2, SendType
    <2> QED  BY <1>1, <1>9, <2>3 DEF PublishBall, Leave
  <1> QED  BY <1>2, <1>3, <1>4, <1>5, <1>6, <1>7, <1>8, <1>9 DEF FilterStep

-----------------------------------------------------------------------------
LEMMA InitTypeOK == Init => TypeOK
  <1> SUFFICES ASSUME Init PROVE TypeOK  OBVIOUS
  <1>1. NoInputs \in [Topics -> Input]  BY TimeIsNatural DEF NoInputs, Input
  <1>2. TermTypeOK
    BY <1>1, TimeIsNatural
       DEF Init, TermInit, TermTypeOK, Route, Commands, NoRoute, NoCommand, Sources
  <1>3. queue \in Seq(Marker) /\ socket \in Seq(Packet)  BY DEF Init
  <1>4. phase \in [Threads -> Outside \cup Swapping \cup Processing]
    BY DEF Init, Outside
  <1> QED  BY <1>2, <1>3, <1>4, TimeIsNatural DEF Init, TypeOK, NoOrigin

\* The steps that only move a thread on.
LEMMA MoveType ==
  ASSUME TypeOK, NEW t \in Threads, NEW next \in Outside \cup Swapping \cup Processing,
         GoesTo(t, next),
         UNCHANGED <<termVars, queue, group, lastMarker, work, kept, track, receiverVars,
                     frameVars>>
  PROVE  TypeOK'
  <1>1. TermTypeOK'  BY DEF TypeOK, TermTypeOK, termVars
  <1>2. phase' \in [Threads -> Outside \cup Swapping \cup Processing]
    BY DEF TypeOK, GoesTo
  <1> QED  BY <1>1, <1>2 DEF TypeOK, receiverVars, frameVars

LEMMA AppendMarkerType == TypeOK /\ CallbackInv /\ AppendMarker => TypeOK'
  <1> SUFFICES ASSUME TypeOK, CallbackInv, AppendMarker PROVE TypeOK'  OBVIOUS
  <1>1. queue # <<>>  BY DEF AppendMarker, CallbackInv
  <1>2. Head(queue) \in Marker  BY <1>1, HeadIsMarker
  <1>3. /\ group' \subseteq Marker
        /\ work' \in [Threads -> SUBSET Marker]
        /\ framed' \subseteq Time /\ seen' \subseteq Time
    <2>1. CASE Counted({Head(queue)})
      <3>1. framed' \subseteq Time /\ seen' \subseteq Time
        <4> HIDE DEF Marker
        <4>1. {Head(queue)} \in SUBSET Marker  BY <1>2
        <4> QED  BY <2>1, <4>1, CountedType
      <3>2. group' \subseteq Marker /\ work' \in [Threads -> SUBSET Marker]
        <4> HIDE DEF Marker
        <4> QED  BY <1>2 DEF AppendMarker, TypeOK
      <3> QED  BY <3>1, <3>2
    <2>2. CASE UNCHANGED frameVars
      <3> HIDE DEF Marker
      <3>1. group' \subseteq Marker /\ work' \in [Threads -> SUBSET Marker]
        BY <1>2 DEF AppendMarker, TypeOK
      <3> QED  BY <2>2, <3>1 DEF frameVars, TypeOK
    <2> QED  BY <2>1, <2>2 DEF AppendMarker
  <1>4. TermTypeOK'  BY DEF TypeOK, AppendMarker, TermTypeOK, termVars
  <1>5. phase' \in [Threads -> Outside \cup Swapping \cup Processing]
    BY DEF TypeOK, AppendMarker, GoesTo, Outside
  <1> QED  BY <1>3, <1>4, <1>5 DEF TypeOK, AppendMarker, receiverVars

LEMMA MarkHandledType == TypeOK /\ CallbackInv /\ MarkHandled => TypeOK'
  <1> SUFFICES ASSUME TypeOK, CallbackInv, MarkHandled PROVE TypeOK'  OBVIOUS
  <1>1. queue # <<>>  BY DEF MarkHandled, CallbackInv
  <1>2. /\ queue' \in Seq(Marker)
        /\ lastMarker' \in [stamp : Time, wall : Time]
    <2>1. clock \in Time  BY DEF TypeOK, TermTypeOK
    <2> QED  BY <1>1, <2>1, HeadIsMarker DEF MarkHandled
  <1>3. TermTypeOK'  BY DEF TypeOK, MarkHandled, TermTypeOK, termVars
  <1>4. phase' \in [Threads -> Outside \cup Swapping \cup Processing]
    BY DEF TypeOK, MarkHandled, GoesTo, Outside
  <1> QED  BY <1>2, <1>3, <1>4 DEF TypeOK, MarkHandled, receiverVars, frameVars

LEMMA ReplaceGroupType ==
  ASSUME TypeOK, NEW t \in Threads, ReplaceGroup(t)
  PROVE  TypeOK'
  <1>1. /\ group' \subseteq Marker
        /\ work' \in [Threads -> SUBSET Marker]
        /\ framed' \subseteq Time /\ seen' \subseteq Time
    <2> HIDE DEF Marker
    <2>1. group \in SUBSET Marker /\ work \in [Threads -> SUBSET Marker]  BY DEF TypeOK
    <2>2. group' \subseteq Marker /\ work' \in [Threads -> SUBSET Marker]
      BY <2>1 DEF ReplaceGroup
    <2>3. CASE Counted(group)  BY <2>1, <2>2, <2>3, CountedType
    <2>4. CASE UNCHANGED frameVars  BY <2>2, <2>4 DEF frameVars, TypeOK
    <2> QED  BY <2>3, <2>4 DEF ReplaceGroup
  <1>2. track' \in [has : BOOLEAN, measured : Time, origin : Origin]
    <2>1. track' = [track EXCEPT !.origin.shared = @ \/ OtherProcessing(t)]
      BY DEF ReplaceGroup
    <2>2. track \in [has : BOOLEAN, measured : Time, origin : Origin]  BY DEF TypeOK
    <2>3. (track.origin.shared \/ OtherProcessing(t)) \in BOOLEAN  OBVIOUS
    <2> QED  BY <2>1, <2>2, <2>3
  <1>3. phase' \in [Threads -> Outside \cup Swapping \cup Processing]
    BY DEF TypeOK, ReplaceGroup, Outside, Swapping, Processing
  <1>4. TermTypeOK'  BY DEF TypeOK, ReplaceGroup, TermTypeOK, termVars
  <1> QED  BY <1>1, <1>2, <1>3, <1>4 DEF TypeOK, ReplaceGroup, receiverVars

LEMMA FilterStepType ==
  ASSUME TypeOK, NEW t \in Threads, FilterStep(t)
  PROVE  TypeOK'
  <1>1. UNCHANGED <<termVars, queue, group, lastMarker, prev, ball, frameVars>>
    BY FilterFrame
  <1>2. \/ \E next \in Processing \ {"choose"} : GoesTo(t, next) /\ UNCHANGED work
        \/ GoesTo(t, "idle") /\ work' = [work EXCEPT ![t] = {}]
    BY FilterFrame
  <1>3. phase' \in [Threads -> Outside \cup Swapping \cup Processing]
    BY <1>2 DEF TypeOK, Outside, GoesTo
  <1>4. work' \in [Threads -> SUBSET Marker]
    <2> HIDE DEF Marker
    <2> QED  BY <1>2 DEF TypeOK
  <1>5. TermTypeOK'  BY <1>1 DEF TypeOK, TermTypeOK, termVars
  <1>6. /\ track' \in [has : BOOLEAN, measured : Time, origin : Origin]
        /\ socket' \in Seq(Packet)
        /\ kept' \in [Threads -> Time]
    BY FilterType
  <1> QED  BY <1>1, <1>3, <1>4, <1>5, <1>6 DEF TypeOK, frameVars

LEMMA ReceiveType == TypeOK /\ Receive => TypeOK'
  <1> SUFFICES ASSUME TypeOK, Receive PROVE TypeOK'  OBVIOUS
  <1>1. socket[Len(socket)] \in Packet  BY LastPacket DEF Receive
  <1>2. /\ prev' \in [has : BOOLEAN, stamp : Time]
        /\ inputs' \in [Topics -> Input]
        /\ ball' \in Origin
    <2>1. CASE Publish(socket[Len(socket)])  BY <2>1, <1>1, PublishType
    <2>2. CASE UNCHANGED <<prev, inputs, ball>>  BY <2>2 DEF TypeOK, TermTypeOK
    <2> QED  BY <2>1, <2>2 DEF Receive
  <1>3. socket' \in Seq(Packet)  BY DEF Receive
  <1>4. TermTypeOK'  BY <1>2 DEF TypeOK, Receive, TermTypeOK
  <1> QED  BY <1>2, <1>3, <1>4 DEF TypeOK, Receive, trackerVars, threadVars, frameVars

LEMMA NextFrameType == TypeOK /\ NextFrame => TypeOK'
  <1> SUFFICES ASSUME TypeOK, NextFrame PROVE TypeOK'  OBVIOUS
  <1>1. clock' \in Time  BY MaxTimeAssumption DEF TypeOK, TermTypeOK, NextFrame, Tick, Time
  <1>2. PICK shape \in FrameShapes[clock'] :
          queue' = IF clock' + TrackerLag <= MaxTime THEN queue \o Frame(clock', shape)
                   ELSE queue
    BY DEF NextFrame
  <1>3. Frame(clock', shape) \in Seq(Marker)  BY <1>1, FramesOfMarkers
  <1>4. queue' \in Seq(Marker)
    <2> HIDE DEF Marker
    <2> QED  BY <1>2, <1>3 DEF TypeOK
  <1>5. TermTypeOK'  BY <1>1 DEF TypeOK, NextFrame, Tick, TermTypeOK
  <1>6. framed' \subseteq Time /\ seen' \subseteq Time  BY DEF TypeOK, NextFrame
  <1> QED  BY <1>4, <1>5, <1>6 DEF TypeOK, NextFrame, threadVars, receiverVars

-----------------------------------------------------------------------------
\* The order of the markers.
LEMMA HandledInOrder ==
  ASSUME TypeOK, MarkersInOrder, queue # <<>>, MarkHandled
  PROVE  MarkersInOrder'
  <1> HIDE DEF Marker
  <1>1. queue \in Seq(Marker)  BY DEF TypeOK
  <1>2. /\ Len(queue) \in Nat /\ Len(queue) >= 1 /\ DOMAIN queue = 1 .. Len(queue)
        /\ Head(queue) = queue[1]
    BY <1>1, EmptySeq, LenProperties
  <1>3. /\ DOMAIN Tail(queue) = 1 .. Len(queue) - 1
        /\ \A i \in DOMAIN Tail(queue) : Tail(queue)[i] = queue[i + 1]
    <2>1. Tail(queue) \in Seq(Marker) /\ Len(Tail(queue)) = Len(queue) - 1
      BY <1>1, HeadTailProperties
    <2> QED  BY <1>1, <2>1, HeadTailProperties, LenProperties
  <1>4. ASSUME NEW i \in DOMAIN Tail(queue)
        PROVE  /\ Head(queue).stamp <= Tail(queue)[i].stamp
               /\ Tail(queue)[i].stamp <= clock
               /\ \A j \in 1 .. i : Tail(queue)[j].stamp <= Tail(queue)[i].stamp
    <2>1. i + 1 \in DOMAIN queue /\ 1 \in 1 .. i + 1  BY <1>2, <1>3
    <2>2. Head(queue).stamp <= queue[i + 1].stamp /\ queue[i + 1].stamp <= clock
      BY <1>2, <2>1 DEF MarkersInOrder
    <2>3. ASSUME NEW j \in 1 .. i
          PROVE  Tail(queue)[j].stamp <= Tail(queue)[i].stamp
      <3>1. j \in DOMAIN Tail(queue) /\ j + 1 \in 1 .. i + 1  BY <1>2, <1>3
      <3> QED  BY <3>1, <2>1, <1>3 DEF MarkersInOrder
    <2> QED  BY <2>2, <2>3, <1>3
  <1>5. Head(queue).stamp <= clock  BY HeadInOrder
  <1>6. lastMarker'.stamp = Head(queue).stamp /\ queue' = Tail(queue) /\ clock' = clock
    BY DEF MarkHandled, termVars
  <1> QED  BY <1>4, <1>5, <1>6 DEF MarkersInOrder

LEMMA FrameInOrder == TypeOK /\ MarkersInOrder /\ NextFrame => MarkersInOrder'
  <1> SUFFICES ASSUME TypeOK, MarkersInOrder, NextFrame PROVE MarkersInOrder'  OBVIOUS
  <1> HIDE DEF Marker
  <1>1. clock \in Nat /\ clock' = clock + 1 /\ clock' \in Time /\ lastMarker' = lastMarker
    BY MaxTimeAssumption DEF TypeOK, TermTypeOK, NextFrame, Tick, Time
  <1>2. PICK shape \in FrameShapes[clock'] : queue' \in {queue, queue \o Frame(clock', shape)}
    BY DEF NextFrame
  <1> DEFINE frame == Frame(clock', shape)
  <1>3. /\ queue \in Seq(Marker) /\ frame \in Seq(Marker) /\ lastMarker.stamp \in Nat
        /\ \A n \in DOMAIN frame : frame[n].stamp = clock'
    BY <1>1, FramesOfMarkers, TimeIsNatural DEF TypeOK
  <1> HIDE DEF frame
  <1>4. ASSUME NEW i \in DOMAIN queue
        PROVE  /\ queue[i].stamp \in Nat
               /\ lastMarker.stamp <= queue[i].stamp
               /\ queue[i].stamp <= clock
               /\ \A j \in 1 .. i : queue[j].stamp <= queue[i].stamp
    <2>1. queue[i] \in Marker  BY <1>3, ElementOfSeq
    <2> QED  BY <2>1, TimeIsNatural DEF Marker, MarkersInOrder
  <1>5. lastMarker.stamp <= clock  BY DEF MarkersInOrder
  <1>6. ASSUME NEW q \in {queue, queue \o frame}, NEW i \in DOMAIN q
        PROVE  /\ lastMarker.stamp <= q[i].stamp
               /\ q[i].stamp <= clock + 1
               /\ \A j \in 1 .. i : q[j].stamp <= q[i].stamp
    <2>1. CASE q = queue  BY <2>1, <1>4, <1>1
    <2>2. CASE q = queue \o frame
      <3>1. /\ Len(queue) \in Nat /\ DOMAIN queue = 1 .. Len(queue)
            /\ Len(frame) \in Nat /\ DOMAIN frame = 1 .. Len(frame)
        BY <1>3, LenProperties
      <3>2. /\ DOMAIN q = 1 .. Len(queue) + Len(frame)
            /\ \A n \in 1 .. Len(queue) + Len(frame) :
                 q[n] = IF n <= Len(queue) THEN queue[n] ELSE frame[n - Len(queue)]
        <4>1. q \in Seq(Marker) /\ Len(q) = Len(queue) + Len(frame)
          BY <2>2, <1>3, ConcatProperties
        <4> QED  BY <4>1, <2>2, <1>3, ConcatProperties, LenProperties
      <3>3. ASSUME NEW n \in DOMAIN q, n > Len(queue)
            PROVE  q[n].stamp = clock + 1
        <4>1. n - Len(queue) \in DOMAIN frame  BY <3>1, <3>2, <3>3
        <4> QED  BY <4>1, <3>1, <3>2, <3>3, <1>1, <1>3
      <3>4. ASSUME NEW n \in DOMAIN q, n <= Len(queue)
            PROVE  n \in DOMAIN queue /\ q[n] = queue[n]
        BY <3>1, <3>2, <3>4
      <3>5. CASE i > Len(queue)
        <4>1. q[i].stamp = clock + 1  BY <3>3, <3>5
        <4>2. ASSUME NEW j \in 1 .. i  PROVE q[j].stamp <= clock + 1
          <5>1. j \in DOMAIN q  BY <3>1, <3>2
          <5>2. CASE j > Len(queue)  BY <5>1, <5>2, <3>3, <1>1
          <5>3. CASE j <= Len(queue)
            <6>1. queue[j].stamp \in Nat /\ queue[j].stamp <= clock /\ q[j] = queue[j]
              BY <5>1, <5>3, <3>4, <1>4
            <6> QED  BY <6>1, <1>1
          <5> QED  BY <5>1, <5>2, <5>3, <3>1, <3>2
        <4> QED  BY <4>1, <4>2, <1>1, <1>3, <1>5
      <3>6. CASE i <= Len(queue)
        <4>1. i \in DOMAIN queue /\ q[i] = queue[i]  BY <3>4, <3>6
        <4>2. \A j \in 1 .. i : q[j] = queue[j]  BY <3>1, <3>2, <3>6
        <4> QED  BY <4>1, <4>2, <1>4, <1>1
      <3> QED  BY <3>5, <3>6, <3>1, <3>2
    <2> QED  BY <2>1, <2>2
  <1>7. lastMarker.stamp <= clock + 1  BY <1>1, <1>3, <1>5
  <1> QED  BY <1>1, <1>2, <1>6, <1>7 DEF MarkersInOrder, frame


-----------------------------------------------------------------------------
(* The two threads *)

LEMMA InitThreads == Init => CallbackInv /\ WorkInv /\ MarkersInOrder
  BY DEF Init, TermInit, CallbackInv, WorkInv, MarkersInOrder, Processing, Swapping

\* The markers of the list have one stamp.
LEMMA GroupOfOneFrame ==
  ASSUME CallbackInv
  PROVE  \A m, n \in group : m.stamp = n.stamp
  BY DEF CallbackInv

LEMMA EnterThreads ==
  ASSUME TypeOK, CallbackInv, WorkInv, NEW t \in Threads, EnterProcessGroup(t)
  PROVE  CallbackInv' /\ WorkInv'
  <1>1. /\ phase' = [phase EXCEPT ![t] = "take"] /\ phase[t] = "idle" /\ group # {}
        /\ UNCHANGED <<queue, group, lastMarker, work>>
    BY DEF EnterProcessGroup, GoesTo, MayTake
  <1>2. /\ phase'[t] = "take" /\ \A u \in Threads : u # t => phase'[u] = phase[u]
    BY <1>1 DEF TypeOK
  <1>3. CallbackInv'  BY <1>1, <1>2 DEF CallbackInv, Swapping
  <1>4. WorkInv'  BY <1>1, <1>2 DEF WorkInv, Processing
  <1> QED  BY <1>3, <1>4

LEMMA LoadThreads ==
  ASSUME TypeOK, MarkersInOrder, CallbackInv, WorkInv, LoadGroup
  PROVE  CallbackInv' /\ WorkInv'
  <1>1. /\ phase' = [phase EXCEPT !["callback"] = "loaded"] /\ phase["callback"] = "idle"
        /\ queue # <<>> /\ ~MayTake("callback")
        /\ UNCHANGED <<queue, group, lastMarker, work>>
    BY DEF LoadGroup, GoesTo
  <1>2. phase'["callback"] = "loaded" /\ phase'["timer"] = phase["timer"]
    BY <1>1 DEF TypeOK
  <1>3. group # {} => Head(queue).stamp = lastMarker.stamp
    <2>1. group # {} => ~(Head(queue).stamp > lastMarker.stamp)
      BY <1>1 DEF MayTake, NewFrame
    <2>2. lastMarker.stamp <= Head(queue).stamp  BY <1>1, HeadInOrder
    <2>3. lastMarker.stamp \in Nat /\ Head(queue).stamp \in Nat
      BY <1>1, HeadIsMarker, TimeIsNatural DEF TypeOK
    <2> QED  BY <2>1, <2>2, <2>3
  <1>4. CallbackInv'  BY <1>1, <1>2, <1>3 DEF CallbackInv
  <1>5. WorkInv'  BY <1>1, <1>2 DEF WorkInv, Processing
  <1> QED  BY <1>4, <1>5

LEMMA AppendThreads ==
  ASSUME TypeOK, CallbackInv, WorkInv, AppendMarker
  PROVE  CallbackInv' /\ WorkInv'
  <1>1. /\ phase' = [phase EXCEPT !["callback"] = "mark"]
        /\ phase["callback"] \in {"loaded", "late", "lost"}
        /\ queue # <<>>
        /\ UNCHANGED <<queue, lastMarker>>
    BY DEF AppendMarker, GoesTo, CallbackInv
  <1>2. phase'["callback"] = "mark" /\ phase'["timer"] = phase["timer"]
    BY <1>1 DEF TypeOK
  <1>3. work'["callback"] = work["callback"]  BY DEF AppendMarker, TypeOK
  <1>4. \A m \in group' : m.stamp = Head(queue).stamp
    <2>1. CASE group' = group \cup {Head(queue)} /\ phase["callback"] = "loaded"
      BY <2>1 DEF CallbackInv
    <2>2. CASE UNCHANGED group /\ phase["callback"] \in {"late", "lost"}
      BY <2>2 DEF CallbackInv
    <2> QED  BY <2>1, <2>2 DEF AppendMarker
  <1>5. /\ phase["timer"] \notin Processing \cup {"replaced"} => work'["timer"] = {}
        /\ \A m, n \in work'["timer"] : m.stamp = n.stamp
    <2>1. CASE UNCHANGED work  BY <2>1 DEF WorkInv
    <2>2. CASE /\ phase["callback"] = "late" /\ phase["timer"] = "choose"
               /\ work' = [work EXCEPT !["timer"] = @ \cup {Head(queue)}]
      <3>1. work'["timer"] = work["timer"] \cup {Head(queue)}  BY <2>2 DEF TypeOK
      <3> QED  BY <3>1, <2>2 DEF CallbackInv, Processing
    <2> QED  BY <2>1, <2>2 DEF AppendMarker
  <1>6. CallbackInv'  BY <1>1, <1>2, <1>4 DEF CallbackInv
  <1>7. WorkInv'  BY <1>1, <1>2, <1>3, <1>5 DEF WorkInv, Processing
  <1> QED  BY <1>6, <1>7

LEMMA MarkThreads ==
  ASSUME TypeOK, CallbackInv, WorkInv, MarkHandled
  PROVE  CallbackInv' /\ WorkInv'
  <1>1. /\ phase' = [phase EXCEPT !["callback"] = "idle"] /\ phase["callback"] = "mark"
        /\ lastMarker'.stamp = Head(queue).stamp
        /\ UNCHANGED <<group, work>>
    BY DEF MarkHandled, GoesTo
  <1>2. phase'["callback"] = "idle" /\ phase'["timer"] = phase["timer"]
    BY <1>1 DEF TypeOK
  <1>3. CallbackInv'  BY <1>1, <1>2 DEF CallbackInv
  <1>4. WorkInv'  BY <1>1, <1>2 DEF WorkInv, Processing
  <1> QED  BY <1>3, <1>4

LEMMA ReadThreads ==
  ASSUME TypeOK, CallbackInv, WorkInv, NEW t \in Threads, ReadGroup(t)
  PROVE  CallbackInv' /\ WorkInv'
  <1>1. /\ phase' = [phase EXCEPT ![t] = "read"] /\ phase[t] = "take"
        /\ UNCHANGED <<queue, group, lastMarker, work>>
    BY DEF ReadGroup, GoesTo
  <1>2. /\ phase'[t] = "read" /\ \A u \in Threads : u # t => phase'[u] = phase[u]
    BY <1>1 DEF TypeOK
  <1>3. CallbackInv'  BY <1>1, <1>2 DEF CallbackInv, Swapping
  <1>4. WorkInv'  BY <1>1, <1>2 DEF WorkInv, Processing
  <1> QED  BY <1>3, <1>4

\* What the swap does to the phases and the lists of the threads.
LEMMA SwapMoves ==
  ASSUME TypeOK, WorkInv, NEW t \in Threads, ReplaceGroup(t)
  PROVE  /\ phase[t] \in {"read", "replaced"} /\ phase'[t] = "choose" /\ group' = {}
         /\ UNCHANGED <<clock, queue, lastMarker, inputs, socket, kept>>
         /\ \A u \in Threads \ {t} :
              \/ phase[u] = "read" /\ phase'[u] = "replaced"
              \/ phase[u] = "loaded" /\ phase'[u] \in {"late", "lost"}
              \/ phase[u] \notin {"read", "loaded"} /\ phase'[u] = phase[u]
         /\ \A u \in Threads :
              \/ phase[u] = "read" /\ work[u] = {} /\ work'[u] = group
              \/ phase[u] # "read" /\ work'[u] = work[u]
         /\ \A u \in Threads \ {t} : phase'[u] = "late" => phase[u] = "late" \/ work'[t] = group
  <1>1. /\ phase[t] \in {"read", "replaced"}
        /\ phase' = [u \in Threads |->
                 IF u = t THEN "choose"
                 ELSE IF u \in Readers THEN "replaced"
                 ELSE IF phase[u] # "loaded" THEN phase[u]
                 ELSE IF t \in Readers THEN "late"
                 ELSE "lost"]
        /\ work' = [u \in Threads |-> IF u \in Readers THEN group ELSE work[u]]
    BY DEF ReplaceGroup
  <1>2. group' = {} /\ UNCHANGED <<clock, queue, lastMarker, inputs, socket, kept>>
    BY DEF ReplaceGroup, termVars, receiverVars
  <1>3. \A u \in Threads : phase[u] = "read" => work[u] = {}
    BY DEF WorkInv, Processing
  <1>4. \A u \in Threads : u \in Readers <=> phase[u] = "read"  BY DEF Readers
  <1>5. /\ phase'[t] = "choose"
        /\ \A u \in Threads : work'[u] = IF phase[u] = "read" THEN group ELSE work[u]
    BY <1>1, <1>4
  <1>6. ASSUME NEW u \in Threads \ {t}
        PROVE  phase'[u] = IF phase[u] = "read" THEN "replaced"
                           ELSE IF phase[u] # "loaded" THEN phase[u]
                           ELSE IF phase[t] = "read" THEN "late"
                           ELSE "lost"
    BY <1>1, <1>4
  <1> QED  BY <1>1, <1>2, <1>3, <1>5, <1>6

LEMMA ReplaceThreads ==
  ASSUME TypeOK, CallbackInv, WorkInv, NEW t \in Threads, ReplaceGroup(t)
  PROVE  CallbackInv' /\ WorkInv'
  <1>1. WorkInv'
    <2>1. ASSUME NEW u \in Threads, phase'[u] \notin Processing \cup {"replaced"}
          PROVE  work'[u] = {}
      BY <2>1, SwapMoves DEF WorkInv, Processing
    <2>2. ASSUME NEW u \in Threads
          PROVE  \A m, n \in work'[u] : m.stamp = n.stamp
      BY SwapMoves, GroupOfOneFrame DEF WorkInv
    <2> QED  BY <2>1, <2>2 DEF WorkInv
  <1>2. CASE t = "callback"
    <2>1. phase'["callback"] = "choose" /\ group' = {}  BY <1>2, SwapMoves
    <2> QED  BY <1>1, <2>1 DEF CallbackInv
  <1>3. CASE t = "timer"
    <2>1. /\ phase[t] \in Swapping /\ phase'[t] = "choose" /\ t = "timer"
          /\ group' = {} /\ UNCHANGED <<queue, lastMarker>>
      BY <1>3, SwapMoves DEF Swapping
    <2>2. \/ phase["callback"] = "read" /\ phase'["callback"] = "replaced"
          \/ phase["callback"] = "loaded" /\ phase'["callback"] \in {"late", "lost"}
          \/ phase["callback"] \notin {"read", "loaded"} /\ phase'["callback"] = phase["callback"]
      BY <1>3, SwapMoves
    <2>3. phase["callback"] # "late"  BY <2>1 DEF CallbackInv
    <2>4. phase'["callback"] = "late" => work'["timer"] = group
      BY <1>3, <2>3, SwapMoves
    <2>5. phase'["callback"] = "late" => phase["callback"] = "loaded"  BY <2>2, <2>3
    <2>6. phase'["callback"] = "late" => \A m \in work'["timer"] : m.stamp = Head(queue).stamp
      BY <2>4, <2>5 DEF CallbackInv
    <2>7. phase'["callback"] \in {"loaded", "late", "lost", "mark"} => queue # <<>>
      BY <2>2 DEF CallbackInv
    <2> QED  BY <1>1, <2>1, <2>6, <2>7 DEF CallbackInv, Swapping
  <1> QED  BY <1>1, <1>2, <1>3

\* After the swap a thread only moves on through process_group, or out of it.
LEMMA FilterMoves ==
  ASSUME TypeOK, NEW t \in Threads, FilterStep(t)
  PROVE  /\ UNCHANGED <<clock, inputs, queue, group, lastMarker, prev, ball, frameVars>>
         /\ phase[t] \in Processing
         /\ \A u \in Threads \ {t} : phase'[u] = phase[u] /\ work'[u] = work[u]
         /\ \/ phase'[t] \in Processing \ {"choose"} /\ work'[t] = work[t]
            \/ phase'[t] = "idle" /\ work'[t] = {}
  <1>1. /\ UNCHANGED <<termVars, queue, group, lastMarker, prev, ball, frameVars>>
        /\ phase[t] \in Processing
        /\ \/ \E next \in Processing \ {"choose"} : GoesTo(t, next) /\ UNCHANGED work
           \/ GoesTo(t, "idle") /\ work' = [work EXCEPT ![t] = {}]
    BY FilterFrame
  <1>2. CASE GoesTo(t, "idle") /\ work' = [work EXCEPT ![t] = {}]
    BY <1>1, <1>2 DEF TypeOK, GoesTo, termVars
  <1>3. ASSUME NEW next \in Processing \ {"choose"}, GoesTo(t, next) /\ UNCHANGED work
        PROVE  /\ phase'[t] = next /\ work'[t] = work[t]
               /\ \A u \in Threads \ {t} : phase'[u] = phase[u] /\ work'[u] = work[u]
    BY <1>3 DEF TypeOK, GoesTo
  <1> QED  BY <1>1, <1>2, <1>3 DEF termVars

LEMMA FilterThreads ==
  ASSUME TypeOK, CallbackInv, WorkInv, NEW t \in Threads, FilterStep(t)
  PROVE  CallbackInv' /\ WorkInv'
  <1>1. /\ phase[t] \in Processing
        /\ UNCHANGED <<queue, group, lastMarker>>
        /\ \A u \in Threads \ {t} : phase'[u] = phase[u] /\ work'[u] = work[u]
        /\ \/ phase'[t] \in Processing \ {"choose"} /\ work'[t] = work[t]
           \/ phase'[t] = "idle" /\ work'[t] = {}
    BY FilterMoves
  <1>2. WorkInv'  BY <1>1 DEF WorkInv
  <1>3. CASE t = "callback"
    <2>1. /\ phase["callback"] # "mark"
          /\ phase'["callback"] \notin {"loaded", "late", "lost", "mark"}
      BY <1>1, <1>3 DEF Processing
    <2> QED  BY <1>1, <1>2, <2>1 DEF CallbackInv
  <1>4. CASE t = "timer"
    <2>1. phase'["callback"] = phase["callback"]  BY <1>1, <1>4
    <2>2. phase'["timer"] # "choose" /\ phase'["timer"] \notin Swapping
      BY <1>1, <1>4 DEF Processing, Swapping
    <2> QED  BY <1>1, <1>2, <2>1, <2>2 DEF CallbackInv
  <1> QED  BY <1>2, <1>3, <1>4

LEMMA FrameThreads ==
  ASSUME TypeOK, CallbackInv, WorkInv, NextFrame
  PROVE  CallbackInv' /\ WorkInv'
  <1>1. UNCHANGED <<phase, group, lastMarker, work>>  BY DEF NextFrame, threadVars
  <1>2. queue # <<>> => queue' # <<>> /\ Head(queue') = Head(queue)
    <2> HIDE DEF Marker
    <2>1. clock' \in Time
      BY MaxTimeAssumption DEF TypeOK, TermTypeOK, NextFrame, Tick, Time
    <2>2. PICK shape \in FrameShapes[clock'] :
            queue' \in {queue, queue \o Frame(clock', shape)}
      BY DEF NextFrame
    <2>3. queue \in Seq(Marker) /\ Frame(clock', shape) \in Seq(Marker)
      BY <2>1, FramesOfMarkers DEF TypeOK
    <2> DEFINE frame == Frame(clock', shape)
    <2> HIDE DEF frame
    <2>4. ASSUME queue # <<>>
          PROVE  queue \o frame # <<>> /\ Head(queue \o frame) = Head(queue)
      <3>1. frame \in Seq(Marker)  BY <2>3 DEF frame
      <3>2. Len(queue) \in Nat /\ Len(queue) >= 1 /\ Head(queue) = queue[1] /\ Len(frame) \in Nat
        BY <2>3, <2>4, <3>1, EmptySeq, LenProperties
      <3>3. /\ queue \o frame \in Seq(Marker)
            /\ Len(queue \o frame) = Len(queue) + Len(frame)
            /\ (queue \o frame)[1] = queue[1]
        BY <2>3, <3>1, <3>2, ConcatProperties
      <3> QED  BY <3>2, <3>3, EmptySeq
    <2> QED  BY <2>2, <2>4 DEF frame
  <1>3. CallbackInv'  BY <1>1, <1>2 DEF CallbackInv
  <1>4. WorkInv'  BY <1>1 DEF WorkInv
  <1> QED  BY <1>3, <1>4

\* What the two threads keep between them.
PipelineInv == TypeOK /\ MarkersInOrder /\ CallbackInv /\ WorkInv

\* Next, by the steps that the proofs tell apart.
LEMMA StepsOfNext ==
  ASSUME [Next]_vars
  PROVE  \/ \E t \in Threads : \/ EnterProcessGroup(t) \/ ReadGroup(t) \/ ReplaceGroup(t)
                               \/ FilterStep(t)
         \/ LoadGroup \/ AppendMarker \/ MarkHandled
         \/ Receive \/ NextFrame \/ UNCHANGED vars
  BY DEF Next, Thread, ProcessGroup, FilterStep, AppendSteps

LEMMA PipelineNext ==
  ASSUME PipelineInv, [Next]_vars
  PROVE  PipelineInv'
  <1> USE DEF PipelineInv
  <1>1. ASSUME NEW t \in Threads, EnterProcessGroup(t)
        PROVE  PipelineInv'
    <2>1. TypeOK'
      BY <1>1, MoveType DEF EnterProcessGroup, Swapping
    <2>2. MarkersInOrder'  BY <1>1 DEF EnterProcessGroup, MarkersInOrder, termVars
    <2> QED  BY <1>1, <2>1, <2>2, EnterThreads
  <1>2. CASE LoadGroup
    <2>1. TypeOK'  BY <1>2, MoveType DEF LoadGroup, Outside
    <2>2. MarkersInOrder'  BY <1>2 DEF LoadGroup, MarkersInOrder, termVars
    <2> QED  BY <1>2, <2>1, <2>2, LoadThreads
  <1>3. CASE AppendMarker
    <2>1. MarkersInOrder'  BY <1>3 DEF AppendMarker, MarkersInOrder, termVars
    <2> QED  BY <1>3, <2>1, AppendMarkerType, AppendThreads
  <1>4. CASE MarkHandled
    <2>1. queue # <<>>  BY <1>4 DEF MarkHandled, CallbackInv
    <2> QED  BY <1>4, <2>1, MarkHandledType, MarkThreads, HandledInOrder
  <1>5. ASSUME NEW t \in Threads, ReadGroup(t)
        PROVE  PipelineInv'
    <2>1. TypeOK'  BY <1>5, MoveType DEF ReadGroup, Swapping
    <2>2. MarkersInOrder'  BY <1>5 DEF ReadGroup, MarkersInOrder, termVars
    <2> QED  BY <1>5, <2>1, <2>2, ReadThreads
  <1>6. ASSUME NEW t \in Threads, ReplaceGroup(t)
        PROVE  PipelineInv'
    <2>1. MarkersInOrder'  BY <1>6 DEF ReplaceGroup, MarkersInOrder, termVars
    <2> QED  BY <1>6, <2>1, ReplaceGroupType, ReplaceThreads
  <1>7. ASSUME NEW t \in Threads, FilterStep(t)
        PROVE  PipelineInv'
    <2>1. MarkersInOrder'  BY <1>7, FilterMoves DEF MarkersInOrder
    <2> QED  BY <1>7, <2>1, FilterStepType, FilterThreads
  <1>8. CASE Receive
    <2>1. UNCHANGED <<clock, queue, group, lastMarker, phase, work>>
      BY <1>8 DEF Receive, trackerVars, threadVars
    <2> QED  BY <1>8, <2>1, ReceiveType DEF MarkersInOrder, CallbackInv, WorkInv
  <1>9. CASE NextFrame  BY <1>9, NextFrameType, FrameInOrder, FrameThreads
  <1>10. CASE UNCHANGED vars
    <2>1. TypeOK'
      BY <1>10 DEF vars, termVars, trackerVars, threadVars, receiverVars, frameVars, TypeOK,
                   TermTypeOK
    <2>2. UNCHANGED <<clock, queue, group, lastMarker, phase, work>>
      BY <1>10 DEF vars, termVars, trackerVars, threadVars
    <2> QED  BY <2>1, <2>2 DEF MarkersInOrder, CallbackInv, WorkInv
  <1> QED
    BY <1>1, <1>2, <1>3, <1>4, <1>5, <1>6, <1>7, <1>8, <1>9, <1>10, StepsOfNext

\* For all lags, frames and interleavings: the state has its types, the markers keep their
\* order, and what a thread processes is of one frame.
THEOREM PipelineTypeCorrect == Spec => [](TypeOK /\ MarkersInOrder /\ CallbackInv /\ WorkInv)
  <1>1. Init => PipelineInv  BY InitTypeOK, InitThreads DEF PipelineInv
  <1>2. PipelineInv /\ [Next]_vars => PipelineInv'  BY PipelineNext
  <1> QED  BY <1>1, <1>2, PTL DEF Spec, PipelineInv

-----------------------------------------------------------------------------
(* A held ball expires *)

\* Two threads that are in process_group at once taint the filtered ball; until both have
\* left, no measurement clears that.
AloneInv ==
  \A t \in Threads : phase[t] \in Processing /\ OtherProcessing(t) => track.origin.shared

\* Else the filtered ball is the one of the last measurement, which is recent enough for
\* what is going to be sent.
AgeInv ==
  ~track.origin.shared =>
    /\ (\A t \in Threads : phase[t] # "stamp") => track.measured = track.origin.from
    /\ \A t \in Threads : \A m \in work[t] :
         /\ phase[t] = "stamp" => m.stamp = track.origin.from
         /\ phase[t] \in {"predict", "keep", "send"} /\ ~StaleHold =>
              m.stamp - track.origin.from <= HoldLimit
    /\ \A t \in Threads : phase[t] = "keep" => kept[t] = track.origin.from

ExpiryInv == AloneInv /\ AgeInv /\ PacketsExpire /\ HeldBallExpires

LEMMA LimitsAreNatural ==
  /\ TrackerLag \in Nat /\ TrackerLag >= 1 /\ LinkLag \in Nat
  /\ JumpCheckMaxDt \in Nat /\ MaxHold \in Nat /\ MaxPredict \in Nat /\ BallTimeout \in Nat
  /\ HoldLimit \in Nat /\ MaxHold <= HoldLimit /\ MaxPredict <= HoldLimit
  BY PipelineAssumption, TimeoutsAssumption DEF HoldLimit

LEMMA InitExpiry == Init => ExpiryInv
  <1>1. "ballPose" \in Topics  BY DEF Topics, BallTopics
  <1> QED
    BY <1>1 DEF Init, TermInit, NoInputs, NoOrigin, ExpiryInv, AloneInv, AgeInv,
                OtherProcessing, Processing, PacketsExpire, HeldBallExpires

\* The steps that leave the filter and what is sent alone.
LEMMA QuietExpiry ==
  ASSUME ExpiryInv, UNCHANGED <<inputs, track, kept, socket, ball>>,
         \A t \in Threads : \/ phase'[t] = phase[t]
                            \/ {phase[t], phase'[t]} \cap Processing = {},
         \A t \in Threads : \/ work'[t] = work[t]
                            \/ phase[t] \notin {"stamp", "predict", "keep", "send"}
  PROVE  ExpiryInv'
  <1>1. \A t \in Threads : phase'[t] \in Processing <=> phase[t] \in Processing
    OBVIOUS
  <1>2. AloneInv'  BY <1>1 DEF ExpiryInv, AloneInv, OtherProcessing
  <1>3. AgeInv'
    <2>1. \A t \in Threads :
            phase'[t] \in {"stamp", "predict", "keep", "send"} =>
              phase'[t] = phase[t] /\ work'[t] = work[t]
      BY DEF Processing
    <2>2. (\A t \in Threads : phase'[t] # "stamp") => \A t \in Threads : phase[t] # "stamp"
      BY DEF Processing
    <2> QED  BY <2>1, <2>2 DEF ExpiryInv, AgeInv
  <1>4. PacketsExpire' /\ HeldBallExpires'  BY DEF ExpiryInv, PacketsExpire, HeldBallExpires
  <1> QED  BY <1>2, <1>3, <1>4 DEF ExpiryInv

LEMMA ReplaceExpiry ==
  ASSUME PipelineInv, ExpiryInv, NEW t \in Threads, ReplaceGroup(t)
  PROVE  ExpiryInv'
  <1>1. /\ phase[t] \in {"read", "replaced"} /\ phase'[t] = "choose"
        /\ UNCHANGED <<inputs, socket, ball, kept>>
        /\ \A u \in Threads \ {t} :
             \/ phase[u] \notin Processing /\ phase'[u] \notin Processing
             \/ phase'[u] = phase[u] /\ work'[u] = work[u]
    BY SwapMoves DEF PipelineInv, Processing, ReplaceGroup, receiverVars
  <1>2. /\ track'.origin.from = track.origin.from /\ track'.measured = track.measured
        /\ track'.origin.shared = (track.origin.shared \/ OtherProcessing(t))
    BY DEF ReplaceGroup, PipelineInv, TypeOK
  <1>3. OtherProcessing(t)' <=> OtherProcessing(t)
    BY <1>1 DEF OtherProcessing
  <1>4. ASSUME ~track'.origin.shared
        PROVE  /\ ~track.origin.shared
               /\ \A u \in Threads \ {t} : phase[u] \notin Processing /\ phase'[u] \notin Processing
    <2>1. ~track.origin.shared /\ ~OtherProcessing(t)  BY <1>2, <1>4
    <2> QED  BY <2>1, <1>3 DEF OtherProcessing
  <1>5. AloneInv'
    <2> SUFFICES ASSUME ~track'.origin.shared, NEW u \in Threads, phase'[u] \in Processing,
                        OtherProcessing(u)'
                 PROVE  FALSE
      BY DEF AloneInv
    <2> QED  BY <1>4 DEF OtherProcessing
  <1>6. AgeInv'
    <2> SUFFICES ASSUME ~track'.origin.shared PROVE AgeInv'  BY DEF AgeInv
    <2>1. \A u \in Threads : phase'[u] \notin {"stamp", "predict", "keep", "send"}
      BY <1>1, <1>4 DEF Processing
    <2>2. \A u \in Threads : phase[u] # "stamp"
      BY <1>1, <1>4 DEF Processing
    <2>3. track.measured = track.origin.from  BY <1>4, <2>2 DEF ExpiryInv, AgeInv
    <2> QED  BY <1>2, <2>1, <2>3 DEF AgeInv
  <1>7. PacketsExpire' /\ HeldBallExpires'
    BY <1>1 DEF ExpiryInv, PacketsExpire, HeldBallExpires
  <1> QED  BY <1>5, <1>6, <1>7 DEF ExpiryInv

\* What a step of process_group after the swap has to keep: with nobody else in it, only
\* what concerns the thread itself can change.
LEMMA FilterExpiry ==
  ASSUME PipelineInv, ExpiryInv, NEW t \in Threads, FilterStep(t),
         ~track'.origin.shared => ~track.origin.shared \/ ~OtherProcessing(t),
         ~track'.origin.shared /\ ~OtherProcessing(t) =>
           /\ phase'[t] # "stamp" => track'.measured = track'.origin.from
           /\ \A m \in work'[t] :
                /\ phase'[t] = "stamp" => m.stamp = track'.origin.from
                /\ phase'[t] \in {"predict", "keep", "send"} /\ ~StaleHold =>
                     m.stamp - track'.origin.from <= HoldLimit
           /\ phase'[t] = "keep" => kept'[t] = track'.origin.from,
         PacketsExpire'
  PROVE  ExpiryInv'
  <1>1. /\ UNCHANGED <<inputs, ball>>
        /\ phase[t] \in Processing
        /\ \A u \in Threads \ {t} : phase'[u] = phase[u]
    BY FilterMoves DEF PipelineInv
  <1>2. ASSUME ~track'.origin.shared
        PROVE  ~OtherProcessing(t)
    BY <1>1, <1>2 DEF ExpiryInv, AloneInv
  <1>3. AloneInv'
    <2> SUFFICES ASSUME ~track'.origin.shared, NEW u \in Threads, phase'[u] \in Processing,
                        OtherProcessing(u)'
                 PROVE  FALSE
      BY DEF AloneInv
    <2> QED  BY <1>1, <1>2 DEF OtherProcessing
  <1>4. AgeInv'
    <2> SUFFICES ASSUME ~track'.origin.shared PROVE AgeInv'  BY DEF AgeInv
    <2>1. ~OtherProcessing(t)  BY <1>2
    <2>2. \A u \in Threads \ {t} : phase'[u] \notin Processing
      BY <1>1, <2>1 DEF OtherProcessing
    <2> QED  BY <2>1, <2>2 DEF AgeInv, Processing
  <1>5. HeldBallExpires'  BY <1>1 DEF ExpiryInv, HeldBallExpires
  <1> QED  BY <1>3, <1>4, <1>5 DEF ExpiryInv

LEMMA MeasureExpiry ==
  ASSUME PipelineInv, ExpiryInv, NEW t \in Threads, Measure(t)
  PROVE  ExpiryInv'
  <1>1. PICK stamp \in StampOf(work[t]) :
          track' = [track EXCEPT !.origin = [from |-> stamp, shared |-> OtherProcessing(t)]]
    BY DEF Measure
  <1>2. track'.origin.from = stamp /\ track'.origin.shared = OtherProcessing(t)
    BY <1>1 DEF PipelineInv, TypeOK
  <1>3. phase'[t] = "stamp" /\ work' = work /\ UNCHANGED socket
    BY DEF Measure, GoesTo, PipelineInv, TypeOK, receiverVars
  <1>4. \A m \in work[t] : m.stamp = stamp
    BY StampsOfMarkers DEF PipelineInv, WorkInv
  <1>5. PacketsExpire'  BY <1>3 DEF ExpiryInv, PacketsExpire
  <1>6. FilterStep(t)  BY DEF FilterStep
  <1> QED  BY <1>2, <1>3, <1>4, <1>5, <1>6, FilterExpiry

LEMMA StampExpiry ==
  ASSUME PipelineInv, ExpiryInv, NEW t \in Threads, StampMeasurement(t)
  PROVE  ExpiryInv'
  <1>1. PICK stamp \in StampOf(work[t]) :
          track' = [track EXCEPT !.has = TRUE, !.measured = stamp]
    BY Zenon DEF StampMeasurement
  <1>2. track'.origin = track.origin /\ track'.measured = stamp
    BY <1>1 DEF PipelineInv, TypeOK
  <1>3. phase[t] = "stamp" /\ phase'[t] = "send" /\ work' = work /\ UNCHANGED socket
    BY DEF StampMeasurement, GoesTo, PipelineInv, TypeOK, receiverVars
  <1>4. stamp \in Nat /\ \A m \in work[t] : m.stamp = stamp
    BY StampsOfMarkers, TimeIsNatural DEF PipelineInv, WorkInv
  <1>5. \E m \in work[t] : m.stamp = stamp  BY StampsOfMarkers DEF PipelineInv
  <1>6. ~track.origin.shared => stamp = track.origin.from
    BY <1>3, <1>5 DEF ExpiryInv, AgeInv
  <1>7. stamp - stamp <= HoldLimit  BY <1>4, LimitsAreNatural
  <1>8. PacketsExpire'  BY <1>3 DEF ExpiryInv, PacketsExpire
  <1>9. FilterStep(t)  BY DEF FilterStep
  <1> QED  BY <1>2, <1>3, <1>4, <1>6, <1>7, <1>8, <1>9, FilterExpiry

\* With nobody else in process_group, the filtered ball is that of the last measurement.
LEMMA AloneMeasured ==
  ASSUME ExpiryInv, NEW t \in Threads, phase[t] # "stamp", ~track.origin.shared,
         ~OtherProcessing(t)
  PROVE  track.measured = track.origin.from
  <1>1. \A u \in Threads : phase[u] # "stamp"  BY DEF OtherProcessing, Processing
  <1> QED  BY <1>1 DEF ExpiryInv, AgeInv

LEMMA MissExpiry ==
  ASSUME PipelineInv, ExpiryInv, NEW t \in Threads, HandleMiss(t)
  PROVE  ExpiryInv'
  <1>1. phase[t] = "miss" /\ UNCHANGED <<track, socket>>
    BY DEF HandleMiss, receiverVars
  <1>2. PICK stamp \in StampOf(work[t]) :
          IF track.has /\ (Occlusion(stamp) <= MaxPredict \/ MayHold(stamp))
          THEN /\ GoesTo(t, IF Occlusion(stamp) <= MaxPredict THEN "predict" ELSE "send")
               /\ UNCHANGED <<work, kept>>
          ELSE Leave(t)
    BY DEF HandleMiss
  <1>3. stamp \in Nat /\ track.measured \in Nat /\ \A m \in work[t] : m.stamp = stamp
    BY StampsOfMarkers, TimeIsNatural DEF PipelineInv, WorkInv, TypeOK
  <1>4. PacketsExpire'  BY <1>1 DEF ExpiryInv, PacketsExpire
  <1>5. FilterStep(t)  BY DEF FilterStep
  <1>6. ASSUME ~track.origin.shared, ~OtherProcessing(t)
        PROVE  track.measured = track.origin.from
    BY <1>1, <1>6, AloneMeasured
  <1>7. CASE Leave(t)
    <2>1. phase'[t] = "idle" /\ work'[t] = {}
      BY <1>7 DEF Leave, GoesTo, PipelineInv, TypeOK
    <2> QED  BY <2>1, <1>1, <1>4, <1>5, <1>6, FilterExpiry
  <1>8. CASE /\ Occlusion(stamp) <= MaxPredict \/ MayHold(stamp)
             /\ GoesTo(t, IF Occlusion(stamp) <= MaxPredict THEN "predict" ELSE "send")
             /\ UNCHANGED work
    <2>1. phase'[t] \in {"predict", "send"} /\ work'[t] = work[t]
      BY <1>8 DEF GoesTo, PipelineInv, TypeOK
    <2>2. ~StaleHold => stamp - track.measured <= HoldLimit
      BY <1>3, <1>8, LimitsAreNatural DEF Occlusion, MayHold
    <2> QED  BY <2>1, <2>2, <1>1, <1>3, <1>4, <1>5, <1>6, FilterExpiry
  <1> QED  BY <1>2, <1>7, <1>8

LEMMA PredictExpiry ==
  ASSUME PipelineInv, ExpiryInv, NEW t \in Threads, Predict(t)
  PROVE  ExpiryInv'
  <1>1. /\ phase[t] = "predict" /\ phase'[t] = "keep" /\ kept'[t] = track.origin.from
        /\ UNCHANGED <<work, track, socket>>
    BY DEF Predict, GoesTo, PipelineInv, TypeOK, receiverVars
  <1>2. PacketsExpire'  BY <1>1 DEF ExpiryInv, PacketsExpire
  <1>3. FilterStep(t)  BY DEF FilterStep
  <1>4. ASSUME ~track.origin.shared, ~OtherProcessing(t)
        PROVE  /\ track.measured = track.origin.from
               /\ \A m \in work[t] : ~StaleHold => m.stamp - track.origin.from <= HoldLimit
    BY <1>1, <1>4, AloneMeasured DEF ExpiryInv, AgeInv
  <1> QED  BY <1>1, <1>2, <1>3, <1>4, FilterExpiry

LEMMA KeepExpiry ==
  ASSUME PipelineInv, ExpiryInv, NEW t \in Threads, KeepPrediction(t)
  PROVE  ExpiryInv'
  <1>1. /\ phase[t] = "keep" /\ phase'[t] = "send"
        /\ UNCHANGED <<work, socket>>
    BY DEF KeepPrediction, GoesTo, PipelineInv, TypeOK, receiverVars
  <1>2. /\ track'.origin.from = kept[t] /\ track'.measured = track.measured
        /\ track'.origin.shared = track.origin.shared
    BY DEF KeepPrediction, PipelineInv, TypeOK
  <1>3. PacketsExpire'  BY <1>1 DEF ExpiryInv, PacketsExpire
  <1>4. FilterStep(t)  BY DEF FilterStep
  <1>5. ASSUME ~track.origin.shared, ~OtherProcessing(t)
        PROVE  /\ track.measured = track.origin.from /\ kept[t] = track.origin.from
               /\ \A m \in work[t] : ~StaleHold => m.stamp - track.origin.from <= HoldLimit
    BY <1>1, <1>5, AloneMeasured DEF ExpiryInv, AgeInv
  <1> QED  BY <1>1, <1>2, <1>3, <1>4, <1>5, FilterExpiry

\* A packet is added to those that wait.
LEMMA SendAppends ==
  ASSUME TypeOK, NEW stamp \in Time,
         socket' = Append(socket, [stamp |-> stamp, origin |-> track.origin])
  PROVE  /\ Len(socket) \in Nat /\ DOMAIN socket = 1 .. Len(socket)
         /\ DOMAIN socket' = 1 .. Len(socket) + 1
         /\ socket'[Len(socket) + 1] = [stamp |-> stamp, origin |-> track.origin]
         /\ \A i \in 1 .. Len(socket) : socket'[i] = socket[i]
  <1> DEFINE packet == [stamp |-> stamp, origin |-> track.origin]
  <1>1. socket \in Seq(Packet) /\ packet \in Packet
    BY DEF TypeOK, Packet
  <1> HIDE DEF Packet, packet
  <1>2. socket' = Append(socket, packet)  BY DEF packet
  <1>3. Append(socket, packet) \in Seq(Packet) /\ Len(Append(socket, packet)) = Len(socket) + 1
    BY <1>1, AppendProperties
  <1>4. Append(socket, packet)[Len(socket) + 1] = packet  BY <1>1, AppendProperties
  <1>5. \A i \in 1 .. Len(socket) : Append(socket, packet)[i] = socket[i]
    BY <1>1, AppendProperties
  <1>6. /\ Len(socket) \in Nat /\ DOMAIN socket = 1 .. Len(socket)
        /\ DOMAIN Append(socket, packet) = 1 .. Len(socket) + 1
    BY <1>1, <1>3, LenProperties
  <1> QED  BY <1>2, <1>4, <1>5, <1>6 DEF packet

LEMMA SendExpiry ==
  ASSUME PipelineInv, ExpiryInv, NEW t \in Threads, PublishBall(t)
  PROVE  ExpiryInv'
  <1>1. PICK stamp \in StampOf(work[t]) :
          socket' = Append(socket, [stamp |-> stamp, origin |-> track.origin])
    BY DEF PublishBall
  <1>2. stamp \in Time /\ \E m \in work[t] : m.stamp = stamp
    BY StampsOfMarkers DEF PipelineInv
  <1>3. /\ phase[t] = "send" /\ phase'[t] = "idle" /\ work'[t] = {}
        /\ UNCHANGED track
    BY DEF PublishBall, Leave, GoesTo, PipelineInv, TypeOK
  <1>4. ~track.origin.shared /\ ~StaleHold => stamp - track.origin.from <= HoldLimit
    BY <1>2, <1>3 DEF ExpiryInv, AgeInv
  <1>5. PacketsExpire'
    <2> SUFFICES ASSUME ~StaleHold, NEW i \in DOMAIN socket', ~socket'[i].origin.shared
                 PROVE  socket'[i].stamp - socket'[i].origin.from <= HoldLimit
      BY DEF PacketsExpire
    <2>1. /\ Len(socket) \in Nat /\ DOMAIN socket = 1 .. Len(socket)
          /\ DOMAIN socket' = 1 .. Len(socket) + 1
          /\ socket'[Len(socket) + 1] = [stamp |-> stamp, origin |-> track.origin]
          /\ \A j \in 1 .. Len(socket) : socket'[j] = socket[j]
      BY <1>1, <1>2, SendAppends DEF PipelineInv
    <2>2. CASE i = Len(socket) + 1  BY <2>1, <2>2, <1>4
    <2>3. CASE i # Len(socket) + 1
      <3>1. i \in DOMAIN socket /\ socket'[i] = socket[i]  BY <2>1, <2>3
      <3> QED  BY <3>1 DEF ExpiryInv, PacketsExpire
    <2> QED  BY <2>2, <2>3
  <1>6. FilterStep(t)  BY DEF FilterStep
  <1>7. ASSUME ~track.origin.shared, ~OtherProcessing(t)
        PROVE  track.measured = track.origin.from
    BY <1>3, <1>7, AloneMeasured
  <1> QED  BY <1>3, <1>5, <1>6, <1>7, FilterExpiry

\* The two ways to go on without a measurement.
LEMMA NothingExpiry ==
  ASSUME PipelineInv, ExpiryInv, NEW t \in Threads, ReturnEmpty(t) \/ FindNothing(t)
  PROVE  ExpiryInv'
  <1>1. phase[t] = "choose" /\ UNCHANGED <<track, socket>>
    BY DEF ReturnEmpty, FindNothing, receiverVars
  <1>2. phase'[t] \in {"idle", "miss"}
    BY DEF ReturnEmpty, FindNothing, Leave, GoesTo, PipelineInv, TypeOK
  <1>3. PacketsExpire'  BY <1>1 DEF ExpiryInv, PacketsExpire
  <1>4. FilterStep(t)  BY DEF FilterStep
  <1>5. ASSUME ~track.origin.shared, ~OtherProcessing(t)
        PROVE  track.measured = track.origin.from
    BY <1>1, <1>5, AloneMeasured
  <1> QED  BY <1>1, <1>2, <1>3, <1>4, <1>5, FilterExpiry

LEMMA ReceiveExpiry ==
  ASSUME PipelineInv, ExpiryInv, Receive
  PROVE  ExpiryInv'
  <1> DEFINE packet == socket[Len(socket)]
  <1>1. Len(socket) \in DOMAIN socket  BY LastPacket DEF Receive, PipelineInv
  <1>2. ~StaleHold /\ ~packet.origin.shared => packet.stamp - packet.origin.from <= HoldLimit
    BY <1>1 DEF ExpiryInv, PacketsExpire
  <1>3. PacketsExpire'  BY DEF Receive, PacketsExpire
  <1>4. "ballPose" \in Topics /\ "ballPose" \in BallTopics  BY DEF Topics, BallTopics
  <1>5. HeldBallExpires'
    <2>1. CASE UNCHANGED <<prev, inputs, ball>>
      BY <2>1 DEF ExpiryInv, HeldBallExpires
    <2>2. CASE Publish(packet)
      <3> HIDE DEF packet
      <3>1. CASE Accepts("ballPose", packet.stamp)
        <4>1. inputs'["ballPose"].stamp = packet.stamp /\ ball' = packet.origin
          BY <1>4, <2>2, <3>1 DEF Publish
        <4> QED  BY <1>2, <4>1 DEF HeldBallExpires
      <3>2. CASE ~Accepts("ballPose", packet.stamp)
        <4>1. inputs'["ballPose"] = inputs["ballPose"] /\ ball' = ball
          BY <1>4, <2>2, <3>2 DEF Publish
        <4> QED  BY <4>1 DEF ExpiryInv, HeldBallExpires
      <3> QED  BY <3>1, <3>2
    <2> QED  BY <2>1, <2>2 DEF Receive
  <1>6. UNCHANGED <<phase, work, kept, track>>  BY DEF Receive, trackerVars, threadVars
  <1>7. AloneInv'  BY <1>6 DEF ExpiryInv, AloneInv, OtherProcessing
  <1>8. AgeInv'  BY <1>6 DEF ExpiryInv, AgeInv
  <1> QED  BY <1>3, <1>5, <1>7, <1>8 DEF ExpiryInv

LEMMA ExpiryNext ==
  ASSUME PipelineInv, ExpiryInv, [Next]_vars
  PROVE  ExpiryInv'
  <1>1. ASSUME NEW t \in Threads, EnterProcessGroup(t) \/ ReadGroup(t)
        PROVE  ExpiryInv'
    <2>1. /\ UNCHANGED <<inputs, track, kept, socket, ball, work>>
          /\ \A u \in Threads : \/ phase'[u] = phase[u]
                                \/ {phase[u], phase'[u]} \cap Processing = {}
      BY <1>1 DEF EnterProcessGroup, ReadGroup, GoesTo, Processing, PipelineInv, TypeOK,
                  termVars, receiverVars
    <2> QED  BY <2>1, QuietExpiry
  <1>2. CASE LoadGroup \/ MarkHandled
    <2>1. /\ UNCHANGED <<inputs, track, kept, socket, ball, work>>
          /\ \A u \in Threads : \/ phase'[u] = phase[u]
                                \/ {phase[u], phase'[u]} \cap Processing = {}
      BY <1>2 DEF LoadGroup, MarkHandled, GoesTo, Processing, PipelineInv, TypeOK,
                  termVars, receiverVars
    <2> QED  BY <2>1, QuietExpiry
  <1>3. CASE AppendMarker
    <2>1. /\ UNCHANGED <<inputs, track, kept, socket, ball>>
          /\ \A u \in Threads : \/ phase'[u] = phase[u]
                                \/ {phase[u], phase'[u]} \cap Processing = {}
      BY <1>3 DEF AppendMarker, GoesTo, Processing, PipelineInv, TypeOK, termVars, receiverVars
    <2>2. \A u \in Threads : \/ work'[u] = work[u]
                             \/ phase[u] \notin {"stamp", "predict", "keep", "send"}
      BY <1>3 DEF AppendMarker, PipelineInv, TypeOK
    <2> QED  BY <2>1, <2>2, QuietExpiry
  <1>4. ASSUME NEW t \in Threads, ReplaceGroup(t)
        PROVE  ExpiryInv'
    BY <1>4, ReplaceExpiry
  <1>5. ASSUME NEW t \in Threads, FilterStep(t)
        PROVE  ExpiryInv'
    BY <1>5, MeasureExpiry, StampExpiry, MissExpiry, PredictExpiry, KeepExpiry, SendExpiry,
       NothingExpiry DEF FilterStep
  <1>6. CASE Receive  BY <1>6, ReceiveExpiry
  <1>7. CASE NextFrame
    <2>1. UNCHANGED <<inputs, track, kept, socket, ball, phase, work>>
      BY <1>7 DEF NextFrame, Tick, receiverVars, threadVars
    <2> QED  BY <2>1, QuietExpiry
  <1>8. CASE UNCHANGED vars
    <2>1. UNCHANGED <<inputs, track, kept, socket, ball, phase, work>>
      BY <1>8 DEF vars, termVars, trackerVars, receiverVars, threadVars
    <2> QED  BY <2>1, QuietExpiry
  <1> QED  BY <1>1, <1>2, <1>3, <1>4, <1>5, <1>6, <1>7, <1>8, StepsOfNext

\* For all lags, hold times and timeouts: a ball that was predicted or held expires, unless
\* both threads were in process_group at once since it was measured.
THEOREM HeldBallsExpire == Spec => []HeldBallExpires
  <1>1. Init => ExpiryInv  BY InitExpiry
  <1>2. PipelineInv /\ ExpiryInv /\ [Next]_vars => ExpiryInv'  BY ExpiryNext
  <1>3. ExpiryInv => HeldBallExpires  BY DEF ExpiryInv
  <1>4. Spec => []PipelineInv  BY PipelineTypeCorrect, PTL DEF PipelineInv
  <1> QED  BY <1>1, <1>2, <1>3, <1>4, PTL DEF Spec

-----------------------------------------------------------------------------
(* The ball stays fresh *)

InWork == UNION {work[t] : t \in Threads}

\* No marker and no packet is under way for longer than the lags.
MarkersLag ==
  /\ \A i \in DOMAIN queue : queue[i].stamp + TrackerLag > clock
  /\ \A m \in Taken : m.stamp + TrackerLag >= clock /\ m.stamp <= clock

\* The two threads send packets out of turn by no more than the lag of the tracker.
PacketsLag ==
  \A i \in DOMAIN socket :
    /\ socket[i].stamp + TrackerLag + LinkLag >= clock
    /\ socket[i].stamp <= clock
    /\ \A j \in 1 .. i : socket[j].stamp <= socket[i].stamp + TrackerLag

\* What the receiver has published, the controller has, or something newer.
Published ==
  prev.has => \A t \in BallTopics : inputs[t].has /\ inputs[t].stamp >= prev.stamp

\* When the gate has refused candidates, the last measurement is still recent, even if the
\* other thread has measured meanwhile.
Refused ==
  \A t \in Threads :
    phase[t] = "miss" /\ (\E n \in work[t] : n.candidate) =>
      \A m \in work[t] : MeasurementIsFresh(m.stamp)

\* A frame has reached the controller when its packet, a later one of the same read of
\* the socket, or the one the test for jumps compared that with, did.
InSocket(s) == \E i \in DOMAIN socket : socket[i].stamp = s

Served(s) ==
  \A t \in BallTopics :
    inputs[t].has /\ inputs[t].stamp + TrackerLag + JumpCheckMaxDt >= s

Arrives(s) == InSocket(s) \/ Served(s)

\* No packet was sent for a frame without a candidate, as no measurement was recent.
Unsent(s) ==
  /\ s <= clock
  /\ \/ ~track.has
     \/ s - track.measured > MaxHold
     \/ track.measured + TrackerLag >= s

FramesArrive ==
  /\ \A s \in seen : (\E m \in InWork : m.candidate /\ m.stamp = s) \/ Arrives(s)
  /\ \A s \in framed : (\E m \in InWork : m.stamp = s) \/ Arrives(s) \/ Unsent(s)

LagInv == MarkersLag /\ PacketsLag /\ Published /\ Refused /\ FramesArrive

LEMMA StampsAreNatural ==
  ASSUME TypeOK
  PROVE  /\ clock \in Nat /\ lastMarker.stamp \in Nat
         /\ track.measured \in Nat /\ prev.stamp \in Nat
         /\ \A i \in DOMAIN queue : queue[i].stamp \in Nat
         /\ \A i \in DOMAIN socket : socket[i].stamp \in Nat
         /\ \A m \in Taken : m.stamp \in Nat
         /\ \A t \in Threads : \A m \in work[t] : m.stamp \in Nat
         /\ \A t \in BallTopics : inputs[t].stamp \in Nat
         /\ seen \subseteq Nat /\ framed \subseteq Nat
  <1>1. \A m \in Marker : m.stamp \in Nat  BY TimeIsNatural
  <1>2. \A p \in Packet : p.stamp \in Nat  BY TimeIsNatural
  <1>3. clock \in Nat /\ seen \subseteq Nat /\ framed \subseteq Nat
    BY TimeIsNatural DEF TypeOK, TermTypeOK
  <1>4. lastMarker.stamp \in Nat /\ track.measured \in Nat /\ prev.stamp \in Nat
    BY TimeIsNatural DEF TypeOK
  <1> HIDE DEF Marker, Packet
  <1>5. \A i \in DOMAIN queue : queue[i].stamp \in Nat
    <2>1. queue \in Seq(Marker)  BY DEF TypeOK
    <2> QED  BY <2>1, <1>1, ElementOfSeq
  <1>6. \A i \in DOMAIN socket : socket[i].stamp \in Nat
    <2>1. socket \in Seq(Packet)  BY DEF TypeOK
    <2> QED  BY <2>1, <1>2, ElementOfSeq
  <1>7. \A t \in Threads : \A m \in work[t] : m.stamp \in Nat
    BY <1>1 DEF TypeOK
  <1>8. \A m \in Taken : m.stamp \in Nat
    BY <1>1, <1>7 DEF TypeOK, Taken
  <1>9. \A t \in BallTopics : inputs[t].stamp \in Nat
    BY TimeIsNatural DEF TypeOK, TermTypeOK, Input, Topics
  <1> QED  BY <1>3, <1>4, <1>5, <1>6, <1>7, <1>8, <1>9

LEMMA InitLagInv == Init => LagInv
  <1> SUFFICES ASSUME Init PROVE LagInv  OBVIOUS
  <1>1. MarkersLag  BY DEF Init, TermInit, MarkersLag, Taken
  <1>2. PacketsLag /\ Published /\ Refused  BY DEF Init, PacketsLag, Published, Refused
  <1>3. FramesArrive  BY DEF Init, FramesArrive
  <1> QED  BY <1>1, <1>2, <1>3 DEF LagInv

-----------------------------------------------------------------------------
\* The lags.

\* The steps that do not add to what the threads have taken.
LEMMA MarkersLagStays ==
  ASSUME MarkersLag, UNCHANGED clock, queue' \in {queue, Tail(queue)}, TypeOK,
         queue' = queue \/ queue # <<>>,
         \A m \in Taken' : m \in Taken \/ (queue # <<>> /\ m = Head(queue)),
         MarkersInOrder
  PROVE  MarkersLag'
  <1> HIDE DEF Marker
  <1>1. queue \in Seq(Marker)  BY DEF TypeOK
  <1>2. ASSUME queue # <<>>
        PROVE  /\ Head(queue).stamp + TrackerLag >= clock /\ Head(queue).stamp <= clock
               /\ \A i \in DOMAIN Tail(queue) : Tail(queue)[i].stamp + TrackerLag > clock
    <2>1. /\ Len(queue) \in Nat /\ Len(queue) >= 1 /\ DOMAIN queue = 1 .. Len(queue)
          /\ Head(queue) = queue[1]
      BY <1>1, <1>2, EmptySeq, LenProperties
    <2>2. /\ DOMAIN Tail(queue) = 1 .. Len(queue) - 1
          /\ \A i \in DOMAIN Tail(queue) : Tail(queue)[i] = queue[i + 1]
      <3>1. Tail(queue) \in Seq(Marker) /\ Len(Tail(queue)) = Len(queue) - 1
        BY <1>1, <1>2, HeadTailProperties
      <3> QED  BY <1>1, <1>2, <3>1, HeadTailProperties, LenProperties
    <2>3. Head(queue).stamp <= clock  BY <1>2, HeadInOrder
    <2>4. 1 \in DOMAIN queue /\ queue[1].stamp \in Nat  BY <2>1, StampsAreNatural
    <2>5. queue[1].stamp + TrackerLag >= clock
      BY <2>4, StampsAreNatural, LimitsAreNatural DEF MarkersLag
    <2>6. ASSUME NEW i \in DOMAIN Tail(queue)
          PROVE  Tail(queue)[i].stamp + TrackerLag > clock
      <3>1. i + 1 \in DOMAIN queue  BY <2>1, <2>2
      <3> QED  BY <3>1, <2>2 DEF MarkersLag
    <2> QED  BY <2>1, <2>3, <2>5, <2>6
  <1> QED  BY <1>2 DEF MarkersLag

LEMMA FrameLags == TypeOK /\ MarkersLag /\ NextFrame => MarkersLag'
  <1> SUFFICES ASSUME TypeOK, MarkersLag, NextFrame PROVE MarkersLag'  OBVIOUS
  <1> HIDE DEF Marker
  <1>1. clock \in Nat /\ clock' = clock + 1 /\ clock' \in Time
    BY MaxTimeAssumption DEF TypeOK, TermTypeOK, NextFrame, Tick, Time
  <1>2. Taken' = Taken  BY DEF NextFrame, Taken, threadVars
  <1>3. PICK shape \in FrameShapes[clock'] : queue' \in {queue, queue \o Frame(clock', shape)}
    BY DEF NextFrame
  <1> DEFINE frame == Frame(clock', shape)
  <1>4. /\ queue \in Seq(Marker) /\ frame \in Seq(Marker)
        /\ \A n \in DOMAIN frame : frame[n].stamp = clock + 1
    BY <1>1, <1>3, FramesOfMarkers DEF TypeOK
  <1> HIDE DEF frame
  <1>5. \A i \in DOMAIN queue : queue[i].stamp \in Nat /\ clock - queue[i].stamp < TrackerLag - 1
    BY StampsAreNatural DEF NextFrame
  <1>6. \A i \in DOMAIN queue : queue[i].stamp + TrackerLag > clock + 1
    BY <1>1, <1>5, LimitsAreNatural
  <1>7. ASSUME NEW i \in DOMAIN (queue \o frame)
        PROVE  (queue \o frame)[i].stamp + TrackerLag > clock + 1
    <2>1. /\ Len(queue) \in Nat /\ DOMAIN queue = 1 .. Len(queue)
          /\ Len(frame) \in Nat /\ DOMAIN frame = 1 .. Len(frame)
      BY <1>4, LenProperties
    <2>2. /\ queue \o frame \in Seq(Marker)
          /\ Len(queue \o frame) = Len(queue) + Len(frame)
          /\ \A n \in 1 .. Len(queue) + Len(frame) :
               (queue \o frame)[n] =
                  IF n <= Len(queue) THEN queue[n] ELSE frame[n - Len(queue)]
      BY <1>4, ConcatProperties
    <2>3. i \in 1 .. Len(queue) + Len(frame)  BY <2>2, LenProperties
    <2>4. CASE i <= Len(queue)
      <3>1. i \in DOMAIN queue /\ (queue \o frame)[i] = queue[i]  BY <2>1, <2>2, <2>3, <2>4
      <3> QED  BY <3>1, <1>6
    <2>5. CASE i > Len(queue)
      <3>1. i - Len(queue) \in DOMAIN frame  BY <2>1, <2>3, <2>5
      <3>2. frame[i - Len(queue)].stamp = clock + 1  BY <3>1, <1>4
      <3>3. (queue \o frame)[i] = frame[i - Len(queue)]  BY <2>1, <2>2, <2>3, <2>5
      <3> QED  BY <3>2, <3>3, <1>1, LimitsAreNatural
    <2> QED  BY <2>1, <2>3, <2>4, <2>5
  <1>8. \A i \in DOMAIN queue' : queue'[i].stamp + TrackerLag > clock'
    BY <1>1, <1>3, <1>6, <1>7 DEF frame
  <1>9. \A m \in Taken : m.stamp \in Nat /\ clock - m.stamp < TrackerLag
    BY StampsAreNatural DEF NextFrame
  <1>10. \A m \in Taken : m.stamp + TrackerLag >= clock' /\ m.stamp <= clock'
    BY <1>1, <1>9, LimitsAreNatural DEF MarkersLag
  <1> QED  BY <1>2, <1>8, <1>10 DEF MarkersLag

\* What the thread sends is not older than the lag, and not ahead of the clock.
LEMMA SendLags ==
  ASSUME TypeOK, MarkersLag, PacketsLag, UNCHANGED clock,
         NEW t \in Threads, NEW stamp \in StampOf(work[t]),
         socket' = Append(socket, [stamp |-> stamp, origin |-> track.origin])
  PROVE  PacketsLag'
  <1>1. stamp \in Time /\ stamp \in Nat /\ clock \in Nat
    BY StampsOfMarkers, TimeIsNatural, StampsAreNatural
  <1>2. stamp + TrackerLag >= clock /\ stamp <= clock
    BY StampsOfMarkers DEF MarkersLag, Taken
  <1>3. /\ Len(socket) \in Nat /\ DOMAIN socket = 1 .. Len(socket)
        /\ DOMAIN socket' = 1 .. Len(socket) + 1
        /\ socket'[Len(socket) + 1].stamp = stamp
        /\ \A i \in 1 .. Len(socket) : socket'[i] = socket[i]
    BY <1>1, SendAppends
  <1>4. ASSUME NEW i \in 1 .. Len(socket)
        PROVE  /\ socket'[i].stamp + TrackerLag + LinkLag >= clock
               /\ socket'[i].stamp <= clock
               /\ socket'[i].stamp <= stamp + TrackerLag
               /\ \A j \in 1 .. i : socket'[j].stamp <= socket'[i].stamp + TrackerLag
    <2>1. /\ socket[i].stamp + TrackerLag + LinkLag >= clock
          /\ socket[i].stamp <= clock /\ socket[i].stamp \in Nat
          /\ \A j \in 1 .. i : socket[j].stamp <= socket[i].stamp + TrackerLag
      BY <1>3, StampsAreNatural DEF PacketsLag
    <2>2. socket[i].stamp <= stamp + TrackerLag
      BY <2>1, <1>1, <1>2, LimitsAreNatural
    <2>3. \A j \in 1 .. i : socket'[j] = socket[j]  BY <1>3
    <2> QED  BY <2>1, <2>2, <2>3, <1>3
  <1>5. stamp + TrackerLag + LinkLag >= clock /\ stamp <= stamp + TrackerLag
    BY <1>1, <1>2, LimitsAreNatural
  <1>6. ASSUME NEW i \in DOMAIN socket'
        PROVE  /\ socket'[i].stamp + TrackerLag + LinkLag >= clock
               /\ socket'[i].stamp <= clock
               /\ \A j \in 1 .. i : socket'[j].stamp <= socket'[i].stamp + TrackerLag
    <2>1. CASE i = Len(socket) + 1
      <3>1. \A j \in 1 .. i : j = Len(socket) + 1 \/ j \in 1 .. Len(socket)
        BY <2>1, <1>3
      <3> QED  BY <3>1, <2>1, <1>2, <1>3, <1>4, <1>5
    <2>2. CASE i # Len(socket) + 1
      <3>1. i \in 1 .. Len(socket)  BY <2>2, <1>3
      <3> QED  BY <3>1, <1>4
    <2> QED  BY <2>1, <2>2
  <1> QED  BY <1>6 DEF PacketsLag

LEMMA FramePackets == TypeOK /\ PacketsLag /\ NextFrame => PacketsLag'
  <1> SUFFICES ASSUME TypeOK, PacketsLag, NextFrame PROVE PacketsLag'  OBVIOUS
  <1>1. clock \in Nat /\ clock' = clock + 1 /\ socket' = socket
    BY StampsAreNatural DEF NextFrame, Tick, receiverVars
  <1>2. ASSUME NEW i \in DOMAIN socket
        PROVE  socket[i].stamp + TrackerLag + LinkLag >= clock + 1 /\ socket[i].stamp <= clock + 1
    <2>1. socket[i].stamp \in Nat /\ clock - socket[i].stamp < TrackerLag + LinkLag
      BY StampsAreNatural DEF NextFrame
    <2> QED  BY <2>1, <1>1, LimitsAreNatural DEF PacketsLag
  <1> QED  BY <1>1, <1>2 DEF PacketsLag

\* The two inputs of the ball follow the receiver.
LEMMA PublishStores ==
  ASSUME TypeOK, Published, NEW packet \in Packet, Publish(packet)
  PROVE  /\ Published'
         /\ \A t \in BallTopics : inputs'[t].has /\ inputs'[t].stamp >= packet.stamp
  <1>1. packet.stamp \in Nat  BY TimeIsNatural
  <1>2. ASSUME NEW t \in BallTopics
        PROVE  inputs'[t].has /\ inputs'[t].stamp >= packet.stamp
    <2>1. t \in Topics /\ inputs[t].stamp \in Nat  BY StampsAreNatural DEF Topics
    <2>2. inputs'[t] = IF Accepts(t, packet.stamp) THEN [has |-> TRUE, stamp |-> packet.stamp]
                       ELSE inputs[t]
      BY <2>1 DEF Publish
    <2>3. CASE Accepts(t, packet.stamp)  BY <2>2, <2>3, <1>1
    <2>4. CASE ~Accepts(t, packet.stamp)
      <3>1. inputs[t].has /\ packet.stamp < inputs[t].stamp  BY <2>4 DEF Accepts
      <3> QED  BY <2>1, <2>2, <2>4, <3>1, <1>1
    <2> QED  BY <2>3, <2>4
  <1>3. prev'.stamp = packet.stamp  BY DEF Publish
  <1> QED  BY <1>2, <1>3 DEF Published

\* Whatever it does with the last packet that waits, it then serves all that waited.
LEMMA ReceiveServes ==
  ASSUME TypeOK, PacketsLag, Published, Receive
  PROVE  /\ Published' /\ PacketsLag'
         /\ \A s \in Nat : InSocket(s) \/ Served(s) => Served(s)'
  <1> DEFINE packet == socket[Len(socket)]
  <1>1. Len(socket) \in DOMAIN socket /\ packet \in Packet  BY LastPacket DEF Receive
  <1>2. packet.stamp \in Nat  BY <1>1, TimeIsNatural
  <1>3. \/ Publish(packet)
        \/ MayReject(packet.stamp) /\ UNCHANGED <<prev, inputs, ball>>
    BY DEF Receive
  <1>4. PacketsLag'  BY DEF Receive, PacketsLag
  <1>5. ASSUME NEW s \in Nat, InSocket(s)
        PROVE  s <= packet.stamp + TrackerLag
    <2>1. PICK i \in DOMAIN socket : socket[i].stamp = s  BY <1>5 DEF InSocket
    <2>2. i \in 1 .. Len(socket)
      <3> HIDE DEF Packet
      <3>1. socket \in Seq(Packet)  BY DEF TypeOK
      <3> QED  BY <3>1, <2>1, LenProperties
    <2> QED  BY <1>1, <2>1, <2>2 DEF PacketsLag
  <1> HIDE DEF packet
  <1>6. CASE Publish(packet)
    <2>1. /\ Published'
          /\ \A t \in BallTopics : inputs'[t].has /\ inputs'[t].stamp >= packet.stamp
      BY <1>1, <1>6, PublishStores
    <2>2. ASSUME NEW t \in BallTopics
          PROVE  /\ inputs'[t].stamp \in Nat
                 /\ inputs[t].has => inputs'[t].stamp >= inputs[t].stamp
      <3>1. t \in Topics /\ inputs[t].stamp \in Nat  BY StampsAreNatural DEF Topics
      <3>2. inputs'[t] = IF Accepts(t, packet.stamp)
                         THEN [has |-> TRUE, stamp |-> packet.stamp] ELSE inputs[t]
        BY <1>6, <3>1 DEF Publish
      <3>3. CASE Accepts(t, packet.stamp)
        <4>1. ~(inputs[t].has /\ packet.stamp < inputs[t].stamp)  BY <3>3 DEF Accepts
        <4> QED  BY <4>1, <3>1, <3>2, <3>3, <1>2
      <3>4. CASE ~Accepts(t, packet.stamp)  BY <3>1, <3>2, <3>4
      <3> QED  BY <3>3, <3>4
    <2>3. ASSUME NEW s \in Nat, InSocket(s) \/ Served(s), NEW t \in BallTopics
          PROVE  inputs'[t].has /\ inputs'[t].stamp + TrackerLag + JumpCheckMaxDt >= s
      <3>1. CASE InSocket(s)
        <4>1. s <= packet.stamp + TrackerLag  BY <3>1, <1>5
        <4> QED  BY <4>1, <2>1, <2>2, <1>2, LimitsAreNatural
      <3>2. CASE Served(s)
        <4>1. inputs[t].has /\ inputs[t].stamp + TrackerLag + JumpCheckMaxDt >= s
          BY <3>2 DEF Served
        <4>2. inputs[t].stamp \in Nat  BY StampsAreNatural
        <4> QED  BY <4>1, <4>2, <2>1, <2>2, LimitsAreNatural
      <3> QED  BY <2>3, <3>1, <3>2
    <2> QED  BY <2>1, <2>3, <1>4 DEF Served
  <1>7. CASE MayReject(packet.stamp) /\ UNCHANGED <<prev, inputs, ball>>
    <2>1. Published'  BY <1>7 DEF Published
    <2>2. packet.stamp <= prev.stamp + JumpCheckMaxDt /\ prev.has
      BY <1>2, <1>7, StampsAreNatural, LimitsAreNatural DEF MayReject
    <2>3. ASSUME NEW s \in Nat, InSocket(s) \/ Served(s), NEW t \in BallTopics
          PROVE  inputs'[t].has /\ inputs'[t].stamp + TrackerLag + JumpCheckMaxDt >= s
      <3>1. CASE InSocket(s)
        <4>1. s <= packet.stamp + TrackerLag  BY <3>1, <1>5
        <4>2. inputs[t].has /\ inputs[t].stamp >= prev.stamp /\ inputs[t].stamp \in Nat
          BY <2>2, StampsAreNatural DEF Published
        <4> QED  BY <4>1, <4>2, <2>2, <1>2, <1>7, StampsAreNatural, LimitsAreNatural
      <3>2. CASE Served(s)  BY <3>2, <1>7 DEF Served
      <3> QED  BY <2>3, <3>1, <3>2
    <2> QED  BY <2>1, <2>3, <1>4 DEF Served
  <1> QED  BY <1>3, <1>6, <1>7

-----------------------------------------------------------------------------
\* What the gate has refused.
LEMMA RefusedStays ==
  ASSUME Refused, track'.has = track.has, track'.measured = track.measured,
         \A t \in Threads : phase'[t] = "miss" => phase[t] = "miss" /\ work'[t] = work[t]
  PROVE  Refused'
  BY DEF Refused, MeasurementIsFresh

LEMMA FilterRefuses ==
  ASSUME PipelineInv, MarkersLag, Refused, TimeoutCoversLags, NEW t \in Threads, FilterStep(t)
  PROVE  Refused'
  <1>1. \A u \in Threads \ {t} : phase'[u] = phase[u] /\ work'[u] = work[u]
    BY FilterMoves DEF PipelineInv
  <1>2. CASE StampMeasurement(t)
    <2>1. PICK stamp \in StampOf(work[t]) :
            track' = [track EXCEPT !.has = TRUE, !.measured = stamp]
      BY <1>2, Zenon DEF StampMeasurement
    <2>2. track'.has /\ track'.measured = stamp  BY <2>1 DEF PipelineInv, TypeOK
    <2>3. phase'[t] = "send"  BY <1>2 DEF StampMeasurement, GoesTo, PipelineInv, TypeOK
    <2>4. stamp \in Nat /\ stamp + TrackerLag >= clock
      BY StampsOfMarkers, TimeIsNatural DEF PipelineInv, MarkersLag, Taken
    <2>5. ASSUME NEW u \in Threads, phase'[u] = "miss", NEW m \in work'[u]
          PROVE  MeasurementIsFresh(m.stamp)'
      <3>1. work'[u] = work[u]  BY <1>1, <2>3, <2>5
      <3>2. m.stamp \in Nat /\ m.stamp <= clock
        BY <3>1, StampsAreNatural DEF PipelineInv, MarkersLag, Taken
      <3>3. m.stamp - stamp <= MaxHold
        BY <2>4, <3>2, StampsAreNatural, LimitsAreNatural DEF PipelineInv, TimeoutCoversLags
      <3> QED  BY <2>2, <3>3 DEF MeasurementIsFresh
    <2> QED  BY <2>5 DEF Refused
  <1>3. CASE FindNothing(t)
    <2>1. PICK stamp \in StampOf(work[t]) :
            (\A m \in work[t] : ~m.candidate) \/ MeasurementIsFresh(stamp)
      BY <1>3 DEF FindNothing
    <2>2. \A m \in work[t] : m.stamp = stamp
      BY StampsOfMarkers DEF PipelineInv, WorkInv
    <2>3. work' = work /\ track' = track  BY <1>3 DEF FindNothing
    <2>4. \A u \in Threads \ {t} : phase'[u] = phase[u]  BY <1>1
    <2> QED  BY <2>1, <2>2, <2>3, <2>4 DEF Refused, MeasurementIsFresh
  <1>4. CASE Measure(t) \/ Predict(t) \/ KeepPrediction(t) \/ PublishBall(t) \/ ReturnEmpty(t)
    <2>1. phase'[t] # "miss"
      BY <1>4 DEF Measure, Predict, KeepPrediction, PublishBall, ReturnEmpty, Leave, GoesTo,
                  PipelineInv, TypeOK
    <2>2. track'.has = track.has /\ track'.measured = track.measured
      BY <1>4 DEF Measure, Predict, KeepPrediction, PublishBall, ReturnEmpty, PipelineInv, TypeOK
    <2> QED  BY <1>1, <2>1, <2>2, RefusedStays
  <1>5. CASE HandleMiss(t)
    <2>1. phase'[t] # "miss" /\ track' = track
      BY <1>5 DEF HandleMiss, Leave, GoesTo, PipelineInv, TypeOK
    <2> QED  BY <1>1, <2>1, RefusedStays
  <1> QED  BY <1>2, <1>3, <1>4, <1>5 DEF FilterStep

-----------------------------------------------------------------------------
\* What becomes of a frame.
LEMMA ExtendedAdds ==
  ASSUME NEW frames, NEW stamp
  PROVE  Extended(frames, stamp) \subseteq frames \cup {stamp}
  BY DEF Extended

\* Markers that the threads take are counted.
LEMMA CountedAdds ==
  ASSUME NEW markers, Counted(markers), \A m, n \in markers : m.stamp = n.stamp
  PROVE  /\ \A s \in framed' \ framed : \E m \in markers : m.stamp = s
         /\ \A s \in seen' \ seen : \E m \in markers : m.candidate /\ m.stamp = s
  <1>1. CASE UNCHANGED frameVars  BY <1>1 DEF frameVars
  <1>2. ASSUME NEW m \in markers, framed' = Extended(framed, m.stamp),
               IF \E n \in markers : n.candidate
               THEN seen' = Extended(seen, m.stamp)
               ELSE UNCHANGED seen
        PROVE  /\ \A s \in framed' \ framed : \E n \in markers : n.stamp = s
               /\ \A s \in seen' \ seen : \E n \in markers : n.candidate /\ n.stamp = s
    <2>1. \A s \in framed' \ framed : s = m.stamp  BY <1>2, ExtendedAdds
    <2>2. CASE \E n \in markers : n.candidate
      <3>1. \A s \in seen' \ seen : s = m.stamp  BY <1>2, <2>2, ExtendedAdds
      <3> QED  BY <2>1, <2>2, <3>1
    <2>3. CASE ~(\E n \in markers : n.candidate)
      <3>1. seen' = seen  BY <1>2, <2>3
      <3> QED  BY <2>1, <3>1
    <2> QED  BY <2>2, <2>3
  <1> QED  BY <1>1, <1>2 DEF Counted

\* The steps that send nothing, receive nothing and measure nothing.
LEMMA QuietArrives ==
  ASSUME TypeOK, FramesArrive, UNCHANGED <<inputs, socket>>,
         track'.has = track.has, track'.measured = track.measured,
         clock' \in {clock, clock + 1}, InWork \subseteq InWork',
         \A s \in seen' \ seen : \E m \in InWork' : m.candidate /\ m.stamp = s,
         \A s \in framed' \ framed : \E m \in InWork' : m.stamp = s
  PROVE  FramesArrive'
  <1>1. \A s : Arrives(s)' <=> Arrives(s)  BY DEF Arrives, InSocket, Served
  <1>2. \A s \in Nat : Unsent(s) => Unsent(s)'  BY StampsAreNatural DEF Unsent
  <1>3. framed \subseteq Nat  BY StampsAreNatural
  <1>4. ASSUME NEW s \in seen'
        PROVE  (\E m \in InWork' : m.candidate /\ m.stamp = s) \/ Arrives(s)'
    <2>1. CASE s \in seen  BY <2>1, <1>1 DEF FramesArrive
    <2>2. CASE s \notin seen  BY <2>2
    <2> QED  BY <2>1, <2>2
  <1>5. ASSUME NEW s \in framed'
        PROVE  (\E m \in InWork' : m.stamp = s) \/ Arrives(s)' \/ Unsent(s)'
    <2>1. CASE s \in framed  BY <2>1, <1>1, <1>2, <1>3 DEF FramesArrive
    <2>2. CASE s \notin framed  BY <2>2
    <2> QED  BY <2>1, <2>2
  <1> QED  BY <1>4, <1>5 DEF FramesArrive

LEMMA AppendArrives == PipelineInv /\ FramesArrive /\ AppendMarker => FramesArrive'
  <1> SUFFICES ASSUME PipelineInv, FramesArrive, AppendMarker PROVE FramesArrive'
    OBVIOUS
  <1>1. UNCHANGED <<clock, inputs, track, socket>>
    BY DEF AppendMarker, termVars, receiverVars
  <1>2. CASE UNCHANGED <<work, frameVars>>
    BY <1>1, <1>2, QuietArrives DEF PipelineInv, InWork, frameVars
  <1>3. CASE /\ work' = [work EXCEPT !["timer"] = @ \cup {Head(queue)}]
             /\ Counted({Head(queue)})
    <2>1. work'["timer"] = work["timer"] \cup {Head(queue)} /\ work'["callback"] = work["callback"]
      BY <1>3 DEF PipelineInv, TypeOK
    <2>2. InWork \subseteq InWork' /\ Head(queue) \in InWork'  BY <2>1 DEF InWork
    <2>3. /\ \A s \in framed' \ framed : \E m \in {Head(queue)} : m.stamp = s
          /\ \A s \in seen' \ seen : \E m \in {Head(queue)} : m.candidate /\ m.stamp = s
      BY <1>3, CountedAdds
    <2> QED  BY <1>1, <2>2, <2>3, QuietArrives DEF PipelineInv
  <1> QED  BY <1>2, <1>3 DEF AppendMarker

LEMMA ReplaceArrives ==
  ASSUME PipelineInv, FramesArrive, NEW t \in Threads, ReplaceGroup(t)
  PROVE  FramesArrive'
  <1>1. /\ UNCHANGED <<clock, inputs, socket>>
        /\ \A u \in Threads : \/ phase[u] = "read" /\ work[u] = {} /\ work'[u] = group
                              \/ phase[u] # "read" /\ work'[u] = work[u]
    BY SwapMoves DEF PipelineInv
  <1>2. track'.has = track.has /\ track'.measured = track.measured
    BY DEF ReplaceGroup, PipelineInv, TypeOK
  <1>3. InWork \subseteq InWork'  BY <1>1 DEF InWork
  <1>4. CASE Readers = {}
    <2>1. UNCHANGED frameVars  BY <1>4 DEF ReplaceGroup
    <2> QED  BY <1>1, <1>2, <1>3, <2>1, QuietArrives DEF PipelineInv, frameVars
  <1>5. CASE Readers # {}
    <2>1. Counted(group)  BY <1>5 DEF ReplaceGroup
    <2>2. group \subseteq InWork'
      <3>1. PICK u \in Threads : phase[u] = "read"  BY <1>5 DEF Readers
      <3> QED  BY <3>1, <1>1 DEF InWork
    <2>3. /\ \A s \in framed' \ framed : \E m \in group : m.stamp = s
          /\ \A s \in seen' \ seen : \E m \in group : m.candidate /\ m.stamp = s
      BY <2>1, GroupOfOneFrame, CountedAdds DEF PipelineInv
    <2> QED  BY <1>1, <1>2, <1>3, <2>2, <2>3, QuietArrives DEF PipelineInv
  <1> QED  BY <1>4, <1>5

\* What a step after the swap has to show: of what the thread lets go, a packet waits, or
\* no packet was due.
LEMMA FilterArrives ==
  ASSUME PipelineInv, FramesArrive, NEW t \in Threads, FilterStep(t),
         \A s \in Nat : Arrives(s) => Arrives(s)',
         \A s \in Nat : Unsent(s) => Unsent(s)',
         \A m \in work[t] : \/ work'[t] = work[t]
                            \/ Arrives(m.stamp)'
                            \/ ~m.candidate /\ Unsent(m.stamp)'
  PROVE  FramesArrive'
  <1>1. /\ UNCHANGED <<seen, framed>>
        /\ \A u \in Threads \ {t} : work'[u] = work[u]
    BY FilterMoves DEF PipelineInv, frameVars
  <1>2. seen \subseteq Nat /\ framed \subseteq Nat  BY StampsAreNatural DEF PipelineInv
  <1>3. ASSUME NEW m \in InWork
        PROVE  m \in InWork' \/ Arrives(m.stamp)' \/ (~m.candidate /\ Unsent(m.stamp)')
    BY <1>1 DEF InWork
  <1>4. \A s \in seen : (\E m \in InWork' : m.candidate /\ m.stamp = s) \/ Arrives(s)'
    BY <1>2, <1>3 DEF FramesArrive
  <1>5. \A s \in framed : (\E m \in InWork' : m.stamp = s) \/ Arrives(s)' \/ Unsent(s)'
    BY <1>2, <1>3 DEF FramesArrive
  <1> QED  BY <1>1, <1>4, <1>5 DEF FramesArrive

LEMMA SendArrives ==
  ASSUME PipelineInv, FramesArrive, NEW t \in Threads, PublishBall(t)
  PROVE  FramesArrive'
  <1>1. PICK stamp \in StampOf(work[t]) :
          socket' = Append(socket, [stamp |-> stamp, origin |-> track.origin])
    BY DEF PublishBall
  <1>2. stamp \in Time /\ \A m \in work[t] : m.stamp = stamp
    BY StampsOfMarkers DEF PipelineInv, WorkInv
  <1>3. /\ Len(socket) \in Nat /\ DOMAIN socket = 1 .. Len(socket)
        /\ DOMAIN socket' = 1 .. Len(socket) + 1
        /\ socket'[Len(socket) + 1].stamp = stamp
        /\ \A i \in 1 .. Len(socket) : socket'[i] = socket[i]
    BY <1>1, <1>2, SendAppends DEF PipelineInv
  <1>4. InSocket(stamp)'  BY <1>3 DEF InSocket
  <1>5. \A s \in Nat : InSocket(s) => InSocket(s)'
    <2> SUFFICES ASSUME NEW s \in Nat, NEW i \in DOMAIN socket, socket[i].stamp = s
                 PROVE  InSocket(s)'
      BY DEF InSocket
    <2>1. i \in DOMAIN socket' /\ socket'[i] = socket[i]  BY <1>3
    <2> QED  BY <2>1 DEF InSocket
  <1>6. UNCHANGED <<clock, inputs, track>>  BY DEF PublishBall, termVars
  <1>7. \A s \in Nat : Arrives(s) => Arrives(s)'  BY <1>5, <1>6 DEF Arrives, Served
  <1>8. \A s \in Nat : Unsent(s) => Unsent(s)'  BY <1>6 DEF Unsent
  <1>9. FilterStep(t)  BY DEF FilterStep
  <1>10. \A m \in work[t] : Arrives(m.stamp)'  BY <1>2, <1>4 DEF Arrives
  <1> QED  BY <1>7, <1>8, <1>9, <1>10, FilterArrives

\* When nothing is sent, no candidate was there and no measurement recent.
LEMMA MissArrives ==
  ASSUME PipelineInv, MarkersLag, Refused, FramesArrive, NEW t \in Threads, HandleMiss(t)
  PROVE  FramesArrive'
  <1>1. phase[t] = "miss" /\ UNCHANGED <<clock, inputs, track, socket>>
    BY DEF HandleMiss, receiverVars, termVars
  <1>2. PICK stamp \in StampOf(work[t]) :
          IF track.has /\ (Occlusion(stamp) <= MaxPredict \/ MayHold(stamp))
          THEN UNCHANGED work
          ELSE Leave(t)
    BY DEF HandleMiss
  <1>3. /\ stamp \in Nat /\ track.measured \in Nat
        /\ \A m \in work[t] : m.stamp = stamp /\ m.stamp <= clock
    <2>1. stamp \in Nat /\ \A m \in work[t] : m.stamp = stamp
      BY StampsOfMarkers, TimeIsNatural DEF PipelineInv, WorkInv
    <2>2. \A m \in work[t] : m.stamp <= clock  BY DEF MarkersLag, Taken
    <2> QED  BY <2>1, <2>2, StampsAreNatural DEF PipelineInv
  <1>4. \A s : (Arrives(s)' <=> Arrives(s)) /\ (Unsent(s)' <=> Unsent(s))
    BY <1>1 DEF Arrives, InSocket, Served, Unsent
  <1>5. FilterStep(t)  BY DEF FilterStep
  <1>6. CASE track.has /\ (Occlusion(stamp) <= MaxPredict \/ MayHold(stamp))
    <2>1. work' = work  BY <1>2, <1>6
    <2> QED  BY <2>1, <1>4, <1>5, FilterArrives
  <1>7. CASE ~(track.has /\ (Occlusion(stamp) <= MaxPredict \/ MayHold(stamp)))
    <2>1. ~track.has \/ ~(stamp - track.measured <= MaxHold)
      BY <1>7 DEF MayHold, Occlusion
    <2>2. ~track.has \/ stamp - track.measured > MaxHold
      BY <2>1, <1>3, LimitsAreNatural
    <2>3. \A m \in work[t] : Unsent(m.stamp)  BY <2>2, <1>3 DEF Unsent
    <2>4. \A m \in work[t] : ~m.candidate
      BY <2>1, <1>1, <1>3 DEF Refused, MeasurementIsFresh
    <2> QED  BY <2>3, <2>4, <1>4, <1>5, FilterArrives
  <1> QED  BY <1>6, <1>7

\* A frame for which nothing was sent: the next measurement is not of a much older one.
LEMMA StampArrives ==
  ASSUME PipelineInv, MarkersLag, FramesArrive, NEW t \in Threads, StampMeasurement(t)
  PROVE  FramesArrive'
  <1>1. PICK stamp \in StampOf(work[t]) :
          track' = [track EXCEPT !.has = TRUE, !.measured = stamp]
    BY Zenon DEF StampMeasurement
  <1>2. track'.measured = stamp  BY <1>1 DEF PipelineInv, TypeOK
  <1>3. stamp \in Nat /\ clock \in Nat /\ stamp + TrackerLag >= clock
    BY StampsOfMarkers, TimeIsNatural, StampsAreNatural DEF PipelineInv, MarkersLag, Taken
  <1>4. UNCHANGED <<clock, inputs, work, socket>>
    BY DEF StampMeasurement, termVars, receiverVars
  <1>5. \A s : Arrives(s)' <=> Arrives(s)  BY <1>4 DEF Arrives, InSocket, Served
  <1>6. \A s \in Nat : Unsent(s) => Unsent(s)'
    BY <1>2, <1>3, <1>4, LimitsAreNatural DEF Unsent
  <1>7. FilterStep(t)  BY DEF FilterStep
  <1> QED  BY <1>4, <1>5, <1>6, <1>7, FilterArrives

LEMMA OtherArrives ==
  ASSUME PipelineInv, FramesArrive, NEW t \in Threads,
         \/ ReturnEmpty(t) \/ Measure(t) \/ FindNothing(t) \/ Predict(t) \/ KeepPrediction(t)
  PROVE  FramesArrive'
  <1>1. UNCHANGED <<clock, inputs, socket>>
    BY DEF ReturnEmpty, Measure, FindNothing, Predict, KeepPrediction, termVars, receiverVars
  <1>2. track'.has = track.has /\ track'.measured = track.measured
    BY DEF ReturnEmpty, Measure, FindNothing, Predict, KeepPrediction, PipelineInv, TypeOK
  <1>3. work[t] = {} \/ work'[t] = work[t]
    BY DEF ReturnEmpty, Measure, FindNothing, Predict, KeepPrediction
  <1>4. \A s : (Arrives(s)' <=> Arrives(s)) /\ (Unsent(s)' <=> Unsent(s))
    BY <1>1, <1>2 DEF Arrives, InSocket, Served, Unsent
  <1>5. FilterStep(t)  BY DEF FilterStep
  <1> QED  BY <1>3, <1>4, <1>5, FilterArrives

LEMMA ReceiveArrives ==
  ASSUME TypeOK, PacketsLag, Published, FramesArrive, Receive
  PROVE  FramesArrive'
  <1>1. UNCHANGED <<clock, work, track, seen, framed>>
    BY DEF Receive, trackerVars, threadVars, frameVars
  <1>2. \A s \in Nat : Arrives(s) => Arrives(s)'  BY ReceiveServes DEF Arrives
  <1>3. \A s : Unsent(s)' <=> Unsent(s)  BY <1>1 DEF Unsent
  <1>4. InWork' = InWork  BY <1>1 DEF InWork
  <1>5. seen \subseteq Nat /\ framed \subseteq Nat  BY StampsAreNatural
  <1> QED  BY <1>1, <1>2, <1>3, <1>4, <1>5 DEF FramesArrive

-----------------------------------------------------------------------------
\* The steps that neither take markers nor go on in process_group.
LEMMA QuietLag ==
  ASSUME PipelineInv, LagInv, UNCHANGED <<clock, inputs, track, work, socket, prev, seen, framed>>,
         \A t \in Threads : phase'[t] = "miss" => phase[t] = "miss",
         MarkersLag'
  PROVE  LagInv'
  <1>1. PacketsLag' /\ Published'  BY DEF LagInv, PacketsLag, Published
  <1>2. Refused'  BY RefusedStays DEF LagInv
  <1>3. FramesArrive'  BY QuietArrives DEF PipelineInv, LagInv, InWork
  <1> QED  BY <1>1, <1>2, <1>3 DEF LagInv

LEMMA LagInvNext ==
  ASSUME PipelineInv, LagInv, TimeoutCoversLags, [Next]_vars
  PROVE  LagInv'
  <1> USE DEF PipelineInv
  <1>1. ASSUME NEW t \in Threads, EnterProcessGroup(t) \/ ReadGroup(t)
        PROVE  LagInv'
    <2>1. /\ UNCHANGED <<clock, inputs, track, work, socket, prev, seen, framed, queue, group>>
          /\ \A u \in Threads : phase'[u] = "miss" => phase[u] = "miss"
      BY <1>1 DEF EnterProcessGroup, ReadGroup, GoesTo, TypeOK, termVars, receiverVars, frameVars
    <2>2. MarkersLag'  BY <2>1 DEF LagInv, MarkersLag, Taken
    <2> QED  BY <2>1, <2>2, QuietLag
  <1>2. CASE LoadGroup
    <2>1. /\ UNCHANGED <<clock, inputs, track, work, socket, prev, seen, framed, queue, group>>
          /\ \A u \in Threads : phase'[u] = "miss" => phase[u] = "miss"
      BY <1>2 DEF LoadGroup, GoesTo, TypeOK, termVars, receiverVars, frameVars
    <2>2. MarkersLag'  BY <2>1 DEF LagInv, MarkersLag, Taken
    <2> QED  BY <2>1, <2>2, QuietLag
  <1>3. CASE AppendMarker
    <2>1. /\ UNCHANGED <<clock, inputs, queue, track, socket, prev>>
          /\ \A u \in Threads : phase'[u] = "miss" => phase[u] = "miss" /\ work'[u] = work[u]
      BY <1>3 DEF AppendMarker, GoesTo, TypeOK, termVars, receiverVars
    <2>2. queue # <<>>  BY <1>3 DEF AppendMarker, CallbackInv
    <2>3. \A m \in Taken' : m \in Taken \/ m = Head(queue)
      <3>1. CASE group' = group \cup {Head(queue)} /\ UNCHANGED work  BY <3>1 DEF Taken
      <3>2. CASE UNCHANGED <<group, work>>  BY <3>2 DEF Taken
      <3>3. CASE work' = [work EXCEPT !["timer"] = @ \cup {Head(queue)}] /\ UNCHANGED group
        <4>1. /\ work'["timer"] = work["timer"] \cup {Head(queue)}
              /\ work'["callback"] = work["callback"]
          BY <3>3 DEF TypeOK
        <4> QED  BY <3>3, <4>1 DEF Taken
      <3> QED  BY <1>3, <3>1, <3>2, <3>3 DEF AppendMarker
    <2>4. MarkersLag'  BY <2>1, <2>2, <2>3, MarkersLagStays DEF LagInv
    <2>5. PacketsLag' /\ Published'  BY <2>1 DEF LagInv, PacketsLag, Published
    <2>6. Refused'  BY <2>1, RefusedStays DEF LagInv
    <2>7. FramesArrive'  BY <1>3, AppendArrives DEF LagInv
    <2> QED  BY <2>4, <2>5, <2>6, <2>7 DEF LagInv
  <1>4. CASE MarkHandled
    <2>1. /\ UNCHANGED <<clock, inputs, track, work, socket, prev, seen, framed, group>>
          /\ \A u \in Threads : phase'[u] = "miss" => phase[u] = "miss"
      BY <1>4 DEF MarkHandled, GoesTo, TypeOK, termVars, receiverVars, frameVars
    <2>2. queue # <<>> /\ queue' = Tail(queue)  BY <1>4 DEF MarkHandled, CallbackInv
    <2>3. Taken' = Taken  BY <2>1 DEF Taken
    <2>4. MarkersLag'  BY <2>1, <2>2, <2>3, MarkersLagStays DEF LagInv
    <2> QED  BY <2>1, <2>4, QuietLag
  <1>5. ASSUME NEW t \in Threads, ReplaceGroup(t)
        PROVE  LagInv'
    <2>1. /\ UNCHANGED <<clock, inputs, queue, socket, prev>> /\ group' = {}
          /\ \A u \in Threads : work'[u] = group \/ work'[u] = work[u]
          /\ \A u \in Threads : phase'[u] = "miss" => phase[u] = "miss" /\ work'[u] = work[u]
      <3>1. UNCHANGED prev  BY <1>5 DEF ReplaceGroup, receiverVars
      <3> QED  BY <1>5, <3>1, SwapMoves
    <2>2. track'.has = track.has /\ track'.measured = track.measured
      BY <1>5 DEF ReplaceGroup, TypeOK
    <2>3. \A m \in Taken' : m \in Taken  BY <2>1 DEF Taken
    <2>4. MarkersLag'  BY <2>1, <2>3 DEF LagInv, MarkersLag
    <2>5. PacketsLag' /\ Published'  BY <2>1 DEF LagInv, PacketsLag, Published
    <2>6. Refused'  BY <2>1, <2>2, RefusedStays DEF LagInv
    <2>7. FramesArrive'  BY <1>5, ReplaceArrives DEF LagInv
    <2> QED  BY <2>4, <2>5, <2>6, <2>7 DEF LagInv
  <1>6. ASSUME NEW t \in Threads, FilterStep(t)
        PROVE  LagInv'
    <2>1. /\ UNCHANGED <<clock, inputs, queue, group, prev>>
          /\ \A u \in Threads : work'[u] = {} \/ work'[u] = work[u]
      BY <1>6, FilterMoves
    <2>2. \A m \in Taken' : m \in Taken  BY <2>1 DEF Taken
    <2>3. MarkersLag'  BY <2>1, <2>2 DEF LagInv, MarkersLag
    <2>4. Published'  BY <2>1 DEF LagInv, Published
    <2>5. PacketsLag'
      <3>1. CASE UNCHANGED socket  BY <2>1, <3>1 DEF LagInv, PacketsLag
      <3>2. CASE PublishBall(t)
        <4>1. PICK stamp \in StampOf(work[t]) :
                socket' = Append(socket, [stamp |-> stamp, origin |-> track.origin])
          BY <3>2 DEF PublishBall
        <4> QED  BY <2>1, <4>1, SendLags DEF LagInv
      <3> QED
        BY <1>6, <3>1, <3>2 DEF FilterStep, ReturnEmpty, Measure, StampMeasurement, FindNothing,
                                HandleMiss, Predict, KeepPrediction, receiverVars
    <2>6. Refused'  BY <1>6, FilterRefuses DEF LagInv
    <2>7. FramesArrive'
      BY <1>6, SendArrives, MissArrives, StampArrives, OtherArrives DEF LagInv, FilterStep
    <2> QED  BY <2>3, <2>4, <2>5, <2>6, <2>7 DEF LagInv
  <1>7. CASE Receive
    <2>1. UNCHANGED <<clock, queue, group, phase, work, track>>
      BY <1>7 DEF Receive, trackerVars, threadVars
    <2>2. MarkersLag'  BY <2>1 DEF LagInv, MarkersLag, Taken
    <2>3. Refused'  BY <2>1 DEF LagInv, Refused, MeasurementIsFresh
    <2> QED  BY <1>7, <2>2, <2>3, ReceiveServes, ReceiveArrives DEF LagInv
  <1>8. CASE NextFrame
    <2>1. UNCHANGED <<inputs, phase, work, track, socket, prev>>
      BY <1>8 DEF NextFrame, Tick, threadVars, receiverVars
    <2>2. Published'  BY <2>1 DEF LagInv, Published
    <2>3. Refused'  BY <2>1 DEF LagInv, Refused, MeasurementIsFresh
    <2>4. FramesArrive'
      <3>1. clock' = clock + 1 /\ seen' \subseteq seen /\ framed' \subseteq framed
        BY <1>8 DEF NextFrame, Tick
      <3> QED  BY <2>1, <3>1, QuietArrives DEF LagInv, InWork
    <2> QED  BY <1>8, <2>2, <2>3, <2>4, FrameLags, FramePackets DEF LagInv
  <1>9. CASE UNCHANGED vars
    <2>1. /\ UNCHANGED <<clock, inputs, track, work, socket, prev, seen, framed>>
          /\ UNCHANGED <<queue, group, phase>>
      BY <1>9 DEF vars, termVars, trackerVars, receiverVars, threadVars, frameVars
    <2>2. MarkersLag'  BY <2>1 DEF LagInv, MarkersLag, Taken
    <2> QED  BY <2>1, <2>2, QuietLag
  <1> QED  BY <1>1, <1>2, <1>3, <1>4, <1>5, <1>6, <1>7, <1>8, <1>9, StepsOfNext

LEMMA LagInvHolds == TimeoutCoversLags => (Spec => [](PipelineInv /\ LagInv))
  <1> SUFFICES ASSUME TimeoutCoversLags PROVE Spec => [](PipelineInv /\ LagInv)
    OBVIOUS
  <1>1. PipelineInv /\ LagInv /\ [Next]_vars => LagInv'  BY LagInvNext
  <1>2. Spec => []PipelineInv  BY PipelineTypeCorrect, PTL DEF PipelineInv
  <1> QED  BY <1>1, <1>2, InitLagInv, PTL DEF Spec

\* Of the frames the controller may still wait for, the latest has reached it, and the
\* timeout allows for what may have come instead of its packet.
LEMMA LagsKeepFresh ==
  ASSUME TypeOK, LagInv, OnlyBall, TimeoutCoversLags
  PROVE  BallStaysFresh
  <1> SUFFICES ASSUME clock > BallTimeout,
                      \/ Window \subseteq seen
                      \/ /\ Window \subseteq framed
                         /\ track.has
                         /\ track.measured + TrackerLag < LastAwaited
                         /\ LastAwaited <= track.measured + MaxHold
               PROVE  FreshInputs(clock)
    BY DEF BallStaysFresh
  <1> DEFINE s == LastAwaited
  <1>1. clock \in Nat /\ clock \in Time /\ track.measured \in Nat
    BY StampsAreNatural DEF TypeOK, TermTypeOK
  <1>2. s \in Nat /\ s \in Window
    BY <1>1, LimitsAreNatural, MaxTimeAssumption
       DEF Window, Time, TimeoutCoversLags, LastAwaited
  <1>3. s + TrackerLag + LinkLag < clock /\ s + TrackerLag < clock
    BY <1>1, LimitsAreNatural DEF LastAwaited
  <1>4. s + BallTimeout >= clock + TrackerLag + JumpCheckMaxDt
    BY <1>1, LimitsAreNatural DEF TimeoutCoversLags, LastAwaited
  <1> HIDE DEF s
  <1>5. \A m \in InWork : m.stamp # s
    <2>1. \A m \in InWork : m.stamp \in Nat /\ m.stamp + TrackerLag >= clock
      BY StampsAreNatural DEF LagInv, MarkersLag, Taken, InWork
    <2> QED  BY <2>1, <1>1, <1>2, <1>3, LimitsAreNatural
  <1>6. ~InSocket(s)
    BY <1>1, <1>2, <1>3, LimitsAreNatural DEF LagInv, PacketsLag, InSocket
  <1>7. Served(s) => FreshInputs(clock)
    <2> SUFFICES ASSUME Served(s), NEW t \in Topics PROVE HasFresh(t, clock)
      BY DEF FreshInputs
    <2>1. t \in BallTopics  BY DEF OnlyBall
    <2>2. inputs[t].has /\ inputs[t].stamp + TrackerLag + JumpCheckMaxDt >= s
      BY <2>1 DEF Served
    <2>3. inputs[t].stamp \in Nat  BY <2>1, StampsAreNatural
    <2>4. clock - inputs[t].stamp <= BallTimeout
      BY <1>1, <1>2, <1>4, <2>2, <2>3, LimitsAreNatural
    <2> QED  BY <2>1, <2>2, <2>4 DEF HasFresh, IsFresh, Timeout
  <1>8. CASE Window \subseteq seen
    <2>1. s \in seen  BY <1>2, <1>8
    <2> QED  BY <2>1, <1>5, <1>6, <1>7 DEF LagInv, FramesArrive, Arrives
  <1>9. CASE /\ Window \subseteq framed
             /\ track.has
             /\ track.measured + TrackerLag < s
             /\ s <= track.measured + MaxHold
    <2>1. s \in framed  BY <1>2, <1>9
    <2>2. ~Unsent(s)  BY <1>1, <1>2, <1>9, LimitsAreNatural DEF Unsent
    <2> QED  BY <2>1, <2>2, <1>5, <1>6, <1>7 DEF LagInv, FramesArrive, Arrives
  <1> QED  BY <1>8, <1>9 DEF s

\* For all lags that the timeout covers, the gate stays open through jumps, occlusions
\* and whatever the two threads send twice or out of turn.
THEOREM BallKeptFresh == OnlyBall /\ TimeoutCoversLags => (Spec => []BallStaysFresh)
  <1> SUFFICES ASSUME OnlyBall, TimeoutCoversLags PROVE Spec => []BallStaysFresh
    OBVIOUS
  <1>1. PipelineInv /\ LagInv => BallStaysFresh  BY LagsKeepFresh DEF PipelineInv
  <1> QED  BY <1>1, LagInvHolds, PTL
=============================================================================
