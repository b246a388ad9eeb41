------------------------------ MODULE MocapBall ------------------------------
(***************************************************************************)
(* The ball of the real robot, from the motion capture to the cache of the *)
(* controller, as softtouch_real_run.sh joins them:                        *)
(*   ros1_unlabeled_ball_udp_sender  groups the markers of a frame, picks  *)
(*     the ball or predicts it, and sends one packet per frame; a callback *)
(*     thread and a timer thread share the group and the filter without a  *)
(*     lock: a step of theirs reads or writes what they share only once    *)
(*   ros2_mocap_udp_receiver         drains its socket, drops jumps, and   *)
(*     publishes the last packet as pose and twist                         *)
(*   CommandTerm                     caches them and tests their stamps    *)
(*                                                                         *)
(* One tick is the period of a frame, and longer than --frame-gap.  Stamps *)
(* are of the clock the controller reads.  Positions are abstracted to the *)
(* stamp of the last measurement behind them: that a candidate is outside  *)
(* the gate, or a packet a jump, may always happen.                        *)
(***************************************************************************)
EXTENDS CommandTerm, Sequences

CONSTANTS
  FrameShapes,    \* what the markers of each frame may be: TRUE is a candidate
  MaxPredict,     \* --max-predict-time
  MaxHold,        \* --max-hold-time
  StaleHold,      \* --publish-stale-hold
  JumpCheckMaxDt, \* --jump-check-max-dt
  TrackerLag,     \* ticks a marker may take to leave the tracker
  LinkLag         \* ticks a packet may take from there to the controller

ASSUME PipelineAssumption ==
  /\ FrameShapes \in [Time -> SUBSET Seq(BOOLEAN)]
  /\ MaxPredict \in Nat
  /\ MaxHold \in Nat
  /\ StaleHold \in BOOLEAN
  /\ JumpCheckMaxDt \in Nat
  /\ TrackerLag \in Nat \ {0}
  /\ LinkLag \in Nat

Threads == {"callback", "timer"}

VARIABLES
  queue,      \* marker messages the subscriber has not handled
  group,      \* group
  lastMarker, \* last_marker_stamp and last_marker_wall
  phase,      \* what each thread does next
  work,       \* group, the local of process_group, once it is not self.group any more
  kept,       \* predicted, the local of handle_miss
  track,      \* last_measurement_stamp; the measurement behind filtered_pos, and whether
              \*   both threads were in process_group since
  socket,     \* packets the receiver has not read
  prev,       \* prev of the receiver
  ball,       \* what is behind the cached ball
  framed,     \* the latest frames with a marker ...
  seen        \* ... and with a candidate, that a thread has taken

threadVars == <<phase, work, kept>>
trackerVars == <<queue, group, lastMarker, threadVars, track>>
receiverVars == <<socket, prev, ball>>
frameVars == <<framed, seen>>
vars == <<termVars, trackerVars, receiverVars, frameVars>>

\* A marker is a candidate when it is where the ball may be (is_candidate).
Marker == [stamp : Time, candidate : BOOLEAN]
Origin == [from : Time, shared : BOOLEAN]
Packet == [stamp : Time, origin : Origin]

\* Where a thread may be: in callback or flush_if_idle; at the swap of process_group;
\* between the swap and the end of process_group.
Outside == {"idle", "loaded", "late", "lost", "mark"}
Swapping == {"take", "read", "replaced"}
Processing == {"choose", "stamp", "miss", "predict", "keep", "send"}

TypeOK ==
  /\ TermTypeOK
  /\ queue \in Seq(Marker)
  /\ group \subseteq Marker
  /\ lastMarker \in [stamp : Time, wall : Time]
  /\ phase \in [Threads -> Outside \cup Swapping \cup Processing]
  /\ work \in [Threads -> SUBSET Marker]
  /\ kept \in [Threads -> Time]
  /\ track \in [has : BOOLEAN, measured : Time, origin : Origin]
  /\ socket \in Seq(Packet)
  /\ prev \in [has : BOOLEAN, stamp : Time]
  /\ ball \in Origin
  /\ framed \subseteq Time
  /\ seen \subseteq Time

NoOrigin == [from |-> 0, shared |-> FALSE]

Init ==
  /\ TermInit
  /\ queue = <<>>
  /\ group = {}
  /\ lastMarker = [stamp |-> 0, wall |-> 0]
  /\ phase = [t \in Threads |-> "idle"]
  /\ work = [t \in Threads |-> {}]
  /\ kept = [t \in Threads |-> 0]
  /\ track = [has |-> FALSE, measured |-> 0, origin |-> NoOrigin]
  /\ socket = <<>>
  /\ prev = [has |-> FALSE, stamp |-> 0]
  /\ ball = NoOrigin
  /\ framed = {}
  /\ seen = {}

-----------------------------------------------------------------------------
(* Tracker: the group *)

GoesTo(t, next) == phase' = [phase EXCEPT ![t] = next]

\* The callback holds a marker of a new frame; the timer finds the group idle.
NewFrame == queue # <<>> /\ Head(queue).stamp > lastMarker.stamp

Idle == clock > lastMarker.wall

\* Mutant of MayTake: only the next frame closes a group.
TakeOnNewFrame(t) == t = "callback" /\ group # {} /\ NewFrame

MayTake(t) == group # {} /\ IF t = "callback" THEN NewFrame ELSE Idle

\* The tests of callback and flush_if_idle.
EnterProcessGroup(t) ==
  /\ phase[t] = "idle"
  /\ MayTake(t)
  /\ GoesTo(t, "take")
  /\ UNCHANGED <<termVars, queue, group, lastMarker, work, kept, track, receiverVars,
                 frameVars>>

\* callback, with nothing to process, evaluates self.group ...
LoadGroup ==
  /\ phase["callback"] = "idle"
  /\ queue # <<>>
  /\ ~MayTake("callback")
  /\ GoesTo("callback", "loaded")
  /\ UNCHANGED <<termVars, queue, group, lastMarker, work, kept, track, receiverVars,
                 frameVars>>

\* Only the frames since the last one missed are remembered.
Extended(frames, stamp) ==
  IF {stamp - 1, stamp} \cap frames = {} THEN {stamp} ELSE frames \cup {stamp}

Counted(markers) ==
  \/ markers = {} /\ UNCHANGED frameVars
  \/ \E m \in markers :
       /\ framed' = Extended(framed, m.stamp)
       /\ IF \E n \in markers : n.candidate
          THEN seen' = Extended(seen, m.stamp)
          ELSE UNCHANGED seen

\* ... and appends to it.  Late, when the timer has read this list and replaced it: then
\* the timer may still see the marker.  Or when the timer has only replaced it.
AppendMarker ==
  /\ GoesTo("callback", "mark")
  /\ \/ /\ phase["callback"] = "loaded"
        /\ group' = group \cup {Head(queue)}
        /\ UNCHANGED <<work, frameVars>>
     \/ /\ phase["callback"] = "late"
        /\ phase["timer"] = "choose"
        /\ work' = [work EXCEPT !["timer"] = @ \cup {Head(queue)}]
        /\ Counted({Head(queue)})
        /\ UNCHANGED group
     \/ phase["callback"] \in {"late", "lost"} /\ UNCHANGED <<group, work, frameVars>>
  /\ UNCHANGED <<termVars, queue, lastMarker, kept, track, receiverVars>>

\* callback, after the append.
MarkHandled ==
  /\ phase["callback"] = "mark"
  /\ lastMarker' = [stamp |-> Head(queue).stamp, wall |-> clock]
  /\ queue' = Tail(queue)
  /\ GoesTo("callback", "idle")
  /\ UNCHANGED <<termVars, group, work, kept, track, receiverVars, frameVars>>

\* process_group, the first line.
ReadGroup(t) ==
  /\ phase[t] = "take"
  /\ GoesTo(t, "read")
  /\ UNCHANGED <<termVars, queue, group, lastMarker, work, kept, track, receiverVars,
                 frameVars>>

\* The threads that share the list with self.group.
Readers == {t \in Threads : phase[t] = "read"}

OtherProcessing(t) == \E u \in Threads \ {t} : phase[u] \in Processing

\* Its second line.  A thread that read the list before another one replaced it replaces
\* the next list unread: what has been appended to that is lost.
ReplaceGroup(t) ==
  /\ phase[t] \in {"read", "replaced"}
  /\ work' = [u \in Threads |-> IF u \in Readers THEN group ELSE work[u]]
  /\ group' = {}
  /\ phase' = [u \in Threads |->
                 IF u = t THEN "choose"
                 ELSE IF u \in Readers THEN "replaced"
                 ELSE IF phase[u] # "loaded" THEN phase[u]
                 ELSE IF t \in Readers THEN "late"
                 ELSE "lost"]
  /\ IF Readers = {} THEN UNCHANGED frameVars ELSE Counted(group)
  /\ track' = [track EXCEPT !.origin.shared = @ \/ OtherProcessing(t)]
  /\ UNCHANGED <<termVars, queue, lastMarker, kept, receiverVars>>

-----------------------------------------------------------------------------
(* Tracker: the filter *)

\* The stamp of the group.
StampOf(markers) == {m.stamp : m \in {n \in markers : \A l \in markers : l.stamp <= n.stamp}}

Leave(t) ==
  /\ GoesTo(t, "idle")
  /\ work' = [work EXCEPT ![t] = {}]
  /\ kept' = [kept EXCEPT ![t] = 0]

\* The early return of process_group.
ReturnEmpty(t) ==
  /\ phase[t] = "choose"
  /\ work[t] = {}
  /\ Leave(t)
  /\ UNCHANGED <<termVars, queue, group, lastMarker, track, receiverVars, frameVars>>

\* choose_candidate has found the ball: the filter takes it in ...
Measure(t) ==
  /\ phase[t] = "choose"
  /\ \E m \in work[t] : m.candidate
  /\ \E stamp \in StampOf(work[t]) :
       track' = [track EXCEPT !.origin = [from |-> stamp, shared |-> OtherProcessing(t)]]
  /\ GoesTo(t, "stamp")
  /\ UNCHANGED <<termVars, queue, group, lastMarker, work, kept, receiverVars, frameVars>>

\* ... and the measurement gets its stamp.
StampMeasurement(t) ==
  /\ phase[t] = "stamp"
  /\ \E stamp \in StampOf(work[t]) :
       track' = [track EXCEPT !.has = TRUE, !.measured = stamp]
  /\ GoesTo(t, "send")
  /\ UNCHANGED <<termVars, queue, group, lastMarker, work, kept, receiverVars, frameVars>>

\* measurement_is_fresh
MeasurementIsFresh(stamp) == track.has /\ stamp - track.measured <= MaxHold

\* choose_candidate has found nothing.  Only while the last measurement is fresh can
\* the gate refuse all candidates.
FindNothing(t) ==
  /\ phase[t] = "choose"
  /\ \E stamp \in StampOf(work[t]) :
       (\A m \in work[t] : ~m.candidate) \/ MeasurementIsFresh(stamp)
  /\ GoesTo(t, "miss")
  /\ UNCHANGED <<termVars, queue, group, lastMarker, work, kept, track, receiverVars,
                 frameVars>>

\* occlusion_time
Occlusion(stamp) == stamp - track.measured

MayHold(stamp) == Occlusion(stamp) <= MaxHold \/ StaleHold

\* handle_miss, its tests.
HandleMiss(t) ==
  /\ phase[t] = "miss"
  /\ \E stamp \in StampOf(work[t]) :
       IF track.has /\ (Occlusion(stamp) <= MaxPredict \/ MayHold(stamp))
       THEN /\ GoesTo(t, IF Occlusion(stamp) <= MaxPredict THEN "predict" ELSE "send")
            /\ UNCHANGED <<work, kept>>
       ELSE Leave(t)
  /\ UNCHANGED <<termVars, queue, group, lastMarker, track, receiverVars, frameVars>>

\* predicted is computed from filtered_pos, and clamped into it.
Predict(t) ==
  /\ phase[t] = "predict"
  /\ kept' = [kept EXCEPT ![t] = track.origin.from]
  /\ GoesTo(t, "keep")
  /\ UNCHANGED <<termVars, queue, group, lastMarker, work, track, receiverVars, frameVars>>

\* Mutant of KeepPrediction: a prediction counts as a measurement.
PredictionMeasures(t) ==
  /\ phase[t] = "keep"
  /\ \E stamp \in StampOf(work[t]) :
       track' = [track EXCEPT !.origin.from = kept[t], !.measured = stamp]
  /\ GoesTo(t, "send")
  /\ UNCHANGED <<termVars, queue, group, lastMarker, work, kept, receiverVars, frameVars>>

KeepPrediction(t) ==
  /\ phase[t] = "keep"
  /\ track' = [track EXCEPT !.origin.from = kept[t]]
  /\ GoesTo(t, "send")
  /\ UNCHANGED <<termVars, queue, group, lastMarker, work, kept, receiverVars, frameVars>>

\* publish_ball, with the filtered_pos of this moment and the stamp of the group.
PublishBall(t) ==
  /\ phase[t] = "send"
  /\ \E stamp \in StampOf(work[t]) :
       socket' = Append(socket, [stamp |-> stamp, origin |-> track.origin])
  /\ Leave(t)
  /\ UNCHANGED <<termVars, queue, group, lastMarker, track, prev, ball, frameVars>>

-----------------------------------------------------------------------------
(* Receiver and controller *)

\* Mutant of MayReject: a jump is refused however long ago the last packet was.
RejectAnyJump(stamp) == prev.has /\ stamp > prev.stamp

\* _handle_packet tests only what follows the last packet closely for a jump.
MayReject(stamp) == prev.has /\ stamp - prev.stamp \in 1 .. JumpCheckMaxDt

\* The rest of _handle_packet, and handleBallPose and handleBallTwist.
Publish(packet) ==
  /\ prev' = [has |-> TRUE, stamp |-> packet.stamp]
  /\ inputs' = [t \in Topics |-> IF t \in BallTopics /\ Accepts(t, packet.stamp)
                                 THEN [has |-> TRUE, stamp |-> packet.stamp]
                                 ELSE inputs[t]]
  /\ ball' = IF Accepts("ballPose", packet.stamp) THEN packet.origin ELSE ball

\* _recv_loop: of the packets that wait, all but the last are dropped.
Receive ==
  /\ socket # <<>>
  /\ LET packet == socket[Len(socket)] IN
       \/ Publish(packet)
       \/ MayReject(packet.stamp) /\ UNCHANGED <<prev, inputs, ball>>
  /\ socket' = <<>>
  /\ UNCHANGED <<clock, now, route, command, trackerVars, frameVars>>

-----------------------------------------------------------------------------
(* Motion capture and time *)

\* The markers of a frame, in the order they come in.
Frame(stamp, shape) ==
  [i \in DOMAIN shape |-> [stamp |-> stamp, candidate |-> shape[i]]]

Taken == group \cup UNION {work[t] : t \in Threads}

\* The next frame, as long as the clock of the model leaves the time to process it.
\* A marker in the queue leaves the timer the tick it needs to find the group idle.
NextFrame ==
  /\ Tick
  /\ \A i \in DOMAIN queue : clock - queue[i].stamp < TrackerLag - 1
  /\ \A m \in Taken : clock - m.stamp < TrackerLag
  /\ \A i \in DOMAIN socket : clock - socket[i].stamp < TrackerLag + LinkLag
  /\ \E shape \in FrameShapes[clock'] :
       queue' = IF clock' + TrackerLag <= MaxTime THEN queue \o Frame(clock', shape) ELSE queue
  /\ framed' = {s \in framed : s >= clock' - BallTimeout}
  /\ seen' = {s \in seen : s >= clock' - BallTimeout}
  /\ UNCHANGED <<group, lastMarker, threadVars, track, receiverVars>>

ProcessGroup(t) ==
  \/ ReadGroup(t) \/ ReplaceGroup(t) \/ ReturnEmpty(t)
  \/ Measure(t) \/ StampMeasurement(t)
  \/ FindNothing(t) \/ HandleMiss(t) \/ Predict(t) \/ KeepPrediction(t)
  \/ PublishBall(t)

Thread(t) == EnterProcessGroup(t) \/ ProcessGroup(t)

AppendSteps == LoadGroup \/ AppendMarker \/ MarkHandled

Next ==
  \/ \E t \in Threads : Thread(t)
  \/ AppendSteps
  \/ Receive
  \/ NextFrame

Spec == Init /\ [][Next]_vars

\* Time passes; both threads of the tracker run.
FairSpec ==
  /\ Spec
  /\ WF_vars(NextFrame)
  /\ WF_vars(Thread("callback") \/ AppendSteps)
  /\ WF_vars(Thread("timer"))
  /\ WF_vars(Receive)

-----------------------------------------------------------------------------
(* Parameters that fit together; the proof of BallStaysFresh needs them *)

\* softtouch_real_run.sh: of the inputs, the tracker and its receiver serve the ball.
OnlyBall == Topics = BallTopics

\* The ball is fresh for longer than two frames may be apart when they are taken out of
\* turn, the older reaches the controller, and the test for jumps has refused others; and
\* it is held when the gate has refused it and an older frame is measured then.
TimeoutCoversLags ==
  /\ BallTimeout > 2 * TrackerLag + LinkLag + JumpCheckMaxDt
  /\ MaxHold >= TrackerLag

-----------------------------------------------------------------------------
(* Properties *)

\* The longest the code means to predict or to hold a ball.
HoldLimit == IF MaxPredict > MaxHold THEN MaxPredict ELSE MaxHold

\* Without --publish-stale-hold, the ball that the controller takes for as recent as its
\* stamp was measured at most the hold limit before: however often it was predicted since,
\* by either thread, whatever came out of turn, and whichever packets were dropped.  Exempt
\* is a ball since whose measurement both threads were in process_group at once: without a
\* lock, one may put a prediction from an older ball back over it.
HeldBallExpires ==
  ~StaleHold /\ inputs["ballPose"].has /\ ~ball.shared =>
    inputs["ballPose"].stamp - ball.from <= HoldLimit

\* What the proofs add: markers come in order, and packets under way have not expired.
MarkersInOrder ==
  /\ lastMarker.stamp <= clock
  /\ \A i \in DOMAIN queue :
       /\ lastMarker.stamp <= queue[i].stamp
       /\ queue[i].stamp <= clock
       /\ \A j \in 1 .. i : queue[j].stamp <= queue[i].stamp

PacketsExpire ==
  ~StaleHold => \A i \in DOMAIN socket :
    ~socket[i].origin.shared => socket[i].stamp - socket[i].origin.from <= HoldLimit

\* The frames that the timeout of the ball still allows to wait for.
LastAwaited == clock - TrackerLag - LinkLag - 1

Window == {s \in Time : clock - BallTimeout <= s /\ s <= LastAwaited}

\* The gate of the controller stays open through jumps and occlusions, whatever the two
\* threads send twice or out of turn: while the tracker takes a candidate of every frame,
\* though gate and jump test may refuse it; and, as long as it takes any marker of every
\* frame, while those that must have arrived are within max_hold_time of the last
\* measurement.
BallStaysFresh ==
  /\ clock > BallTimeout
  /\ \/ Window \subseteq seen
     \/ /\ Window \subseteq framed
        /\ track.has
        /\ track.measured + TrackerLag < LastAwaited
        /\ LastAwaited <= track.measured + MaxHold
  => FreshInputs(clock)

\* No frame is left waiting for the next one, when the ball was the last to be seen.
EveryGroupProcessed == group # {} ~> group = {}
=============================================================================
