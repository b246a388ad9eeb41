----------------------- MODULE SimulatedDribbleProofs -----------------------
(***************************************************************************)
(* Proofs about SimulatedDribble.  The composition adds nothing to either  *)
(* component, so that what is proved of them holds in it; and a served     *)
(* request holds the robot until the controller commands it, for all hold  *)
(* times, delays and timeouts.  With parameters that fit, the gate stays   *)
(* open, the robot is not held for much longer than the controller waits,  *)
(* and its route starts at the ball of the reset state.                    *)
(***************************************************************************)
EXTENDS SimulatedDribble, DribbleControllerProofs

\* The messages under way carry times; every input of the cache has an origin.
WireInv ==
  /\ clock \in Time
  /\ DOMAIN inputOf = Topics
  /\ \A m \in wire : m.topic \in BallTopics /\ m.stamp \in Time

\* Each action of the controller is one of DribbleController, which leaves the clock.
LEMMA ControlSteps ==
  ASSUME Control \/ ActivateAndRequest
  PROVE  Next /\ UNCHANGED <<bridgeVars, clock, wire>>
  <1>1. ASSUME Configure \/ Activate \/ ActivateFails \/ Deactivate \/ Cleanup
        PROVE  Next /\ UNCHANGED clock
    BY <1>1 DEF Next, Transition, Configure, Activate, ActivateFails, Deactivate, Cleanup,
                termVars
  <1>2. ASSUME Update
        PROVE  Next /\ UNCHANGED clock
    BY <1>2 DEF Next, Update, UpdateHeld, UpdateStart, CheckInputs, UpdateThrows,
                BaseUpdateFails, HoldTarget, PassGate, WriteTarget, RlControllerUpdate, termVars
  <1> QED  BY <1>1, <1>2 DEF Control, ActivateAndRequest, topicVars

\* The steps of the bridge are those of MujocoBallBridge, and leave the controller.
LEMMA BridgeSteps ==
  ASSUME ReceiveRequest \/ BridgeTakes \/ BridgeServes
  PROVE  /\ Bridge!HandleResetRequest \/ Bridge!TakeRequest \/ Bridge!Serve
         /\ UNCHANGED vars
  BY DEF ReceiveRequest, BridgeTakes, BridgeServes, vars, termVars, controllerVars,
         flagVars, policyVars

LEMMA PhysicsSteps ==
  ASSUME Physics
  PROVE  ClockTick /\ Bridge!Step
  BY DEF Physics, ClockTick, Tick, Bridge!Step

LEMMA DeliverSteps ==
  ASSUME WireInv, Deliver
  PROVE  [Next]_vars /\ UNCHANGED <<bridgeVars, clock>>
  <1>1. PICK m \in wire :
          /\ IF lifecycle \in {"inactive", "active"}
             THEN SetInput(m.topic, StampToSeconds(m.stamp))
             ELSE UNCHANGED termVars
          /\ UNCHANGED <<controllerVars, bridgeVars>>
    BY DEF Deliver
  <1>2. m.topic \in Topics /\ StampToSeconds(m.stamp) \in Time
    BY DEF WireInv, Topics, StampToSeconds
  <1>3. CASE lifecycle \in {"inactive", "active"}
    <2>1. HandleMessage(m.topic)  BY <1>1, <1>2, <1>3 DEF HandleMessage
    <2> QED  BY <1>1, <1>2, <1>3, <2>1 DEF Next, SetInput
  <1>4. CASE lifecycle \notin {"inactive", "active"}
    BY <1>1, <1>4 DEF vars, termVars, controllerVars, flagVars, policyVars
  <1> QED  BY <1>3, <1>4

LEMMA WirePreserved ==
  ASSUME WireInv, [SystemNext]_systemVars
  PROVE  WireInv'
  <1>1. CASE Control \/ ActivateAndRequest
    BY <1>1, ControlSteps DEF WireInv, Control, ActivateAndRequest
  <1>2. CASE ReceiveRequest \/ BridgeTakes
    BY <1>2 DEF WireInv, ReceiveRequest, BridgeTakes, topicVars, originVars, termVars
  <1>3. CASE BridgeServes
    <2>1. clock' = clock  BY <1>3 DEF BridgeServes, termVars
    <2> QED  BY <1>3, <2>1 DEF WireInv, BridgeServes, originVars
  <1>4. CASE Physics
    <2>1. clock' \in Time
      BY <1>4, PhysicsSteps, MaxTimeAssumption DEF WireInv, ClockTick, Tick, Time
    <2> QED  BY <1>4, <2>1 DEF WireInv, Physics, topicVars, originVars
  <1>5. CASE Deliver
    <2>1. DOMAIN inputOf' = DOMAIN inputOf  BY <1>5 DEF Deliver
    <2> QED  BY <1>5, <2>1, DeliverSteps DEF WireInv, Deliver
  <1>6. CASE UNCHANGED systemVars
    BY <1>6 DEF WireInv, systemVars, vars, termVars, topicVars, originVars
  <1> QED  BY <1>1, <1>2, <1>3, <1>4, <1>5, <1>6 DEF SystemNext

LEMMA BridgeVarsComplete ==
  ASSUME UNCHANGED <<bridgeVars, clock>>
  PROVE  UNCHANGED Bridge!vars
  BY DEF bridgeVars, Bridge!vars, Bridge!loopVars, Bridge!requestVars, Bridge!promiseVars,
         Bridge!publishVars

\* The composition runs its two components, each as it is.
THEOREM ComponentsKept == SystemSpec => Spec /\ Bridge!Spec
  <1>1. SystemInit => Init /\ Bridge!Init /\ WireInv
    <2>1. 0 \in Time  BY MaxTimeAssumption DEF Time
    <2> QED  BY <2>1 DEF SystemInit, Init, TermInit, WireInv
  <1>2. WireInv /\ [SystemNext]_systemVars => WireInv'
    BY WirePreserved
  <1>3. WireInv /\ [SystemNext]_systemVars => [Next]_vars
    <2> SUFFICES ASSUME WireInv, [SystemNext]_systemVars PROVE [Next]_vars  OBVIOUS
    <2>1. CASE Control \/ ActivateAndRequest  BY <2>1, ControlSteps
    <2>2. CASE ReceiveRequest \/ BridgeTakes \/ BridgeServes  BY <2>2, BridgeSteps
    <2>3. CASE Physics  BY <2>3, PhysicsSteps DEF Next
    <2>4. CASE Deliver  BY <2>4, DeliverSteps
    <2>5. CASE UNCHANGED systemVars  BY <2>5 DEF systemVars
    <2> QED  BY <2>1, <2>2, <2>3, <2>4, <2>5 DEF SystemNext
  <1>4. WireInv /\ [SystemNext]_systemVars => [Bridge!Next]_Bridge!vars
    <2> SUFFICES ASSUME WireInv, [SystemNext]_systemVars PROVE [Bridge!Next]_Bridge!vars
      OBVIOUS
    <2>1. CASE Control \/ ActivateAndRequest  BY <2>1, ControlSteps, BridgeVarsComplete
    <2>2. CASE ReceiveRequest \/ BridgeTakes \/ BridgeServes
      BY <2>2, BridgeSteps DEF Bridge!Next
    <2>3. CASE Physics  BY <2>3, PhysicsSteps DEF Bridge!Next
    <2>4. CASE Deliver  BY <2>4, DeliverSteps, BridgeVarsComplete
    <2>5. CASE UNCHANGED systemVars
      BY <2>5, BridgeVarsComplete DEF systemVars, vars, termVars
    <2> QED  BY <2>1, <2>2, <2>3, <2>4, <2>5 DEF SystemNext
  <1> QED  BY <1>1, <1>2, <1>3, <1>4, PTL DEF SystemSpec, Spec, Bridge!Spec

-----------------------------------------------------------------------------
(* The hold of a request *)

\* The request of the current activation ends its hold no earlier than the
\* controller's, wherever it is: under way, waiting, taken or served.
TypeInv ==
  /\ clock \in Nat /\ skipUntil \in Nat /\ activations \in Nat
  /\ params \in Parameters
  /\ received \in Nat /\ served \in Nat /\ holdUntil \in Nat
  /\ request \in [pending : BOOLEAN, hold : Nat]
  /\ taken \in [has : BOOLEAN, hold : Nat, upTo : Nat]
  /\ requests \subseteq [hold : Nat, sent : Nat, by : Nat]
  /\ askedBy \in Seq(Nat)
  /\ Len(askedBy) = received

CountInv ==
  /\ lifecycle = "active" => activations # 0
  /\ \A r \in requests : r.by <= activations
  /\ \A n \in 1 .. received : askedBy[n] <= activations
  /\ taken.has => taken.upTo \in 1 .. received
  /\ served <= received
  /\ request.pending => received # 0

HoldsInv ==
  /\ \A r \in requests :
       r.by = activations => r.sent <= clock /\ skipUntil <= r.sent + r.hold
  /\ received # 0 /\ askedBy[received] = activations => skipUntil <= clock + request.hold
  /\ taken.has /\ askedBy[taken.upTo] = activations => skipUntil <= clock + taken.hold
  /\ served # 0 /\ askedBy[served] = activations => skipUntil <= holdUntil

\* The robot is let go once the hold is over.
ReleaseInv == loop = "step" /\ qpos # "reset" => holdUntil = 0 \/ holdUntil < clock

LEMMA SystemTypePreserved ==
  ASSUME TypeInv, [SystemNext]_systemVars
  PROVE  TypeInv'
  <1>1. ASSUME Configure \/ ActivateFails \/ Deactivate \/ Cleanup
        PROVE  UNCHANGED <<clock, skipUntil, activations>> /\ params' \in Parameters
    BY <1>1, ParametersAssumption
       DEF TypeInv, Configure, ActivateFails, Deactivate, Cleanup, termVars, flagVars
  <1>2. ASSUME Update
        PROVE  UNCHANGED <<clock, skipUntil, activations, params>>
    BY <1>2 DEF Update, UpdateHeld, UpdateStart, CheckInputs, UpdateThrows,
                BaseUpdateFails, HoldTarget, PassGate, WriteTarget, RlControllerUpdate,
                termVars, flagVars
  <1>3. CASE Control
    BY <1>1, <1>2, <1>3 DEF Control, TypeInv, bridgeVars, topicVars
  <1>4. CASE ActivateAndRequest
    <2>1. params.hold \in Nat  BY DEF TypeInv, Parameters
    <2>2. skipUntil' \in {skipUntil, clock + params.hold} /\ activations' = activations + 1
      BY <1>4 DEF ActivateAndRequest, Activate, ActivateHold
    <2>3. UNCHANGED <<clock, params>>  BY <1>4 DEF ActivateAndRequest, Activate
    <2>4. skipUntil' \in Nat /\ activations' \in Nat  BY <2>1, <2>2 DEF TypeInv
    <2>5. requests' \subseteq [hold : Nat, sent : Nat, by : Nat]
      BY <1>4, <2>1, <2>4 DEF TypeInv, ActivateAndRequest
    <2> QED  BY <1>4, <2>3, <2>4, <2>5 DEF TypeInv, ActivateAndRequest, bridgeVars
  <1>5. CASE ReceiveRequest
    <2>1. PICK r \in requests :
            /\ Bridge!HandleResetRequest
            /\ request'.hold = r.hold
            /\ askedBy' = Append(askedBy, r.by)
            /\ requests' = {}
            /\ UNCHANGED <<termVars, controllerVars>>
      BY <1>5 DEF ReceiveRequest
    <2>2. r.hold \in Nat /\ r.by \in Nat  BY DEF TypeInv
    <2>3. askedBy' \in Seq(Nat) /\ Len(askedBy') = received + 1
      <3>1. askedBy \in Seq(Nat) /\ Len(askedBy) = received  BY DEF TypeInv
      <3> QED  BY <2>1, <2>2, <3>1, AppendProperties
    <2>4. request' \in [pending : BOOLEAN, hold : Nat]
      BY <2>1, <2>2 DEF Bridge!HandleResetRequest
    <2>5. received' = received + 1  BY <2>1 DEF Bridge!HandleResetRequest
    <2> QED
      BY <2>1, <2>3, <2>4, <2>5
         DEF TypeInv, Bridge!HandleResetRequest, Bridge!promiseVars, termVars,
             controllerVars, flagVars
  <1>6. CASE BridgeTakes
    <2>1. /\ taken' \in [has : BOOLEAN, hold : Nat, upTo : Nat]
          /\ request' \in [pending : BOOLEAN, hold : Nat]
      BY <1>6 DEF TypeInv, BridgeTakes, Bridge!TakeRequest
    <2> QED
      BY <1>6, <2>1 DEF TypeInv, BridgeTakes, Bridge!TakeRequest, Bridge!promiseVars,
                        termVars, controllerVars, flagVars, topicVars, originVars
  <1>7. CASE BridgeServes
    <2>1. holdUntil' \in {holdUntil, clock + taken.hold}
      BY <1>7 DEF BridgeServes, Bridge!Serve, Bridge!ServeTaken, Bridge!HoldEnd
    <2>2. served' \in {served, taken.upTo} /\ taken' = [taken EXCEPT !.has = FALSE]
      BY <1>7 DEF BridgeServes, Bridge!Serve, Bridge!ServeTaken
    <2>3. holdUntil' \in Nat /\ served' \in Nat  BY <2>1, <2>2 DEF TypeInv
    <2>4. taken' \in [has : BOOLEAN, hold : Nat, upTo : Nat]  BY <2>2 DEF TypeInv
    <2> QED
      BY <1>7, <2>3, <2>4 DEF TypeInv, BridgeServes, Bridge!Serve, Bridge!ServeTaken,
                              termVars, controllerVars, flagVars, originVars
  <1>8. CASE Physics
    <2>1. clock' = clock + 1  BY <1>8, PhysicsSteps DEF ClockTick, Tick
    <2>2. clock' \in Nat  BY <2>1 DEF TypeInv
    <2> QED
      BY <1>8, <2>2 DEF TypeInv, Physics, Bridge!Step, Bridge!requestVars,
                        controllerVars, flagVars, topicVars, originVars
  <1>9. CASE Deliver
    <2>1. UNCHANGED clock  BY <1>9 DEF Deliver, SetInput, termVars
    <2> QED  BY <1>9, <2>1 DEF TypeInv, Deliver, bridgeVars, controllerVars, flagVars
  <1>10. CASE UNCHANGED systemVars
    BY <1>10 DEF TypeInv, systemVars, vars, termVars, flagVars, bridgeVars, topicVars,
                 originVars
  <1> QED
    BY <1>3, <1>4, <1>5, <1>6, <1>7, <1>8, <1>9, <1>10 DEF SystemNext

\* What a request adds to the ones received.
LEMMA AskedByAppended ==
  ASSUME TypeInv, NEW by \in Nat, askedBy' = Append(askedBy, by)
  PROVE  /\ askedBy'[received + 1] = by
         /\ \A n \in 1 .. received : askedBy'[n] = askedBy[n]
  <1>1. askedBy \in Seq(Nat) /\ Len(askedBy) = received  BY DEF TypeInv
  <1> QED  BY <1>1, AppendProperties

SystemInv == TypeInv /\ CountInv /\ HoldsInv /\ ReleaseInv

\* Steps that touch none of what the invariants are about; the clock may go on.
LEMMA Undisturbed ==
  ASSUME CountInv, HoldsInv, TypeInv,
         UNCHANGED <<skipUntil, activations, received, served, holdUntil, request, taken,
                     requests, askedBy>>,
         lifecycle' = "active" => lifecycle = "active",
         clock' \in {clock, clock + 1}
  PROVE  CountInv' /\ HoldsInv'
  <1>1. CountInv'  BY DEF CountInv
  <1>2. ASSUME NEW r \in requests, r.by = activations
        PROVE  r.sent <= clock' /\ skipUntil <= r.sent + r.hold
    <2>1. r.sent \in Nat  BY DEF TypeInv
    <2> QED  BY <1>2, <2>1 DEF HoldsInv, TypeInv
  <1>3. received # 0 /\ askedBy[received] = activations => skipUntil <= clock' + request.hold
    <2>1. request.hold \in Nat  BY DEF TypeInv
    <2> QED  BY <2>1 DEF HoldsInv, TypeInv
  <1>4. taken.has /\ askedBy[taken.upTo] = activations => skipUntil <= clock' + taken.hold
    <2>1. taken.hold \in Nat  BY DEF TypeInv
    <2>2. CASE taken.has /\ askedBy[taken.upTo] = activations
      <3>1. skipUntil <= clock + taken.hold  BY <2>2 DEF HoldsInv
      <3> QED  BY <2>1, <3>1 DEF TypeInv
    <2> QED  BY <2>2
  <1> QED  BY <1>1, <1>2, <1>3, <1>4 DEF HoldsInv

LEMMA ActivateHolds ==
  ASSUME SystemInv, ActivateAndRequest
  PROVE  CountInv' /\ HoldsInv'
  <1>1. /\ activations' = activations + 1
        /\ UNCHANGED <<clock, params, received, served, holdUntil, request, taken, askedBy>>
        /\ requests' = IF params.mujocoReset
                       THEN {[hold |-> params.hold, sent |-> clock, by |-> activations']}
                       ELSE requests
        /\ params.mujocoReset => skipUntil' = clock + params.hold
    BY DEF ActivateAndRequest, Activate, ActivateHold, bridgeVars
  <1>2. /\ activations \in Nat /\ clock \in Nat /\ params.hold \in Nat
        /\ received \in Nat /\ served \in Nat
    BY DEF SystemInv, TypeInv, Parameters
  <1>3. \A r \in requests : r.by \in Nat /\ r.by <= activations
    BY DEF SystemInv, TypeInv, CountInv
  <1>4. \A n \in 1 .. received : askedBy[n] \in Nat /\ askedBy[n] <= activations
    BY DEF SystemInv, TypeInv, CountInv
  <1>5. \A r \in requests' :
          /\ r.by <= activations + 1
          /\ r.by = activations + 1 => r.sent <= clock /\ skipUntil' <= r.sent + r.hold
    <2>1. CASE params.mujocoReset  BY <1>1, <1>2, <2>1
    <2>2. CASE ~params.mujocoReset  BY <1>1, <1>2, <1>3, <2>2
    <2> QED  BY <2>1, <2>2
  <1>6. \A n \in 1 .. received : askedBy[n] <= activations + 1 /\ askedBy[n] # activations + 1
    BY <1>2, <1>4
  <1>7. /\ taken.has => taken.upTo \in 1 .. received
        /\ served <= received
        /\ request.pending => received # 0
    BY DEF SystemInv, CountInv
  <1>8. CountInv'
    <2>1. activations' # 0  BY <1>1, <1>2
    <2> QED  BY <1>1, <1>5, <1>6, <1>7, <2>1 DEF CountInv
  <1>9. /\ received # 0 => askedBy[received] # activations + 1
        /\ taken.has => askedBy[taken.upTo] # activations + 1
        /\ served # 0 => askedBy[served] # activations + 1
    <2>1. received # 0 => received \in 1 .. received  BY <1>2
    <2>2. served # 0 => served \in 1 .. received  BY <1>2, <1>7
    <2> QED  BY <1>6, <1>7, <2>1, <2>2
  <1> QED  BY <1>1, <1>5, <1>8, <1>9 DEF HoldsInv

LEMMA ReceiveHolds ==
  ASSUME SystemInv, ReceiveRequest
  PROVE  CountInv' /\ HoldsInv'
  <1>1. PICK r \in requests :
          /\ request'.hold = r.hold
          /\ received' = received + 1
          /\ askedBy' = Append(askedBy, r.by)
          /\ requests' = {}
          /\ UNCHANGED <<clock, lifecycle, skipUntil, activations, taken, served, holdUntil>>
    BY DEF ReceiveRequest, Bridge!HandleResetRequest, Bridge!promiseVars, termVars,
           controllerVars, flagVars
  <1>2. /\ clock \in Nat /\ activations \in Nat /\ received \in Nat /\ served \in Nat
        /\ skipUntil \in Nat
        /\ r.hold \in Nat /\ r.sent \in Nat /\ r.by \in Nat
    BY DEF SystemInv, TypeInv
  <1>3. /\ askedBy'[received + 1] = r.by
        /\ \A n \in 1 .. received : askedBy'[n] = askedBy[n]
    BY <1>1, <1>2, AskedByAppended DEF SystemInv
  <1>4. /\ r.by <= activations
        /\ r.by = activations => r.sent <= clock /\ skipUntil <= r.sent + r.hold
    BY DEF SystemInv, CountInv, HoldsInv
  <1>5. r.by = activations => skipUntil <= clock + r.hold
    BY <1>2, <1>4
  <1>6. /\ taken.has => taken.upTo \in 1 .. received
        /\ served <= received
        /\ \A n \in 1 .. received : askedBy[n] <= activations
    BY DEF SystemInv, CountInv
  <1>7. CountInv'
    <2>1. \A n \in 1 .. received + 1 : askedBy'[n] <= activations
      BY <1>2, <1>3, <1>4, <1>6
    <2>2. taken.has => taken.upTo \in 1 .. received + 1  BY <1>2, <1>6
    <2>3. served <= received + 1 /\ received + 1 # 0  BY <1>2, <1>6
    <2>4. lifecycle = "active" => activations # 0  BY DEF SystemInv, CountInv
    <2> QED  BY <1>1, <2>1, <2>2, <2>3, <2>4 DEF CountInv
  <1>8. taken.has /\ askedBy'[taken.upTo] = activations => skipUntil <= clock + taken.hold
    BY <1>3, <1>6 DEF SystemInv, HoldsInv
  <1>9. served # 0 /\ askedBy'[served] = activations => skipUntil <= holdUntil
    <2>1. served # 0 => served \in 1 .. received  BY <1>2, <1>6
    <2> QED  BY <1>3, <2>1 DEF SystemInv, HoldsInv
  <1> QED  BY <1>1, <1>3, <1>5, <1>7, <1>8, <1>9 DEF HoldsInv

LEMMA TakeHolds ==
  ASSUME SystemInv, BridgeTakes
  PROVE  CountInv' /\ HoldsInv'
  <1>1. /\ taken' = [has |-> request.pending, hold |-> request.hold, upTo |-> received]
        /\ request' = [request EXCEPT !.pending = FALSE]
        /\ UNCHANGED <<clock, lifecycle, skipUntil, activations, requests, askedBy, received,
                       served, holdUntil>>
    BY DEF BridgeTakes, Bridge!TakeRequest, Bridge!promiseVars, termVars, controllerVars,
           flagVars, topicVars, originVars
  <1>2. /\ request \in [pending : BOOLEAN, hold : Nat] /\ received \in Nat
        /\ request.pending => received # 0
    BY DEF SystemInv, TypeInv, CountInv
  <1>3. /\ taken'.has = request.pending /\ taken'.hold = request.hold
        /\ taken'.upTo = received
        /\ request'.hold = request.hold /\ request'.pending = FALSE
    BY <1>1, <1>2
  <1>4. request.pending => received \in 1 .. received  BY <1>2
  <1>5. CountInv'  BY <1>1, <1>3, <1>4 DEF SystemInv, CountInv
  <1> QED  BY <1>1, <1>2, <1>3, <1>5 DEF SystemInv, HoldsInv

LEMMA ServeHolds ==
  ASSUME SystemInv, BridgeServes
  PROVE  CountInv' /\ HoldsInv' /\ ReleaseInv'
  <1>1. /\ holdUntil' = IF taken.has THEN clock + taken.hold ELSE holdUntil
        /\ served' = IF taken.has THEN taken.upTo ELSE served
        /\ taken' = [taken EXCEPT !.has = FALSE]
        /\ UNCHANGED <<clock, lifecycle, skipUntil, activations, requests, askedBy, received,
                       request>>
    BY DEF BridgeServes, Bridge!Serve, Bridge!ServeTaken, Bridge!HoldEnd, termVars,
           controllerVars, flagVars, originVars
  <1>2. /\ taken.has => taken.upTo \in 1 .. received
        /\ served <= received /\ received \in Nat
        /\ taken \in [has : BOOLEAN, hold : Nat, upTo : Nat]
    BY DEF SystemInv, CountInv, TypeInv
  <1>3. taken'.has = FALSE /\ served' <= received  BY <1>1, <1>2
  <1>4. CountInv'  BY <1>1, <1>3 DEF SystemInv, CountInv
  <1>5. served' # 0 /\ askedBy[served'] = activations => skipUntil <= holdUntil'
    <2>1. CASE taken.has  BY <1>1, <2>1 DEF SystemInv, HoldsInv
    <2>2. CASE ~taken.has  BY <1>1, <2>2 DEF SystemInv, HoldsInv
    <2> QED  BY <2>1, <2>2
  <1>6. HoldsInv'  BY <1>1, <1>3, <1>5 DEF SystemInv, HoldsInv
  <1>7. /\ clock \in Nat /\ holdUntil' \in Nat
        /\ holdUntil' = Bridge!HoldEnd
    <2>1. holdUntil' = Bridge!HoldEnd
      BY DEF BridgeServes, Bridge!Serve, Bridge!ServeTaken
    <2>2. taken.hold \in Nat /\ clock \in Nat /\ holdUntil \in Nat
      BY DEF SystemInv, TypeInv
    <2> QED  BY <1>1, <2>1, <2>2
  <1>8. qpos' # "reset" => ~(holdUntil' > 0 /\ clock <= holdUntil')
    BY <1>7 DEF BridgeServes, Bridge!Serve, Bridge!ServeTaken, Bridge!Held,
                Bridge!ApplyResetState
  <1>9. qpos' # "reset" => holdUntil' = 0 \/ holdUntil' < clock  BY <1>7, <1>8
  <1> QED  BY <1>1, <1>4, <1>6, <1>9 DEF ReleaseInv

LEMMA HoldsPreserved ==
  ASSUME SystemInv, [SystemNext]_systemVars
  PROVE  CountInv' /\ HoldsInv' /\ ReleaseInv'
  <1>1. CASE Control
    <2>1. /\ UNCHANGED <<clock, skipUntil, activations>>
          /\ lifecycle' = "active" => lifecycle = "active"
      <3>1. CASE Configure \/ ActivateFails \/ Deactivate \/ Cleanup
        BY <3>1 DEF Configure, ActivateFails, Deactivate, Cleanup, termVars, flagVars
      <3>2. CASE Update
        BY <3>2 DEF Update, UpdateHeld, UpdateStart, CheckInputs, UpdateThrows,
                    BaseUpdateFails, HoldTarget, PassGate, WriteTarget, RlControllerUpdate,
                    termVars, flagVars
      <3> QED  BY <1>1, <3>1, <3>2 DEF Control
    <2>2. UNCHANGED <<received, served, holdUntil, request, taken, requests, askedBy, loop, qpos>>
      BY <1>1 DEF Control, bridgeVars, topicVars
    <2>3. CountInv' /\ HoldsInv'  BY <2>1, <2>2, Undisturbed DEF SystemInv
    <2> QED  BY <2>1, <2>2, <2>3 DEF SystemInv, ReleaseInv
  <1>2. CASE ActivateAndRequest
    <2>1. UNCHANGED <<clock, loop, qpos, holdUntil>>
      BY <1>2 DEF ActivateAndRequest, Activate, bridgeVars
    <2> QED  BY <1>2, <2>1, ActivateHolds DEF SystemInv, ReleaseInv
  <1>3. CASE ReceiveRequest
    <2>1. UNCHANGED <<clock, loop, qpos, holdUntil>>
      BY <1>3 DEF ReceiveRequest, Bridge!HandleResetRequest, Bridge!loopVars,
                  Bridge!promiseVars, termVars
    <2> QED  BY <1>3, <2>1, ReceiveHolds DEF SystemInv, ReleaseInv
  <1>4. CASE BridgeTakes
    <2>1. loop' = "serve"  BY <1>4 DEF BridgeTakes, Bridge!TakeRequest
    <2> QED  BY <1>4, <2>1, TakeHolds DEF ReleaseInv
  <1>5. CASE BridgeServes  BY <1>5, ServeHolds
  <1>6. CASE Physics
    <2>1. clock' = clock + 1  BY <1>6, PhysicsSteps DEF ClockTick, Tick
    <2>2. /\ UNCHANGED <<skipUntil, activations, received, served, holdUntil, request, taken,
                         requests, askedBy, lifecycle>>
          /\ loop' = "take"
      BY <1>6 DEF Physics, Bridge!Step, Bridge!requestVars, controllerVars, flagVars,
                  topicVars, originVars
    <2>3. CountInv' /\ HoldsInv'  BY <2>1, <2>2, Undisturbed DEF SystemInv
    <2> QED  BY <2>2, <2>3 DEF ReleaseInv
  <1>7. CASE Deliver
    <2>1. UNCHANGED <<clock, skipUntil, activations, received, served, holdUntil, request, taken,
                      requests, askedBy, lifecycle, loop, qpos>>
      BY <1>7 DEF Deliver, SetInput, termVars, controllerVars, flagVars, bridgeVars
    <2>2. CountInv' /\ HoldsInv'  BY <2>1, Undisturbed DEF SystemInv
    <2> QED  BY <2>1, <2>2 DEF SystemInv, ReleaseInv
  <1>8. CASE UNCHANGED systemVars
    <2>1. UNCHANGED <<clock, skipUntil, activations, received, served, holdUntil, request, taken,
                      requests, askedBy, lifecycle, loop, qpos>>
      BY <1>8 DEF systemVars, vars, termVars, flagVars, bridgeVars, topicVars, originVars
    <2>2. CountInv' /\ HoldsInv'  BY <2>1, Undisturbed DEF SystemInv
    <2> QED  BY <2>1, <2>2 DEF SystemInv, ReleaseInv
  <1> QED
    BY <1>1, <1>2, <1>3, <1>4, <1>5, <1>6, <1>7, <1>8 DEF SystemNext

LEMMA SystemStarts == SystemInit => SystemInv
  <1> SUFFICES ASSUME SystemInit PROVE SystemInv  OBVIOUS
  <1>1. TypeInv
    <2>1. clock = 0 /\ skipUntil = 0 /\ activations = 0 /\ params \in Parameters
      BY ParametersAssumption DEF SystemInit, Init, TermInit
    <2>2. /\ received = 0 /\ served = 0 /\ holdUntil = 0
          /\ request = [pending |-> FALSE, hold |-> 0]
          /\ taken = [has |-> FALSE, hold |-> 0, upTo |-> 0]
      BY DEF SystemInit, Bridge!Init
    <2>3. requests = {} /\ askedBy = <<>>  BY DEF SystemInit
    <2> QED  BY <2>1, <2>2, <2>3 DEF TypeInv
  <1>2. CountInv /\ HoldsInv
    <2>1. lifecycle = "unconfigured"  BY DEF SystemInit, Init
    <2>2. /\ received = 0 /\ served = 0
          /\ request.pending = FALSE /\ taken.has = FALSE /\ requests = {}
      BY DEF SystemInit, Bridge!Init
    <2> QED  BY <2>1, <2>2 DEF CountInv, HoldsInv
  <1>3. ReleaseInv  BY DEF SystemInit, Bridge!Init, ReleaseInv
  <1> QED  BY <1>1, <1>2, <1>3 DEF SystemInv

LEMMA ReleaseAfterHold ==
  ASSUME SystemInv
  PROVE  ReleasedIntoControl
  <1> SUFFICES ASSUME loop = "step", qpos # "reset", lifecycle = "active",
                      ResetFor(served) = activations
               PROVE  ~(clock < skipUntil)
    BY DEF ReleasedIntoControl, InHold
  <1>1. served # 0 /\ askedBy[served] = activations
    BY DEF SystemInv, CountInv, ResetFor
  <1>2. skipUntil <= holdUntil  BY <1>1 DEF SystemInv, HoldsInv
  <1>3. holdUntil = 0 \/ holdUntil < clock  BY DEF SystemInv, ReleaseInv
  <1>4. clock \in Nat /\ skipUntil \in Nat /\ holdUntil \in Nat  BY DEF SystemInv, TypeInv
  <1> QED  BY <1>2, <1>3, <1>4

LEMMA SystemInvHolds == SystemSpec => []SystemInv
  <1>1. SystemInit => SystemInv  BY SystemStarts
  <1>2. SystemInv /\ [SystemNext]_systemVars => SystemInv'
    BY SystemTypePreserved, HoldsPreserved DEF SystemInv
  <1> QED  BY <1>1, <1>2, PTL DEF SystemSpec

\* For all hold times, delays, periods and timeouts: the simulator that has served the
\* request of this activation lets the robot go no earlier than the controller commands it.
THEOREM RobotReleasedIntoControl == SystemSpec => []ReleasedIntoControl
  <1>1. SystemInv => ReleasedIntoControl  BY ReleaseAfterHold
  <1> QED  BY <1>1, SystemInvHolds, PTL

-----------------------------------------------------------------------------
(* The ball messages *)

\* The bridge publishes at least every Gap ticks of its loop.
PaceInv ==
  /\ clock \in Nat /\ published.stamp \in Nat
  /\ loop \in {"take", "serve", "step"}
  /\ lastPublish \in {Bridge!LongAgo, published.stamp}
  /\ published.stamp <= clock
  /\ clock <= published.stamp + Gap
  /\ loop = "step" => clock < published.stamp + Gap

\* A message under way is not overdue; the next one of its topic was published
\* no more than Gap later, and is still under way.
WireTimes ==
  \A m \in wire :
    /\ m.stamp <= published.stamp
    /\ clock <= m.stamp + MessageDelay
    /\ m.stamp < published.stamp =>
         \E n \in wire : n.topic = m.topic /\ m.stamp < n.stamp /\ n.stamp <= m.stamp + Gap

Subscribed == lifecycle \in {"inactive", "active"}

\* What is in the cache is the last ball published, or a fresher one is under way.
InputsCovered ==
  Subscribed =>
    \A t \in Topics :
      inputs[t].has =>
        /\ t \in BallTopics
        /\ \/ inputs[t].stamp >= published.stamp
           \/ \E m \in wire : m.topic = t /\ m.stamp <= inputs[t].stamp + Gap

LEMMA GapFact == Gap \in Nat \ {0} /\ PublishPeriod \in Nat /\ MessageDelay \in Nat
  BY DelaysAssumption DEF Gap

\* The controller changes the cache only to empty it, when it subscribes.
LEMMA ControlInputs ==
  ASSUME Control \/ ActivateAndRequest
  PROVE  /\ inputs' = inputs \/ inputs' = NoInputs
         /\ Subscribed' => Subscribed \/ inputs' = NoInputs
  <1>1. CASE Configure
    BY <1>1 DEF Configure
  <1>2. CASE Activate
    BY <1>2 DEF Activate, Subscribed
  <1>3. CASE ActivateFails \/ Deactivate \/ Cleanup
    BY <1>3 DEF ActivateFails, Deactivate, Cleanup, termVars, Subscribed
  <1>4. CASE Update
    BY <1>4 DEF Update, UpdateHeld, UpdateStart, CheckInputs, UpdateThrows, BaseUpdateFails,
                HoldTarget, PassGate, WriteTarget, RlControllerUpdate, termVars, Subscribed
  <1> QED  BY <1>1, <1>2, <1>3, <1>4 DEF Control, ActivateAndRequest

\* Serve publishes when it is due, and is early enough.
LEMMA ServePublishes ==
  ASSUME PaceInv, BridgeServes
  PROVE  /\ clock' = clock /\ loop = "serve" /\ loop' = "step"
         /\ \/ /\ published'.stamp = clock /\ lastPublish' = clock
               /\ wire' = wire \cup
                    [topic : BallTopics, stamp : {clock},
                     of : {[simulation |-> simulation, reset |-> ResetFor(served')]}]
            \/ /\ published' = published /\ wire' = wire
               /\ lastPublish' \in {Bridge!LongAgo, published.stamp}
               /\ clock < published.stamp + Gap
               /\ ~taken.has /\ ~Bridge!Held
  <1>1. /\ clock' = clock /\ loop = "serve" /\ loop' = "step"
    BY DEF BridgeServes, Bridge!Serve, Bridge!ServeTaken, termVars
  <1>2. CASE Bridge!PublishDue
    BY <1>1, <1>2 DEF BridgeServes, Bridge!Serve, Bridge!ServeTaken, Bridge!Publish
  <1>3. CASE ~Bridge!PublishDue
    <2>1. /\ published' = published /\ wire' = wire
          /\ lastPublish' = Bridge!PublishedBefore
      BY <1>3 DEF BridgeServes, Bridge!Serve, Bridge!ServeTaken
    <2>2. PublishPeriod # 0 /\ ~(clock - Bridge!PublishedBefore >= PublishPeriod)
      BY <1>3 DEF Bridge!PublishDue
    <2>3. Bridge!PublishedBefore # Bridge!LongAgo
      BY <2>2, GapFact DEF Bridge!LongAgo, PaceInv
    <2>4. ~taken.has /\ ~Bridge!Held /\ Bridge!PublishedBefore = lastPublish
      BY <2>3 DEF Bridge!PublishedBefore
    <2>5. lastPublish = published.stamp  BY <2>3, <2>4 DEF PaceInv
    <2>6. clock < published.stamp + Gap
      BY <2>2, <2>4, <2>5, GapFact DEF PaceInv, Gap
    <2> QED  BY <1>1, <2>1, <2>4, <2>5, <2>6
  <1> QED  BY <1>2, <1>3

LEMMA PacePreserved ==
  ASSUME PaceInv, [SystemNext]_systemVars
  PROVE  PaceInv'
  <1>1. CASE Control \/ ActivateAndRequest
    BY <1>1, ControlSteps DEF PaceInv, bridgeVars, Bridge!LongAgo
  <1>2. CASE ReceiveRequest
    <2>1. UNCHANGED <<clock, loop, lastPublish, published>>
      BY <1>2 DEF ReceiveRequest, Bridge!HandleResetRequest, Bridge!loopVars,
                  Bridge!publishVars
    <2> QED  BY <2>1 DEF PaceInv, Bridge!LongAgo
  <1>3. CASE BridgeTakes
    <2>1. UNCHANGED <<clock, lastPublish, published>> /\ loop = "take" /\ loop' = "serve"
      BY <1>3 DEF BridgeTakes, Bridge!TakeRequest, Bridge!publishVars
    <2> QED  BY <2>1 DEF PaceInv, Bridge!LongAgo
  <1>4. CASE BridgeServes
    BY <1>4, ServePublishes, GapFact DEF PaceInv, Bridge!LongAgo
  <1>5. CASE Physics
    <2>1. /\ UNCHANGED <<lastPublish, published>>
          /\ clock' = clock + 1 /\ loop = "step" /\ loop' = "take"
      BY <1>5 DEF Physics, Bridge!Step, Bridge!publishVars
    <2> QED  BY <2>1, GapFact DEF PaceInv, Bridge!LongAgo
  <1>6. CASE Deliver
    <2>1. UNCHANGED <<clock, loop, lastPublish, published>>
      BY <1>6 DEF Deliver, SetInput, termVars, bridgeVars
    <2> QED  BY <2>1 DEF PaceInv, Bridge!LongAgo
  <1>7. CASE UNCHANGED systemVars
    BY <1>7 DEF PaceInv, Bridge!LongAgo, systemVars, bridgeVars, vars, termVars
  <1> QED  BY <1>1, <1>2, <1>3, <1>4, <1>5, <1>6, <1>7 DEF SystemNext

\* Steps that leave the wire, the clock and what was published alone.
LEMMA WireTimesPreserved ==
  ASSUME WireInv, PaceInv, WireTimes, [SystemNext]_systemVars
  PROVE  WireTimes'
  <1>0. \A m \in wire : m.topic \in BallTopics /\ m.stamp \in Nat
    BY TimeFact DEF WireInv
  <1>1. CASE UNCHANGED <<wire, clock, published>>
    BY <1>1 DEF WireTimes
  <1>2. CASE BridgeServes
    <2>1. CASE wire' = wire /\ published' = published
      BY <1>2, <2>1, ServePublishes DEF WireTimes
    <2>2. CASE /\ published'.stamp = clock
               /\ wire' = wire \cup
                    [topic : BallTopics, stamp : {clock},
                     of : {[simulation |-> simulation, reset |-> ResetFor(served')]}]
      <3> DEFINE sent == [topic : BallTopics, stamp : {clock},
                          of : {[simulation |-> simulation, reset |-> ResetFor(served')]}]
      <3>1. clock' = clock  BY <1>2, ServePublishes
      <3>2. ASSUME NEW m \in sent
            PROVE  m.stamp = clock
        OBVIOUS
      <3>3. \A t \in BallTopics : \E n \in sent : n.topic = t /\ n.stamp = clock
        <4> TAKE t \in BallTopics
        <4> DEFINE n == [topic |-> t, stamp |-> clock,
                         of |-> [simulation |-> simulation, reset |-> ResetFor(served')]]
        <4>1. n \in sent /\ n.topic = t /\ n.stamp = clock  OBVIOUS
        <4> QED  BY <4>1
      <3>4. ASSUME NEW m \in wire'
            PROVE  /\ m.stamp <= clock
                   /\ clock <= m.stamp + MessageDelay
                   /\ m.stamp < clock =>
                        \E n \in wire' :
                          n.topic = m.topic /\ m.stamp < n.stamp /\ n.stamp <= m.stamp + Gap
        <4>1. CASE m \in sent
          BY <3>2, <4>1, GapFact DEF PaceInv
        <4>2. CASE m \in wire
          <5>1. m.stamp <= published.stamp /\ clock <= m.stamp + MessageDelay
            BY <4>2 DEF WireTimes
          <5>2. m.stamp \in Nat /\ m.topic \in BallTopics  BY <1>0, <4>2
          <5>3. CASE m.stamp < published.stamp
            <6>1. PICK n \in wire :
                    n.topic = m.topic /\ m.stamp < n.stamp /\ n.stamp <= m.stamp + Gap
              BY <4>2, <5>3 DEF WireTimes
            <6>2. n \in wire'  BY <2>2
            <6> QED  BY <5>1, <5>2, <6>1, <6>2 DEF PaceInv
          <5>4. CASE m.stamp = published.stamp
            <6>1. PICK n \in sent : n.topic = m.topic /\ n.stamp = clock
              BY <3>3, <5>2
            <6>2. n \in wire'  BY <2>2
            <6>3. clock <= m.stamp + Gap  BY <5>4 DEF PaceInv
            <6> QED  BY <5>1, <5>2, <5>4, <6>1, <6>2, <6>3 DEF PaceInv
          <5> QED  BY <5>1, <5>2, <5>3, <5>4 DEF PaceInv
        <4> QED  BY <2>2, <4>1, <4>2
      <3> HIDE DEF sent
      <3> QED  BY <2>2, <3>1, <3>4 DEF WireTimes
    <2> QED  BY <1>2, <2>1, <2>2, ServePublishes
  <1>3. CASE Physics
    <2>1. /\ \A m \in wire : clock - m.stamp < MessageDelay
          /\ UNCHANGED <<wire, published>> /\ clock' = clock + 1
      BY <1>3 DEF Physics, topicVars, Bridge!Step, Bridge!publishVars
    <2>2. \A m \in wire : clock' <= m.stamp + MessageDelay
      BY <1>0, <2>1, GapFact DEF PaceInv
    <2> QED  BY <2>1, <2>2 DEF WireTimes
  <1>4. CASE Deliver
    <2>1. UNCHANGED <<clock, published>>  BY <1>4 DEF Deliver, SetInput, termVars, bridgeVars
    <2>2. PICK m \in wire :
            /\ \A n \in wire : n.topic = m.topic => n.stamp >= m.stamp
            /\ wire' = wire \ {m}
      BY <1>4 DEF Deliver
    <2>3. ASSUME NEW o \in wire', o.stamp < published.stamp
          PROVE  \E n \in wire' :
                   n.topic = o.topic /\ o.stamp < n.stamp /\ n.stamp <= o.stamp + Gap
      <3>1. o \in wire  BY <2>2
      <3>2. PICK n \in wire :
              n.topic = o.topic /\ o.stamp < n.stamp /\ n.stamp <= o.stamp + Gap
        BY <2>3, <3>1 DEF WireTimes
      <3>3. n # m
        <4>1. CASE o.topic = m.topic
          <5>1. o.stamp >= m.stamp  BY <2>2, <3>1, <4>1
          <5> QED  BY <1>0, <3>1, <3>2, <5>1
        <4> QED  BY <3>2, <4>1
      <3> QED  BY <2>2, <3>2, <3>3
    <2> QED  BY <2>1, <2>2, <2>3 DEF WireTimes
  <1>5. CASE Control \/ ActivateAndRequest
    BY <1>1, <1>5, ControlSteps DEF bridgeVars
  <1>6. CASE ReceiveRequest \/ BridgeTakes
    BY <1>1, <1>6 DEF ReceiveRequest, BridgeTakes, Bridge!HandleResetRequest,
                      Bridge!TakeRequest, Bridge!loopVars, Bridge!publishVars, topicVars
  <1>7. CASE UNCHANGED systemVars
    BY <1>1, <1>7 DEF systemVars, bridgeVars, vars, termVars, topicVars
  <1> QED  BY <1>2, <1>3, <1>4, <1>5, <1>6, <1>7 DEF SystemNext

\* A subscribed controller takes a message or drops it; the one delivered is the oldest.
LEMMA DeliverTakesOrDrops ==
  ASSUME WireInv, TermTypeOK, Deliver
  PROVE  \E m \in wire :
           /\ \A n \in wire : n.topic = m.topic => n.stamp >= m.stamp
           /\ wire' = wire \ {m}
           /\ m.topic \in Topics
           /\ m.stamp <= StampToSeconds(m.stamp) /\ StampToSeconds(m.stamp) \in Time
           /\ \A t \in Topics :
                t # m.topic => inputs'[t] = inputs[t] /\ inputOf'[t] = inputOf[t]
           /\ Subscribed =>
                \/ /\ inputs'[m.topic] = [has |-> TRUE, stamp |-> StampToSeconds(m.stamp)]
                   /\ inputOf' = [inputOf EXCEPT ![m.topic] = m.of]
                \/ /\ inputs' = inputs /\ inputOf' = inputOf
                   /\ inputs[m.topic].has
                   /\ StampToSeconds(m.stamp) < inputs[m.topic].stamp
           /\ UNCHANGED <<clock, controllerVars, bridgeVars, requests, askedBy, seedOf>>
  <1>1. PICK m \in wire :
          /\ \A n \in wire : n.topic = m.topic => n.stamp >= m.stamp
          /\ wire' = wire \ {m}
          /\ IF lifecycle \in {"inactive", "active"}
             THEN /\ SetInput(m.topic, StampToSeconds(m.stamp))
                  /\ inputOf' = IF Accepts(m.topic, StampToSeconds(m.stamp))
                                THEN [inputOf EXCEPT ![m.topic] = m.of]
                                ELSE inputOf
             ELSE UNCHANGED <<termVars, inputOf>>
          /\ UNCHANGED <<controllerVars, bridgeVars, requests, simulation, askedBy, seedOf>>
    BY DEF Deliver
  <1>2. m.topic \in Topics  BY DEF WireInv, Topics
  <1>3. m.stamp <= StampToSeconds(m.stamp) /\ StampToSeconds(m.stamp) \in Time
    BY TimeFact DEF WireInv, StampToSeconds, Time
  <1>4. UNCHANGED clock  BY <1>1 DEF SetInput, termVars
  <1>5. \A t \in Topics : t # m.topic => inputs'[t] = inputs[t] /\ inputOf'[t] = inputOf[t]
    BY <1>1 DEF SetInput, TermTypeOK, termVars, WireInv
  <1>6. ASSUME Subscribed
        PROVE  \/ /\ inputs'[m.topic] = [has |-> TRUE, stamp |-> StampToSeconds(m.stamp)]
                  /\ inputOf' = [inputOf EXCEPT ![m.topic] = m.of]
               \/ /\ inputs' = inputs /\ inputOf' = inputOf
                  /\ inputs[m.topic].has
                  /\ StampToSeconds(m.stamp) < inputs[m.topic].stamp
    <2>1. CASE Accepts(m.topic, StampToSeconds(m.stamp))
      BY <1>1, <1>2, <1>6, <2>1 DEF Subscribed, SetInput, TermTypeOK
    <2>2. CASE ~Accepts(m.topic, StampToSeconds(m.stamp))
      BY <1>1, <1>6, <2>2 DEF Subscribed, SetInput, Accepts
    <2> QED  BY <2>1, <2>2
  <1> QED  BY <1>1, <1>2, <1>3, <1>4, <1>5, <1>6

\* So a message that is delivered leaves the cache at its stamp or above.
LEMMA DeliverStores ==
  ASSUME WireInv, TermTypeOK, Deliver
  PROVE  \E m \in wire :
           /\ \A n \in wire : n.topic = m.topic => n.stamp >= m.stamp
           /\ wire' = wire \ {m}
           /\ m.topic \in Topics
           /\ Subscribed => /\ inputs'[m.topic].has
                            /\ inputs'[m.topic].stamp >= m.stamp
                            /\ inputs'[m.topic].stamp \in Time
           /\ \A t \in Topics : t # m.topic => inputs'[t] = inputs[t]
           /\ UNCHANGED <<clock, published, lifecycle>>
  <1>1. PICK m \in wire :
          /\ \A n \in wire : n.topic = m.topic => n.stamp >= m.stamp
          /\ wire' = wire \ {m}
          /\ m.topic \in Topics
          /\ m.stamp <= StampToSeconds(m.stamp) /\ StampToSeconds(m.stamp) \in Time
          /\ \A t \in Topics : t # m.topic => inputs'[t] = inputs[t]
          /\ Subscribed =>
               \/ inputs'[m.topic] = [has |-> TRUE, stamp |-> StampToSeconds(m.stamp)]
               \/ /\ inputs' = inputs
                  /\ inputs[m.topic].has
                  /\ StampToSeconds(m.stamp) < inputs[m.topic].stamp
          /\ UNCHANGED <<clock, controllerVars, bridgeVars>>
    BY DeliverTakesOrDrops
  <1>2. m.stamp \in Nat /\ inputs[m.topic].stamp \in Time
    BY <1>1, TimeFact DEF WireInv, TermTypeOK, Input
  <1>3. Subscribed => /\ inputs'[m.topic].has
                      /\ inputs'[m.topic].stamp >= m.stamp
                      /\ inputs'[m.topic].stamp \in Time
    <2>1. CASE inputs'[m.topic] = [has |-> TRUE, stamp |-> StampToSeconds(m.stamp)]
      <3>1. inputs'[m.topic].has /\ inputs'[m.topic].stamp = StampToSeconds(m.stamp)
        BY <2>1
      <3> QED  BY <1>1, <3>1
    <2>2. CASE inputs' = inputs /\ inputs[m.topic].has
               /\ StampToSeconds(m.stamp) < inputs[m.topic].stamp
      <3>1. StampToSeconds(m.stamp) \in Nat /\ inputs[m.topic].stamp \in Nat
        BY <1>1, <1>2, TimeFact
      <3>2. m.stamp <= inputs[m.topic].stamp  BY <1>1, <1>2, <2>2, <3>1
      <3> QED  BY <1>2, <2>2, <3>2
    <2> QED  BY <1>1, <2>1, <2>2
  <1> QED  BY <1>1, <1>3 DEF controllerVars, bridgeVars

\* Steps that touch neither the cache nor the messages.
LEMMA SameCacheCovered ==
  ASSUME InputsCovered, UNCHANGED <<inputs, wire, published, lifecycle>>
  PROVE  InputsCovered'
  BY DEF InputsCovered, Subscribed

LEMMA InputsPreserved ==
  ASSUME WireInv, TermTypeOK, PaceInv, WireTimes, InputsCovered, [SystemNext]_systemVars
  PROVE  InputsCovered'
  <1>0. /\ \A m \in wire : m.topic \in BallTopics /\ m.stamp \in Nat
        /\ \A t \in Topics : inputs[t].stamp \in Nat
    BY TimeFact DEF WireInv, TermTypeOK, Input
  <1>1. CASE Control \/ ActivateAndRequest
    <2>1. UNCHANGED <<wire, published>>  BY <1>1, ControlSteps DEF bridgeVars
    <2>2. CASE inputs' = NoInputs
      BY <2>2 DEF InputsCovered, NoInputs
    <2>3. CASE inputs' # NoInputs
      BY <1>1, <2>1, <2>3, ControlInputs DEF InputsCovered
    <2> QED  BY <2>2, <2>3
  <1>2. CASE ReceiveRequest \/ BridgeTakes
    <2>1. UNCHANGED <<inputs, wire, published, lifecycle>>
      BY <1>2 DEF ReceiveRequest, BridgeTakes, Bridge!HandleResetRequest, Bridge!TakeRequest,
                  Bridge!publishVars, topicVars, termVars, controllerVars
    <2> QED  BY <2>1, SameCacheCovered
  <1>3. CASE BridgeServes
    <2>1. UNCHANGED <<inputs, lifecycle>>
      BY <1>3 DEF BridgeServes, termVars, controllerVars
    <2>2. CASE wire' = wire /\ published' = published
      BY <2>1, <2>2, SameCacheCovered
    <2>3. CASE /\ published'.stamp = clock
               /\ wire' = wire \cup
                    [topic : BallTopics, stamp : {clock},
                     of : {[simulation |-> simulation, reset |-> ResetFor(served')]}]
      <3>1. ASSUME NEW t \in BallTopics
            PROVE  \E n \in wire' : n.topic = t /\ n.stamp = clock
        <4> DEFINE n == [topic |-> t, stamp |-> clock,
                         of |-> [simulation |-> simulation, reset |-> ResetFor(served')]]
        <4>1. n \in wire' /\ n.topic = t /\ n.stamp = clock  BY <2>3
        <4> QED  BY <4>1
      <3>2. ASSUME Subscribed, NEW t \in Topics, inputs[t].has
            PROVE  t \in BallTopics /\ \E m \in wire' : m.topic = t /\ m.stamp <= inputs[t].stamp + Gap
        <4>1. /\ t \in BallTopics
              /\ \/ inputs[t].stamp >= published.stamp
                 \/ \E m \in wire : m.topic = t /\ m.stamp <= inputs[t].stamp + Gap
          BY <3>2 DEF InputsCovered
        <4>2. CASE inputs[t].stamp >= published.stamp
          <5>1. PICK n \in wire' : n.topic = t /\ n.stamp = clock  BY <3>1, <4>1
          <5>2. clock <= inputs[t].stamp + Gap  BY <1>0, <4>2, GapFact DEF PaceInv
          <5> QED  BY <4>1, <5>1, <5>2
        <4>3. CASE \E m \in wire : m.topic = t /\ m.stamp <= inputs[t].stamp + Gap
          BY <2>3, <4>1, <4>3
        <4> QED  BY <4>1, <4>2, <4>3
      <3> QED  BY <2>1, <3>2 DEF InputsCovered, Subscribed
    <2> QED  BY <1>3, <2>2, <2>3, ServePublishes
  <1>4. CASE Physics
    BY <1>4, SameCacheCovered
       DEF Physics, Bridge!Step, Bridge!publishVars, topicVars, controllerVars
  <1>5. CASE Deliver
    <2>1. PICK m \in wire :
            /\ \A n \in wire : n.topic = m.topic => n.stamp >= m.stamp
            /\ wire' = wire \ {m}
            /\ m.topic \in Topics
            /\ Subscribed => /\ inputs'[m.topic].has
                             /\ inputs'[m.topic].stamp >= m.stamp
                             /\ inputs'[m.topic].stamp \in Time
            /\ \A t \in Topics : t # m.topic => inputs'[t] = inputs[t]
            /\ UNCHANGED <<clock, published, lifecycle>>
      BY <1>5, DeliverStores
    <2>2. ASSUME Subscribed, NEW t \in Topics, t # m.topic, inputs[t].has
          PROVE  /\ t \in BallTopics
                 /\ \/ inputs[t].stamp >= published.stamp
                    \/ \E n \in wire' : n.topic = t /\ n.stamp <= inputs[t].stamp + Gap
      BY <2>1, <2>2 DEF InputsCovered
    <2>3. ASSUME Subscribed
          PROVE  \/ inputs'[m.topic].stamp >= published.stamp
                 \/ \E n \in wire' : n.topic = m.topic /\ n.stamp <= inputs'[m.topic].stamp + Gap
      <3>1. inputs'[m.topic].stamp \in Nat /\ inputs'[m.topic].stamp >= m.stamp
        BY <2>1, <2>3, TimeFact
      <3>2. m.stamp <= published.stamp  BY DEF WireTimes
      <3>3. CASE m.stamp = published.stamp  BY <3>1, <3>3
      <3>4. CASE m.stamp < published.stamp
        <4>1. PICK n \in wire :
                n.topic = m.topic /\ m.stamp < n.stamp /\ n.stamp <= m.stamp + Gap
          BY <3>4 DEF WireTimes
        <4>2. n \in wire'  BY <1>0, <2>1, <4>1
        <4>3. n.stamp <= inputs'[m.topic].stamp + Gap  BY <1>0, <3>1, <4>1, GapFact
        <4> QED  BY <4>1, <4>2, <4>3
      <3> QED  BY <1>0, <3>2, <3>3, <3>4 DEF PaceInv
    <2>4. m.topic \in BallTopics  BY <1>0
    <2> QED  BY <2>1, <2>2, <2>3, <2>4 DEF InputsCovered, Subscribed
  <1>6. CASE UNCHANGED systemVars
    BY <1>6, SameCacheCovered DEF systemVars, bridgeVars, vars, termVars, topicVars
  <1> QED  BY <1>1, <1>2, <1>3, <1>4, <1>5, <1>6 DEF SystemNext

BallsInv == WireInv /\ PaceInv /\ WireTimes /\ InputsCovered

LEMMA BallsStart == SystemInit => BallsInv
  <1> SUFFICES ASSUME SystemInit PROVE BallsInv  OBVIOUS
  <1>1. /\ clock = 0 /\ wire = {} /\ lifecycle = "unconfigured"
        /\ published.stamp = 0 /\ loop = "take" /\ lastPublish = Bridge!LongAgo
        /\ DOMAIN inputOf = Topics
    BY DEF SystemInit, Init, TermInit, Bridge!Init
  <1> QED
    BY <1>1, TimeFact, GapFact
       DEF BallsInv, WireInv, PaceInv, WireTimes, InputsCovered, Subscribed

LEMMA BallsInvHolds == SystemSpec => [](BallsInv /\ TypeOK)
  <1>1. SystemSpec => []TypeOK  BY ComponentsKept, TypeCorrect, PTL
  <1>2. SystemInit => BallsInv  BY BallsStart
  <1>3. BallsInv /\ TypeOK /\ [SystemNext]_systemVars => BallsInv'
    BY WirePreserved, PacePreserved, WireTimesPreserved, InputsPreserved DEF BallsInv, TypeOK
  <1> QED  BY <1>1, <1>2, <1>3, PTL DEF SystemSpec

\* A ball that the cache of a subscribed controller has is fresh.
LEMMA CachedBallFresh ==
  ASSUME TimeoutCoversDelay, BallsInv, TypeOK, Subscribed,
         NEW t \in Topics, inputs[t].has
  PROVE  HasFresh(t, clock)
  <1>1. t \in BallTopics /\ Timeout(t) = BallTimeout
    BY DEF BallsInv, InputsCovered, Timeout
  <1>2. /\ inputs[t].stamp \in Nat /\ clock \in Nat /\ published.stamp \in Nat
        /\ \A m \in wire : m.stamp \in Nat
        /\ BallTimeout \in Nat
    BY TimeFact, TimeoutsAssumption
       DEF BallsInv, PaceInv, WireInv, TypeOK, TermTypeOK, Input
  <1>3. clock - inputs[t].stamp <= BallTimeout
    <2>1. CASE inputs[t].stamp >= published.stamp
      BY <1>2, <2>1, GapFact DEF BallsInv, PaceInv, TimeoutCoversDelay
    <2>2. CASE \E m \in wire : m.topic = t /\ m.stamp <= inputs[t].stamp + Gap
      <3>1. PICK m \in wire : m.stamp <= inputs[t].stamp + Gap  BY <2>2
      <3>2. clock <= m.stamp + MessageDelay  BY DEF BallsInv, WireTimes
      <3> QED  BY <1>2, <3>1, <3>2, GapFact DEF TimeoutCoversDelay
    <2> QED  BY <2>1, <2>2 DEF BallsInv, InputsCovered
  <1> QED  BY <1>1, <1>3 DEF HasFresh, IsFresh

\* For all publish periods, delays and timeouts: in a simulation that is not restarted,
\* the gate of an active controller that has heard of the ball once stays open, if the
\* timeout covers a publish period and the delay of a message.
THEOREM GateKeptOpen == TimeoutCoversDelay => (SystemSpec => []GateStaysOpen)
  <1> SUFFICES ASSUME TimeoutCoversDelay PROVE SystemSpec => []GateStaysOpen  OBVIOUS
  <1>1. BallsInv /\ TypeOK => GateStaysOpen
    BY CachedBallFresh DEF GateStaysOpen, FreshInputs, Subscribed
  <1> QED  BY <1>1, BallsInvHolds, PTL

-----------------------------------------------------------------------------
(* The end of the hold in the simulator *)

\* A request is under way for no longer than its delay.
RequestTimes ==
  \A r \in requests : r.sent <= clock /\ clock <= r.sent + RequestDelay

\* Wherever a request is, the hold it ends up in exceeds the one of the controller by
\* no more than its delay and the turn of the loop that takes it.
LateBy(hold) ==
  /\ skipUntil <= clock + hold
  /\ \A r \in requests : r.hold = hold /\ r.sent + hold <= skipUntil
  /\ request.pending =>
       /\ request.hold = hold
       /\ clock + hold <= skipUntil + RequestDelay + (IF loop = "take" THEN 1 ELSE 0)
  /\ taken.has =>
       /\ loop = "serve"
       /\ taken.hold = hold
       /\ clock + hold <= skipUntil + RequestDelay + 1
  /\ holdUntil <= skipUntil + RequestDelay + 1

HoldIs(hold) == \A p \in ParameterSets : p.mujocoReset => p.hold = hold

LEMMA DelayFact == RequestDelay \in Nat  BY DelaysAssumption

\* The parameters are of the set that the node may be given.
ParametersGiven == params \in ParameterSets

LEMMA ParametersStay ==
  ASSUME ParametersGiven, [SystemNext]_systemVars
  PROVE  ParametersGiven'
  <1>1. CASE Control \/ ActivateAndRequest
    <2>1. CASE Configure  BY <2>1 DEF Configure, ParametersGiven
    <2>2. CASE Activate \/ ActivateFails \/ Deactivate \/ Cleanup
      BY <2>2 DEF Activate, ActivateFails, Deactivate, Cleanup, ParametersGiven
    <2>3. CASE Update
      BY <2>3 DEF Update, UpdateHeld, UpdateStart, CheckInputs, UpdateThrows, BaseUpdateFails,
                  HoldTarget, PassGate, WriteTarget, RlControllerUpdate, ParametersGiven
    <2> QED  BY <1>1, <2>1, <2>2, <2>3 DEF Control, ActivateAndRequest
  <1>2. CASE ~(Control \/ ActivateAndRequest)
    <2>1. params' = params
      BY <1>2 DEF SystemNext, ReceiveRequest, BridgeTakes, BridgeServes, Physics, Deliver,
                  controllerVars, systemVars, vars
    <2> QED  BY <2>1 DEF ParametersGiven
  <1> QED  BY <1>1, <1>2

LEMMA RequestTimesKept ==
  ASSUME SystemInv, RequestTimes, [SystemNext]_systemVars
  PROVE  RequestTimes'
  <1>0. clock \in Nat /\ \A r \in requests : r.sent \in Nat
    BY DEF SystemInv, TypeInv
  <1>1. CASE UNCHANGED <<clock, requests>>
    BY <1>1 DEF RequestTimes
  <1>2. CASE Control
    BY <1>1, <1>2, ControlSteps DEF Control, topicVars
  <1>3. CASE ActivateAndRequest
    <2>1. clock' = clock  BY <1>3, ControlSteps
    <2>2. \A r \in requests' : r \in requests \/ r.sent = clock
      BY <1>3 DEF ActivateAndRequest
    <2> QED  BY <1>0, <2>1, <2>2, DelayFact DEF RequestTimes
  <1>4. CASE ReceiveRequest
    BY <1>4 DEF ReceiveRequest, RequestTimes
  <1>5. CASE BridgeTakes \/ BridgeServes
    BY <1>1, <1>5 DEF BridgeTakes, BridgeServes, termVars, topicVars
  <1>6. CASE Physics
    <2>1. /\ clock' = clock + 1 /\ requests' = requests
          /\ \A r \in requests : clock - r.sent < RequestDelay
      BY <1>6 DEF Physics, Bridge!Step, topicVars
    <2> QED  BY <1>0, <2>1, DelayFact DEF RequestTimes
  <1>7. CASE Deliver
    BY <1>1, <1>7 DEF Deliver, SetInput, termVars
  <1>8. CASE UNCHANGED systemVars
    BY <1>1, <1>8 DEF systemVars, vars, termVars, topicVars
  <1> QED  BY <1>2, <1>3, <1>4, <1>5, <1>6, <1>7, <1>8 DEF SystemNext

LEMMA LatenessPreserved ==
  ASSUME NEW hold \in Nat, HoldIs(hold), SystemInv, ParametersGiven, RequestTimes,
         LateBy(hold), [SystemNext]_systemVars
  PROVE  LateBy(hold)'
  <1>0. /\ clock \in Nat /\ skipUntil \in Nat /\ holdUntil \in Nat
        /\ \A r \in requests : r.sent \in Nat /\ r.hold \in Nat
        /\ request \in [pending : BOOLEAN, hold : Nat]
        /\ taken \in [has : BOOLEAN, hold : Nat, upTo : Nat]
    BY DEF SystemInv, TypeInv
  <1>1. ASSUME UNCHANGED <<clock, skipUntil, requests, request, taken, loop, holdUntil>>
        PROVE  LateBy(hold)'
    BY <1>1 DEF LateBy
  <1>2. CASE Control
    <2>1. UNCHANGED <<clock, skipUntil>>
      <3>1. CASE Configure \/ ActivateFails \/ Deactivate \/ Cleanup
        BY <3>1 DEF Configure, ActivateFails, Deactivate, Cleanup, termVars, flagVars
      <3>2. CASE Update
        BY <3>2 DEF Update, UpdateHeld, UpdateStart, CheckInputs, UpdateThrows,
                    BaseUpdateFails, HoldTarget, PassGate, WriteTarget, RlControllerUpdate,
                    termVars, flagVars
      <3> QED  BY <1>2, <3>1, <3>2 DEF Control
    <2> QED  BY <1>1, <1>2, <2>1 DEF Control, bridgeVars, topicVars
  <1>3. CASE ActivateAndRequest
    <2>1. UNCHANGED <<clock, request, taken, loop, holdUntil>>
      BY <1>3 DEF ActivateAndRequest, Activate, bridgeVars
    <2>2. CASE params.mujocoReset
      <3>1. params.hold = hold  BY <2>2 DEF HoldIs, ParametersGiven
      <3>2. /\ skipUntil' = clock + hold
            /\ requests' = {[hold |-> hold, sent |-> clock, by |-> activations']}
        BY <1>3, <2>2, <3>1 DEF ActivateAndRequest, Activate, ActivateHold
      <3>3. skipUntil <= skipUntil'  BY <3>2 DEF LateBy
      <3> QED  BY <1>0, <2>1, <3>2, <3>3, DelayFact DEF LateBy
    <2>3. CASE ~params.mujocoReset
      BY <1>1, <1>3, <2>1, <2>3 DEF ActivateAndRequest, Activate, ActivateHold
    <2> QED  BY <2>2, <2>3
  <1>4. CASE ReceiveRequest
    <2>1. PICK r \in requests :
            /\ request'.hold = r.hold
            /\ requests' = {}
            /\ UNCHANGED <<clock, skipUntil, taken, loop, holdUntil>>
      BY <1>4 DEF ReceiveRequest, Bridge!HandleResetRequest, Bridge!loopVars,
                  Bridge!promiseVars, termVars, controllerVars, flagVars
    <2>2. r.hold = hold /\ clock + hold <= skipUntil + RequestDelay
      BY <1>0, DelayFact DEF LateBy, RequestTimes
    <2> QED  BY <1>0, <2>1, <2>2, DelayFact DEF LateBy
  <1>5. CASE BridgeTakes
    <2>1. /\ taken' = [has |-> request.pending, hold |-> request.hold, upTo |-> received]
          /\ request' = [request EXCEPT !.pending = FALSE]
          /\ loop = "take" /\ loop' = "serve"
          /\ UNCHANGED <<clock, skipUntil, requests, holdUntil>>
      BY <1>5 DEF BridgeTakes, Bridge!TakeRequest, Bridge!promiseVars, termVars,
                  controllerVars, flagVars, topicVars
    <2>2. /\ taken'.has = request.pending /\ taken'.hold = request.hold
          /\ request'.pending = FALSE
      BY <1>0, <2>1
    <2> QED  BY <2>1, <2>2 DEF LateBy
  <1>6. CASE BridgeServes
    <2>1. /\ holdUntil' = IF taken.has THEN clock + taken.hold ELSE holdUntil
          /\ taken' = [taken EXCEPT !.has = FALSE]
          /\ loop = "serve" /\ loop' = "step"
          /\ UNCHANGED <<clock, skipUntil, requests, request>>
      BY <1>6 DEF BridgeServes, Bridge!Serve, Bridge!ServeTaken, Bridge!HoldEnd, termVars,
                  controllerVars, flagVars
    <2>2. taken'.has = FALSE  BY <1>0, <2>1
    <2> QED  BY <2>1, <2>2 DEF LateBy
  <1>7. CASE Physics
    <2>1. /\ clock' = clock + 1 /\ loop = "step" /\ loop' = "take"
          /\ UNCHANGED <<skipUntil, requests, request, taken, holdUntil>>
      BY <1>7 DEF Physics, Bridge!Step, Bridge!requestVars, controllerVars, flagVars,
                  topicVars
    <2> QED  BY <1>0, <2>1, DelayFact DEF LateBy
  <1>8. CASE Deliver
    BY <1>1, <1>8 DEF Deliver, SetInput, termVars, controllerVars, flagVars, bridgeVars
  <1>9. CASE UNCHANGED systemVars
    BY <1>1, <1>9 DEF systemVars, vars, termVars, flagVars, bridgeVars, topicVars
  <1> QED
    BY <1>2, <1>3, <1>4, <1>5, <1>6, <1>7, <1>8, <1>9 DEF SystemNext

\* For all delays, and all parameters that agree on the hold: the policy does not act on
\* a robot that the simulator holds for longer than the request may take, and one turn.
THEOREM PolicyNotHeldLong == OneHold => (SystemSpec => []HeldPolicy)
  <1> SUFFICES ASSUME OneHold PROVE SystemSpec => []HeldPolicy  OBVIOUS
  <1>1. PICK hold \in Nat : HoldIs(hold)
    <2>1. CASE \E p \in ParameterSets : p.mujocoReset
      <3>1. PICK p \in ParameterSets : p.mujocoReset  BY <2>1
      <3>2. p.hold \in Nat  BY ParametersAssumption DEF Parameters
      <3>3. HoldIs(p.hold)  BY <3>1 DEF OneHold, HoldIs
      <3> QED  BY <3>2, <3>3
    <2>2. CASE ~\E p \in ParameterSets : p.mujocoReset
      BY <2>2 DEF HoldIs
    <2> QED  BY <2>1, <2>2
  <1> DEFINE Inv == ParametersGiven /\ RequestTimes /\ LateBy(hold)
  <1>2. SystemInit => Inv
    <2> SUFFICES ASSUME SystemInit PROVE Inv  OBVIOUS
    <2>1. /\ clock = 0 /\ skipUntil = 0 /\ requests = {} /\ holdUntil = 0
          /\ request.pending = FALSE /\ taken.has = FALSE
      BY DEF SystemInit, Init, TermInit, Bridge!Init
    <2>2. ParametersGiven  BY DEF SystemInit, Init, ParametersGiven
    <2> QED  BY <2>1, <2>2, DelayFact DEF RequestTimes, LateBy
  <1>3. SystemInv /\ Inv /\ [SystemNext]_systemVars => Inv'
    BY <1>1, ParametersStay, RequestTimesKept, LatenessPreserved
  <1>4. SystemInv /\ Inv /\ UpdateInv /\ NoCommandDuringHold /\ TypeOK => HeldPolicy
    <2> SUFFICES ASSUME SystemInv, Inv, UpdateInv, NoCommandDuringHold, TypeOK,
                        params.mujocoReset, written = "policy"
                 PROVE  holdUntil <= clock + RequestDelay + 1
      BY DEF HeldPolicy
    <2>1. skipUntil <= now /\ now <= clock  BY DEF NoCommandDuringHold, UpdateInv
    <2>2. holdUntil <= skipUntil + RequestDelay + 1  BY DEF LateBy
    <2>3. /\ clock \in Nat /\ skipUntil \in Nat /\ holdUntil \in Nat /\ now \in Nat
      BY TimeFact DEF SystemInv, TypeInv, TypeOK, TermTypeOK
    <2> QED  BY <2>1, <2>2, <2>3, DelayFact
  <1>5. SystemSpec => [](UpdateInv /\ NoCommandDuringHold /\ TypeOK)
    BY ComponentsKept, TypeCorrect, UpdateInvHolds, HoldRespected, PTL
  <1> QED  BY <1>2, <1>3, <1>4, <1>5, SystemInvHolds, PTL DEF SystemSpec

-----------------------------------------------------------------------------
(* The ball of the reset reaches the controller during its hold *)

\* Between two turns of the loop nothing has been published at the new time.
OlderThanTurn == loop # "step" => \A m \in wire : m.stamp < clock

\* stampToSeconds replaces a stamp of zero by the time of arrival, so that the cache
\* may be ahead of messages under way; never by more than the delay of a message.
StoredInv ==
  Subscribed /\ inputs["ballPose"].has =>
    /\ inputs["ballPose"].stamp <= clock
    /\ \/ inputs["ballPose"].stamp <= MessageDelay
       \/ \A m \in wire : m.topic = "ballPose" => inputs["ballPose"].stamp <= m.stamp

\* Where the request of this activation is, and since when.
Requested ==
  \E r \in requests :
    requests = {r} /\ r.by = activations /\ r.sent + params.hold = skipUntil

Queued ==
  /\ requests = {} /\ request.pending
  /\ received # 0 /\ askedBy[received] = activations
  /\ clock + params.hold <= skipUntil + RequestDelay + (IF loop = "take" THEN 1 ELSE 0)

Taken ==
  /\ requests = {} /\ ~request.pending
  /\ loop = "serve" /\ taken.has /\ taken.upTo = received
  /\ received # 0 /\ askedBy[received] = activations
  /\ clock + params.hold <= skipUntil + RequestDelay + 1

Served ==
  /\ requests = {} /\ ~request.pending /\ ~taken.has
  /\ served # 0 /\ askedBy[served] = activations

\* The first message of the reset state that the cache may take is the one of time s;
\* from then on the bridge, which holds the state, publishes in every turn.
AnsweredFrom(s) ==
  /\ s + params.hold <= skipUntil + RequestDelay + 1 \/ s <= MessageDelay
  /\ s = published.stamp + 1 \/ \E m \in wire : m.topic = "ballPose" /\ m.stamp = s
  /\ \A m \in wire : m.topic = "ballPose" /\ m.stamp >= s =>
       /\ m.of.reset = activations
       /\ m.stamp < published.stamp =>
            \E n \in wire : n.topic = "ballPose" /\ n.stamp = m.stamp + 1

Answered ==
  /\ Served
  /\ clock = published.stamp + (IF loop = "step" THEN 0 ELSE 1)
  /\ \E s \in Nat : AnsweredFrom(s)

Reached ==
  /\ Served
  /\ inputs["ballPose"].has /\ inputOf["ballPose"].reset = activations
  /\ \A m \in wire : m.topic = "ballPose" => m.of.reset = activations

ResetHeld == lifecycle = "active" /\ params.mujocoReset

AnswerInv ==
  ResetHeld /\ pendingStartup =>
    /\ params.hold <= skipUntil /\ skipUntil <= clock + params.hold
    /\ Requested \/ Queued \/ Taken \/ Answered \/ Reached

SeedInv ==
  ResetHeld /\ ~pendingStartup =>
    /\ Reached
    /\ params.resetRoute => route.seed = "measured" /\ seedOf.reset = activations

LEMMA StampsFact ==
  ASSUME WireInv, PaceInv, WireTimes
  PROVE  \A m \in wire : m.stamp \in Nat /\ m.stamp <= clock
  <1> TAKE m \in wire
  <1>1. m.stamp \in Nat  BY TimeFact DEF WireInv
  <1>2. m.stamp <= published.stamp  BY DEF WireTimes
  <1>3. clock \in Nat /\ published.stamp \in Nat /\ published.stamp <= clock
    BY DEF PaceInv
  <1> QED  BY <1>1, <1>2, <1>3

LEMMA OlderKept ==
  ASSUME WireInv, PaceInv, WireTimes, OlderThanTurn, [SystemNext]_systemVars
  PROVE  OlderThanTurn'
  <1>1. CASE UNCHANGED <<loop, clock>> /\ wire' \subseteq wire
    BY <1>1 DEF OlderThanTurn
  <1>2. CASE Control \/ ActivateAndRequest
    BY <1>1, <1>2, ControlSteps DEF bridgeVars
  <1>3. CASE ReceiveRequest
    BY <1>1, <1>3 DEF ReceiveRequest, Bridge!HandleResetRequest, Bridge!loopVars, termVars
  <1>4. CASE BridgeTakes
    BY <1>4 DEF BridgeTakes, Bridge!TakeRequest, topicVars, OlderThanTurn
  <1>5. CASE BridgeServes
    BY <1>5, ServePublishes DEF OlderThanTurn
  <1>6. CASE Physics
    <2>1. clock' = clock + 1 /\ wire' = wire
      BY <1>6 DEF Physics, Bridge!Step, topicVars
    <2>2. \A m \in wire : m.stamp \in Nat /\ m.stamp <= clock
      BY StampsFact
    <2> QED  BY <2>1, <2>2 DEF OlderThanTurn, PaceInv
  <1>7. CASE Deliver
    BY <1>1, <1>7 DEF Deliver, SetInput, termVars, bridgeVars
  <1>8. CASE UNCHANGED systemVars
    BY <1>1, <1>8 DEF systemVars, vars, termVars, bridgeVars, topicVars
  <1> QED  BY <1>2, <1>3, <1>4, <1>5, <1>6, <1>7, <1>8 DEF SystemNext

LEMMA StoredKept ==
  ASSUME WireInv, TermTypeOK, PaceInv, WireTimes, StoredInv, [SystemNext]_systemVars
  PROVE  StoredInv'
  <1>0. /\ \A m \in wire : m.stamp \in Nat /\ m.stamp <= clock
        /\ \A t \in Topics : inputs[t].stamp \in Nat
        /\ "ballPose" \in Topics
    BY StampsFact, TimeFact, TopicsFact DEF TermTypeOK, Input
  <1>1. ASSUME UNCHANGED <<clock, inputs>>, Subscribed' => Subscribed, wire' \subseteq wire
        PROVE  StoredInv'
    BY <1>1 DEF StoredInv
  <1>2. CASE Control \/ ActivateAndRequest
    <2>1. UNCHANGED <<clock, wire>>  BY <1>2, ControlSteps
    <2>2. CASE inputs' = NoInputs
      BY <1>0, <2>2 DEF StoredInv, NoInputs
    <2>3. CASE inputs' # NoInputs
      BY <1>1, <1>2, <2>1, <2>3, ControlInputs
    <2> QED  BY <2>2, <2>3
  <1>3. CASE ReceiveRequest \/ BridgeTakes
    BY <1>1, <1>3 DEF ReceiveRequest, BridgeTakes, termVars, controllerVars, topicVars,
                      Subscribed
  <1>4. CASE BridgeServes
    <2>1. UNCHANGED <<clock, inputs, lifecycle>>
      BY <1>4 DEF BridgeServes, termVars, controllerVars
    <2>2. \A m \in wire' : m \in wire \/ m.stamp = clock
      BY <1>4, ServePublishes
    <2> QED  BY <2>1, <2>2 DEF StoredInv, Subscribed
  <1>5. CASE Physics
    <2>1. clock' = clock + 1 /\ UNCHANGED <<wire, inputs, lifecycle>>
      BY <1>5 DEF Physics, Bridge!Step, topicVars, controllerVars
    <2> QED  BY <1>0, <2>1 DEF StoredInv, Subscribed, PaceInv
  <1>6. CASE Deliver
    <2>1. PICK m \in wire :
            /\ \A n \in wire : n.topic = m.topic => n.stamp >= m.stamp
            /\ wire' = wire \ {m}
            /\ \A t \in Topics : t # m.topic => inputs'[t] = inputs[t]
            /\ Subscribed =>
                 \/ inputs'[m.topic] = [has |-> TRUE, stamp |-> StampToSeconds(m.stamp)]
                 \/ inputs' = inputs
            /\ UNCHANGED <<clock, controllerVars>>
      BY <1>6, DeliverTakesOrDrops
    <2>2. Subscribed' = Subscribed  BY <2>1 DEF controllerVars, Subscribed
    <2>3. CASE m.topic # "ballPose" \/ inputs' = inputs
      <3>1. inputs'["ballPose"] = inputs["ballPose"]  BY <1>0, <2>1, <2>3
      <3> QED  BY <2>1, <2>2, <3>1 DEF StoredInv
    <2>4. CASE /\ m.topic = "ballPose"
               /\ inputs'["ballPose"] = [has |-> TRUE, stamp |-> StampToSeconds(m.stamp)]
      <3>1. inputs'["ballPose"].stamp = StampToSeconds(m.stamp)  BY <2>4
      <3>2. clock <= m.stamp + MessageDelay /\ m.stamp <= clock /\ m.stamp \in Nat
        BY <1>0 DEF WireTimes
      <3>3. StampToSeconds(m.stamp) <= clock  BY <3>2 DEF StampToSeconds, PaceInv
      <3>4. CASE m.stamp = 0
        <4>1. StampToSeconds(m.stamp) <= MessageDelay
          BY <3>2, <3>4, GapFact DEF StampToSeconds, PaceInv
        <4> QED  BY <2>1, <3>1, <3>3, <4>1 DEF StoredInv
      <3>5. CASE m.stamp # 0
        <4>1. StampToSeconds(m.stamp) = m.stamp  BY <3>5 DEF StampToSeconds
        <4>2. \A n \in wire' : n.topic = "ballPose" => m.stamp <= n.stamp
          BY <1>0, <2>1, <2>4
        <4> QED  BY <2>1, <3>1, <3>3, <4>1, <4>2 DEF StoredInv
      <3> QED  BY <3>4, <3>5
    <2>5. CASE ~Subscribed  BY <2>2, <2>5 DEF StoredInv
    <2> QED  BY <2>1, <2>3, <2>4, <2>5
  <1>7. CASE UNCHANGED systemVars
    BY <1>1, <1>7 DEF systemVars, vars, termVars, topicVars, Subscribed
  <1> QED  BY <1>2, <1>3, <1>4, <1>5, <1>6, <1>7 DEF SystemNext

\* The holds of the parameters that ask for a reset.
LEMMA HoldFact ==
  ASSUME HoldCoversDelays, ParametersGiven, params.mujocoReset
  PROVE  /\ params.hold \in Nat
         /\ params.hold >= RequestDelay + MessageDelay + 2
         /\ params.hold > 2 * MessageDelay
  BY ParametersAssumption DEF HoldCoversDelays, ParametersGiven, Parameters

\* As long as no ball of the reset state has come, the hold goes on.
LEMMA StillHeld ==
  ASSUME HoldCoversDelays, ParametersGiven, params.mujocoReset, TypeInv, WireInv,
         PaceInv, WireTimes, RequestTimes, params.hold <= skipUntil,
         Requested \/ Queued \/ Taken \/ Answered
  PROVE  clock < skipUntil
  <1>0. /\ clock \in Nat /\ skipUntil \in Nat
        /\ published.stamp \in Nat
        /\ \A r \in requests : r.sent \in Nat
        /\ \A m \in wire : m.stamp \in Nat
    BY TimeFact DEF TypeInv, PaceInv, WireInv
  <1>1. CASE Requested
    BY <1>0, <1>1, HoldFact, DelayFact, GapFact DEF Requested, RequestTimes
  <1>2. CASE Queued
    BY <1>0, <1>2, HoldFact, DelayFact, GapFact DEF Queued
  <1>3. CASE Taken
    BY <1>0, <1>3, HoldFact, DelayFact, GapFact DEF Taken
  <1>4. CASE Answered
    <2>1. PICK s \in Nat : AnsweredFrom(s)  BY <1>4 DEF Answered
    <2>2. clock <= s + MessageDelay
      <3>1. CASE s = published.stamp + 1
        BY <1>0, <1>4, <3>1, GapFact DEF Answered
      <3>2. CASE \E m \in wire : m.topic = "ballPose" /\ m.stamp = s
        BY <3>2 DEF WireTimes
      <3> QED  BY <2>1, <3>1, <3>2 DEF AnsweredFrom
    <2>3. s + params.hold <= skipUntil + RequestDelay + 1 \/ s <= MessageDelay
      BY <2>1 DEF AnsweredFrom
    <2> QED  BY <1>0, <2>2, <2>3, HoldFact, DelayFact, GapFact
  <1> QED  BY <1>1, <1>2, <1>3, <1>4

Waiting == Requested \/ Queued \/ Taken \/ Answered

LEMMA ReceiveMoves ==
  ASSUME SystemInv, RequestTimes, Waiting \/ Reached, ReceiveRequest
  PROVE  Requested /\ Queued'
  <1>1. PICK r \in requests :
          /\ request'.pending
          /\ received' = received + 1
          /\ askedBy' = Append(askedBy, r.by)
          /\ requests' = {}
          /\ UNCHANGED <<clock, loop, skipUntil, activations, params>>
    BY DEF ReceiveRequest, Bridge!HandleResetRequest, Bridge!loopVars, termVars,
           controllerVars, flagVars
  <1>2. Requested
    BY DEF Waiting, Queued, Taken, Answered, Reached, Served
  <1>3. r.by = activations /\ r.sent + params.hold = skipUntil  BY <1>2 DEF Requested
  <1>4. /\ r.by \in Nat /\ r.sent \in Nat /\ received \in Nat /\ clock \in Nat
        /\ params.hold \in Nat /\ skipUntil \in Nat
    BY DEF SystemInv, TypeInv, Parameters
  <1>5. askedBy'[received'] = activations'
    BY <1>1, <1>3, <1>4, AskedByAppended DEF SystemInv
  <1>6. clock + params.hold <= skipUntil + RequestDelay
    BY <1>3, <1>4, DelayFact DEF RequestTimes
  <1> QED  BY <1>1, <1>2, <1>4, <1>5, <1>6, DelayFact DEF Queued

LEMMA TakeMoves ==
  ASSUME SystemInv, BridgeTakes
  PROVE  (Waiting => Waiting') /\ (Reached => Reached')
  <1>1. /\ taken' = [has |-> request.pending, hold |-> request.hold, upTo |-> received]
        /\ request' = [request EXCEPT !.pending = FALSE]
        /\ loop = "take" /\ loop' = "serve"
        /\ UNCHANGED <<clock, received, served, askedBy, requests, wire, inputs, inputOf,
                       skipUntil, activations, params, published>>
    BY DEF BridgeTakes, Bridge!TakeRequest, Bridge!promiseVars, Bridge!publishVars, termVars,
           controllerVars, flagVars, topicVars, originVars
  <1>2. /\ taken'.has = request.pending /\ taken'.upTo = received
        /\ ~request'.pending
    BY <1>1 DEF SystemInv, TypeInv
  <1>3. Requested => Requested'  BY <1>1 DEF Requested
  <1>4. Queued => Taken'  BY <1>1, <1>2 DEF Queued, Taken
  <1>5. ~Taken  BY <1>1 DEF Taken
  <1>6. Served => Served'  BY <1>1, <1>2 DEF Served
  <1>7. Answered => Answered'  BY <1>1, <1>6 DEF Answered, AnsweredFrom
  <1>8. Reached => Reached'  BY <1>1, <1>6 DEF Reached
  <1> QED  BY <1>3, <1>4, <1>5, <1>7, <1>8 DEF Waiting

LEMMA ServeMoves ==
  ASSUME HoldCoversDelays, ParametersGiven, params.mujocoReset, SystemInv, WireInv,
         PaceInv, WireTimes, RequestTimes, OlderThanTurn, BridgeServes
  PROVE  (params.hold <= skipUntil /\ Waiting => Waiting') /\ (Reached => Reached')
  <1> DEFINE sent == [topic : BallTopics, stamp : {clock},
                      of : {[simulation |-> simulation, reset |-> ResetFor(served')]}]
  <1>0. /\ clock \in Nat /\ skipUntil \in Nat /\ holdUntil \in Nat /\ params.hold \in Nat
        /\ published.stamp \in Nat
        /\ \A m \in wire : m.stamp \in Nat /\ m.stamp < clock /\ m.stamp <= published.stamp
    BY StampsFact, ServePublishes
       DEF SystemInv, TypeInv, Parameters, PaceInv, OlderThanTurn, WireTimes
  <1>1. /\ served' = IF taken.has THEN taken.upTo ELSE served
        /\ taken' = [taken EXCEPT !.has = FALSE]
        /\ loop = "serve" /\ loop' = "step"
        /\ UNCHANGED <<clock, received, request, askedBy, requests, inputs, inputOf,
                       skipUntil, activations, params>>
    BY DEF BridgeServes, Bridge!Serve, Bridge!ServeTaken, termVars, controllerVars, flagVars,
           originVars
  <1>2. ~taken'.has  BY <1>1 DEF SystemInv, TypeInv
  <1>3. \/ published'.stamp = clock /\ wire' = wire \cup sent
        \/ published' = published /\ wire' = wire /\ ~taken.has /\ ~Bridge!Held
    BY ServePublishes
  <1>4. \A m \in sent : m.stamp = clock /\ m.of.reset = ResetFor(served')
    OBVIOUS
  <1>5. \E m \in sent : m.topic = "ballPose" /\ m.stamp = clock
    <2> DEFINE m == [topic |-> "ballPose", stamp |-> clock,
                     of |-> [simulation |-> simulation, reset |-> ResetFor(served')]]
    <2>1. m \in sent /\ m.topic = "ballPose" /\ m.stamp = clock  BY DEF BallTopics
    <2> QED  BY <2>1
  <1> HIDE DEF sent
  <1>6. Requested => Requested'  BY <1>1 DEF Requested
  <1>7. Queued => Queued'  BY <1>1 DEF Queued
  <1>8. Served => Served' /\ ~taken.has /\ ResetFor(served') = activations
    BY <1>1, <1>2 DEF Served, ResetFor
  <1>9. ASSUME Taken PROVE Answered'
    <2>1. Served' /\ ResetFor(served') = activations
      BY <1>1, <1>2, <1>9 DEF Taken, Served, ResetFor
    <2>2. published'.stamp = clock /\ wire' = wire \cup sent  BY <1>3, <1>9 DEF Taken
    <2>3. AnsweredFrom(clock)'
      <3>1. clock + params.hold <= skipUntil + RequestDelay + 1  BY <1>9 DEF Taken
      <3>2. \E m \in wire' : m.topic = "ballPose" /\ m.stamp = clock  BY <1>5, <2>2
      <3>3. \A m \in wire' : m.stamp >= clock => m.of.reset = activations /\ ~(m.stamp < clock)
        BY <1>0, <1>4, <2>1, <2>2
      <3> QED  BY <1>1, <2>2, <3>1, <3>2, <3>3 DEF AnsweredFrom
    <2>4. clock' \in Nat  BY <1>0, <1>1
    <2> QED  BY <1>1, <2>1, <2>2, <2>3, <2>4 DEF Answered
  <1>10. ASSUME params.hold <= skipUntil, Answered PROVE Answered'
    <2>1. Served /\ clock = published.stamp + 1  BY <1>1, <1>10 DEF Answered
    <2>2. Bridge!Held
      <3>1. clock < skipUntil  BY <1>10, StillHeld DEF SystemInv
      <3>2. skipUntil <= holdUntil  BY <2>1 DEF Served, SystemInv, HoldsInv
      <3>3. Bridge!HoldEnd = holdUntil  BY <1>8, <2>1 DEF Bridge!HoldEnd
      <3> QED  BY <1>0, <3>1, <3>2, <3>3 DEF Bridge!Held
    <2>3. published'.stamp = clock /\ wire' = wire \cup sent  BY <1>3, <2>2
    <2>4. PICK s \in Nat : AnsweredFrom(s)  BY <1>10 DEF Answered
    <2>5. AnsweredFrom(s)'
      <3>1. s = clock \/ \E m \in wire : m.topic = "ballPose" /\ m.stamp = s
        BY <2>1, <2>4 DEF AnsweredFrom
      <3>2. \E m \in wire' : m.topic = "ballPose" /\ m.stamp = s
        BY <1>5, <2>3, <3>1
      <3>3. ASSUME NEW m \in wire', m.topic = "ballPose", m.stamp >= s
            PROVE  m.of.reset = activations
        <4>1. CASE m \in wire  BY <2>4, <3>3, <4>1 DEF AnsweredFrom
        <4>2. CASE m \in sent  BY <1>4, <1>8, <2>1, <4>2
        <4> QED  BY <2>3, <4>1, <4>2
      <3>4. ASSUME NEW m \in wire', m.topic = "ballPose", m.stamp >= s, m.stamp < clock
            PROVE  \E n \in wire' : n.topic = "ballPose" /\ n.stamp = m.stamp + 1
        <4>1. m \in wire  BY <1>4, <2>3, <3>4, <1>0
        <4>2. CASE m.stamp < published.stamp
          BY <2>3, <2>4, <3>4, <4>1, <4>2 DEF AnsweredFrom
        <4>3. CASE m.stamp = published.stamp
          BY <1>5, <2>1, <2>3, <4>3
        <4> QED  BY <1>0, <4>1, <4>2, <4>3
      <3>5. s + params.hold <= skipUntil + RequestDelay + 1 \/ s <= MessageDelay
        BY <2>4 DEF AnsweredFrom
      <3> QED  BY <1>1, <2>3, <3>2, <3>3, <3>4, <3>5 DEF AnsweredFrom
    <2>6. (\E t \in Nat : AnsweredFrom(t))'  BY <2>4, <2>5
    <2>7. clock' = published'.stamp + (IF loop' = "step" THEN 0 ELSE 1)
      BY <1>0, <1>1, <2>3
    <2> QED  BY <1>8, <2>1, <2>6, <2>7 DEF Answered
  <1>11. ASSUME Reached PROVE Reached'
    <2>1. Served  BY <1>11 DEF Reached
    <2>2. \A m \in wire' : m.topic = "ballPose" => m.of.reset = activations
      BY <1>3, <1>4, <1>8, <1>11, <2>1 DEF Reached
    <2> QED  BY <1>1, <1>8, <1>11, <2>1, <2>2 DEF Reached
  <1> QED  BY <1>6, <1>7, <1>9, <1>10, <1>11 DEF Waiting

LEMMA PhysicsMoves ==
  ASSUME SystemInv, PaceInv, Physics
  PROVE  (Waiting => Waiting') /\ (Reached => Reached')
  <1>1. /\ clock' = clock + 1 /\ loop = "step" /\ loop' = "take"
        /\ UNCHANGED <<received, served, request, taken, askedBy, requests, wire, inputs,
                       inputOf, skipUntil, activations, params, published>>
    BY DEF Physics, Bridge!Step, Bridge!requestVars, Bridge!publishVars, controllerVars,
           flagVars, topicVars, originVars
  <1>2. clock \in Nat /\ skipUntil \in Nat /\ params.hold \in Nat /\ published.stamp \in Nat
    BY DEF SystemInv, TypeInv, Parameters, PaceInv
  <1>3. Requested => Requested'  BY <1>1 DEF Requested
  <1>4. Queued => Queued'  BY <1>1, <1>2, DelayFact DEF Queued
  <1>5. ~Taken  BY <1>1 DEF Taken
  <1>6. Served => Served'  BY <1>1 DEF Served
  <1>7. \A s \in Nat : AnsweredFrom(s) => AnsweredFrom(s)'  BY <1>1 DEF AnsweredFrom
  <1>8. Answered => Answered'  BY <1>1, <1>2, <1>6, <1>7 DEF Answered
  <1>9. Reached => Reached'  BY <1>1, <1>6 DEF Reached
  <1> QED  BY <1>3, <1>4, <1>5, <1>8, <1>9 DEF Waiting

\* A ball of the reset state is taken, unless the cache has one with the time of its
\* arrival; then the next one, published a turn later, is what the controller waits for.
LEMMA DeliverMoves ==
  ASSUME WireInv, TermTypeOK, PaceInv, WireTimes, StoredInv, Subscribed, Deliver
  PROVE  (Waiting => Waiting' \/ Reached') /\ (Reached => Reached')
  <1>1. PICK m \in wire :
          /\ \A n \in wire : n.topic = m.topic => n.stamp >= m.stamp
          /\ wire' = wire \ {m}
          /\ m.topic \in Topics
          /\ m.stamp <= StampToSeconds(m.stamp) /\ StampToSeconds(m.stamp) \in Time
          /\ \A t \in Topics :
               t # m.topic => inputs'[t] = inputs[t] /\ inputOf'[t] = inputOf[t]
          /\ \/ /\ inputs'[m.topic] = [has |-> TRUE, stamp |-> StampToSeconds(m.stamp)]
                /\ inputOf' = [inputOf EXCEPT ![m.topic] = m.of]
             \/ /\ inputs' = inputs /\ inputOf' = inputOf
                /\ inputs[m.topic].has
                /\ StampToSeconds(m.stamp) < inputs[m.topic].stamp
          /\ UNCHANGED <<clock, controllerVars, bridgeVars, requests, askedBy>>
    BY DeliverTakesOrDrops
  <1>2. UNCHANGED <<loop, published, request, taken, received, served, skipUntil, activations,
                    params>>
    BY <1>1 DEF controllerVars, bridgeVars, flagVars
  <1>3. /\ \A n \in wire : n.stamp \in Nat /\ n.stamp <= published.stamp
        /\ published.stamp \in Nat
        /\ "ballPose" \in Topics
    BY StampsFact, TopicsFact DEF WireTimes, PaceInv
  <1>4. Served => Served'  BY <1>1, <1>2 DEF Served
  <1>5. Requested \/ Queued \/ Taken => Requested' \/ Queued' \/ Taken'
    BY <1>1, <1>2 DEF Requested, Queued, Taken
  <1>6. CASE m.topic = "ballPose" /\ inputOf' = [inputOf EXCEPT ![m.topic] = m.of]
             /\ inputs'[m.topic] = [has |-> TRUE, stamp |-> StampToSeconds(m.stamp)]
    <2>1. inputs'["ballPose"].has /\ inputOf'["ballPose"] = m.of
      BY <1>1, <1>3, <1>6 DEF WireInv
    <2>2. Reached => Reached'
      BY <1>1, <1>2, <1>4, <1>6, <2>1 DEF Reached
    <2>3. ASSUME Answered PROVE Answered' \/ Reached'
      <3>1. PICK s \in Nat : AnsweredFrom(s)  BY <2>3 DEF Answered
      <3>2. CASE m.stamp >= s
        <4>1. m.of.reset = activations  BY <1>6, <3>1, <3>2 DEF AnsweredFrom
        <4>2. \A n \in wire' : n.topic = "ballPose" => n.of.reset = activations
          BY <1>1, <1>3, <1>6, <3>1, <3>2 DEF AnsweredFrom
        <4>3. Reached'  BY <1>2, <1>4, <2>1, <2>3, <4>1, <4>2 DEF Answered, Reached
        <4> QED  BY <4>3
      <3>3. CASE m.stamp < s
        <4>1. AnsweredFrom(s)'
          BY <1>1, <1>2, <1>3, <3>1, <3>3 DEF AnsweredFrom
        <4> QED  BY <1>1, <1>2, <1>4, <2>3, <3>1, <4>1 DEF Answered
      <3> QED  BY <1>3, <3>2, <3>3
    <2> QED  BY <1>5, <2>2, <2>3 DEF Waiting
  <1>7. CASE m.topic = "ballPose" /\ inputs' = inputs /\ inputOf' = inputOf
             /\ inputs[m.topic].has /\ StampToSeconds(m.stamp) < inputs[m.topic].stamp
    <2>1. Reached => Reached'
      BY <1>1, <1>2, <1>4, <1>7 DEF Reached
    <2>2. m.stamp < MessageDelay
      <3>1. /\ inputs["ballPose"].stamp \in Nat /\ StampToSeconds(m.stamp) \in Nat
        BY <1>1, <1>3, TimeFact DEF TermTypeOK, Input
      <3>2. m.stamp < inputs["ballPose"].stamp  BY <1>1, <1>3, <1>7, <3>1
      <3>3. inputs["ballPose"].stamp <= MessageDelay
        BY <1>3, <1>7, <3>1, <3>2 DEF StoredInv
      <3> QED  BY <1>3, <3>1, <3>2, <3>3, GapFact
    <2>3. ASSUME Answered PROVE Answered'
      <3>1. PICK s \in Nat : AnsweredFrom(s)  BY <2>3 DEF Answered
      <3>2. CASE m.stamp < s
        <4>1. AnsweredFrom(s)'
          BY <1>1, <1>2, <1>3, <3>1, <3>2 DEF AnsweredFrom
        <4> QED  BY <1>1, <1>2, <1>4, <2>3, <3>1, <4>1 DEF Answered
      <3>3. CASE m.stamp >= s
        <4> DEFINE next == m.stamp + 1
        <4>1. next \in Nat /\ next <= MessageDelay  BY <1>3, <2>2, GapFact
        <4>2. next = published.stamp + 1 \/ \E n \in wire' : n.topic = "ballPose" /\ n.stamp = next
          <5>1. CASE m.stamp = published.stamp  BY <5>1
          <5>2. CASE m.stamp < published.stamp
            <6>1. PICK n \in wire : n.topic = "ballPose" /\ n.stamp = m.stamp + 1
              BY <1>7, <3>1, <3>3, <5>2 DEF AnsweredFrom
            <6>2. n # m  BY <1>3, <6>1
            <6> QED  BY <1>1, <6>1, <6>2
          <5> QED  BY <1>3, <5>1, <5>2
        <4>3. ASSUME NEW n \in wire', n.topic = "ballPose", n.stamp >= next
              PROVE  /\ n.of.reset = activations
                     /\ n.stamp < published.stamp =>
                          \E o \in wire' : o.topic = "ballPose" /\ o.stamp = n.stamp + 1
          <5>1. n \in wire /\ n.stamp >= s  BY <1>1, <1>3, <3>3, <4>3
          <5>2. n.of.reset = activations  BY <3>1, <4>3, <5>1 DEF AnsweredFrom
          <5>3. ASSUME n.stamp < published.stamp
                PROVE  \E o \in wire' : o.topic = "ballPose" /\ o.stamp = n.stamp + 1
            <6>1. PICK o \in wire : o.topic = "ballPose" /\ o.stamp = n.stamp + 1
              BY <3>1, <4>3, <5>1, <5>3 DEF AnsweredFrom
            <6>2. o # m  BY <1>3, <4>3, <5>1, <6>1
            <6> QED  BY <1>1, <6>1, <6>2
          <5> QED  BY <5>2, <5>3
        <4> HIDE DEF next
        <4>4. AnsweredFrom(next)'
          BY <1>2, <4>1, <4>2, <4>3 DEF AnsweredFrom
        <4>5. (\E t \in Nat : AnsweredFrom(t))'  BY <4>1, <4>4
        <4> QED  BY <1>1, <1>2, <1>4, <2>3, <4>5 DEF Answered
      <3> QED  BY <1>3, <3>2, <3>3
    <2> QED  BY <1>5, <2>1, <2>3 DEF Waiting
  <1>8. CASE m.topic # "ballPose"
    <2>1. Reached => Reached'
      BY <1>1, <1>2, <1>3, <1>4, <1>8 DEF Reached
    <2>2. ASSUME Answered PROVE Answered'
      <3>1. PICK s \in Nat : AnsweredFrom(s)  BY <2>2 DEF Answered
      <3>2. AnsweredFrom(s)'
        BY <1>1, <1>2, <1>3, <1>8, <3>1 DEF AnsweredFrom
      <3> QED  BY <1>1, <1>2, <1>4, <2>2, <3>1, <3>2 DEF Answered
    <2> QED  BY <1>5, <2>1, <2>2 DEF Waiting
  <1> QED  BY <1>1, <1>6, <1>7, <1>8

\* Only its own update() reads what the controller has waited for; one that throws ends it.
LEMMA UpdateMoves ==
  ASSUME HoldCoversDelays, TimeoutCoversDelay, ParametersGiven, SystemInv, BallsInv, TypeOK,
         RequestTimes, AnswerInv, SeedInv, Update, ~UpdateThrows, TrackSeed,
         UNCHANGED <<bridgeVars, topicVars, simulation, askedBy, inputOf>>
  PROVE  AnswerInv' /\ SeedInv'
  <1>1. /\ UNCHANGED <<clock, inputs, lifecycle, params, skipUntil, activations>>
        /\ pendingStartup' => pendingStartup
    BY DEF Update, UpdateHeld, UpdateStart, CheckInputs, BaseUpdateFails,
           HoldTarget, PassGate, WriteTarget, RlControllerUpdate, termVars, flagVars
  <1>2. UNCHANGED <<loop, published, request, taken, received, served, requests, wire>>
    BY DEF bridgeVars, topicVars
  <1>3. Waiting' = Waiting /\ Reached' = Reached /\ ResetHeld' = ResetHeld
    <2>1. Requested' = Requested /\ Queued' = Queued /\ Taken' = Taken /\ Served' = Served
      BY <1>1, <1>2 DEF Requested, Queued, Taken, Served
    <2>2. \A s \in Nat : AnsweredFrom(s)' <=> AnsweredFrom(s)
      BY <1>1, <1>2 DEF AnsweredFrom
    <2>3. Answered' <=> Answered  BY <1>1, <1>2, <2>1, <2>2 DEF Answered
    <2>4. Reached' = Reached  BY <1>1, <1>2, <2>1 DEF Reached
    <2> QED  BY <1>1, <2>1, <2>3, <2>4 DEF Waiting, ResetHeld
  <1>4. AnswerInv'
    BY <1>1, <1>3 DEF AnswerInv, Waiting
  <1>5. SeedInv'
    <2> SUFFICES ASSUME ResetHeld, ~pendingStartup'
                 PROVE  /\ Reached
                        /\ params.resetRoute =>
                             route'.seed = "measured" /\ seedOf'.reset = activations
      BY <1>1, <1>3 DEF SeedInv
    <2>1. CASE pendingStartup
      <3>1. UpdateStart
        BY <2>1 DEF Update, UpdateHeld, UpdateStart, CheckInputs, BaseUpdateFails,
                    HoldTarget, PassGate, WriteTarget, RlControllerUpdate, flagVars
      <3>2. ~(clock < skipUntil)  BY <2>1, <3>1 DEF UpdateStart, InHold
      <3>3. Reached
        BY <2>1, <3>2, StillHeld DEF AnswerInv, ResetHeld, SystemInv, BallsInv
      <3>4. HasFresh("ballPose", clock)
        BY <3>3, CachedBallFresh, TopicsFact DEF Reached, ResetHeld, Subscribed
      <3>5. params.resetRoute => route'.seed = "measured"
        BY <2>1, <3>1, <3>4 DEF UpdateStart, StartupReset, ResetRoute, BallSource
      <3>6. params.resetRoute => seedOf' = inputOf["ballPose"]
        BY <2>1 DEF TrackSeed, RouteIsReset
      <3> QED  BY <3>3, <3>5, <3>6 DEF Reached
    <2>2. CASE ~pendingStartup
      <3>1. Reached  BY <2>2 DEF SeedInv
      <3>2. params.resetRoute => route.seed = "measured" /\ seedOf.reset = activations
        BY <2>2 DEF SeedInv
      <3>3. route'.seed = route.seed \/ route'.seed = "measured"
        <4>1. CASE UpdateStart
          BY <2>2, <4>1 DEF UpdateStart, StartupReset
        <4>2. CASE CheckInputs
          <5>1. CASE pendingReset /\ FreshInputs(now)
            <6>1. HasFresh("ballPose", now)  BY <5>1, TopicsFact DEF FreshInputs
            <6> QED  BY <4>2, <5>1, <6>1 DEF CheckInputs, DelayedReset, ResetRoute, BallSource
          <5>2. CASE ~(pendingReset /\ FreshInputs(now))
            BY <4>2, <5>2 DEF CheckInputs, KeepRoute, RefreshRouteCommand
          <5> QED  BY <5>1, <5>2
        <4>3. CASE ~(UpdateStart \/ CheckInputs)
          BY <4>3 DEF Update, UpdateHeld, BaseUpdateFails, HoldTarget, PassGate, WriteTarget,
                      RlControllerUpdate, PublishVisualization, KeepRoute, GetRouteCommand,
                      RefreshRouteCommand, termVars
        <4> QED  BY <4>1, <4>2, <4>3
      <3>4. seedOf' \in {seedOf, inputOf["ballPose"]}  BY DEF TrackSeed
      <3> QED  BY <3>1, <3>2, <3>3, <3>4 DEF Reached
    <2> QED  BY <2>1, <2>2
  <1> QED  BY <1>4, <1>5

AnswersInv == OlderThanTurn /\ StoredInv /\ AnswerInv /\ SeedInv

LEMMA AnswersPreserved ==
  ASSUME HoldCoversDelays, TimeoutCoversDelay, ParametersGiven, SystemInv, BallsInv, TypeOK,
         RequestTimes, AnswersInv, [SystemNext]_systemVars
  PROVE  AnswersInv'
  <1>1. OlderThanTurn' /\ StoredInv'
    BY OlderKept, StoredKept DEF BallsInv, AnswersInv, TypeOK
  <1>2. ASSUME /\ UNCHANGED <<lifecycle, params, pendingStartup, skipUntil, activations, route,
                              seedOf>>
               /\ clock' \in {clock, clock + 1}
               /\ ResetHeld => (Waiting => Waiting' \/ Reached') /\ (Reached => Reached')
        PROVE  AnswerInv' /\ SeedInv'
    <2>1. clock \in Nat /\ skipUntil \in Nat /\ params.hold \in Nat
      BY DEF SystemInv, TypeInv, Parameters
    <2>2. ResetHeld' = ResetHeld  BY <1>2 DEF ResetHeld
    <2>3. ASSUME ResetHeld, pendingStartup
          PROVE  /\ params.hold <= skipUntil /\ skipUntil <= clock' + params.hold
                 /\ Waiting' \/ Reached'
      <3>1. /\ params.hold <= skipUntil /\ skipUntil <= clock + params.hold
            /\ Waiting \/ Reached
        BY <2>3 DEF AnswersInv, AnswerInv, Waiting
      <3> QED  BY <1>2, <2>1, <2>3, <3>1
    <2>4. AnswerInv'  BY <1>2, <2>2, <2>3 DEF AnswerInv, Waiting
    <2>5. SeedInv'  BY <1>2, <2>2 DEF AnswersInv, SeedInv
    <2> QED  BY <2>4, <2>5
  <1>3. CASE Control
    <2>1. CASE Configure \/ ActivateFails \/ Deactivate \/ Cleanup \/ UpdateThrows
      <3>1. lifecycle' # "active"
        BY <2>1 DEF Configure, ActivateFails, Deactivate, Cleanup, UpdateThrows
      <3> QED  BY <1>1, <3>1 DEF AnswersInv, AnswerInv, SeedInv, ResetHeld
    <2>2. CASE Update /\ ~UpdateThrows
      BY <1>1, <1>3, <2>2, UpdateMoves DEF Control, AnswersInv
    <2> QED  BY <1>3, <2>1, <2>2 DEF Control
  <1>4. CASE ActivateAndRequest
    <2>1. params' = params /\ clock' = clock
      BY <1>4 DEF ActivateAndRequest, Activate
    <2>2. CASE params.mujocoReset
      <3> DEFINE r == [hold |-> params.hold, sent |-> clock, by |-> activations']
      <3>1. skipUntil' = clock + params.hold /\ pendingStartup' /\ requests' = {r}
        BY <1>4, <2>2 DEF ActivateAndRequest, Activate, ActivateHold
      <3>2. clock \in Nat /\ params.hold \in Nat
        BY DEF SystemInv, TypeInv, Parameters
      <3>3. r.by = activations' /\ r.sent + params.hold = skipUntil'  BY <3>1
      <3> HIDE DEF r
      <3>4. Requested'  BY <2>1, <3>1, <3>3 DEF Requested
      <3> QED
        BY <1>1, <2>1, <3>1, <3>2, <3>4 DEF AnswersInv, AnswerInv, SeedInv
    <2>3. CASE ~params.mujocoReset
      BY <1>1, <2>1, <2>3 DEF AnswersInv, AnswerInv, SeedInv, ResetHeld
    <2> QED  BY <2>2, <2>3
  <1>5. CASE ReceiveRequest
    <2>1. UNCHANGED <<clock, lifecycle, params, pendingStartup, skipUntil, activations, route,
                      seedOf>>
      BY <1>5 DEF ReceiveRequest, termVars, controllerVars, flagVars
    <2>2. Waiting \/ Reached => Waiting' /\ ~Reached
      BY <1>5, ReceiveMoves DEF Waiting, Requested, Reached, Served
    <2> QED  BY <1>1, <1>2, <2>1, <2>2 DEF AnswersInv
  <1>6. CASE BridgeTakes
    <2>1. UNCHANGED <<clock, lifecycle, params, pendingStartup, skipUntil, activations, route,
                      seedOf>>
      BY <1>6 DEF BridgeTakes, termVars, controllerVars, flagVars, originVars
    <2> QED  BY <1>1, <1>2, <1>6, <2>1, TakeMoves DEF AnswersInv
  <1>7. CASE BridgeServes
    <2>1. UNCHANGED <<clock, lifecycle, params, pendingStartup, skipUntil, activations, route,
                      seedOf>>
      BY <1>7 DEF BridgeServes, termVars, controllerVars, flagVars, originVars
    <2>2. /\ ResetHeld /\ params.hold <= skipUntil /\ Waiting => Waiting'
          /\ ResetHeld /\ Reached => Reached'
      BY <1>7, ServeMoves DEF ResetHeld, AnswersInv, BallsInv
    <2>3. AnswerInv'
      BY <2>1, <2>2 DEF AnswersInv, AnswerInv, ResetHeld, Waiting
    <2>4. SeedInv'  BY <2>1, <2>2 DEF AnswersInv, SeedInv, ResetHeld
    <2> QED  BY <1>1, <2>3, <2>4 DEF AnswersInv
  <1>8. CASE Physics
    <2>1. clock' = clock + 1  BY <1>8, PhysicsSteps DEF ClockTick, Tick
    <2>2. UNCHANGED <<lifecycle, params, pendingStartup, skipUntil, activations, route, seedOf>>
      BY <1>8 DEF Physics, controllerVars, flagVars, originVars
    <2> QED  BY <1>1, <1>2, <1>8, <2>1, <2>2, PhysicsMoves DEF AnswersInv, BallsInv
  <1>9. CASE Deliver
    <2>1. UNCHANGED <<clock, lifecycle, params, pendingStartup, skipUntil, activations, route,
                      seedOf>>
      BY <1>9 DEF Deliver, SetInput, termVars, controllerVars, flagVars
    <2>2. ResetHeld => (Waiting => Waiting' \/ Reached') /\ (Reached => Reached')
      BY <1>9, DeliverMoves DEF ResetHeld, Subscribed, AnswersInv, BallsInv, TypeOK
    <2> QED  BY <1>1, <1>2, <2>1, <2>2 DEF AnswersInv
  <1>10. CASE UNCHANGED systemVars
    BY <1>1, <1>10 DEF AnswersInv, AnswerInv, SeedInv, ResetHeld, Requested, Queued, Taken,
                       Answered, AnsweredFrom, Reached, Served, systemVars, vars, termVars,
                       flagVars, bridgeVars, topicVars, originVars
  <1> QED
    BY <1>3, <1>4, <1>5, <1>6, <1>7, <1>8, <1>9, <1>10 DEF SystemNext

\* For all delays, periods, timeouts and parameters that fit together: when the hold of
\* the controller is over, its route starts at the ball of the simulation that this
\* activation has asked for.
THEOREM RouteStartsAtResetBall ==
  TimeoutCoversDelay /\ HoldCoversDelays => (SystemSpec => []RouteFromResetBall)
  <1> SUFFICES ASSUME TimeoutCoversDelay, HoldCoversDelays
               PROVE  SystemSpec => []RouteFromResetBall
    OBVIOUS
  <1> DEFINE Inv == ParametersGiven /\ RequestTimes /\ AnswersInv
  <1>1. SystemInit => Inv
    <2> SUFFICES ASSUME SystemInit PROVE Inv  OBVIOUS
    <2>1. wire = {} /\ requests = {} /\ lifecycle = "unconfigured" /\ params \in ParameterSets
      BY DEF SystemInit, Init
    <2> QED
      BY <2>1 DEF ParametersGiven, RequestTimes, AnswersInv, OlderThanTurn, StoredInv,
                  Subscribed, AnswerInv, SeedInv, ResetHeld
  <1>2. /\ Inv /\ SystemInv /\ BallsInv /\ TypeOK
        /\ [SystemNext]_systemVars
        => Inv'
    BY ParametersStay, RequestTimesKept, AnswersPreserved
  <1>3. Inv => RouteFromResetBall
    BY DEF RouteFromResetBall, Settled, AnswersInv, SeedInv, ResetHeld
  <1> QED  BY <1>1, <1>2, <1>3, SystemInvHolds, BallsInvHolds, PTL DEF SystemSpec
=============================================================================
