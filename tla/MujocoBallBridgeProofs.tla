----------------------- MODULE MujocoBallBridgeProofs -----------------------
(***************************************************************************)
(* Theorems about MujocoBallBridge, for every value of its constants.      *)
(***************************************************************************)
EXTENDS MujocoBallBridge, TLAPS

LEMMA ProductOrdered ==
  ASSUME NEW a \in Nat, NEW b \in Nat, NEW c \in Nat, a <= b
  PROVE  a * c \in Nat /\ b * c \in Nat /\ a * c <= b * c
<1>1. PICK d \in Nat : b = a + d
  <2>1. b - a \in Nat /\ b = a + (b - a)
    OBVIOUS
  <2> QED BY <2>1
<1>2. d * c \in Nat /\ a * c \in Nat
  OBVIOUS
<1>3. b * c = a * c + d * c
  BY <1>1
<1> QED BY <1>2, <1>3

\* A dot is at a point that the route has.
LEMMA DotInRange ==
  ASSUME NEW i \in Dots, NEW size \in Nat, size >= 2
  PROVE  DotPoint(i, size) \in 0 .. size - 1
<1> DEFINE k == NumDots - 1
           x == i * (size - 1) + k \div 2
<1>1. CASE NumDots > 1
  <2>1. k \in Nat /\ k > 0 /\ i \in Nat /\ i <= k /\ size - 1 \in Nat
    BY <1>1, SizesAssumption DEF Dots
  <2> HIDE DEF k
  <2>2. i * (size - 1) \in Nat /\ k * (size - 1) \in Nat /\ i * (size - 1) <= k * (size - 1)
    BY <2>1, ProductOrdered
  <2>3. k \div 2 \in Nat /\ k \div 2 < k
    BY <2>1
  <2>4. k * size = k * (size - 1) + k
    BY <2>1
  <2>5. x \in Nat /\ x < k * size
    BY <2>1, <2>2, <2>3, <2>4
  <2> HIDE DEF x
  <2>6. x \div k \in Nat /\ k * (x \div k) <= x
    BY <2>1, <2>5
  <2>7. ~(x \div k >= size)
    <3> SUFFICES ASSUME x \div k >= size PROVE FALSE
      OBVIOUS
    <3>1. size * k <= (x \div k) * k
      BY <2>1, <2>6, ProductOrdered
    <3>2. size * k = k * size /\ (x \div k) * k = k * (x \div k)
      BY <2>1, <2>6
    <3>3. k * size \in Int /\ k * (x \div k) \in Int
      BY <2>1, <2>6
    <3> QED BY <2>5, <2>6, <3>1, <3>2, <3>3
  <2>8. DotPoint(i, size) = x \div k
    BY <1>1 DEF DotPoint, x, k
  <2> QED BY <2>6, <2>7, <2>8
<1>2. CASE ~(NumDots > 1)
  BY <1>2 DEF DotPoint
<1> QED BY <1>1, <1>2

LEMMA PublishType ==
  ASSUME TypeOK, qpos' \in Origins, sensed' \in Origins, Publish
  PROVE  /\ lastPublish' \in Int
         /\ published' \in Messages
         /\ dots' \in [Dots -> DotPoints]
<1>1. lastPublish' \in Int /\ published' \in Messages
  BY DEF Publish, TypeOK, Messages
<1>2. CASE routeSize < 2
  <2>1. dots' = [i \in Dots |-> -1]
    BY <1>2 DEF Publish
  <2>2. -1 \in DotPoints
    BY DEF DotPoints
  <2> QED BY <1>1, <2>1, <2>2
<1>3. CASE ~(routeSize < 2)
  <2>1. routeSize \in RouteSizes /\ routeSize \in Nat /\ routeSize >= 2
    <3>1. routeSize \in RouteSizes \cup {0} /\ routeSize # 0
      BY <1>3 DEF TypeOK
    <3>2. routeSize \in RouteSizes /\ routeSize \in Nat
      BY <3>1, SizesAssumption
    <3> QED BY <1>3, <3>2
  <2>2. \A i \in Dots : DotPoint(i, routeSize) \in 0 .. routeSize - 1
    BY <2>1, DotInRange
  <2>3. 0 .. routeSize - 1 \subseteq DotPoints
    BY <2>1 DEF DotPoints
  <2>4. dots' = [i \in Dots |-> DotPoint(i, routeSize)]
    BY <1>3 DEF Publish
  <2> QED BY <1>1, <2>2, <2>3, <2>4
<1> QED BY <1>1, <1>2, <1>3

-----------------------------------------------------------------------------
\* Every variable keeps its type; in particular every dot is at a point that
\* some received route has.
THEOREM BridgeTypeCorrect == Spec => []TypeOK
<1> USE SizesAssumption
<1>1. Init => TypeOK
  BY DEF Init, TypeOK, Origins, Messages, DotPoints, LongAgo
<1>2. TypeOK /\ [Next]_vars => TypeOK'
  <2> SUFFICES ASSUME TypeOK, [Next]_vars PROVE TypeOK'
    OBVIOUS
  <2> USE DEF TypeOK
  <2>1. CASE HandleResetRequest
    <3>1. request' \in [pending : BOOLEAN, hold : Nat] /\ received' \in Nat
      BY <2>1 DEF HandleResetRequest, requestVars, promiseVars
    <3> QED BY <2>1, <3>1 DEF HandleResetRequest, loopVars, publishVars, requestVars, promiseVars
  <2>2. CASE HandleRouteMarkers
    BY <2>2 DEF HandleRouteMarkers, loopVars, requestVars, publishVars, promiseVars
  <2>3. CASE TakeRequest
    BY <2>3 DEF TakeRequest, publishVars, requestVars, promiseVars
  <2>4. CASE Serve
    <3>1. qpos' \in Origins /\ sensed' \in Origins
      BY <2>4 DEF Serve, ServeTaken, ApplyResetState, Origins
    <3>2. /\ lastPublish' \in Int
          /\ published' \in Messages
          /\ dots' \in [Dots -> DotPoints]
      <4>1. CASE PublishDue
        BY <2>4, <3>1, <4>1, PublishType DEF Serve, ServeTaken
      <4>2. CASE ~PublishDue
        BY <2>4, <4>2 DEF Serve, ServeTaken, PublishedBefore, LongAgo
      <4> QED BY <4>1, <4>2
    <3>3. holdUntil' \in Nat /\ promise' \in Int /\ served' \in Nat
      BY <2>4 DEF Serve, ServeTaken, HoldEnd
    <3>4. taken' \in [has : BOOLEAN, hold : Nat, upTo : Nat]
      BY <2>4 DEF Serve, ServeTaken
    <3> QED
      BY <2>4, <3>1, <3>2, <3>3, <3>4 DEF Serve, ServeTaken
  <2>5. CASE Step
    BY <2>5 DEF Step, publishVars, Origins, requestVars, promiseVars
  <2>6. CASE Reset
    <3>1. published' \in Messages
      BY <2>6 DEF Reset, Messages, requestVars, promiseVars
    <3>3. lastPublish' \in Int
      <4>1. lastPublish' \in {LongAgo, lastPublish}
        BY <2>6 DEF Reset, requestVars, promiseVars
      <4> QED BY <4>1 DEF LongAgo
    <3>4. time' \in 0 .. MaxTime
      <4>1. time' = 0
        BY <2>6 DEF Reset, requestVars, promiseVars
      <4> QED BY <4>1
    <3>2. qpos' \in Origins /\ sensed' \in Origins
      BY <2>6 DEF Reset, ApplyResetState, Origins, requestVars, promiseVars
    <3> QED BY <2>6, <3>1, <3>2, <3>3, <3>4 DEF Reset, requestVars, promiseVars
  <2>7. CASE UNCHANGED vars
    BY <2>7 DEF vars, loopVars, requestVars, publishVars, promiseVars
  <2> QED BY <2>1, <2>2, <2>3, <2>4, <2>5, <2>6, <2>7 DEF Next
<1> QED BY <1>1, <1>2, PTL DEF Spec

\* What waits, and what has been taken, is exactly what is not served.
LEMMA RequestsAccounted == Spec => []RequestInv
<1> USE FlagsAssumption
<1>1. Init => RequestInv
  BY DEF Init, RequestInv
<1>2. TypeOK /\ RequestInv /\ [Next]_vars => RequestInv'
  <2> SUFFICES ASSUME TypeOK, RequestInv, [Next]_vars PROVE RequestInv'
    OBVIOUS
  <2> USE DEF TypeOK, RequestInv
  <2>1. CASE HandleResetRequest
    BY <2>1 DEF HandleResetRequest, loopVars, requestVars, promiseVars
  <2>2. CASE TakeRequest
    BY <2>2 DEF TakeRequest, requestVars, promiseVars
  <2>3. CASE Serve
    BY <2>3 DEF Serve, ServeTaken
  <2>4. CASE Step
    BY <2>4 DEF Step, requestVars, promiseVars
  <2>5. CASE Reset
    BY <2>5 DEF Reset, requestVars, promiseVars
  <2>6. CASE HandleRouteMarkers \/ UNCHANGED vars
    BY <2>6 DEF HandleRouteMarkers, vars, loopVars, requestVars, promiseVars
  <2> QED BY <2>1, <2>2, <2>3, <2>4, <2>5, <2>6 DEF Next
<1> QED BY <1>1, <1>2, BridgeTypeCorrect, PTL DEF Spec

\* No request is lost, whenever it arrives.
THEOREM RequestsSurvive == Spec => []NoRequestLost
<1>1. TypeOK /\ RequestInv => NoRequestLost
  BY DEF TypeOK, RequestInv, NoRequestLost
<1> QED BY <1>1, BridgeTypeCorrect, RequestsAccounted, PTL

-----------------------------------------------------------------------------
\* A reset state that no Update has seen is at time 0 and will be published.
LEMMA ResetStateShown == Spec => [](ResetStateInv /\ ResetPublishedAtOnce)
<1> DEFINE Inv == ResetStateInv /\ ResetPublishedAtOnce
<1> USE FlagsAssumption, SizesAssumption
<1>1. Init => Inv
  BY DEF Init, ResetStateInv, ResetPublishedAtOnce
<1>2. TypeOK /\ Inv /\ [Next]_vars => Inv'
  <2> SUFFICES ASSUME TypeOK, Inv, [Next]_vars PROVE Inv'
    OBVIOUS
  <2> USE DEF TypeOK, ResetStateInv, ResetPublishedAtOnce, LongAgo
  <2>1. CASE HandleResetRequest \/ HandleRouteMarkers \/ UNCHANGED vars
    BY <2>1 DEF HandleResetRequest, HandleRouteMarkers, vars, loopVars, publishVars, requestVars, promiseVars
  <2>2. CASE TakeRequest
    BY <2>2 DEF TakeRequest, publishVars, requestVars, promiseVars
  <2>3. CASE Serve
    <3>1. qpos' = "reset" => PublishDue /\ sensed' = "reset"
      BY <2>3 DEF Serve, ServeTaken, ApplyResetState, PublishDue, PublishedBefore
    <3> QED BY <2>3, <3>1 DEF Serve, ServeTaken, Publish
  <2>4. CASE Step
    BY <2>4 DEF Step, requestVars, promiseVars
  <2>5. CASE Reset
    BY <2>5 DEF Reset, ApplyResetState, requestVars, promiseVars
  <2> QED BY <2>1, <2>2, <2>3, <2>4, <2>5 DEF Next
<1> QED BY <1>1, <1>2, BridgeTypeCorrect, PTL DEF Spec

\* A turn that leaves the reset state has published it.
THEOREM ResetShownAtOnce == Spec => []ResetPublishedAtOnce
BY ResetStateShown, PTL

\* The messages keep up with the clock, as long as no restart of the simulation that
\* leaves the publish time in the future has moved it back.
THEOREM MessagesOnTime == Spec => []PublishedOnTime
<1> DEFINE Inv == PublishInv /\ PublishedOnTime
<1> USE FlagsAssumption, SizesAssumption
<1>1. Init => Inv
  BY DEF Init, PublishInv, PublishedOnTime
<1>2. TypeOK /\ Inv /\ [Next]_vars => Inv'
  <2> SUFFICES ASSUME TypeOK, Inv, [Next]_vars PROVE Inv'
    OBVIOUS
  <2> USE DEF TypeOK, PublishInv, PublishedOnTime, RestartOvercome, LongAgo
  <2>1. CASE HandleResetRequest \/ HandleRouteMarkers \/ UNCHANGED vars
    BY <2>1 DEF HandleResetRequest, HandleRouteMarkers, vars, loopVars, publishVars, requestVars, promiseVars
  <2>2. CASE TakeRequest
    BY <2>2 DEF TakeRequest, publishVars, requestVars, promiseVars
  <2>3. CASE Serve
    <3>1. CASE PublishDue
      BY <2>3, <3>1 DEF Serve, ServeTaken, Publish
    <3>2. CASE ~PublishDue
      <4>1. PublishedBefore = lastPublish /\ time - lastPublish < PublishPeriod
        BY <3>2 DEF PublishDue, PublishedBefore
      <4>2. lastPublish # LongAgo
        BY <4>1
      <4>3. ~taken.has
        BY <4>1, <4>2 DEF PublishedBefore
      <4>4. UNCHANGED <<time, lastPublish, published, promisedIn>>
        BY <2>3, <3>2, <4>1, <4>3 DEF Serve, ServeTaken
      <4> QED BY <4>1, <4>2, <4>4
    <3> QED BY <3>1, <3>2
  <2>4. CASE Step
    <3>1. /\ time' = time + 1
          /\ pc' = "take"
          /\ UNCHANGED <<lastPublish, published, promisedIn>>
      BY <2>4 DEF Step, publishVars, requestVars, promiseVars
    <3> QED BY <3>1
  <2>5. CASE Reset
    BY <2>5 DEF Reset, requestVars, promiseVars
  <2> QED BY <2>1, <2>2, <2>3, <2>4, <2>5 DEF Next
<1> QED BY <1>1, <1>2, BridgeTypeCorrect, PTL DEF Spec

\* The reset state is held as long as the last request asked for, if restarts
\* of the simulation, where there are any, apply it.
THEOREM HoldKept ==
  ASSUME ApplyOnReset \/ ~AllowRestart
  PROVE  Spec => []HeldAsPromised
<1> USE FlagsAssumption, SizesAssumption
<1>1. Init => HoldInv
  BY DEF Init, HoldInv
<1>2. TypeOK /\ RequestInv /\ HoldInv /\ [Next]_vars => HoldInv'
  <2> SUFFICES ASSUME TypeOK, RequestInv, HoldInv, [Next]_vars PROVE HoldInv'
    OBVIOUS
  <2> USE DEF TypeOK, HoldInv
  <2>1. CASE HandleResetRequest \/ HandleRouteMarkers \/ UNCHANGED vars
    BY <2>1 DEF HandleResetRequest, HandleRouteMarkers, vars, loopVars, requestVars, promiseVars
  <2>2. CASE TakeRequest
    BY <2>2 DEF TakeRequest, requestVars, promiseVars
  <2>3. CASE Serve
    <3>1. CASE taken.has
      <4>1. /\ holdUntil' = time + taken.hold /\ promise' = taken.hold /\ time' = time
            /\ qpos' = "reset"
        BY <2>3, <3>1 DEF Serve, ServeTaken, HoldEnd, ApplyResetState
      <4>2. ResetEnabled
        BY <3>1 DEF RequestInv
      <4> QED BY <4>1, <4>2
    <3>2. CASE ~taken.has
      <4>1. UNCHANGED <<holdUntil, promise, time>>
        BY <2>3, <3>2 DEF Serve, ServeTaken, HoldEnd
      <4>2. ASSUME promise >= 0 PROVE qpos' = "reset"
        <5>1. CASE holdUntil = 0
          BY <2>3, <3>2, <4>2, <5>1 DEF Serve, ServeTaken, Held, HoldEnd
        <5>2. CASE holdUntil # 0
          <6>1. ResetEnabled /\ holdUntil > 0 /\ time <= holdUntil
            BY <4>2, <5>2
          <6>2. Held
            BY <3>2, <6>1 DEF Held, HoldEnd
          <6> QED BY <2>3, <6>2 DEF Serve, ServeTaken, ApplyResetState
        <5> QED BY <5>1, <5>2
      <4> QED BY <4>1, <4>2
    <3> QED BY <3>1, <3>2
  <2>4. CASE Step
    <3>1. /\ time' = time + 1 /\ holdUntil' = holdUntil /\ pc' = "take"
          /\ promise' = IF promise >= 0 THEN promise - 1 ELSE promise
      BY <2>4 DEF Step, requestVars, promiseVars
    <3>2. ASSUME promise' >= 0
          PROVE  ResetEnabled /\ time' + promise' <= holdUntil' /\ holdUntil' # 0
      <4>1. promise >= 1 /\ promise' = promise - 1
        BY <3>1, <3>2
      <4>2. (time + 1) + (promise - 1) <= holdUntil /\ holdUntil # 0 /\ ResetEnabled
        BY <4>1
      <4> QED BY <3>1, <4>1, <4>2
    <3> QED BY <3>1, <3>2
  <2>5. CASE Reset
    <3>1. time' = 0 /\ UNCHANGED <<promise, holdUntil>>
      BY <2>5 DEF Reset, requestVars, promiseVars
    <3>2. promise >= 0 => qpos' = "reset"
      BY <2>5 DEF Reset, ApplyResetState, requestVars, promiseVars
    <3>3. promise >= 0 => 0 + promise <= holdUntil
      OBVIOUS
    <3> QED BY <3>1, <3>2, <3>3
  <2> QED BY <2>1, <2>2, <2>3, <2>4, <2>5 DEF Next
<1>3. HoldInv => HeldAsPromised
  BY DEF HoldInv, HeldAsPromised
<1> QED BY <1>1, <1>2, <1>3, BridgeTypeCorrect, RequestsAccounted, PTL DEF Spec

\* ... and not longer, unless the simulation was restarted since.
THEOREM HoldReleased == Spec => []ReleasedAsPromised
<1> DEFINE Inv == ReleaseInv /\ ReleasedAsPromised
<1> USE FlagsAssumption, SizesAssumption
<1>1. Init => Inv
  BY DEF Init, ReleaseInv, ReleasedAsPromised
<1>2. TypeOK /\ ResetStateInv /\ Inv /\ [Next]_vars => Inv'
  <2> SUFFICES ASSUME TypeOK, ResetStateInv, Inv, [Next]_vars PROVE Inv'
    OBVIOUS
  <2> USE DEF TypeOK, ReleaseInv, ReleasedAsPromised
  <2>1. CASE HandleResetRequest \/ HandleRouteMarkers \/ UNCHANGED vars
    BY <2>1 DEF HandleResetRequest, HandleRouteMarkers, vars, loopVars, requestVars, promiseVars
  <2>2. CASE TakeRequest
    BY <2>2 DEF TakeRequest, requestVars, promiseVars
  <2>3. CASE Serve
    <3>1. CASE taken.has
      <4>1. holdUntil' = time + taken.hold /\ promise' = taken.hold /\ time' = time
        BY <2>3, <3>1 DEF Serve, ServeTaken, HoldEnd
      <4> QED BY <4>1
    <3>2. CASE ~taken.has
      <4>1. UNCHANGED <<holdUntil, promise, promisedIn, time>>
        BY <2>3, <3>2 DEF Serve, ServeTaken, HoldEnd
      <4>2. ASSUME promise < 0, qpos' = "reset", promisedIn = "this" PROVE time <= InitialHold
        <5>1. CASE Held
          BY <3>2, <4>2, <5>1 DEF Held, HoldEnd
        <5>2. CASE ~Held
          <6>1. pc = "serve" /\ qpos = "reset"
            BY <2>3, <3>2, <4>2, <5>2 DEF Serve, ServeTaken
          <6> QED BY <6>1 DEF ResetStateInv
        <5> QED BY <5>1, <5>2
      <4> QED BY <4>1, <4>2
    <3> QED BY <3>1, <3>2
  <2>4. CASE Step
    <3>1. /\ time' = time + 1 /\ holdUntil' = holdUntil /\ pc' = "take"
          /\ promisedIn' = promisedIn
          /\ promise' = IF promise >= 0 THEN promise - 1 ELSE promise
      BY <2>4 DEF Step, requestVars, promiseVars
    <3>2. CASE promise >= 1
      <4>1. promisedIn = "this" => holdUntil = (time + 1) + (promise - 1)
        BY <3>2
      <4> QED BY <3>1, <3>2, <4>1
    <3>3. CASE ~(promise >= 1)
      <4>1. promise' = -1
        BY <3>1, <3>3
      <4>2. promisedIn = "this" => holdUntil < time + 1 \/ holdUntil <= InitialHold
        BY <3>3
      <4> QED BY <3>1, <4>1, <4>2
    <3> QED BY <3>2, <3>3
  <2>5. CASE Reset
    BY <2>5 DEF Reset, requestVars, promiseVars
  <2> QED BY <2>1, <2>2, <2>3, <2>4, <2>5 DEF Next
<1> QED BY <1>1, <1>2, BridgeTypeCorrect, ResetStateShown, PTL DEF Spec

-----------------------------------------------------------------------------
(* The dots of the route *)

\* A quotient is what multiplies the divisor, when a rest below the divisor is left.
LEMMA QuotientUnique ==
  ASSUME NEW k \in Nat, k > 0, NEW q \in Nat, NEW r \in Nat, r < k
  PROVE  (q * k + r) \div k = q
<1> DEFINE x == q * k + r
           d == x \div k
<1>1. q * k \in Nat /\ x \in Nat
  OBVIOUS
<1> HIDE DEF x
<1>2. d \in Nat /\ k * d <= x /\ x < k * d + k
  BY <1>1
<1> HIDE DEF d
<1>3. k * d = d * k /\ d * k \in Nat /\ (q + 1) * k = q * k + k /\ (d + 1) * k = d * k + k
  BY <1>2
<1>4. ~(d + 1 <= q)
  <2> SUFFICES ASSUME d + 1 <= q PROVE FALSE
    OBVIOUS
  <2>1. (d + 1) * k <= q * k
    BY <1>2, ProductOrdered
  <2> QED BY <1>1, <1>2, <1>3, <2>1 DEF x
<1>5. ~(q + 1 <= d)
  <2> SUFFICES ASSUME q + 1 <= d PROVE FALSE
    OBVIOUS
  <2>1. (q + 1) * k <= d * k
    BY <1>2, ProductOrdered
  <2> QED BY <1>1, <1>2, <1>3, <2>1 DEF x
<1>6. d = q
  BY <1>2, <1>4, <1>5
<1> QED BY <1>6 DEF d, x

LEMMA QuotientOrdered ==
  ASSUME NEW k \in Nat, k > 0, NEW x \in Nat, NEW y \in Nat, x <= y
  PROVE  x \div k <= y \div k
<1> DEFINE a == x \div k
           b == y \div k
<1>1. a \in Nat /\ k * a <= x
  OBVIOUS
<1>2. b \in Nat /\ y < k * b + k
  OBVIOUS
<1> HIDE DEF a, b
<1>3. ~(b + 1 <= a)
  <2> SUFFICES ASSUME b + 1 <= a PROVE FALSE
    OBVIOUS
  <2>1. (b + 1) * k <= a * k
    BY <1>1, <1>2, ProductOrdered
  <2>2. (b + 1) * k = k * b + k /\ a * k = k * a /\ k * b \in Nat /\ k * a \in Nat
    BY <1>1, <1>2
  <2> QED BY <1>1, <1>2, <2>1, <2>2
<1> QED BY <1>1, <1>2, <1>3 DEF a, b

\* The first dot is at the first point of a route, the last at the last, and the
\* others in between in order.
LEMMA DotsSpread ==
  ASSUME NumDots > 1, NEW size \in Nat, size >= 2
  PROVE  /\ DotPoint(0, size) = 0
         /\ DotPoint(NumDots - 1, size) = size - 1
         /\ \A i \in 1 .. NumDots - 1 : DotPoint(i - 1, size) <= DotPoint(i, size)
<1> DEFINE k == NumDots - 1
           h == k \div 2
           m == size - 1
<1>1. k \in Nat /\ k > 0 /\ h \in Nat /\ h < k /\ m \in Nat
  BY SizesAssumption
<1>2. \A i : DotPoint(i, size) = (i * m + h) \div k
  BY DEF DotPoint
<1> HIDE DEF k, h, m
<1>3. DotPoint(0, size) = 0
  <2>1. (0 * k + h) \div k = 0
    BY <1>1, QuotientUnique
  <2>2. 0 * k + h = 0 * m + h
    BY <1>1
  <2> QED BY <1>2, <2>1, <2>2
<1>4. DotPoint(k, size) = m
  <2>1. (m * k + h) \div k = m
    BY <1>1, QuotientUnique
  <2>2. m * k = k * m
    BY <1>1
  <2> QED BY <1>2, <2>1, <2>2
<1>5. ASSUME NEW i \in 1 .. k
      PROVE  DotPoint(i - 1, size) <= DotPoint(i, size)
  <2>1. i \in Nat /\ i - 1 \in Nat /\ i - 1 <= i
    BY <1>1
  <2>2. (i - 1) * m \in Nat /\ i * m \in Nat /\ (i - 1) * m <= i * m
    BY <1>1, <2>1, ProductOrdered
  <2>3. (i - 1) * m + h \in Nat /\ i * m + h \in Nat /\ (i - 1) * m + h <= i * m + h
    BY <1>1, <2>2
  <2>4. ((i - 1) * m + h) \div k <= (i * m + h) \div k
    BY <1>1, <2>3, QuotientOrdered
  <2> QED BY <1>2, <2>4
<1> QED BY <1>3, <1>4, <1>5 DEF k, m

\* All dots are underground, or all are spread over one received route.
DotsInv ==
  \/ dots = [i \in Dots |-> -1]
  \/ \E size \in RouteSizes :
       size >= 2 /\ dots = [i \in Dots |-> DotPoint(i, size)]

\* However many dots the scene has, and however many points a route: the dots span
\* the whole route in order, of whichever route they were last spread over.
THEOREM DotsSpanTheRoute == Spec => []DotsSpanRoute
<1>1. Init => DotsInv
  BY DEF Init, DotsInv
<1>2. TypeOK /\ DotsInv /\ [Next]_vars => DotsInv'
  <2> SUFFICES ASSUME TypeOK, DotsInv, [Next]_vars, dots' # dots PROVE DotsInv'
    BY DEF DotsInv
  <2>1. Serve /\ PublishDue
    BY DEF Next, HandleResetRequest, HandleRouteMarkers, TakeRequest, Serve, ServeTaken,
           Step, Reset, vars, publishVars
  <2>2. dots' = [i \in Dots |-> IF routeSize < 2 THEN -1 ELSE DotPoint(i, routeSize)]
    BY <2>1 DEF Serve, ServeTaken, Publish
  <2>3. routeSize \in RouteSizes \cup {0} /\ routeSize \in Nat
    BY SizesAssumption DEF TypeOK
  <2>4. CASE routeSize < 2
    <3>1. dots' = [i \in Dots |-> -1]
      BY <2>2, <2>4
    <3> QED BY <3>1 DEF DotsInv
  <2>5. CASE ~(routeSize < 2)
    <3>1. dots' = [i \in Dots |-> DotPoint(i, routeSize)]
      BY <2>2, <2>5
    <3>2. routeSize \in RouteSizes /\ routeSize >= 2
      BY <2>3, <2>5
    <3> QED BY <3>1, <3>2 DEF DotsInv
  <2> QED BY <2>4, <2>5
<1>3. DotsInv => DotsSpanRoute
  <2> SUFFICES ASSUME DotsInv, NumDots > 1, dots[0] # -1
               PROVE  /\ dots[0] = 0
                      /\ \E size \in RouteSizes : dots[NumDots - 1] = size - 1
                      /\ \A i \in 1 .. NumDots - 1 : dots[i-1] <= dots[i]
    BY DEF DotsSpanRoute
  <2>1. /\ 0 \in Dots /\ NumDots - 1 \in Dots
        /\ \A i \in 1 .. NumDots - 1 : i \in Dots /\ i - 1 \in Dots
    BY SizesAssumption DEF Dots
  <2>2. PICK size \in RouteSizes :
          size >= 2 /\ dots = [i \in Dots |-> DotPoint(i, size)]
    BY <2>1 DEF DotsInv
  <2>3. size \in Nat
    BY SizesAssumption
  <2>4. \A i \in Dots : dots[i] = DotPoint(i, size)
    BY <2>2
  <2> QED BY <2>1, <2>2, <2>3, <2>4, DotsSpread
<1> QED BY <1>1, <1>2, <1>3, BridgeTypeCorrect, PTL DEF Spec
=============================================================================
