----------------------- MODULE StandbyControllerProofs -----------------------
(***************************************************************************)
(* Theorems about StandbyController, for every configuration, every order  *)
(* of the claimed interfaces, every ramp and every bound.                  *)
(***************************************************************************)
EXTENDS StandbyController, TLAPS, WellFoundedInduction

\* A non-empty set of calls has a last one.
LEMMA MaximumExists ==
  ASSUME NEW N \in Nat, NEW S \in SUBSET (1 .. N), S # {}
  PROVE  \E m \in S : \A k \in S : k <= m
<1> DEFINE Less == {p \in Nat \X Nat : p[1] < p[2]}
           Distances == {N - k : k \in S}
<1>1. IsWellFoundedOn(Less, Nat)
  BY NatLessThanWellFounded DEF OpToRel
<1>2. Distances \subseteq Nat
  OBVIOUS
<1>3. Distances # {}
  OBVIOUS
<1>4. PICK x \in Distances : \A y \in Distances : <<y, x>> \notin Less
  <2> HIDE DEF Less, Distances
  <2> QED BY <1>1, <1>2, <1>3, WFMin
<1>5. PICK m \in S : x = N - m
  OBVIOUS
<1>6. ASSUME NEW k \in S PROVE k <= m
  <2>1. <<N - k, x>> \notin Less
    BY <1>4
  <2>2. N - k \in Nat /\ x \in Nat
    BY <1>2
  <2> QED BY <2>1, <2>2, <1>5
<1> QED BY <1>6

LEMMA LastOfCalls ==
  ASSUME NEW calls \in SUBSET Calls, calls # {}, NumCalls \in Nat
  PROVE  LastOf(calls) \in calls /\ \A m \in calls : m <= LastOf(calls)
<1>1. \E n \in calls : \A m \in calls : m <= n
  BY MaximumExists DEF Calls
<1> QED BY <1>1 DEF LastOf

\* What holds of the parameters once on_configure has accepted them.
LEMMA Accepted ==
  ASSUME config \in Config
  PROVE  /\ NumJoints \in Nat
         /\ NumCalls \in Nat /\ NumCalls = NumJoints * 5
         /\ \A i \in 1 .. NumJoints : config.joints[i] \in Joints
  BY DEF Config, NumJoints, NumCalls, Kinds

LEMMA CallFacts ==
  ASSUME config \in Config, NEW n \in Calls
  PROVE  /\ CallJoint(n) \in 1 .. NumJoints
         /\ \E k \in 1 .. 5 : n = 5 * (CallJoint(n) - 1) + k /\ CallKind(n) = Kinds[k]
         /\ CallInterface(n) \in Interfaces
<1>1. n \in Int /\ 1 <= n /\ n <= 5 * NumJoints /\ NumJoints \in Nat
  BY Accepted DEF Calls
<1>2. Len(Kinds) = 5 /\ \A k \in 1 .. 5 : k \in DOMAIN Kinds
  BY DEF Kinds
<1>3. CallJoint(n) \in 1 .. NumJoints
  BY <1>1, <1>2 DEF CallJoint
<1>4. /\ ((n - 1) % 5) + 1 \in 1 .. 5
      /\ n = 5 * (CallJoint(n) - 1) + ((n - 1) % 5) + 1
  BY <1>1, <1>2 DEF CallJoint
<1>5. CallKind(n) = Kinds[((n - 1) % 5) + 1]
  BY <1>2 DEF CallKind
<1>6. CallInterface(n) \in Interfaces
  BY <1>2, <1>3, <1>4, <1>5, Accepted DEF CallInterface, Interfaces
<1>7. \E k \in 1 .. 5 : n = 5 * (CallJoint(n) - 1) + k /\ CallKind(n) = Kinds[k]
  <2> DEFINE k == ((n - 1) % 5) + 1
  <2>1. k \in 1 .. 5 /\ n = 5 * (CallJoint(n) - 1) + k /\ CallKind(n) = Kinds[k]
    BY <1>1, <1>3, <1>4, <1>5
  <2> HIDE DEF k
  <2> QED BY <2>1
<1> QED BY <1>3, <1>6, <1>7

-----------------------------------------------------------------------------
(* The index *)

\* An index that is complete finds every interface where it is claimed.
IndexFinds(places) ==
  /\ \A n \in Calls : CallInterface(n) \in DOMAIN places
  /\ \A i \in DOMAIN places : claimed[places[i]] = i

\* Until the interfaces are lent again, the index that has been built is complete.
IndexInv ==
  /\ lifecycle = "active" /\ indexBuilt => IndexFinds(index)
  /\ lifecycle \in {"inactive", "active"} => WellFormed(config)

LEMMA BuiltIndexFinds ==
  \A i \in DOMAIN BuiltIndex : BuiltIndex[i] \in DOMAIN claimed /\ claimed[BuiltIndex[i]] = i
  BY DEF BuiltIndex

LEMMA UsedIndexFinds ==
  ASSUME IndexInv, lifecycle = "active", indexBuilt \/ IndexComplete
  PROVE  IndexFinds(UsedIndex)
<1>1. CASE indexBuilt
  BY <1>1 DEF IndexInv, UsedIndex
<1>2. CASE ~indexBuilt
  BY <1>2, BuiltIndexFinds DEF UsedIndex, IndexComplete, IndexFinds
<1> QED BY <1>1, <1>2

\* With such an index every call is made, and sets the interface it is meant for.
LEMMA EveryCallIsMade ==
  ASSUME NEW places, IndexFinds(places), NEW i
  PROVE  CallsTo(places, i) = {n \in Calls : CallInterface(n) = i}
  BY DEF CallsTo, CallsMade, IndexFinds

LEMMA IndexInvInit == Init => IndexInv
  BY DEF Init, IndexInv

LEMMA IndexInvNext == IndexInv /\ [Next]_vars => IndexInv'
<1> SUFFICES ASSUME IndexInv, [Next]_vars PROVE IndexInv'
  OBVIOUS
<1>1. CASE Configure
  BY <1>1 DEF Configure, IndexInv, WellFormed
<1>2. CASE Activate
  BY <1>2 DEF Activate, NewIndex, IndexInv, WellFormed
<1>3. CASE ActivateFails
  BY <1>3 DEF ActivateFails, IndexInv
<1>4. CASE Leave
  BY <1>4 DEF Leave, IndexInv, WellFormed
<1>5. CASE UpdateThrows
  BY <1>5 DEF UpdateThrows, IndexInv, WellFormed
<1>6. CASE Update
  <2>1. IndexFinds(UsedIndex)
    BY <1>6, UsedIndexFinds DEF Update
  <2>2. index' = UsedIndex /\ UNCHANGED <<config, claimed, lifecycle>>
    BY <1>6 DEF Update
  <2>3. IndexFinds(index)'
    BY <2>1, <2>2 DEF IndexFinds, Calls, NumCalls, NumJoints, CallInterface, CallJoint, CallKind
  <2> QED BY <2>2, <2>3 DEF IndexInv, WellFormed
<1>7. CASE Tick \/ Restart \/ UNCHANGED vars
  <2>1. UNCHANGED <<lifecycle, config, claimed, index, indexBuilt>>
    BY <1>7 DEF Tick, Restart, vars, rampVars, indexVars, commandVars
  <2>2. IndexFinds(index)' = IndexFinds(index)
    BY <2>1 DEF IndexFinds, Calls, NumCalls, NumJoints, CallInterface, CallJoint, CallKind
  <2> QED BY <2>1, <2>2 DEF IndexInv, WellFormed
<1> QED BY <1>1, <1>2, <1>3, <1>4, <1>5, <1>6, <1>7 DEF Next

LEMMA IndexInvHolds == Spec => []IndexInv
  BY IndexInvInit, IndexInvNext, PTL DEF Spec

-----------------------------------------------------------------------------
(* Types *)

LEMMA ScaleIsPositive == Scale \in Nat \ {0}
  BY TimesAssumption DEF Scale

LEMMA AlphaRange == \A elapsed \in Int : Alpha(elapsed) \in 0 .. Scale
  BY TimesAssumption DEF Alpha, Scale

LEMMA CallValueType ==
  ASSUME TypeOK, IndexInv, lifecycle = "active", NEW n \in Calls, NEW elapsed \in Int
  PROVE  CallValue(n, elapsed) \in Int
<1>1. config \in Config /\ WellFormed(config) /\ start \in Seq(Int) /\ Len(start) = NumJoints
  BY ConfigsAssumption DEF TypeOK, IndexInv
<1>2. CallJoint(n) \in 1 .. NumJoints /\ \E k \in 1 .. 5 : CallKind(n) = Kinds[k]
  BY <1>1, CallFacts
<1>3. /\ start[CallJoint(n)] \in Int
      /\ config.default[CallJoint(n)] \in Int
      /\ config.kp[CallJoint(n)] \in Int
      /\ config.kd[CallJoint(n)] \in Int
  BY <1>1, <1>2 DEF Config, WellFormed, NumJoints
<1>4. RampTarget(CallJoint(n), elapsed) \in Int
  BY <1>3, ScaleIsPositive, AlphaRange DEF RampTarget
<1>5. CallKind(n) \in {"position", "velocity", "effort", "stiffness", "damping"}
  BY <1>2 DEF Kinds
<1> QED BY <1>3, <1>4, <1>5 DEF CallValue

LEMMA UpdateType == TypeOK /\ IndexInv /\ Update => TypeOK'
<1> SUFFICES ASSUME TypeOK, IndexInv, Update PROVE TypeOK'
  OBVIOUS
<1> USE DEF TypeOK
<1>1. lifecycle = "active" /\ config \in Config /\ RampStart \in 0 .. MaxTime
  BY ConfigsAssumption DEF Update, RampStart
<1>2. IndexFinds(UsedIndex)
  BY UsedIndexFinds DEF Update
<1>3. DOMAIN UsedIndex \subseteq Interfaces /\ UsedIndex \in [DOMAIN UsedIndex -> Nat]
  BY ClaimsAssumption DEF UsedIndex, BuiltIndex
<1>4. commands' \in [Interfaces -> Int]
  <2>1. ASSUME NEW i \in Interfaces, CallsTo(UsedIndex, i) # {}
        PROVE  CallValue(LastOf(CallsTo(UsedIndex, i)), clock - RampStart) \in Int
    <3>1. CallsTo(UsedIndex, i) \subseteq Calls
      BY <1>2, EveryCallIsMade
    <3>2. LastOf(CallsTo(UsedIndex, i)) \in Calls
      BY <1>1, <2>1, <3>1, LastOfCalls, Accepted
    <3> QED BY <1>1, <3>2, CallValueType, TimesAssumption
  <2> QED BY <2>1 DEF Update
<1>5. touched' \subseteq Interfaces
  BY DEF Update
<1> QED BY <1>1, <1>3, <1>4, <1>5 DEF Update, NumJoints

\* Every variable of the controller keeps its type: arrays stay as long as the joints, times
\* in range, and every interface has a numeric command.
THEOREM StandbyTypeCorrect == Spec => []TypeOK
<1>1. Init => TypeOK
  <2> SUFFICES ASSUME Init PROVE TypeOK
    OBVIOUS
  <2>1. index \in [{} -> Nat] /\ DOMAIN index = {} /\ measured \in [{} -> Positions] /\ DOMAIN measured = {}
    BY DEF Init
  <2>2. commands \in [Interfaces -> Int] /\ start \in Seq(Int)
    BY DEF Init
  <2>3. /\ lifecycle = "unconfigured" /\ config \in Configs /\ claimed \in ClaimOrders
        /\ firstUpdate \in BOOLEAN /\ indexBuilt \in BOOLEAN /\ touched = {}
    BY DEF Init
  <2>4. clock = 0 /\ startTime = 0 /\ commandedAt = 0 /\ activations = 0
    BY DEF Init
  <2>5. 0 \in 0 .. MaxTime /\ 0 \in 0 .. MaxActivations
    BY TimesAssumption
  <2> QED BY <2>1, <2>2, <2>3, <2>4, <2>5 DEF TypeOK
<1>2. TypeOK /\ IndexInv /\ [Next]_vars => TypeOK'
  <2> SUFFICES ASSUME TypeOK, IndexInv, [Next]_vars PROVE TypeOK'
    OBVIOUS
  <2>1. CASE Configure
    BY <2>1, ConfigsAssumption
    DEF Configure, TypeOK, WellFormed, NumJoints, Config, indexVars, commandVars
  <2>2. CASE Activate
    <3>1. start' \in Seq(Int) /\ Len(start') = NumJoints
      <4>1. config \in Config /\ WellFormed(config)
        BY <2>2, ConfigsAssumption DEF Activate, TypeOK, IndexInv
      <4>2. \A i \in 1 .. NumJoints : measured'[config.joints[i]] \in Int
        BY <2>2, TimesAssumption DEF Activate
      <4>3. NumJoints \in Nat
        BY <4>1, Accepted
      <4>4. [i \in 1 .. NumJoints |-> measured'[config.joints[i]]] \in Seq(Int)
        BY <4>2, <4>3
      <4> QED BY <2>2, <4>1, <4>3, <4>4 DEF Activate, Config, WellFormed, NumJoints
    <3>2. DOMAIN measured' \subseteq Joints /\ measured' \in [DOMAIN measured' -> Positions]
      BY <2>2, ConfigsAssumption, Accepted DEF Activate, TypeOK
    <3>3. activations' \in 0 .. MaxActivations /\ claimed' \in ClaimOrders /\ touched' = {}
      BY <2>2, TimesAssumption DEF Activate, TypeOK
    <3>4. /\ firstUpdate' \in BOOLEAN /\ indexBuilt' \in BOOLEAN /\ lifecycle' = "active"
          /\ UNCHANGED <<clock, config, startTime, index, commands, commandedAt>>
      BY <2>2 DEF Activate, NewRamp, NewIndex
    <3> HIDE <2>2
    <3> QED BY <3>1, <3>2, <3>3, <3>4 DEF TypeOK, NumJoints
  <2>3. CASE ActivateFails \/ Leave
    BY <2>3 DEF ActivateFails, Leave, TypeOK, NumJoints, rampVars, indexVars, commandVars
  <2>4. CASE UpdateThrows
    <3>1. DOMAIN BuiltIndex \subseteq Interfaces /\ BuiltIndex \in [DOMAIN BuiltIndex -> Nat]
      BY ClaimsAssumption DEF BuiltIndex, TypeOK
    <3> QED BY <2>4, <3>1 DEF UpdateThrows, TypeOK, NumJoints, rampVars, commandVars
  <2>5. CASE Update
    BY <2>5, UpdateType
  <2>6. CASE Tick \/ Restart
    BY <2>6, TimesAssumption
    DEF Tick, Restart, TypeOK, NumJoints, rampVars, indexVars, commandVars
  <2>7. CASE UNCHANGED vars
    BY <2>7 DEF vars, TypeOK, NumJoints
  <2> QED BY <2>1, <2>2, <2>3, <2>4, <2>5, <2>6, <2>7 DEF Next
<1> QED BY <1>1, <1>2, IndexInvHolds, PTL DEF Spec

-----------------------------------------------------------------------------
(* What is commanded *)

\* Either none or all of the interfaces of the controlled joints have been commanded in
\* an activation: buildCommandIndex throws before the first setCommand.
THEOREM AllOrNothingHolds == Spec => []AllOrNothing
<1>1. Init => AllOrNothing
  BY DEF Init, AllOrNothing
<1>2. TypeOK /\ IndexInv /\ AllOrNothing /\ [Next]_vars => AllOrNothing'
  <2> SUFFICES ASSUME TypeOK, IndexInv, AllOrNothing, [Next]_vars PROVE AllOrNothing'
    OBVIOUS
  <2>1. CASE Update
    <3>1. IndexFinds(UsedIndex)
      BY <2>1, UsedIndexFinds DEF Update
    <3>2. {i \in Interfaces : CallsTo(UsedIndex, i) # {}} = {CallInterface(n) : n \in Calls}
      <4>1. \A n \in Calls : CallInterface(n) \in Interfaces
        BY CallFacts, ConfigsAssumption DEF TypeOK
      <4> QED BY <3>1, <4>1, EveryCallIsMade
    <3>3. touched' = touched \cup {CallInterface(n) : n \in Calls} /\ lifecycle = "active"
      BY <2>1, <3>2 DEF Update
    <3>4. UNCHANGED config
      BY <2>1 DEF Update
    <3>5. {CallInterface(n) : n \in Calls}' = {CallInterface(n) : n \in Calls}
      BY <3>4 DEF Calls, NumCalls, NumJoints, CallInterface, CallJoint, CallKind
    <3> QED BY <3>3, <3>5 DEF AllOrNothing
  <2>2. CASE Activate
    BY <2>2 DEF Activate, AllOrNothing
  <2>3. CASE Configure \/ ActivateFails \/ Leave \/ UpdateThrows
    BY <2>3 DEF Configure, ActivateFails, Leave, UpdateThrows, AllOrNothing
  <2>4. CASE Tick \/ Restart \/ UNCHANGED vars
    <3>1. UNCHANGED <<lifecycle, config, touched>>
      BY <2>4 DEF Tick, Restart, vars, commandVars
    <3>2. {CallInterface(n) : n \in Calls}' = {CallInterface(n) : n \in Calls}
      BY <3>1 DEF Calls, NumCalls, NumJoints, CallInterface, CallJoint, CallKind
    <3> QED BY <3>1, <3>2 DEF AllOrNothing
  <2> QED BY <2>1, <2>2, <2>3, <2>4 DEF Next
<1> QED BY <1>1, <1>2, IndexInvHolds, StandbyTypeCorrect, PTL DEF Spec

DistinctJoints ==
  \A c \in Configs : \A i, j \in 1 .. Len(c.joints) : c.joints[i] = c.joints[j] => i = j

\* The ramp starts at the pose of this activation.
StartInv ==
  lifecycle = "active" =>
    start = IF config.reset THEN config.default
            ELSE [i \in 1 .. NumJoints |-> measured[config.joints[i]]]

LEMMA StartInvHolds == Spec => []StartInv
<1>1. Init => StartInv
  BY DEF Init, StartInv
<1>2. StartInv /\ [Next]_vars => StartInv'
  BY DEF StartInv, Next, Configure, Activate, ActivateFails, Leave, Update, UpdateThrows,
    Tick, Restart, vars, rampVars, indexVars, commandVars, NumJoints
<1> QED BY <1>1, <1>2, PTL DEF Spec

LEMMA ProductsOrdered ==
  ASSUME NEW p \in Nat, NEW x \in Int, NEW y \in Int, x <= y
  PROVE  p * x <= p * y
  OBVIOUS

LEMMA OnTheWay ==
  ASSUME NEW from \in Int, NEW to \in Int, NEW whole \in Nat, NEW part \in 0 .. whole
  PROVE  Between((whole - part) * from + part * to, whole * to, whole * from)
<1> DEFINE rest == whole - part
<1>1. rest \in Nat /\ part \in Nat
  OBVIOUS
<1>2. whole * to = rest * to + part * to /\ whole * from = rest * from + part * from
  OBVIOUS
<1>3. CASE from <= to
  BY <1>1, <1>2, <1>3, ProductsOrdered DEF Between
<1>4. CASE to <= from
  BY <1>1, <1>2, <1>4, ProductsOrdered DEF Between
<1> QED BY <1>3, <1>4

\* An update commands every interface once, with the value of its joint and kind.
LEMMA CommandOfJoint ==
  ASSUME TypeOK, IndexInv, Update, DistinctJoints,
         NEW i \in 1 .. NumJoints, NEW k \in 1 .. 5
  PROVE  \E n \in Calls :
           /\ CallJoint(n) = i /\ CallKind(n) = Kinds[k]
           /\ commands'[<<config.joints[i], Kinds[k]>>] = CallValue(n, clock - RampStart)
<1> DEFINE call == 5 * (i - 1) + k
           interface == <<config.joints[i], Kinds[k]>>
<1>1. config \in Config /\ NumJoints = Len(config.joints) /\ NumJoints \in Nat
  BY ConfigsAssumption, Accepted DEF TypeOK, NumJoints
<1>2. call \in Calls
  BY <1>1, Accepted DEF Calls
<1>3. CallJoint(call) = i /\ CallKind(call) = Kinds[k]
  <2>1. Len(Kinds) = 5
    BY DEF Kinds
  <2>2. (call - 1) \div 5 = i - 1 /\ (call - 1) % 5 = k - 1
    BY <1>1
  <2> QED BY <1>1, <2>1, <2>2 DEF CallJoint, CallKind
<1>4. CallInterface(call) = interface
  BY <1>3 DEF CallInterface
<1>5. interface \in Interfaces
  BY <1>1, <1>2, <1>4, CallFacts
<1>6. ASSUME NEW n \in Calls, CallInterface(n) = interface
      PROVE  n = call
  <2>1. CallJoint(n) \in 1 .. NumJoints /\ config.joints[CallJoint(n)] = config.joints[i]
    BY <1>1, <1>6, CallFacts DEF CallInterface
  <2>2. CallJoint(n) = i
    BY <1>1, <2>1 DEF DistinctJoints, TypeOK
  <2>3. PICK l \in 1 .. 5 : n = 5 * (CallJoint(n) - 1) + l /\ CallKind(n) = Kinds[l]
    BY <1>1, CallFacts
  <2>4. Kinds[l] = Kinds[k]
    BY <1>6, <2>3 DEF CallInterface
  <2>5. l = k
    BY <2>4 DEF Kinds
  <2> QED BY <2>2, <2>3, <2>5
<1>7. CallsTo(UsedIndex, interface) = {call}
  <2> HIDE DEF call, interface
  <2>1. IndexFinds(UsedIndex)
    BY UsedIndexFinds DEF Update
  <2>2. CallsTo(UsedIndex, interface) = {n \in Calls : CallInterface(n) = interface}
    BY <2>1, EveryCallIsMade
  <2> QED BY <1>2, <1>4, <1>6, <2>2
<1>8. LastOf({call}) = call
  BY <1>2, <1>1, Accepted DEF LastOf, Calls
<1>9. commands'[interface] = CallValue(call, clock - RampStart)
  <2> HIDE DEF call, interface
  <2> QED BY <1>5, <1>7, <1>8 DEF Update
<1> HIDE DEF call
<1> QED BY <1>2, <1>3, <1>9

\* However the interfaces are claimed and the joints configured, if no joint is named
\* twice: an activation commands every joint its own gains, and a position on the way
\* from where it was measured to its own default position.
THEOREM EveryJointOnItsWay == DistinctJoints => (Spec => []CommandsOwnJoint)
<1> SUFFICES ASSUME DistinctJoints PROVE Spec => []CommandsOwnJoint
  OBVIOUS
<1>1. Init => CommandsOwnJoint
  BY DEF Init, CommandsOwnJoint, Commanding
<1>2. TypeOK /\ IndexInv /\ StartInv /\ CommandsOwnJoint /\ [Next]_vars => CommandsOwnJoint'
  <2> SUFFICES ASSUME TypeOK, IndexInv, StartInv, CommandsOwnJoint, [Next]_vars
               PROVE  CommandsOwnJoint'
    OBVIOUS
  <2>1. CASE Update
    <3>1. /\ lifecycle = "active" /\ config \in Config /\ WellFormed(config)
          /\ UNCHANGED <<config, measured>> /\ clock - RampStart \in Int
      BY <2>1, ConfigsAssumption, TimesAssumption DEF Update, TypeOK, IndexInv, RampStart
    <3>2. ASSUME NEW i \in 1 .. NumJoints
          PROVE  /\ commands'[<<config.joints[i], "stiffness">>] = config.kp[i]
                 /\ commands'[<<config.joints[i], "damping">>] = config.kd[i]
                 /\ Between(commands'[<<config.joints[i], "position">>],
                            Scale * config.default[i],
                            Scale * IF config.reset THEN config.default[i]
                                    ELSE measured[config.joints[i]])
      <4>0. \A k \in 1 .. 5 : \E n \in Calls :
              /\ CallJoint(n) = i /\ CallKind(n) = Kinds[k]
              /\ commands'[<<config.joints[i], Kinds[k]>>] = CallValue(n, clock - RampStart)
        <5> TAKE k \in 1 .. 5
        <5> QED BY <2>1, CommandOfJoint, Zenon
      <4>1. commands'[<<config.joints[i], "stiffness">>] = config.kp[i]
        <5>1. PICK n \in Calls :
                /\ CallJoint(n) = i /\ CallKind(n) = Kinds[4]
                /\ commands'[<<config.joints[i], Kinds[4]>>] = CallValue(n, clock - RampStart)
          BY <4>0
        <5> QED BY <5>1 DEF Kinds, CallValue
      <4>2. commands'[<<config.joints[i], "damping">>] = config.kd[i]
        <5>1. PICK n \in Calls :
                /\ CallJoint(n) = i /\ CallKind(n) = Kinds[5]
                /\ commands'[<<config.joints[i], Kinds[5]>>] = CallValue(n, clock - RampStart)
          BY <4>0
        <5> QED BY <5>1 DEF Kinds, CallValue
      <4>3. commands'[<<config.joints[i], "position">>] = RampTarget(i, clock - RampStart)
        <5>1. PICK n \in Calls :
                /\ CallJoint(n) = i /\ CallKind(n) = Kinds[1]
                /\ commands'[<<config.joints[i], Kinds[1]>>] = CallValue(n, clock - RampStart)
          BY <4>0
        <5> QED BY <5>1 DEF Kinds, CallValue
      <4>4. start[i] = IF config.reset THEN config.default[i] ELSE measured[config.joints[i]]
        BY <3>1 DEF StartInv
      <4>5. start[i] \in Int /\ config.default[i] \in Int
        BY <3>1 DEF Config, WellFormed, NumJoints, TypeOK
      <4>6. Alpha(clock - RampStart) \in 0 .. Scale /\ Scale \in Nat
        BY <3>1, AlphaRange, ScaleIsPositive
      <4>7. Between(RampTarget(i, clock - RampStart), Scale * config.default[i], Scale * start[i])
        BY <4>5, <4>6, OnTheWay DEF RampTarget
      <4> QED BY <4>1, <4>2, <4>3, <4>4, <4>7
    <3> QED BY <3>1, <3>2 DEF CommandsOwnJoint, Position, NumJoints, Scale
  <2>2. CASE Activate
    BY <2>2 DEF Activate, NewRamp, CommandsOwnJoint, Commanding
  <2>3. CASE Configure \/ ActivateFails \/ Leave
    BY <2>3 DEF Configure, ActivateFails, Leave, CommandsOwnJoint, Commanding
  <2>4. CASE UpdateThrows \/ Tick \/ Restart \/ UNCHANGED vars
    BY <2>4 DEF UpdateThrows, Tick, Restart, vars, rampVars, commandVars, CommandsOwnJoint,
      Commanding, Position, NumJoints, Scale
  <2> QED BY <2>1, <2>2, <2>3, <2>4 DEF Next
<1> QED BY <1>1, <1>2, StandbyTypeCorrect, IndexInvHolds, StartInvHolds, PTL DEF Spec

-----------------------------------------------------------------------------
(* A command moves a joint no further than the ramp has risen since the last. *)

LEMMA AlphaSteady ==
  ASSUME NEW e \in Int, NEW f \in Int, e <= f
  PROVE  Alpha(e) <= Alpha(f) /\ (TotalTime > 0 => Alpha(f) - Alpha(e) <= f - e)
  BY TimesAssumption DEF Alpha

LEMMA RampStep ==
  ASSUME NEW from \in Int, NEW to \in Int, NEW whole \in Nat,
         NEW a \in 0 .. whole, NEW b \in 0 .. whole, NEW t \in Nat, a <= b, b - a <= t
  PROVE  Abs(((whole - b) * from + b * to) - ((whole - a) * from + a * to))
           <= t * Abs(to - from)
<1> DEFINE moved == ((whole - b) * from + b * to) - ((whole - a) * from + a * to)
           rise == b - a
<1>1. rise \in Nat /\ rise <= t
  OBVIOUS
<1>2. moved = rise * (to - from) /\ -moved = rise * (from - to)
  OBVIOUS
<1> HIDE DEF moved, rise
<1>3. CASE from <= to
  <2> DEFINE way == to - from
  <2>1. way \in Nat /\ Abs(to - from) = way
    BY <1>3 DEF Abs
  <2>2. moved = way * rise
    BY <1>1, <1>2
  <2> HIDE DEF way
  <2>3. way * 0 <= way * rise /\ way * rise <= way * t
    BY <1>1, <2>1, ProductsOrdered
  <2>4. Abs(moved) = moved
    BY <1>1, <2>1, <2>2, <2>3 DEF Abs
  <2> QED BY <1>1, <2>1, <2>2, <2>3, <2>4 DEF moved
<1>4. CASE ~(from <= to)
  <2> DEFINE way == from - to
  <2>1. way \in Nat /\ Abs(to - from) = way
    BY <1>4 DEF Abs
  <2>2. -moved = way * rise /\ moved \in Int
    BY <1>1, <1>2
  <2> HIDE DEF way
  <2>3. way * 0 <= way * rise /\ way * rise <= way * t
    BY <1>1, <2>1, ProductsOrdered
  <2>4. Abs(moved) = -moved
    <3>1. -moved >= 0
      BY <1>1, <2>1, <2>2, <2>3
    <3>2. moved = 0 \/ moved < 0
      BY <2>2, <3>1
    <3> QED BY <2>2, <3>2 DEF Abs
  <2> QED BY <1>1, <2>1, <2>2, <2>3, <2>4 DEF moved
<1> QED BY <1>3, <1>4

\* Makes NoJump inductive: what was commanded last is the ramp at the time of the
\* last command, and an activation that has not commanded has a ramp to start.
RampInv ==
  lifecycle = "active" =>
    /\ touched = {} => firstUpdate
    /\ touched # {} =>
         /\ ~firstUpdate
         /\ \A i \in 1 .. NumJoints : Position(i) = RampTarget(i, commandedAt - startTime)

LEMMA UpdatePositions ==
  ASSUME TypeOK, IndexInv, Update, DistinctJoints, NEW i \in 1 .. NumJoints
  PROVE  Position(i)' = RampTarget(i, clock - RampStart)
<1>1. 1 \in 1 .. 5 /\ Kinds[1] = "position"
  BY DEF Kinds
<1>2. PICK n \in Calls :
        /\ CallJoint(n) = i /\ CallKind(n) = Kinds[1]
        /\ commands'[<<config.joints[i], Kinds[1]>>] = CallValue(n, clock - RampStart)
  BY <1>1, CommandOfJoint
<1>3. CallValue(n, clock - RampStart) = RampTarget(i, clock - RampStart)
  BY <1>1, <1>2 DEF CallValue
<1> QED BY <1>1, <1>2, <1>3 DEF Position, Update

LEMMA UpdateTouches ==
  ASSUME TypeOK, IndexInv, Update
  PROVE  touched' # {}
<1>1. config \in Config /\ WellFormed(config)
  BY ConfigsAssumption DEF TypeOK, IndexInv, Update
<1>2. NumJoints \in Nat \ {0}
  BY <1>1 DEF Config, WellFormed, NumJoints
<1>3. 1 \in Calls
  BY <1>1, <1>2, Accepted DEF Calls
<1>4. CallInterface(1) \in Interfaces
  BY <1>1, <1>3, CallFacts
<1>5. IndexFinds(UsedIndex)
  BY UsedIndexFinds DEF Update
<1>6. 1 \in CallsTo(UsedIndex, CallInterface(1))
  BY <1>3, <1>5, EveryCallIsMade
<1> QED BY <1>4, <1>6 DEF Update

LEMMA RampInvNext ==
  ASSUME DistinctJoints, TypeOK, IndexInv, RampInv, [Next]_vars
  PROVE  RampInv'
<1>1. CASE Update
  <2>1. /\ UNCHANGED <<lifecycle, config, start>> /\ ~firstUpdate'
        /\ commandedAt' = clock /\ startTime' = RampStart
    BY <1>1 DEF Update
  <2>2. touched' # {}
    BY <1>1, UpdateTouches
  <2>3. ASSUME NEW i \in 1 .. NumJoints
        PROVE  Position(i)' = RampTarget(i, commandedAt - startTime)'
    <3>1. Position(i)' = RampTarget(i, clock - RampStart)
      BY <1>1, UpdatePositions
    <3> QED BY <2>1, <3>1 DEF RampTarget, Alpha, Scale
  <2> QED BY <2>1, <2>2, <2>3 DEF RampInv, NumJoints
<1>2. CASE Activate
  BY <1>2 DEF Activate, NewRamp, RampInv
<1>3. CASE Configure \/ ActivateFails \/ Leave
  BY <1>3 DEF Configure, ActivateFails, Leave, RampInv
<1>4. CASE UpdateThrows \/ Tick \/ Restart \/ UNCHANGED vars
  BY <1>4 DEF UpdateThrows, Tick, Restart, vars, rampVars, commandVars, RampInv, Position,
    NumJoints, RampTarget, Alpha, Scale
<1> QED BY <1>1, <1>2, <1>3, <1>4 DEF Next

\* However the interfaces are claimed, the joints configured and the updates timed, if
\* no joint is named twice: the first command of an activation that does not start from
\* the default pose (config.reset) leaves a joint where it was measured, and none that
\* follows another moves it faster than the ramp, unless the clock was set back between
\* the two.  Then the code goes back on the ramp, to the start pose at the earliest.
THEOREM NeverJumps == DistinctJoints => (Spec => NoJump)
<1> SUFFICES ASSUME DistinctJoints PROVE Spec => NoJump
  OBVIOUS
<1> DEFINE Step(i) ==
      IF touched = {}
      THEN config.reset \/ Position(i)' = Scale * measured[config.joints[i]]
      ELSE clock >= commandedAt =>
             Abs(Position(i)' - Position(i)) <=
               (clock - commandedAt) * Abs(config.default[i] - start[i])
<1>1. Init => RampInv
  BY DEF Init, RampInv
<1>2. TypeOK /\ IndexInv /\ RampInv /\ [Next]_vars => RampInv'
  BY RampInvNext
<1>3. ASSUME TypeOK, IndexInv, StartInv, RampInv, Update, TotalTime > 0,
             NEW i \in 1 .. NumJoints
      PROVE  Step(i)
  <2>1. /\ lifecycle = "active" /\ config \in Config /\ WellFormed(config)
        /\ clock \in Nat /\ startTime \in Nat /\ commandedAt \in Nat
    BY <1>3, ConfigsAssumption, TimesAssumption DEF Update, TypeOK, IndexInv
  <2>2. start[i] = IF config.reset THEN config.default[i] ELSE measured[config.joints[i]]
    BY <1>3, <2>1 DEF StartInv
  <2>3. start[i] \in Int /\ config.default[i] \in Int
    BY <1>3, <2>1 DEF Config, WellFormed, NumJoints, TypeOK
  <2>4. Scale \in Nat /\ Scale = TotalTime
    BY <1>3, TimesAssumption DEF Scale
  <2>5. Position(i)' = RampTarget(i, clock - RampStart)
    BY <1>3, UpdatePositions
  <2>6. CASE touched = {}
    <3>1. RampStart = clock
      BY <1>3, <2>1, <2>6 DEF RampInv, RampStart
    <3>2. Alpha(clock - RampStart) = 0
      BY <1>3, <2>1, <3>1, TimesAssumption DEF Alpha
    <3>3. Position(i)' = Scale * start[i]
      BY <2>3, <2>4, <2>5, <3>2 DEF RampTarget
    <3> QED BY <2>2, <2>6, <3>3
  <2>7. CASE touched # {} /\ clock >= commandedAt
    <3> DEFINE e == commandedAt - startTime
               f == clock - startTime
    <3>1. RampStart = startTime /\ Position(i) = RampTarget(i, e)
      BY <1>3, <2>1, <2>7 DEF RampInv, RampStart
    <3>2. e \in Int /\ f \in Int /\ e <= f /\ f - e = clock - commandedAt /\ clock - commandedAt \in Nat
      BY <2>1, <2>7
    <3> HIDE DEF e, f
    <3>3. Alpha(e) <= Alpha(f) /\ Alpha(f) - Alpha(e) <= clock - commandedAt
      BY <1>3, <3>2, AlphaSteady
    <3>4. Alpha(e) \in 0 .. Scale /\ Alpha(f) \in 0 .. Scale
      BY <3>2, AlphaRange
    <3>5. Abs(RampTarget(i, f) - RampTarget(i, e))
            <= (clock - commandedAt) * Abs(config.default[i] - start[i])
      BY <2>3, <2>4, <3>2, <3>3, <3>4, RampStep DEF RampTarget
    <3>6. Position(i)' = RampTarget(i, f)
      BY <2>5, <3>1 DEF f
    <3> QED BY <2>7, <3>1, <3>5, <3>6
  <2> QED BY <2>6, <2>7
<1>4. TypeOK /\ IndexInv /\ StartInv /\ RampInv =>
        [Update /\ TotalTime > 0 => \A i \in 1 .. NumJoints : Step(i)]_vars
  BY <1>3
<1> QED BY <1>1, <1>2, <1>4, StandbyTypeCorrect, IndexInvHolds, StartInvHolds, PTL
  DEF Spec, NoJump
=============================================================================
