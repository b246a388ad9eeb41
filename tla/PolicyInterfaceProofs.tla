------------------------ MODULE PolicyInterfaceProofs ------------------------
(***************************************************************************)
(* Theorems about PolicyInterface, for any joints and any three orders of  *)
(* them, any models and setups, whatever their metadata says: every joint  *)
(* is commanded by what was computed or measured for it, inside its range; *)
(* and what the policy is given is made of measurements only, and is what  *)
(* it was trained on where the metadata is true.                           *)
(*                                                                         *)
(* SumOf and FlattenSeq are recursions over indices.  Induction over these *)
(* is over a set of numbers (StepByStep), as every non-empty one has a     *)
(* least element; sums and joined sequences are described by what is left  *)
(* after every step (Sums, Joined), and the folds equal the last of them   *)
(* (SumIs, FlattenIs).                                                     *)
(***************************************************************************)
EXTENDS PolicyInterface, FiniteSetTheorems, SequenceTheorems, WellFoundedInduction, TLAPS

\* An order of joints, as the metadata and the controller give it.
PolicyNames(names) == names \in Seq(JointNames) /\ Len(names) = NumJoints
ControlNames(names) ==
  /\ names \in Seq(JointNames)
  /\ Len(names) <= NumJoints
  /\ \A c, d \in DOMAIN names : names[c] = names[d] => c = d

\* Where a complete mapping sends a joint of the policy, the control joint has
\* its name, and no other joint is sent there.
LEMMA MappingByName ==
  ASSUME NEW policyNames, PolicyNames(policyNames),
         NEW controlNames, ControlNames(controlNames),
         MappingComplete(PolicyToControlIndex(policyNames, controlNames))
  PROVE  LET f == PolicyToControlIndex(policyNames, controlNames)
         IN /\ \A p \in Joints : f[p] \in Joints /\ controlNames[f[p]] = policyNames[p]
            /\ \A p, q \in Joints : f[p] = f[q] => p = q
<1> DEFINE f == PolicyToControlIndex(policyNames, controlNames)
<1>1. ASSUME NEW p \in Joints
      PROVE  /\ f[p] \in DOMAIN controlNames
             /\ controlNames[f[p]] = policyNames[p]
             /\ NamedFirst(policyNames, p)
  <2> DEFINE named == {c \in DOMAIN controlNames : controlNames[c] = policyNames[p]}
  <2>1. f[p] = IF NamedFirst(policyNames, p) /\ named # {}
               THEN CHOOSE c \in named : TRUE ELSE NotFound
    BY DEF PolicyToControlIndex
  <2>2. f[p] # NotFound
    BY DEF MappingComplete
  <2> QED
    BY <2>1, <2>2
<1>2. DOMAIN controlNames \subseteq Joints
  BY JointsAssumption DEF ControlNames, Joints
<1>3. ASSUME NEW p \in Joints, NEW q \in Joints, f[p] = f[q]
      PROVE  p = q
  <2>1. policyNames[p] = policyNames[q] /\ NamedFirst(policyNames, p) /\ NamedFirst(policyNames, q)
    BY <1>1, <1>3
  <2>2. p \in Int /\ q \in Int /\ 1 <= p /\ 1 <= q
    BY DEF Joints
  <2>3. ~(p < q) /\ ~(q < p)
    BY <2>1, <2>2 DEF NamedFirst
  <2> QED
    BY <2>2, <2>3
<1> QED
  BY <1>1, <1>2, <1>3

\* There are as many control joints as joints of the policy, so that the mapping
\* leaves no entry of the control vector unwritten.
LEMMA MappingReachesAll ==
  ASSUME NEW policyNames, PolicyNames(policyNames),
         NEW controlNames, ControlNames(controlNames),
         MappingComplete(PolicyToControlIndex(policyNames, controlNames))
  PROVE  \A c \in Joints :
           \E p \in Joints : PolicyToControlIndex(policyNames, controlNames)[p] = c
<1> DEFINE f == PolicyToControlIndex(policyNames, controlNames)
<1>1. f \in [Joints -> Joints]
  <2>1. f = [p \in Joints |-> f[p]]
    BY DEF PolicyToControlIndex
  <2>2. \A p \in Joints : f[p] \in Joints
    BY MappingByName
  <2> HIDE DEF f
  <2> QED
    BY <2>1, <2>2
<1>2. \A p, q \in Joints : f[p] = f[q] => p = q
  BY MappingByName
<1>3. f \in Injection(Joints, Joints)
  <2> HIDE DEF f
  <2> QED
    BY <1>1, <1>2 DEF Injection, IsInjective
<1>4. IsFiniteSet(Joints)
  BY JointsAssumption, FS_Interval DEF Joints
<1>5. f \in Surjection(Joints, Joints)
  <2> HIDE DEF f
  <2> QED
    BY <1>3, <1>4, FS_Injection
<1> QED
  BY <1>5 DEF Surjection

\* policyVectorToControlOrder: every entry of the control vector is the entry of
\* the policy vector for the joint of the same name.
THEOREM ControlOrderOwnJoint ==
  ASSUME NEW policyNames, PolicyNames(policyNames),
         NEW controlNames, ControlNames(controlNames),
         MappingComplete(PolicyToControlIndex(policyNames, controlNames)),
         NEW value, \A p \in Joints : value[p].from = policyNames[p],
         NEW c \in Joints
  PROVE  PolicyVectorToControlOrder(
           PolicyToControlIndex(policyNames, controlNames), value)[c].from = controlNames[c]
<1> DEFINE f == PolicyToControlIndex(policyNames, controlNames)
<1>1. \E p \in Joints : f[p] = c
  BY MappingReachesAll
<1>2. \A p \in Joints : controlNames[f[p]] = policyNames[p]
  BY MappingByName
<1>3. PICK p \in Joints : f[p] = c /\ PolicyVectorToControlOrder(f, value)[c] = value[p]
  <2> HIDE DEF f
  <2> QED
    BY <1>1 DEF PolicyVectorToControlOrder
<1> QED
  BY <1>2, <1>3

\* readPolicyJointPosition: the entry of a joint is its own position.
LEMMA ReadOwnJoint ==
  ASSUME NEW policyNames, PolicyNames(policyNames),
         NEW p \in Joints, NEW positions,
         \A i \in DOMAIN ModelOrder : positions[i].from = ModelOrder[i]
  PROVE  ReadPolicyJointPosition(policyNames, positions)[p].from = policyNames[p]
<1>1. policyNames[p] \in JointNames
  BY DEF PolicyNames, Joints
<1>2. /\ JointIndex(policyNames[p]) \in DOMAIN ModelOrder
      /\ ModelOrder[JointIndex(policyNames[p])] = policyNames[p]
  BY <1>1, JointsAssumption DEF JointIndex
<1> QED
  BY <1>2 DEF ReadPolicyJointPosition

\* What makes CommandsOwnJoint inductive: the mapping of an active controller is
\* the one of the loaded model and is complete, and a kept target is its own.
OrderInv ==
  /\ lifecycle # "unconfigured" => PolicyNames(model.joints) /\ ControlNames(controlOrder)
  /\ lifecycle = "active" =>
       /\ toControl = PolicyToControlIndex(model.joints, controlOrder)
       /\ MappingComplete(toControl)
  /\ target # <<>> => \A p \in Joints : target[p].from = model.joints[p]
  /\ outcome \in {"held", "policy"} => lifecycle = "active"

\* The orders hold at the start and after every step.
LEMMA OrderInvInit == Init => OrderInv
BY DEF Init, OrderInv

LEMMA OrderInvNext == OrderInv /\ [Next]_vars => OrderInv'
<1> SUFFICES ASSUME OrderInv, [Next]_vars PROVE OrderInv'
  OBVIOUS
<1> USE DEF OrderInv
<1>1. CASE Configure
  <2>1. PICK m \in Models, s \in Setups :
          MetadataParses(m) /\ model' = m /\ controlOrder' = s.controlOrder
    BY <1>1 DEF Configure
  <2>2. PolicyNames(m.joints)
    BY <2>1, ModelsAssumption DEF PolicyNames, MetadataParses
  <2>3. ControlNames(s.controlOrder)
    BY SetupsAssumption DEF ControlNames
  <2>4. PolicyNames(model.joints)' /\ ControlNames(controlOrder)'
    BY <2>1, <2>2, <2>3 DEF PolicyNames, ControlNames
  <2> QED
    BY <1>1, <2>4 DEF Configure
<1>2. CASE Activate
  BY <1>2 DEF Activate, loadedVars, PolicyNames, ControlNames, MappingComplete
<1>3. CASE ActivateFails
  BY <1>3 DEF ActivateFails, loadedVars, layoutVars, PolicyNames, ControlNames
<1>4. CASE Deactivate
  BY <1>4 DEF Deactivate, loadedVars, layoutVars, PolicyNames, ControlNames
<1>5. CASE Cleanup
  BY <1>5 DEF Cleanup, loadedVars, layoutVars
<1>6. CASE Hold
  BY <1>6 DEF Hold, loadedVars, layoutVars, PolicyNames, ControlNames, MappingComplete
<1>7. CASE ResetMemory
  BY <1>7 DEF ResetMemory, loadedVars, layoutVars, PolicyNames, ControlNames, MappingComplete
<1>8. CASE WriteTarget
  <2>1. UNCHANGED <<lifecycle, model, controlOrder, toControl>> /\ lifecycle = "active"
    BY <1>8 DEF WriteTarget, loadedVars, layoutVars
  <2>2. \A p \in Joints : target'[p].from = model.joints[p]
    <3>1. CASE \E raw \in RawTargets :
                 target' = [p \in Joints |-> [from |-> model.joints[p], at |-> Clipped(p, raw)]]
      BY <3>1
    <3>2. CASE target # <<>> /\ UNCHANGED target
      BY <3>2
    <3> QED
      BY <1>8, <3>1, <3>2 DEF WriteTarget
  <2> QED
    BY <2>1, <2>2 DEF PolicyNames, ControlNames, MappingComplete
<1>9. CASE UpdateThrows
  BY <1>9 DEF UpdateThrows, loadedVars, layoutVars, PolicyNames, ControlNames
<1>10. CASE UNCHANGED vars
  BY <1>10 DEF vars, loadedVars, layoutVars, PolicyNames, ControlNames, MappingComplete
<1> QED
  BY <1>1, <1>2, <1>3, <1>4, <1>5, <1>6, <1>7, <1>8, <1>9, <1>10 DEF Next

\* A command written in a state of OrderInv is its own joint's, and the others
\* are not touched while they count.
LEMMA OwnJointNext ==
  OrderInv /\ OrderInv' /\ CommandsOwnJoint /\ [Next]_vars => CommandsOwnJoint'
<1> SUFFICES ASSUME OrderInv, OrderInv', CommandsOwnJoint, [Next]_vars
             PROVE  CommandsOwnJoint'
  OBVIOUS
<1>1. CASE Hold
  <2> DEFINE measured == [i \in DOMAIN ModelOrder |-> [from |-> ModelOrder[i], at |-> 0]]
             read == ReadPolicyJointPosition(model.joints, measured)
  <2>1. /\ PolicyNames(model.joints) /\ ControlNames(controlOrder)
        /\ toControl = PolicyToControlIndex(model.joints, controlOrder)
        /\ MappingComplete(toControl)
        /\ command' = PolicyVectorToControlOrder(toControl, read)
        /\ controlOrder' = controlOrder
    BY <1>1 DEF OrderInv, Hold, loadedVars
  <2>2. \A p \in Joints : read[p].from = model.joints[p]
    <3>1. \A i \in DOMAIN ModelOrder : measured[i].from = ModelOrder[i]
      OBVIOUS
    <3> HIDE DEF measured
    <3> QED
      BY <2>1, <3>1, ReadOwnJoint
  <2> HIDE DEF read
  <2>3. \A c \in Joints : command'[c].from = controlOrder[c]
    BY <2>1, <2>2, ControlOrderOwnJoint
  <2> QED
    BY <2>1, <2>3 DEF CommandsOwnJoint
<1>2. CASE WriteTarget
  <2>1. /\ PolicyNames(model.joints) /\ ControlNames(controlOrder)
        /\ toControl = PolicyToControlIndex(model.joints, controlOrder)
        /\ MappingComplete(toControl)
        /\ command' = PolicyVectorToControlOrder(toControl, target')
        /\ controlOrder' = controlOrder /\ model' = model
    BY <1>2 DEF OrderInv, WriteTarget, loadedVars
  <2>2. \A p \in Joints : target'[p].from = model.joints[p]
    <3>1. CASE \E raw \in RawTargets :
                 target' = [p \in Joints |-> [from |-> model.joints[p], at |-> Clipped(p, raw)]]
      BY <3>1
    <3>2. CASE target # <<>> /\ UNCHANGED target
      BY <3>2 DEF OrderInv
    <3> QED
      BY <1>2, <3>1, <3>2 DEF WriteTarget
  <2>3. \A c \in Joints : command'[c].from = controlOrder[c]
    BY <2>1, <2>2, ControlOrderOwnJoint
  <2> QED
    BY <2>1, <2>3 DEF CommandsOwnJoint
<1>3. CASE Configure
  BY <1>3 DEF Configure, CommandsOwnJoint
<1>4. CASE Activate
  BY <1>4 DEF Activate, CommandsOwnJoint
<1>5. CASE ActivateFails
  BY <1>5 DEF ActivateFails, CommandsOwnJoint, OrderInv
<1>6. CASE Deactivate
  BY <1>6 DEF Deactivate, CommandsOwnJoint
<1>7. CASE Cleanup
  BY <1>7 DEF Cleanup, CommandsOwnJoint, OrderInv
<1>8. CASE ResetMemory
  BY <1>8 DEF ResetMemory, CommandsOwnJoint
<1>9. CASE UpdateThrows
  BY <1>9 DEF UpdateThrows, CommandsOwnJoint
<1>10. CASE UNCHANGED vars
  BY <1>10 DEF vars, loadedVars, CommandsOwnJoint
<1> QED
  BY <1>1, <1>2, <1>3, <1>4, <1>5, <1>6, <1>7, <1>8, <1>9, <1>10 DEF Next

\* Every joint is commanded by what was computed or measured for this joint.
THEOREM EveryJointItsOwn == Spec => []CommandsOwnJoint
<1>1. Init => CommandsOwnJoint
  BY DEF Init, CommandsOwnJoint
<1> QED
  BY <1>1, OrderInvInit, OrderInvNext, OwnJointNext, PTL DEF Spec
-----------------------------------------------------------------------------
(* Sums, and sequences put end to end, are what is left after the last step. *)

LEMMA LeastElement ==
  ASSUME NEW T, T \subseteq Nat, T # {}
  PROVE  \E x \in T : \A y \in T : x <= y
<1>1. IsWellFoundedOn(OpToRel(<, Nat), Nat)
  BY NatLessThanWellFounded, Zenon
<1>2. PICK x \in T : \A y \in T : ~ (<<y, x>> \in OpToRel(<, Nat))
  BY <1>1, WFMin, Zenon
<1>3. \A y \in T : ~(y < x)
  BY <1>2 DEF OpToRel
<1> QED
  BY <1>3

\* Induction over the numbers up to n, for a set instead of a predicate.
LEMMA StepByStep ==
  ASSUME NEW n \in Nat, NEW T, 0 \in T, \A j \in 0 .. n - 1 : j \in T => j + 1 \in T
  PROVE  \A i \in 0 .. n : i \in T
<1> SUFFICES ASSUME NEW i \in 0 .. n, i \notin T PROVE FALSE
  OBVIOUS
<1>1. (0 .. n) \ T \subseteq Nat /\ (0 .. n) \ T # {}
  BY SMT
<1>2. PICK x \in (0 .. n) \ T : \A y \in (0 .. n) \ T : x <= y
  BY <1>1, LeastElement
<1>3. x # 0 /\ x - 1 \in 0 .. n - 1
  BY <1>2
<1>4. x - 1 \in T
  BY <1>2, <1>3
<1> QED
  BY <1>2, <1>3, <1>4

\* sums[i] is the sum of the first i widths.
Sums(widths, sums) ==
  sums[0] = 0 /\ \A i \in 1 .. Len(widths) : sums[i] = sums[i - 1] + widths[i]

LEMMA SumsExist ==
  ASSUME NEW widths \in Seq(Nat)
  PROVE  \E sums \in [0 .. Len(widths) -> Nat] : Sums(widths, sums)
<1> DEFINE n == Len(widths)
           T == {k \in Nat : \E f \in [0 .. k -> Nat] :
                   f[0] = 0 /\ \A i \in 1 .. k : f[i] = f[i - 1] + widths[i]}
<1>0. n \in Nat
  OBVIOUS
<1>1. 0 \in T
  <2> DEFINE f == [i \in 0 .. 0 |-> 0]
  <2>1. f \in [0 .. 0 -> Nat] /\ f[0] = 0
    OBVIOUS
  <2> HIDE DEF f
  <2> QED
    BY <2>1
<1>2. ASSUME NEW j \in 0 .. n - 1, j \in T PROVE j + 1 \in T
  <2>1. PICK f \in [0 .. j -> Nat] : f[0] = 0 /\ \A i \in 1 .. j : f[i] = f[i - 1] + widths[i]
    BY <1>2
  <2> DEFINE g == [i \in 0 .. j + 1 |-> IF i = j + 1 THEN f[j] + widths[j + 1] ELSE f[i]]
  <2>2. widths[j + 1] \in Nat /\ f[j] \in Nat /\ j \in Nat
    BY <2>1
  <2>3. g \in [0 .. j + 1 -> Nat] /\ g[0] = 0
    BY <2>1, <2>2
  <2>4. ASSUME NEW i \in 1 .. j + 1 PROVE g[i] = g[i - 1] + widths[i]
    BY <2>1, <2>2
  <2> HIDE DEF g
  <2>5. \E h \in [0 .. j + 1 -> Nat] :
          h[0] = 0 /\ \A i \in 1 .. j + 1 : h[i] = h[i - 1] + widths[i]
    BY <2>3, <2>4
  <2>6. j + 1 \in Nat
    BY <2>2
  <2> QED
    BY <2>5, <2>6, Zenon
<1>3. n \in T
  <2> HIDE DEF T, n
  <2>1. \A i \in 0 .. n : i \in T
    BY <1>0, <1>1, <1>2, StepByStep
  <2> QED
    BY <1>0, <2>1
<1> QED
  BY <1>3 DEF Sums

LEMMA MaxIs ==
  ASSUME NEW s, s \subseteq Int, NEW m \in s, \A y \in s : m >= y
  PROVE  Max(s) = m
<1>1. \E x \in s : \A y \in s : x >= y
  OBVIOUS
<1>2. Max(s) \in s /\ \A y \in s : Max(s) >= y
  BY <1>1, Zenon DEF Max
<1> DEFINE M == Max(s)
<1> HIDE DEF M
<1>3. M \in Int /\ m \in Int /\ m >= M /\ M >= m
  BY <1>2 DEF M
<1>4. M = m
  BY <1>3
<1> QED
  BY <1>4 DEF M

\* The recursion over sets of indices that the fold of SumOf is.
LEMMA SumByIndices ==
  ASSUME NEW widths \in Seq(Nat)
  PROVE  \E over :
           /\ over = [s \in SUBSET DOMAIN widths |->
                        IF s = {} THEN 0 ELSE over[s \ {Max(s)}] + widths[Max(s)]]
           /\ SumOf(widths) = over[DOMAIN widths]
<1> DEFINE n == Len(widths)
           Is(f, k) == f = [s \in SUBSET (1 .. k) |->
                              IF s = {} THEN 0 ELSE f[s \ {Max(s)}] + widths[Max(s)]]
           T == {k \in Nat : \E f : Is(f, k)}
<1>0. n \in Nat /\ DOMAIN widths = 1 .. n
  OBVIOUS
<1>1. 0 \in T
  <2> DEFINE f == [s \in SUBSET (1 .. 0) |-> 0]
  <2>1. \A s \in SUBSET (1 .. 0) : s = {}
    OBVIOUS
  <2>2. f = [s \in SUBSET (1 .. 0) |->
               IF s = {} THEN 0 ELSE f[s \ {Max(s)}] + widths[Max(s)]]
    BY <2>1
  <2> QED
    BY <2>2
<1>2. ASSUME NEW j \in 0 .. n - 1, j \in T PROVE j + 1 \in T
  <2>0. j \in Nat
    BY <1>0
  <2>1. PICK f : Is(f, j)
    BY <1>2
  <2> DEFINE g == [s \in SUBSET (1 .. j + 1) |->
                     IF j + 1 \in s THEN f[s \ {j + 1}] + widths[j + 1] ELSE f[s]]
  <2>2. ASSUME NEW s \in SUBSET (1 .. j + 1)
        PROVE  g[s] = IF s = {} THEN 0 ELSE g[s \ {Max(s)}] + widths[Max(s)]
    <3>1. CASE j + 1 \in s
      <4>0. s \subseteq Int /\ \A y \in s : j + 1 >= y
        BY <2>0
      <4>1. Max(s) = j + 1
        BY <3>1, <4>0, MaxIs
      <4>2. j + 1 \notin s \ {j + 1} /\ s \ {j + 1} \in SUBSET (1 .. j + 1)
        OBVIOUS
      <4>3. g[s \ {j + 1}] = f[s \ {j + 1}]
        BY <4>2
      <4> QED
        BY <3>1, <4>1, <4>3
    <3>2. CASE j + 1 \notin s
      <4>1. s \in SUBSET (1 .. j) /\ s \ {Max(s)} \in SUBSET (1 .. j + 1)
        <5>1. \A x \in s : x \in 1 .. j + 1 /\ x # j + 1
          BY <3>2
        <5>2. s \subseteq 1 .. j
          BY <2>0, <5>1
        <5> QED
          BY <5>2
      <4>2. f[s] = IF s = {} THEN 0 ELSE f[s \ {Max(s)}] + widths[Max(s)]
        BY <2>1, <4>1
      <4>3. g[s] = f[s] /\ g[s \ {Max(s)}] = f[s \ {Max(s)}]
        BY <3>2, <4>1
      <4> QED
        BY <4>2, <4>3
    <3> QED
      BY <3>1, <3>2
  <2>3. g = [s \in SUBSET (1 .. j + 1) |->
               IF s = {} THEN 0 ELSE g[s \ {Max(s)}] + widths[Max(s)]]
    <3>1. g = [s \in SUBSET (1 .. j + 1) |-> g[s]]
      OBVIOUS
    <3> HIDE DEF g
    <3> QED
      BY <2>2, <3>1
  <2> HIDE DEF g
  <2>4. Is(g, j + 1)
    BY <2>3
  <2> HIDE DEF Is
  <2> QED
    BY <2>0, <2>4
<1>4. n \in T
  <2> HIDE DEF T, n
  <2>1. \A i \in 0 .. n : i \in T
    BY <1>0, <1>1, <1>2, StepByStep
  <2> QED
    BY <1>0, <2>1
<1> DEFINE over == CHOOSE f : f = [s \in SUBSET DOMAIN widths |->
                      IF s = {} THEN 0 ELSE f[s \ {Max(s)}] + widths[Max(s)]]
<1>5. SumOf(widths) = over[DOMAIN widths]
  BY DEF SumOf, FoldLeft, MapThenFoldSet
<1>6. \E f : f = [s \in SUBSET DOMAIN widths |->
                    IF s = {} THEN 0 ELSE f[s \ {Max(s)}] + widths[Max(s)]]
  BY <1>0, <1>4
<1>7. over = [s \in SUBSET DOMAIN widths |->
                IF s = {} THEN 0 ELSE over[s \ {Max(s)}] + widths[Max(s)]]
  BY <1>6, Zenon
<1> HIDE DEF over
<1> QED
  BY <1>5, <1>7

LEMMA SumIs ==
  ASSUME NEW widths \in Seq(Nat), NEW sums, Sums(widths, sums)
  PROVE  SumOf(widths) = sums[Len(widths)]
<1> DEFINE n == Len(widths)
<1>1. n \in Nat /\ DOMAIN widths = 1 .. n
  OBVIOUS
<1>2. PICK over :
        /\ over = [s \in SUBSET DOMAIN widths |->
                     IF s = {} THEN 0 ELSE over[s \ {Max(s)}] + widths[Max(s)]]
        /\ SumOf(widths) = over[DOMAIN widths]
  BY SumByIndices
<1> DEFINE T == {k \in Nat : k <= n => over[1 .. k] = sums[k]}
<1>3. 0 \in T
  <2>1. 1 .. 0 = {} /\ {} \in SUBSET DOMAIN widths
    OBVIOUS
  <2>2. over[{}] = 0
    BY <1>2, <2>1
  <2> QED
    BY <2>1, <2>2 DEF Sums
<1>4. ASSUME NEW j \in 0 .. n - 1, j \in T PROVE j + 1 \in T
  <2>1. 1 .. j + 1 \in SUBSET DOMAIN widths /\ 1 .. j + 1 # {}
    BY <1>1
  <2>2. Max(1 .. j + 1) = j + 1
    BY <1>1 DEF Max
  <2>3. (1 .. j + 1) \ {j + 1} = 1 .. j
    BY <1>1
  <2>4. over[1 .. j + 1] = over[1 .. j] + widths[j + 1]
    BY <1>2, <2>1, <2>2, <2>3
  <2>5. over[1 .. j] = sums[j]
    BY <1>1, <1>4
  <2>6. j + 1 \in 1 .. Len(widths) /\ (j + 1) - 1 = j
    BY <1>1
  <2>7. sums[j + 1] = sums[j] + widths[j + 1]
    BY <2>6 DEF Sums
  <2> QED
    BY <2>4, <2>5, <2>7
<1>5. n \in T
  <2> HIDE DEF T, n
  <2>1. \A i \in 0 .. n : i \in T
    BY <1>1, <1>3, <1>4, StepByStep
  <2> QED
    BY <1>1, <2>1
<1> QED
  BY <1>1, <1>2, <1>5

\* parts[i] is the first i sequences put end to end.
Joined(seqs, parts) ==
  parts[0] = <<>> /\ \A i \in 1 .. Len(seqs) : parts[i] = parts[i - 1] \o seqs[i]

LEMMA JoinedExist ==
  ASSUME NEW X, NEW seqs \in Seq(Seq(X))
  PROVE  \E parts \in [0 .. Len(seqs) -> Seq(X)] : Joined(seqs, parts)
<1> DEFINE n == Len(seqs)
           T == {k \in Nat : \E f \in [0 .. k -> Seq(X)] :
                   f[0] = <<>> /\ \A i \in 1 .. k : f[i] = f[i - 1] \o seqs[i]}
<1>0. n \in Nat /\ \A i \in 1 .. n : seqs[i] \in Seq(X)
  OBVIOUS
<1>1. 0 \in T
  <2> DEFINE f == [i \in 0 .. 0 |-> <<>>]
  <2>1. f \in [0 .. 0 -> Seq(X)] /\ f[0] = <<>>
    OBVIOUS
  <2> HIDE DEF f
  <2>2. \E h \in [0 .. 0 -> Seq(X)] :
          h[0] = <<>> /\ \A i \in 1 .. 0 : h[i] = h[i - 1] \o seqs[i]
    BY <2>1
  <2> QED
    BY <2>2, Zenon
<1>2. ASSUME NEW j \in 0 .. n - 1, j \in T PROVE j + 1 \in T
  <2>1. PICK f \in [0 .. j -> Seq(X)] : f[0] = <<>> /\ \A i \in 1 .. j : f[i] = f[i - 1] \o seqs[i]
    BY <1>2
  <2> HIDE DEF n
  <2>2. j \in Nat /\ seqs[j + 1] \in Seq(X) /\ f[j] \in Seq(X)
    BY <1>0, <2>1
  <2>3. f[j] \o seqs[j + 1] \in Seq(X)
    BY <2>2, ConcatProperties
  <2> DEFINE next == f[j] \o seqs[j + 1]
             g == [i \in 0 .. j + 1 |-> IF i = j + 1 THEN next ELSE f[i]]
  <2>4. g \in [0 .. j + 1 -> Seq(X)] /\ g[0] = <<>>
    <3> HIDE DEF next
    <3> QED
      BY <2>1, <2>2, <2>3 DEF next
  <2>5. ASSUME NEW i \in 1 .. j + 1 PROVE g[i] = g[i - 1] \o seqs[i]
    <3> HIDE DEF next
    <3>1. CASE i = j + 1
      <4>1. i \in 0 .. j + 1 /\ i - 1 = j /\ j \in 0 .. j + 1 /\ j # j + 1
        BY <2>2, <3>1
      <4>2. g[i] = next /\ g[i - 1] = f[j]
        BY <3>1, <4>1
      <4> QED
        BY <3>1, <4>2 DEF next
    <3>2. CASE i # j + 1
      <4>1. i \in 1 .. j /\ i - 1 \in 0 .. j /\ i - 1 # j + 1 /\ i \in 0 .. j + 1 /\ i - 1 \in 0 .. j + 1
        BY <2>2, <3>2
      <4> QED
        BY <2>1, <3>2, <4>1
    <3> QED
      BY <3>1, <3>2
  <2> HIDE DEF g
  <2>6. \E h \in [0 .. j + 1 -> Seq(X)] :
          h[0] = <<>> /\ \A i \in 1 .. j + 1 : h[i] = h[i - 1] \o seqs[i]
    BY <2>4, <2>5
  <2>7. j + 1 \in Nat
    BY <2>2
  <2> QED
    BY <2>6, <2>7, Zenon
<1>3. n \in T
  <2> HIDE DEF T, n
  <2>1. \A i \in 0 .. n : i \in T
    BY <1>0, <1>1, <1>2, StepByStep
  <2> QED
    BY <1>0, <2>1
<1> QED
  BY <1>3 DEF Joined

LEMMA FlattenIs ==
  ASSUME NEW X, NEW seqs \in Seq(Seq(X)), NEW parts, Joined(seqs, parts)
  PROVE  FlattenSeq(seqs) = parts[Len(seqs)] /\ FlattenSeq(seqs) \in Seq(X)
<1> DEFINE n == Len(seqs)
<1>0. n \in Nat /\ \A i \in 1 .. n : seqs[i] \in Seq(X)
  OBVIOUS
<1>1. CASE n = 0
  <2>1. seqs = <<>>
    BY <1>1, EmptySeq
  <2> QED
    BY <1>1, <2>1 DEF FlattenSeq, Joined
<1>2. CASE n # 0
  <2> DEFINE Is(f, k) == f = [i \in 1 .. k |-> IF i = 1 THEN seqs[i] ELSE f[i - 1] \o seqs[i]]
             T == {k \in Nat : parts[k] \in Seq(X)}
  <2>1. 0 \in T
    BY EmptySeq DEF Joined
  <2>2. ASSUME NEW j \in 0 .. n - 1, j \in T PROVE j + 1 \in T
    <3> HIDE DEF n
    <3>1. parts[j + 1] = parts[j] \o seqs[j + 1]
      <4>1. j + 1 \in 1 .. Len(seqs) /\ (j + 1) - 1 = j
        BY <1>0 DEF n
      <4> QED
        BY <4>1 DEF Joined
    <3>2. seqs[j + 1] \in Seq(X) /\ j + 1 \in Nat
      BY <1>0
    <3> QED
      BY <2>2, <3>1, <3>2, ConcatProperties
  <2>3. \A k \in 0 .. n : parts[k] \in Seq(X)
    <3> HIDE DEF T, n
    <3>1. \A i \in 0 .. n : i \in T
      BY <1>0, <2>1, <2>2, StepByStep
    <3> QED
      BY <3>1 DEF T
  <2> DEFINE own == [i \in 1 .. n |-> parts[i]]
  <2>4. ASSUME NEW i \in 1 .. n
        PROVE  own[i] = IF i = 1 THEN seqs[i] ELSE own[i - 1] \o seqs[i]
    <3> HIDE DEF n
    <3>1. parts[i] = parts[i - 1] \o seqs[i]
      BY DEF Joined, n
    <3>2. CASE i = 1
      <4>1. parts[0] \o seqs[1] = seqs[1]
        <5>1. seqs[1] \in Seq(X) /\ parts[0] = <<>>
          BY <1>0, <3>2 DEF Joined
        <5> QED
          BY <5>1, ConcatEmptySeq
      <4>2. i - 1 = 0 /\ own[i] = parts[i]
        BY <3>2
      <4> QED
        BY <3>1, <3>2, <4>1, <4>2
    <3>3. CASE i # 1
      <4>1. i - 1 \in 1 .. n
        BY <1>0, <3>3
      <4>2. own[i] = parts[i] /\ own[i - 1] = parts[i - 1]
        BY <4>1
      <4> QED
        BY <3>1, <3>3, <4>2
    <3> QED
      BY <3>2, <3>3
  <2>5. Is(own, n)
    <3>1. own = [i \in 1 .. n |-> own[i]]
      OBVIOUS
    <3> HIDE DEF own, n
    <3> QED
      BY <2>4, <3>1
  <2>6. ASSUME NEW f, Is(f, n) PROVE f[n] = parts[n]
    <3> HIDE DEF n, own
    <3> DEFINE U == {k \in Nat : k < n => f[k + 1] = parts[k + 1]}
    <3>1. 0 \in U
      <4>1. 1 \in 1 .. n
        BY <1>0, <1>2
      <4>2. f[1] = seqs[1]
        BY <2>6, <4>1
      <4>3. own[1] = parts[1] /\ own[1] = seqs[1]
        BY <2>4, <4>1 DEF own
      <4>4. 0 + 1 = 1 /\ 0 \in Nat
        OBVIOUS
      <4> QED
        BY <4>2, <4>3, <4>4
    <3>2. ASSUME NEW j \in 0 .. n - 1, j \in U PROVE j + 1 \in U
      <4>1. j \in Nat /\ j + 1 \in Nat
        BY <1>0
      <4>2. CASE j + 1 < n
        <5>1. j + 2 \in 1 .. n /\ j + 1 \in 1 .. n /\ j + 2 # 1 /\ (j + 2) - 1 = j + 1
          BY <1>0, <4>1, <4>2
        <5>2. f[j + 2] = f[j + 1] \o seqs[j + 2]
          BY <2>6, <5>1
        <5>3. f[j + 1] = parts[j + 1]
          <6>1. j < n
            BY <1>0, <4>1, <4>2
          <6> QED
            BY <3>2, <6>1
        <5>4. parts[j + 2] = parts[j + 1] \o seqs[j + 2]
          BY <5>1 DEF Joined, n
        <5>5. (j + 1) + 1 = j + 2
          BY <4>1
        <5> QED
          BY <4>1, <5>2, <5>3, <5>4, <5>5
      <4>3. CASE ~(j + 1 < n)
        BY <4>1, <4>3
      <4> QED
        BY <4>2, <4>3
    <3>3. \A i \in 0 .. n : i \in U
      <4> HIDE DEF U
      <4> QED
        BY <1>0, <3>1, <3>2, StepByStep
    <3>4. n - 1 \in 0 .. n /\ n - 1 < n /\ (n - 1) + 1 = n
      BY <1>0, <1>2
    <3>5. n - 1 \in U
      BY <3>3, <3>4
    <3> QED
      BY <3>4, <3>5
  <2> DEFINE rec == CHOOSE f : f = [i \in 1 .. Len(seqs) |->
                                      IF i = 1 THEN seqs[i] ELSE f[i - 1] \o seqs[i]]
  <2>7. FlattenSeq(seqs) = rec[Len(seqs)]
    BY <1>2 DEF FlattenSeq
  <2>8. Is(rec, n)
    <3> HIDE DEF own
    <3>1. \E f : f = [i \in 1 .. Len(seqs) |->
                        IF i = 1 THEN seqs[i] ELSE f[i - 1] \o seqs[i]]
      BY <2>5
    <3> QED
      BY <3>1, Zenon
  <2> HIDE DEF rec, Is, n
  <2>9. rec[n] = parts[n]
    BY <2>6, <2>8
  <2> QED
    BY <1>0, <2>3, <2>7, <2>9 DEF n
<1> QED
  BY <1>1, <1>2

-----------------------------------------------------------------------------
(* The metadata, the terms and the frame that is measured. *)

\* Metadata that the controller could have loaded.
GoodModel(m) == m \in Models /\ MetadataParses(m)

LEMMA MetadataLengths ==
  ASSUME NEW m, GoodModel(m)
  PROVE  /\ m.names \in Seq(Terms) /\ m.dims \in Seq(Nat)
         /\ Len(m.names) \in Nat /\ DOMAIN m.names = 1 .. Len(m.names)
         /\ \A i \in DOMAIN m.names : i \in 1 .. Len(m.dims) /\ m.dims[i] \in Nat
         /\ m.names # <<>> => Len(m.dims) = Len(m.names)
<1>1. m.names \in Seq(Terms) /\ m.dims \in Seq(Nat)
  BY ModelsAssumption DEF GoodModel
<1>2. m.names # <<>> => Len(m.names) = Len(m.dims)
  BY DEF GoodModel, MetadataParses
<1>3. ASSUME NEW i \in DOMAIN m.names PROVE i \in 1 .. Len(m.dims)
  BY <1>1, <1>2, <1>3
<1> QED
  BY <1>1, <1>2, <1>3

\* The terms that the assembly visits are the ones before the first of the decoder.
LEMMA VisitedPrefix ==
  ASSUME GoodModel(model)
  PROVE  \E v \in 0 .. Len(model.names) :
           /\ VisitedTerms = 1 .. v /\ Cardinality(VisitedTerms) = v
           /\ v < Len(model.names) => model.names[v + 1] \in DecoderTerms
<1> DEFINE n == Len(model.names)
           D == {i \in 1 .. n : model.names[i] \in DecoderTerms}
<1>1. n \in Nat /\ DOMAIN model.names = 1 .. n
  BY MetadataLengths
<1>2. ASSUME NEW v \in 0 .. n, VisitedTerms = 1 .. v PROVE Cardinality(VisitedTerms) = v
  <2> HIDE DEF n
  <2>1. v \in Nat /\ 1 \in Int /\ v \in Int
    BY <1>1
  <2>2. Cardinality(1 .. v) = IF 1 > v THEN 0 ELSE v - 1 + 1
    BY <2>1, FS_Interval
  <2> QED
    BY <1>2, <2>1, <2>2
<1>3. CASE D = {}
  <2>1. VisitedTerms = 1 .. n
    BY <1>1, <1>3 DEF VisitedTerms
  <2>2. n \in 0 .. n /\ ~(n < n)
    BY <1>1
  <2> QED
    BY <1>2, <2>1, <2>2
<1>4. CASE D # {}
  <2>1. D \subseteq Nat
    OBVIOUS
  <2>2. PICK d \in D : \A y \in D : d <= y
    BY <1>4, <2>1, LeastElement
  <2> HIDE DEF D
  <2>3. d \in 1 .. n /\ model.names[d] \in DecoderTerms
    BY <2>2 DEF D
  <2>4. d - 1 \in 0 .. n /\ (d - 1) + 1 = d
    BY <1>1, <2>3
  <2>5. VisitedTerms = 1 .. d - 1
    <3>1. ASSUME NEW i \in VisitedTerms PROVE i \in 1 .. d - 1
      <4>1. i \in 1 .. n /\ \A j \in 1 .. i : model.names[j] \notin DecoderTerms
        BY <1>1 DEF VisitedTerms
      <4>2. ~(d <= i)
        BY <2>3, <4>1
      <4> QED
        BY <1>1, <2>3, <4>1, <4>2
    <3>2. ASSUME NEW i \in 1 .. d - 1 PROVE i \in VisitedTerms
      <4>1. i \in 1 .. n
        BY <1>1, <2>3
      <4>2. ASSUME NEW j \in 1 .. i PROVE model.names[j] \notin DecoderTerms
        <5>1. j \in 1 .. n /\ ~(d <= j)
          BY <1>1, <2>3
        <5> QED
          BY <2>2, <5>1 DEF D
      <4> QED
        BY <1>1, <4>1, <4>2 DEF VisitedTerms
    <3> QED
      BY <3>1, <3>2
  <2> QED
    BY <1>2, <2>3, <2>4, <2>5
<1> QED
  BY <1>3, <1>4

\* The cursor of the assembly runs through the sums of the declared widths.
LEMMA CursorSums ==
  ASSUME GoodModel(model)
  PROVE  \E sums \in [0 .. Len(model.dims) -> Nat] :
           /\ Sums(model.dims, sums)
           /\ \A i \in 0 .. Len(model.dims) : CursorAt(i + 1) = sums[i]
<1>1. model.dims \in Seq(Nat) /\ Len(model.dims) \in Nat
  BY MetadataLengths
<1>2. PICK sums \in [0 .. Len(model.dims) -> Nat] : Sums(model.dims, sums)
  BY <1>1, SumsExist
<1>3. ASSUME NEW i \in 0 .. Len(model.dims) PROVE CursorAt(i + 1) = sums[i]
  <2> DEFINE first == SubSeq(model.dims, 1, i)
  <2>1. i \in Nat /\ i \in Int /\ 1 \in Int /\ \A k \in 1 .. i : model.dims[k] \in Nat
    BY <1>1
  <2>2. /\ first \in Seq(Nat) /\ Len(first) = IF 1 <= i THEN i - 1 + 1 ELSE 0
        /\ \A k \in 1 .. i - 1 + 1 : first[k] = model.dims[1 + k - 1]
    <3> HIDE DEF first
    <3> QED
      BY <2>1, SubSeqProperties DEF first
  <2>3. Len(first) = i /\ \A k \in 1 .. i : first[k] = model.dims[k]
    <3> HIDE DEF first
    <3> QED
      BY <2>1, <2>2
  <2>4. (i + 1) - 1 = i
    BY <2>1
  <2>5. CursorAt(i + 1) = SumOf(first)
    BY <2>4 DEF CursorAt
  <2> HIDE DEF first
  <2>6. Sums(first, sums)
    <3>1. ASSUME NEW k \in 1 .. Len(first) PROVE sums[k] = sums[k - 1] + first[k]
      <4>1. k \in 1 .. Len(model.dims) /\ first[k] = model.dims[k]
        BY <1>1, <2>1, <2>3
      <4> QED
        BY <1>2, <4>1 DEF Sums
    <3> QED
      BY <1>2, <3>1 DEF Sums
  <2> QED
    BY <2>2, <2>3, <2>5, <2>6, SumIs
<1> QED
  BY <1>2, <1>3

\* The widths of one kind of terms, those of the other kind counted as 0.
WidthsOf(m, which) ==
  [i \in DOMAIN m.names |-> IF m.names[i] \in which THEN m.dims[i] ELSE 0]

LEMMA WidthsTyped ==
  ASSUME NEW m, GoodModel(m), NEW which
  PROVE  /\ WidthsOf(m, which) \in Seq(Nat) /\ Len(WidthsOf(m, which)) = Len(m.names)
         /\ DimsOf(m, which) = SumOf(WidthsOf(m, which))
         /\ DimsOf(m, which) \in Nat
<1> DEFINE w == WidthsOf(m, which)
<1>1. w \in Seq(Nat) /\ Len(w) = Len(m.names)
  BY MetadataLengths DEF WidthsOf
<1>2. DimsOf(m, which) = SumOf(w)
  BY DEF DimsOf, WidthsOf
<1> HIDE DEF w
<1>3. PICK sums \in [0 .. Len(w) -> Nat] : Sums(w, sums)
  BY <1>1, SumsExist
<1>4. SumOf(w) = sums[Len(w)] /\ Len(w) \in 0 .. Len(w)
  BY <1>1, <1>3, SumIs
<1> QED
  BY <1>1, <1>2, <1>3, <1>4 DEF w

\* The terms the assembly visits are all of the actor, if no term of the actor
\* follows one of the decoder.
LEMMA VisitedIsActor ==
  ASSUME GoodModel(model), DecoderTermsLast, model.names # <<>>
  PROVE  VisitedWidth = ActorDims(model)
<1> DEFINE n == Len(model.names)
           w == WidthsOf(model, Terms \ DecoderTerms)
<1>1. /\ n \in Nat /\ DOMAIN model.names = 1 .. n /\ Len(model.dims) = n
      /\ \A i \in 1 .. n : model.names[i] \in Terms
  BY MetadataLengths
<1>2. PICK v \in 0 .. n :
        /\ VisitedTerms = 1 .. v /\ Cardinality(VisitedTerms) = v
        /\ v < n => model.names[v + 1] \in DecoderTerms
  BY VisitedPrefix
<1>3. PICK sums \in [0 .. n -> Nat] :
        Sums(model.dims, sums) /\ \A i \in 0 .. n : CursorAt(i + 1) = sums[i]
  BY <1>1, CursorSums
<1>4. w \in Seq(Nat) /\ Len(w) = n /\ ActorDims(model) = SumOf(w)
  BY WidthsTyped DEF ActorDims
<1>5. PICK own \in [0 .. n -> Nat] : Sums(w, own)
  BY <1>4, SumsExist
<1> HIDE DEF n
<1>6. ASSUME NEW i \in 1 .. n PROVE w[i] = IF i <= v THEN model.dims[i] ELSE 0
  <2>1. w[i] = IF model.names[i] \in DecoderTerms THEN 0 ELSE model.dims[i]
    BY <1>1 DEF WidthsOf
  <2>2. CASE i <= v
    <3>1. i \in VisitedTerms /\ i \in 1 .. i
      BY <1>1, <1>2, <2>2
    <3> QED
      BY <2>1, <2>2, <3>1 DEF VisitedTerms
  <2>3. CASE ~(i <= v)
    <3>1. v + 1 \in 1 .. n /\ (v + 1 = i \/ v + 1 < i) /\ v < n
      BY <1>1, <1>2, <2>3
    <3>2. model.names[i] \in DecoderTerms
      BY <1>1, <1>2, <3>1 DEF DecoderTermsLast
    <3> QED
      BY <2>1, <2>3, <3>2
  <2> QED
    BY <2>2, <2>3
<1> HIDE DEF w
<1> DEFINE T == {k \in Nat : k <= n => own[k] = IF k <= v THEN sums[k] ELSE sums[v]}
<1>7. 0 \in T
  BY <1>1, <1>3, <1>5 DEF Sums
<1>8. ASSUME NEW j \in 0 .. n - 1, j \in T PROVE j + 1 \in T
  <2>1. j \in Nat /\ j + 1 \in 1 .. n /\ (j + 1) - 1 = j
    BY <1>1
  <2>2. own[j + 1] = own[j] + w[j + 1]
    BY <1>4, <1>5, <2>1 DEF Sums
  <2>3. sums[j + 1] = sums[j] + model.dims[j + 1]
    BY <1>1, <1>3, <2>1 DEF Sums
  <2>4. own[j] = IF j <= v THEN sums[j] ELSE sums[v]
    BY <1>1, <1>8, <2>1
  <2>5. w[j + 1] = IF j + 1 <= v THEN model.dims[j + 1] ELSE 0
    BY <1>6, <2>1
  <2>6. own[j] \in Nat /\ v \in Nat
    BY <1>1, <1>2, <1>5, <2>1
  <2>7. own[j + 1] = IF j + 1 <= v THEN sums[j + 1] ELSE sums[v]
    <3>1. CASE j + 1 <= v
      BY <2>1, <2>2, <2>3, <2>4, <2>5, <2>6, <3>1
    <3>2. CASE j = v
      BY <2>1, <2>2, <2>4, <2>5, <2>6, <3>2
    <3>3. CASE j > v
      BY <2>1, <2>2, <2>4, <2>5, <2>6, <3>3
    <3> QED
      BY <2>1, <2>6, <3>1, <3>2, <3>3
  <2> QED
    BY <2>1, <2>7
<1>9. own[n] = sums[v]
  <2> HIDE DEF T
  <2>1. \A i \in 0 .. n : i \in T
    BY <1>1, <1>7, <1>8, StepByStep
  <2>2. n \in T /\ v \in Nat
    BY <1>1, <2>1
  <2> QED
    BY <1>1, <1>2, <2>2 DEF T
<1>10. VisitedWidth = sums[v]
  BY <1>2, <1>3 DEF VisitedWidth
<1> QED
  BY <1>4, <1>5, <1>9, <1>10, SumIs

\* A joined sequence is as long as its parts together.
LEMMA FlattenLength ==
  ASSUME NEW X, NEW seqs \in Seq(Seq(X))
  PROVE  /\ FlattenSeq(seqs) \in Seq(X)
         /\ Len(FlattenSeq(seqs)) = SumOf([i \in DOMAIN seqs |-> Len(seqs[i])])
<1> DEFINE n == Len(seqs)
           lens == [i \in DOMAIN seqs |-> Len(seqs[i])]
<1>1. n \in Nat /\ DOMAIN seqs = 1 .. n /\ \A i \in 1 .. n : seqs[i] \in Seq(X)
  OBVIOUS
<1>2. PICK parts \in [0 .. n -> Seq(X)] : Joined(seqs, parts)
  BY JoinedExist
<1>3. FlattenSeq(seqs) = parts[n] /\ FlattenSeq(seqs) \in Seq(X)
  BY <1>2, FlattenIs
<1>4. lens \in Seq(Nat) /\ Len(lens) = n
  BY <1>1
<1> DEFINE sums == [i \in 0 .. n |-> Len(parts[i])]
<1>5. Sums(lens, sums)
  <2>1. sums[0] = 0
    <3>1. 0 \in 0 .. n /\ parts[0] = <<>>
      BY <1>1, <1>2 DEF Joined
    <3> QED
      BY <3>1, EmptySeq
  <2>2. ASSUME NEW i \in 1 .. n PROVE sums[i] = sums[i - 1] + lens[i]
    <3> HIDE DEF n
    <3>1. i - 1 \in 0 .. n /\ i \in 0 .. n
      BY <1>1
    <3>2. parts[i] = parts[i - 1] \o seqs[i]
      BY <1>2 DEF Joined, n
    <3>3. Len(parts[i]) = Len(parts[i - 1]) + Len(seqs[i])
      BY <1>1, <1>2, <3>1, <3>2, ConcatProperties
    <3> QED
      BY <1>1, <3>1, <3>3
  <2> HIDE DEF sums, lens, n
  <2> QED
    BY <1>4, <2>1, <2>2 DEF Sums
<1>6. SumOf(lens) = sums[n]
  <2> HIDE DEF sums, lens, n
  <2> QED
    BY <1>4, <1>5, SumIs
<1>7. n \in 0 .. n
  BY <1>1
<1> QED
  BY <1>3, <1>6, <1>7

\* The cells of one term in one frame.
TermFrame(name, number) ==
  [k \in 1 .. Size[name] |-> [term |-> name, part |-> k, frame |-> number]]

LEMMA TermFrameTyped ==
  ASSUME NEW name \in Terms, NEW number \in Nat \ {0}
  PROVE  TermFrame(name, number) \in Seq(Cells) /\ Len(TermFrame(name, number)) = Size[name]
<1>1. Size[name] \in Nat \ {0}
  BY TermsAssumption
<1>2. \A k \in 1 .. Size[name] : [term |-> name, part |-> k, frame |-> number] \in Cells
  BY <1>1 DEF Cells
<1> QED
  BY <1>1, <1>2 DEF TermFrame

\* The terms of observationManager_ in one frame.
ManagedFrames(number) == [i \in DOMAIN managed |-> TermFrame(managed[i], number)]

LEMMA FrameTyped ==
  ASSUME managed \in Seq(Terms), NEW number \in Nat \ {0}
  PROVE  /\ MeasuredFrame(number) = FlattenSeq(ManagedFrames(number))
         /\ ManagedFrames(number) \in Seq(Seq(Cells))
         /\ Len(ManagedFrames(number)) = Len(managed)
         /\ MeasuredFrame(number) \in Seq(Cells)
         /\ Len(MeasuredFrame(number)) = ManagedSize
         /\ ManagedSize \in Nat
<1> DEFINE seqs == ManagedFrames(number)
<1>1. /\ Len(managed) \in Nat /\ DOMAIN managed = 1 .. Len(managed)
      /\ \A i \in 1 .. Len(managed) : managed[i] \in Terms
  OBVIOUS
<1>2. seqs \in Seq(Seq(Cells)) /\ Len(seqs) = Len(managed) /\ DOMAIN seqs = DOMAIN managed
  BY <1>1, TermFrameTyped DEF ManagedFrames
<1>3. MeasuredFrame(number) = FlattenSeq(seqs)
  BY DEF MeasuredFrame, ManagedFrames, TermFrame
<1>4. [i \in DOMAIN seqs |-> Len(seqs[i])] = [i \in DOMAIN managed |-> Size[managed[i]]]
  BY <1>1, <1>2, TermFrameTyped DEF ManagedFrames
<1>5. FlattenSeq(seqs) \in Seq(Cells) /\ Len(FlattenSeq(seqs)) = ManagedSize
  <2> HIDE DEF seqs
  <2>1. /\ FlattenSeq(seqs) \in Seq(Cells)
        /\ Len(FlattenSeq(seqs)) = SumOf([i \in DOMAIN seqs |-> Len(seqs[i])])
    BY <1>2, FlattenLength
  <2> QED
    BY <1>4, <2>1 DEF ManagedSize
<1>6. Len(FlattenSeq(seqs)) \in Nat
  BY <1>5, LenProperties
<1> QED
  BY <1>2, <1>3, <1>5, <1>6

\* A segment of a frame; what is inside the frame is read from it.
LEMMA SegmentTyped ==
  ASSUME NEW frame \in Seq(Cells), NEW from \in Nat, NEW width \in Nat
  PROVE  /\ Segment(frame, from, width) \in Seq(Cells \cup {Garbage})
         /\ Len(Segment(frame, from, width)) = width
         /\ from + width <= Len(frame) =>
              /\ Segment(frame, from, width) \in Seq(Cells)
              /\ Segment(frame, from, width) = SubSeq(frame, from + 1, from + width)
<1> DEFINE seg == Segment(frame, from, width)
<1>1. seg = [k \in 1 .. width |-> IF from + k <= Len(frame) THEN frame[from + k] ELSE Garbage]
  BY DEF Segment
<1>2. Len(frame) \in Nat /\ \A k \in 1 .. Len(frame) : frame[k] \in Cells
  OBVIOUS
<1>3. ASSUME NEW k \in 1 .. width
      PROVE  /\ seg[k] \in Cells \cup {Garbage}
             /\ from + width <= Len(frame) => seg[k] = frame[from + k] /\ seg[k] \in Cells
  <2>1. from + k \in Nat /\ from + k >= 1
    OBVIOUS
  <2>2. from + k <= Len(frame) => frame[from + k] \in Cells
    BY <1>2, <2>1
  <2>3. from + width <= Len(frame) => from + k <= Len(frame)
    BY <1>2
  <2>4. seg[k] = IF from + k <= Len(frame) THEN frame[from + k] ELSE Garbage
    BY <1>1
  <2> QED
    BY <2>2, <2>3, <2>4
<1>4. DOMAIN seg = 1 .. width /\ seg = [k \in 1 .. width |-> seg[k]]
  BY <1>1
<1> HIDE DEF seg
<1>5. seg \in Seq(Cells \cup {Garbage}) /\ Len(seg) = width
  BY <1>3, <1>4
<1>6. ASSUME from + width <= Len(frame)
      PROVE  seg \in Seq(Cells) /\ seg = SubSeq(frame, from + 1, from + width)
  <2> DEFINE sub == SubSeq(frame, from + 1, from + width)
  <2>1. seg \in Seq(Cells)
    BY <1>3, <1>4, <1>6
  <2>2. \A i \in from + 1 .. from + width : frame[i] \in Cells
    BY <1>2, <1>6
  <2>3. from + 1 \in Int /\ from + width \in Int
    OBVIOUS
  <2>4. /\ sub \in Seq(Cells)
        /\ Len(sub) = IF from + 1 <= from + width THEN from + width - (from + 1) + 1 ELSE 0
        /\ \A i \in 1 .. from + width - (from + 1) + 1 : sub[i] = frame[from + 1 + i - 1]
    <3> HIDE DEF sub
    <3> QED
      BY <2>2, <2>3, SubSeqProperties DEF sub
  <2> HIDE DEF sub
  <2>5. Len(sub) = width /\ from + width - (from + 1) + 1 = width
    BY <2>4
  <2>6. ASSUME NEW i \in 1 .. width PROVE seg[i] = sub[i]
    <3>1. from + 1 + i - 1 = from + i
      OBVIOUS
    <3> QED
      BY <1>3, <1>6, <2>4, <2>5, <3>1
  <2> QED
    BY <1>5, <2>1, <2>4, <2>5, <2>6, SeqEqual DEF sub
<1> QED
  BY <1>5, <1>6 DEF seg

-----------------------------------------------------------------------------
(* The types of what the actions compute. *)

LEMMA LayoutTyped ==
  ASSUME NEW m, GoodModel(m)
  PROVE  /\ LayoutOf(m) \in [history : Nat \ {0}, actorDim : Nat, single : Nat, decoderDim : Nat]
         /\ ActorDims(m) \in Nat
<1>1. ActorDims(m) \in Nat /\ DecoderDims(m) \in Nat
  BY WidthsTyped DEF ActorDims, DecoderDims
<1>2. m.history \in Nat /\ m.actorDim \in Nat /\ m.decoderDim \in Nat
  BY ModelsAssumption DEF GoodModel
<1> DEFINE history == IF m.history > 1 THEN m.history ELSE 1
           actorDim == IF m.actorDim = 0 THEN ActorDims(m) * history ELSE m.actorDim
<1>3. history \in Nat \ {0} /\ actorDim \in Nat
  BY <1>1, <1>2
<1>4. LayoutOf(m) = [history |-> history, actorDim |-> actorDim, single |-> actorDim \div history,
        decoderDim |-> IF m.decoderDim = 0 THEN DecoderDims(m) ELSE m.decoderDim]
  BY DEF LayoutOf
<1> HIDE DEF history, actorDim
<1>5. actorDim \div history \in Nat
  BY <1>3
<1> QED
  BY <1>1, <1>2, <1>3, <1>4, <1>5

LEMMA MappingTyped ==
  ASSUME NEW policyNames, NEW controlNames, ControlNames(controlNames)
  PROVE  PolicyToControlIndex(policyNames, controlNames) \in [Joints -> 0 .. NumJoints]
<1>1. DOMAIN controlNames \subseteq 0 .. NumJoints /\ NotFound \in 0 .. NumJoints
  BY JointsAssumption DEF ControlNames, NotFound
<1>2. ASSUME NEW p \in Joints
      PROVE  PolicyToControlIndex(policyNames, controlNames)[p] \in 0 .. NumJoints
  <2> DEFINE named == {c \in DOMAIN controlNames : controlNames[c] = policyNames[p]}
  <2>1. PolicyToControlIndex(policyNames, controlNames)[p] =
          IF NamedFirst(policyNames, p) /\ named # {} THEN CHOOSE c \in named : TRUE ELSE NotFound
    BY DEF PolicyToControlIndex
  <2>2. named # {} => (CHOOSE c \in named : TRUE) \in named
    OBVIOUS
  <2>3. named \subseteq DOMAIN controlNames
    OBVIOUS
  <2> HIDE DEF named
  <2> QED
    BY <1>1, <2>1, <2>2, <2>3
<1>3. PolicyToControlIndex(policyNames, controlNames)
        = [p \in Joints |-> PolicyToControlIndex(policyNames, controlNames)[p]]
  BY DEF PolicyToControlIndex
<1> QED
  BY <1>2, <1>3

LEMMA CommandTyped ==
  ASSUME NEW mapping, NEW value \in [Joints -> Entries]
  PROVE  PolicyVectorToControlOrder(mapping, value) \in [Joints -> Entries]
<1>1. Unwritten \in Entries
  BY DEF Entries
<1>2. ASSUME NEW c \in Joints
      PROVE  (IF \E p \in Joints : mapping[p] = c
              THEN value[CHOOSE p \in Joints : mapping[p] = c] ELSE Unwritten) \in Entries
  <2>1. CASE \E p \in Joints : mapping[p] = c
    <3>1. (CHOOSE p \in Joints : mapping[p] = c) \in Joints
      BY <2>1, Zenon
    <3> QED
      BY <2>1, <3>1
  <2>2. CASE ~\E p \in Joints : mapping[p] = c
    BY <1>1, <2>2
  <2> QED
    BY <2>1, <2>2
<1> QED
  BY <1>2 DEF PolicyVectorToControlOrder

LEMMA ReadTyped ==
  ASSUME NEW policyNames, PolicyNames(policyNames)
  PROVE  ReadPolicyJointPosition(policyNames,
           [i \in DOMAIN ModelOrder |-> [from |-> ModelOrder[i], at |-> 0]]) \in [Joints -> Entries]
<1> DEFINE measured == [i \in DOMAIN ModelOrder |-> [from |-> ModelOrder[i], at |-> 0]]
<1>1. \A i \in DOMAIN ModelOrder : measured[i] \in Entries
  BY JointsAssumption DEF Entries
<1>2. ASSUME NEW p \in Joints PROVE JointIndex(policyNames[p]) \in DOMAIN ModelOrder
  <2>1. policyNames[p] \in JointNames
    BY DEF PolicyNames, Joints
  <2> QED
    BY <2>1, JointsAssumption DEF JointIndex
<1> HIDE DEF measured
<1>3. ReadPolicyJointPosition(policyNames, measured) \in [Joints -> Entries]
  BY <1>1, <1>2 DEF ReadPolicyJointPosition
<1> QED
  BY <1>3 DEF measured

\* The limits, their centre and their half in parts of 1/(2 * FactorDen).
LEMMA ClippedTyped ==
  ASSUME clip.range \in [Joints -> Int \X Int], NEW p \in Joints, NEW raw \in RawTargets
  PROVE  Clipped(p, raw) \in Int
<1>1. /\ clip.range[p][1] \in Int /\ clip.range[p][2] \in Int /\ raw \in Int
      /\ FactorNum \in Int /\ FactorDen \in Int
  BY FactorAssumption, TargetsAssumption
<1> DEFINE center == FactorDen * (clip.range[p][1] + clip.range[p][2])
           half == FactorNum * (clip.range[p][2] - clip.range[p][1])
<1>2. center \in Int /\ half \in Int /\ Fine(raw) \in Int
  BY <1>1 DEF Fine
<1>3. Clipped(p, raw) = IF ~clip.on \/ ~Usable(clip.range[p]) THEN Fine(raw)
                        ELSE IF Fine(raw) < center - half THEN center - half
                        ELSE IF Fine(raw) > center + half THEN center + half
                        ELSE Fine(raw)
  BY DEF Clipped
<1> HIDE DEF center, half
<1> QED
  BY <1>2, <1>3

LEMMA ClipTyped ==
  ASSUME NEW m \in Models, NEW s \in Setups, MetadataParses(m), s.clipTarget,
         s.clipTarget /\ s.paramLimits # <<>> => Len(s.paramLimits) = NumJoints
  PROVE  /\ ConfiguredClip(ClipRanges(m, s)).on \in BOOLEAN
         /\ ConfiguredClip(ClipRanges(m, s)).range \in [Joints -> Int \X Int]
<1> DEFINE ranges == ClipRanges(m, s)
<1>1. \A p \in Joints : ranges[p] \in Int \X Int
  <2>1. CASE s.paramLimits # <<>>
    <3>1. ranges = s.paramLimits /\ s.paramLimits \in Seq(Int \X Int)
      BY <2>1, SetupsAssumption DEF ClipRanges
    <3>2. Joints = 1 .. Len(s.paramLimits)
      BY <2>1 DEF Joints
    <3> HIDE DEF ranges
    <3> QED
      BY <3>1, <3>2
  <2>2. CASE s.paramLimits = <<>>
    <3>1. \A p \in Joints : ranges[p] = s.hardLimits[m.joints[p]]
      BY <2>2 DEF ClipRanges
    <3>2. \A p \in Joints : m.joints[p] \in JointNames
      BY ModelsAssumption DEF MetadataParses, Joints
    <3> HIDE DEF ranges
    <3> QED
      BY <3>1, <3>2, SetupsAssumption
  <2> QED
    BY <2>1, <2>2
<1> HIDE DEF ranges
<1>2. ConfiguredClip(ranges).range \in [Joints -> Int \X Int] /\ ConfiguredClip(ranges).on \in BOOLEAN
  BY <1>1 DEF ConfiguredClip, NoClip
<1> QED
  BY <1>2 DEF ranges

LEMMA ManagedTyped == TypeOK => managed \in Seq(Terms)
<1> SUFFICES ASSUME TypeOK PROVE managed \in Seq(Terms)
  OBVIOUS
<1>1. managed = <<>> \/ \E s \in Setups : managed = s.managed
  BY DEF TypeOK
<1>2. \A s \in Setups : s.managed \in Seq(Terms)
  BY SetupsAssumption
<1>3. <<>> \in Seq(Terms)
  OBVIOUS
<1> QED
  BY <1>1, <1>2, <1>3

LEMMA SumsGrow ==
  ASSUME NEW widths \in Seq(Nat), NEW sums \in [0 .. Len(widths) -> Nat], Sums(widths, sums),
         NEW i \in 0 .. Len(widths), NEW j \in 0 .. Len(widths), i <= j
  PROVE  sums[i] <= sums[j]
<1> DEFINE n == Len(widths)
           T == {k \in Nat : k <= n /\ i <= k => sums[i] <= sums[k]}
<1>1. n \in Nat
  OBVIOUS
<1>2. 0 \in T
  BY <1>1
<1>3. ASSUME NEW k \in 0 .. n - 1, k \in T PROVE k + 1 \in T
  <2> HIDE DEF n
  <2>1. k \in Nat /\ k + 1 \in 1 .. n /\ (k + 1) - 1 = k /\ widths[k + 1] \in Nat
    BY <1>1 DEF n
  <2>2. sums[k + 1] = sums[k] + widths[k + 1]
    BY <2>1 DEF Sums, n
  <2>3. sums[k] \in Nat /\ sums[i] \in Nat
    BY <2>1 DEF n
  <2>4. i <= k + 1 => sums[i] <= sums[k + 1]
    <3>1. CASE i <= k
      <4>1. k <= n
        BY <1>1, <2>1
      <4>2. sums[i] <= sums[k]
        BY <1>3, <3>1, <4>1
      <4> QED
        BY <2>1, <2>2, <2>3, <4>2
    <3>2. CASE i = k + 1
      BY <2>1, <2>2, <2>3, <3>2
    <3> QED
      BY <2>1, <3>1, <3>2
  <2> QED
    BY <2>1, <2>4
<1>4. j \in T
  <2> HIDE DEF T, n
  <2>1. \A k \in 0 .. n : k \in T
    BY <1>1, <1>2, <1>3, StepByStep
  <2> QED
    BY <2>1 DEF n
<1> QED
  BY <1>1, <1>4

\* As many times one width.
LEMMA SumOfEqual ==
  ASSUME NEW n \in Nat, NEW width \in Nat
  PROVE  SumOf([j \in 1 .. n |-> width]) = n * width
<1> DEFINE w == [j \in 1 .. n |-> width]
           sums == [i \in 0 .. n |-> i * width]
<1>1. w \in Seq(Nat) /\ Len(w) = n /\ \A i \in 1 .. n : w[i] = width
  OBVIOUS
<1>2. sums[0] = 0 /\ sums[n] = n * width
  OBVIOUS
<1>3. ASSUME NEW i \in 1 .. n PROVE sums[i] = sums[i - 1] + w[i]
  <2>1. i - 1 \in 0 .. n /\ i \in 0 .. n
    OBVIOUS
  <2>2. i * width = (i - 1) * width + width
    OBVIOUS
  <2> QED
    BY <1>1, <2>1, <2>2
<1> HIDE DEF w, sums
<1>4. Sums(w, sums)
  BY <1>1, <1>2, <1>3 DEF Sums
<1>5. SumOf(w) = sums[n]
  BY <1>1, <1>4, SumIs
<1> QED
  BY <1>2, <1>5 DEF w

\* The segments of one term over the frames of the history, and their length.
TermHistory(history, i) ==
  [j \in DOMAIN history |-> Segment(history[j], CursorAt(i), model.dims[i])]

LEMMA TermHistoryJoined ==
  ASSUME NEW X, NEW history \in Seq(Seq(Cells)), NEW i, model.dims[i] \in Nat,
         \A j \in DOMAIN history : /\ TermHistory(history, i)[j] \in Seq(X)
                                   /\ Len(TermHistory(history, i)[j]) = model.dims[i]
  PROVE  /\ TermHistory(history, i) \in Seq(Seq(X))
         /\ FlattenSeq(TermHistory(history, i)) \in Seq(X)
         /\ Len(FlattenSeq(TermHistory(history, i))) = Len(history) * model.dims[i]
<1> DEFINE term == TermHistory(history, i)
<1>1. Len(history) \in Nat /\ DOMAIN history = 1 .. Len(history)
  OBVIOUS
<1>2. term = [j \in 1 .. Len(history) |-> term[j]] /\ DOMAIN term = 1 .. Len(history)
  BY <1>1 DEF TermHistory
<1>3. \A j \in 1 .. Len(history) : term[j] \in Seq(X) /\ Len(term[j]) = model.dims[i]
  BY <1>1
<1> HIDE DEF term
<1>4. term \in Seq(Seq(X))
  BY <1>1, <1>2, <1>3
<1>5. [j \in DOMAIN term |-> Len(term[j])] = [j \in 1 .. Len(history) |-> model.dims[i]]
  BY <1>2, <1>3
<1>6. /\ FlattenSeq(term) \in Seq(X)
      /\ Len(FlattenSeq(term)) = SumOf([j \in DOMAIN term |-> Len(term[j])])
  BY <1>4, FlattenLength
<1>7. SumOf([j \in 1 .. Len(history) |-> model.dims[i]]) = Len(history) * model.dims[i]
  BY <1>1, SumOfEqual
<1> QED
  BY <1>4, <1>5, <1>6, <1>7 DEF term

\* All the segments that the assembly writes for the actor.
LEMMA ActorHistoryJoined ==
  ASSUME GoodModel(model), NEW X, NEW history \in Seq(Seq(Cells)),
         \A i \in VisitedTerms : \A j \in DOMAIN history :
           TermHistory(history, i)[j] \in Seq(X)
  PROVE  /\ ActorHistory(history) \in Seq(X)
         /\ Len(ActorHistory(history)) = Len(history) * VisitedWidth
         /\ VisitedWidth \in Nat
<1> DEFINE n == Len(model.names)
           H == Len(history)
<1>1. /\ n \in Nat /\ DOMAIN model.names = 1 .. n
      /\ model.dims \in Seq(Nat) /\ Len(model.dims) \in Nat
      /\ \A i \in 1 .. n : i \in 1 .. Len(model.dims) /\ model.dims[i] \in Nat
  BY MetadataLengths
<1>2. PICK v \in 0 .. n : VisitedTerms = 1 .. v /\ Cardinality(VisitedTerms) = v
  BY VisitedPrefix
<1>3. PICK sums \in [0 .. Len(model.dims) -> Nat] :
        Sums(model.dims, sums) /\ \A i \in 0 .. Len(model.dims) : CursorAt(i + 1) = sums[i]
  BY CursorSums
<1>4. H \in Nat /\ DOMAIN history = 1 .. H /\ \A j \in 1 .. H : history[j] \in Seq(Cells)
  OBVIOUS
<1> HIDE DEF n, H
<1>5. v \in Nat /\ \A i \in 1 .. v : i \in 1 .. n /\ i \in 1 .. Len(model.dims) /\ model.dims[i] \in Nat
  BY <1>1, <1>2
<1>6. ASSUME NEW i \in 1 .. v, NEW j \in 1 .. H
      PROVE  Len(TermHistory(history, i)[j]) = model.dims[i]
  <2>1. i - 1 \in 0 .. Len(model.dims) /\ (i - 1) + 1 = i
    BY <1>1, <1>5
  <2>2. CursorAt(i) \in Nat
    BY <1>3, <2>1
  <2> QED
    BY <1>4, <1>5, <2>2, SegmentTyped DEF TermHistory
<1> DEFINE terms == [i \in 1 .. v |-> FlattenSeq(TermHistory(history, i))]
<1>7. ASSUME NEW i \in 1 .. v
      PROVE  terms[i] \in Seq(X) /\ Len(terms[i]) = H * model.dims[i]
  <2>1. i \in VisitedTerms /\ model.dims[i] \in Nat
    BY <1>2, <1>5
  <2>2. /\ FlattenSeq(TermHistory(history, i)) \in Seq(X)
        /\ Len(FlattenSeq(TermHistory(history, i))) = H * model.dims[i]
    <3>1. \A j \in DOMAIN history : /\ TermHistory(history, i)[j] \in Seq(X)
                                    /\ Len(TermHistory(history, i)[j]) = model.dims[i]
      BY <1>4, <1>6, <2>1
    <3> QED
      BY <2>1, <3>1, TermHistoryJoined DEF H
  <2> QED
    BY <2>2
<1>8. ActorHistory(history) = FlattenSeq(terms)
  BY <1>2 DEF ActorHistory, TermHistory
<1>9. DOMAIN terms = 1 .. v /\ terms = [i \in 1 .. v |-> terms[i]]
  OBVIOUS
<1> HIDE DEF terms
<1>10. terms \in Seq(Seq(X)) /\ Len(terms) = v
  BY <1>5, <1>7, <1>9
<1> DEFINE lens == [i \in DOMAIN terms |-> Len(terms[i])]
           scaled == [i \in 0 .. v |-> H * sums[i]]
<1>11. FlattenSeq(terms) \in Seq(X) /\ Len(FlattenSeq(terms)) = SumOf(lens)
  BY <1>10, FlattenLength
<1>12. lens \in Seq(Nat) /\ Len(lens) = v /\ \A i \in 1 .. v : lens[i] = H * model.dims[i]
  <2>1. \A i \in 1 .. v : H * model.dims[i] \in Nat
    BY <1>4, <1>5
  <2>2. lens = [i \in 1 .. v |-> H * model.dims[i]]
    BY <1>7, <1>9
  <2> HIDE DEF lens
  <2> QED
    BY <1>5, <2>1, <2>2
<1>13. Sums(lens, scaled)
  <2>1. scaled[0] = 0
    BY <1>3, <1>4, <1>5 DEF Sums
  <2>2. ASSUME NEW i \in 1 .. v PROVE scaled[i] = scaled[i - 1] + lens[i]
    <3>1. i \in 0 .. v /\ i - 1 \in 0 .. v /\ i - 1 \in 0 .. Len(model.dims)
      BY <1>1, <1>5
    <3>2. sums[i] = sums[i - 1] + model.dims[i] /\ sums[i - 1] \in Nat /\ model.dims[i] \in Nat
      BY <1>3, <1>5, <3>1 DEF Sums
    <3>3. H * sums[i] = H * sums[i - 1] + H * model.dims[i]
      BY <1>4, <3>2
    <3> QED
      BY <1>12, <3>1, <3>3
  <2> HIDE DEF scaled, lens
  <2> QED
    BY <1>12, <2>1, <2>2 DEF Sums
<1>14. SumOf(lens) = scaled[v]
  <2> HIDE DEF scaled, lens
  <2> QED
    BY <1>12, <1>13, SumIs
<1>15. scaled[v] = H * sums[v]
  BY <1>5
<1>16. VisitedWidth = sums[v] /\ sums[v] \in Nat
  <2>1. v \in 0 .. Len(model.dims)
    <3>1. CASE v = 0
      BY <1>1, <3>1
    <3>2. CASE v # 0
      <4>1. v \in 1 .. v
        BY <1>5, <3>2
      <4> QED
        BY <1>1, <1>5, <4>1
    <3> QED
      BY <3>1, <3>2
  <2> QED
    BY <1>2, <1>3, <2>1 DEF VisitedWidth
<1> QED
  BY <1>8, <1>11, <1>14, <1>15, <1>16 DEF H

\* The assembled observation, whatever the frames are.
LEMMA AssembledTyped ==
  ASSUME GoodModel(model), NEW history \in Seq(Seq(Cells)), NEW frame \in Seq(Cells),
         layout.decoderDim \in Nat, layout.actorDim \in Nat, layout.decoderDim <= Len(frame)
  PROVE  Assembled(history, frame) \in Seq(Cells \cup {Garbage})
<1> DEFINE C == Cells \cup {Garbage}
           actor == ActorHistory(history)
           decoder == Segment(frame, Len(frame) - layout.decoderDim, layout.decoderDim)
<1>1. model.obsInput \in Nat
  BY ModelsAssumption DEF GoodModel
<1>2. decoder \in Seq(C) /\ Len(decoder) = layout.decoderDim
  <2>1. Len(frame) - layout.decoderDim \in Nat
    BY LenProperties
  <2> QED
    BY <2>1, SegmentTyped
<1>3. ASSUME NEW i \in VisitedTerms, NEW j \in DOMAIN history
      PROVE  TermHistory(history, i)[j] \in Seq(C)
  <2>1. i \in DOMAIN model.names
    BY DEF VisitedTerms
  <2>2. i \in 1 .. Len(model.dims) /\ model.dims[i] \in Nat /\ Len(model.dims) \in Nat
    BY <2>1, MetadataLengths
  <2>3. i - 1 \in 0 .. Len(model.dims) /\ (i - 1) + 1 = i
    BY <2>2
  <2>4. CursorAt(i) \in Nat
    BY <2>3, CursorSums
  <2>5. history[j] \in Seq(Cells)
    OBVIOUS
  <2> QED
    BY <2>2, <2>4, <2>5, SegmentTyped DEF TermHistory
<1>4. actor \in Seq(C)
  BY <1>3, ActorHistoryJoined
<1>5. Assembled(history, frame) = [k \in 1 .. model.obsInput |->
        IF k <= Len(actor) THEN actor[k]
        ELSE IF k - layout.actorDim \in 1 .. layout.decoderDim
             THEN decoder[k - layout.actorDim]
        ELSE Garbage]
  BY DEF Assembled
<1>6. Garbage \in C
  OBVIOUS
<1> HIDE DEF actor, decoder, C
<1>7. ASSUME NEW k \in 1 .. model.obsInput
      PROVE  (IF k <= Len(actor) THEN actor[k]
              ELSE IF k - layout.actorDim \in 1 .. layout.decoderDim
                   THEN decoder[k - layout.actorDim]
              ELSE Garbage) \in C
  <2>1. k \in Nat /\ k >= 1
    BY <1>1
  <2>2. k <= Len(actor) => actor[k] \in C
    BY <1>4, <2>1
  <2>3. k - layout.actorDim \in 1 .. layout.decoderDim => decoder[k - layout.actorDim] \in C
    BY <1>2
  <2> QED
    BY <1>6, <2>2, <2>3
<1> DEFINE cell(k) ==
      IF k <= Len(actor) THEN actor[k]
      ELSE IF k - layout.actorDim \in 1 .. layout.decoderDim THEN decoder[k - layout.actorDim]
      ELSE Garbage
<1>8. Assembled(history, frame) \in Seq(C)
  <2>1. \A k \in 1 .. model.obsInput : cell(k) \in C
    BY <1>7
  <2>2. Assembled(history, frame) = [k \in 1 .. model.obsInput |-> cell(k)]
    BY <1>5
  <2> HIDE DEF cell
  <2>3. Assembled(history, frame) \in [1 .. model.obsInput -> C]
    BY <2>1, <2>2
  <2> QED
    BY <1>1, <2>3, SeqDef
<1> QED
  BY <1>8 DEF C

-----------------------------------------------------------------------------
(* What was loaded is kept until the next on_configure, and what the        *)
(* activation accepted is kept while the controller is active.              *)

LoadedInv ==
  /\ lifecycle # "unconfigured" => GoodModel(model)
  /\ lifecycle = "active" => LayoutAccepted /\ layout = LayoutOf(model)
  /\ outcome = "threw" => lifecycle = "finalized"

LEMMA SameLayout ==
  ASSUME UNCHANGED <<model, managed>>
  PROVE  /\ LayoutAccepted' <=> LayoutAccepted
         /\ LayoutOf(model)' = LayoutOf(model)
         /\ GoodModel(model)' <=> GoodModel(model)
         /\ ManagedSize' = ManagedSize
<1>1. LayoutOf(model)' = LayoutOf(model)
  BY DEF LayoutOf
<1>2. ManagedSize' = ManagedSize
  BY DEF ManagedSize
<1>3. ActorDims(model)' = ActorDims(model) /\ DecoderDims(model)' = DecoderDims(model)
  OBVIOUS
<1>4. GoodModel(model)' <=> GoodModel(model)
  BY DEF GoodModel, MetadataParses
<1> QED
  BY <1>1, <1>2, <1>3, <1>4 DEF LayoutAccepted

LEMMA LoadedInvInit == Init => LoadedInv
BY DEF Init, LoadedInv

LEMMA LoadedInvNext == OrderInv /\ LoadedInv /\ [Next]_vars => LoadedInv'
<1> SUFFICES ASSUME OrderInv, LoadedInv, [Next]_vars PROVE LoadedInv'
  OBVIOUS
<1>1. CASE Configure
  <2>1. PICK m \in Models, s \in Setups : MetadataParses(m) /\ model' = m
    BY <1>1 DEF Configure
  <2>2. GoodModel(model')
    BY <2>1 DEF GoodModel
  <2> QED
    BY <1>1, <2>2 DEF Configure, LoadedInv, GoodModel, MetadataParses
<1>2. CASE Activate
  <2>1. UNCHANGED <<model, managed>>
    BY <1>2 DEF Activate, loadedVars
  <2> QED
    BY <1>2, <2>1, SameLayout DEF Activate, LoadedInv
<1>3. CASE ActivateFails
  BY <1>3, SameLayout DEF ActivateFails, LoadedInv, loadedVars
<1>4. CASE Deactivate
  BY <1>4, SameLayout DEF Deactivate, LoadedInv, loadedVars
<1>5. CASE Cleanup
  BY <1>5, SameLayout DEF Cleanup, LoadedInv, loadedVars
<1>6. CASE Hold
  BY <1>6, SameLayout DEF Hold, LoadedInv, loadedVars, layoutVars
<1>7. CASE ResetMemory
  BY <1>7, SameLayout DEF ResetMemory, LoadedInv, loadedVars, layoutVars
<1>8. CASE WriteTarget
  BY <1>8, SameLayout DEF WriteTarget, LoadedInv, loadedVars, layoutVars
<1>9. CASE UpdateThrows
  BY <1>9, SameLayout DEF UpdateThrows, LoadedInv, loadedVars, layoutVars
<1>10. CASE UNCHANGED vars
  BY <1>10, SameLayout DEF vars, LoadedInv, loadedVars, layoutVars
<1> QED
  BY <1>1, <1>2, <1>3, <1>4, <1>5, <1>6, <1>7, <1>8, <1>9, <1>10 DEF Next

\* One more frame: the history is filled with it, or its oldest frame drops out.
LEMMA PushedTyped ==
  ASSUME frames \in Seq(Seq(Cells)), frames = <<>> \/ Len(frames) = layout.history,
         layout.history \in Nat \ {0}, NEW frame \in Seq(Cells)
  PROVE  /\ Pushed(frame) \in Seq(Seq(Cells)) /\ Len(Pushed(frame)) = layout.history
         /\ \A j \in 1 .. layout.history :
              Pushed(frame)[j] = IF frames = <<>> \/ j = layout.history THEN frame
                                 ELSE frames[j + 1]
<1> DEFINE S == Seq(Cells)
<1>1. CASE frames = <<>>
  <2>1. Pushed(frame) = [i \in 1 .. layout.history |-> frame]
    BY <1>1 DEF Pushed
  <2> QED
    BY <1>1, <2>1
<1>2. CASE frames # <<>>
  <2>1. Pushed(frame) = Append(Tail(frames), frame) /\ Len(frames) = layout.history
    BY <1>2 DEF Pushed
  <2>2. frame \in S /\ frames \in Seq(S)
    OBVIOUS
  <2> HIDE DEF S
  <2>3. /\ Tail(frames) \in Seq(S) /\ Len(Tail(frames)) = layout.history - 1
        /\ \A i \in 1 .. Len(Tail(frames)) : Tail(frames)[i] = frames[i + 1]
    BY <1>2, <2>1, <2>2, HeadTailProperties
  <2>4. /\ Append(Tail(frames), frame) \in Seq(S)
        /\ Len(Append(Tail(frames), frame)) = Len(Tail(frames)) + 1
        /\ \A i \in 1 .. Len(Tail(frames)) : Append(Tail(frames), frame)[i] = Tail(frames)[i]
        /\ Append(Tail(frames), frame)[Len(Tail(frames)) + 1] = frame
    BY <2>2, <2>3, AppendProperties
  <2>5. ASSUME NEW j \in 1 .. layout.history
        PROVE  Pushed(frame)[j] = IF j = layout.history THEN frame ELSE frames[j + 1]
    <3>1. CASE j = layout.history
      BY <2>1, <2>3, <2>4, <3>1
    <3>2. CASE j # layout.history
      <4>1. j \in 1 .. Len(Tail(frames))
        BY <2>3, <3>2
      <4> QED
        BY <2>1, <2>3, <2>4, <3>2, <4>1
    <3> QED
      BY <3>1, <3>2
  <2> QED
    BY <1>2, <2>1, <2>3, <2>4, <2>5 DEF S
<1> QED
  BY <1>1, <1>2

\* What buildPolicyObservation makes of a state in which it does not throw.
LEMMA BuiltTyped ==
  ASSUME TypeOK, LoadedInv, lifecycle = "active", Assembles, BuildObservation,
         UNCHANGED <<loadedVars, layoutVars>>
  PROVE  /\ frames' \in Seq(Seq(Cells)) /\ Len(frames') = layout.history
         /\ obs' \in Seq(Cells \cup {Garbage})
         /\ frameNo' \in 1 .. MaxFrames
<1>1. /\ frameNo < MaxFrames /\ frameNo' = frameNo + 1
      /\ frames' = Pushed(SubSeq(MeasuredFrame(frameNo'), 1, layout.single))
      /\ obs' = Assembled(frames', MeasuredFrame(frameNo'))
  BY DEF BuildObservation
<1>2. frameNo \in 0 .. MaxFrames /\ frameNo' \in Nat \ {0} /\ frameNo' \in 1 .. MaxFrames
  BY <1>1, BoundAssumption DEF TypeOK
<1>3. managed \in Seq(Terms)
  BY ManagedTyped
<1> DEFINE whole == MeasuredFrame(frameNo')
           frame == SubSeq(whole, 1, layout.single)
<1>4. whole \in Seq(Cells) /\ Len(whole) = ManagedSize
  BY <1>2, <1>3, FrameTyped
<1>5. /\ ManagedSize = layout.single + layout.decoderDim /\ layout.single > 0
      /\ layout.single \in Nat /\ layout.decoderDim \in Nat /\ layout.actorDim \in Nat
      /\ layout.history \in Nat \ {0}
  BY DEF Assembles, TypeOK
<1> HIDE DEF whole
<1>6. frame \in Seq(Cells)
  <2>1. \A i \in 1 .. layout.single : whole[i] \in Cells
    BY <1>4, <1>5
  <2>2. layout.single \in Int /\ 1 \in Int
    BY <1>5
  <2> HIDE DEF frame
  <2> QED
    BY <2>1, <2>2, SubSeqProperties DEF frame
<1>7. frames' \in Seq(Seq(Cells)) /\ Len(frames') = layout.history
  <2>1. frames \in Seq(Seq(Cells)) /\ (frames = <<>> \/ Len(frames) = layout.history)
    BY DEF TypeOK
  <2>2. frames' = Pushed(frame)
    BY <1>1 DEF whole
  <2> HIDE DEF frame
  <2> QED
    BY <1>5, <1>6, <2>1, <2>2, PushedTyped
<1>8. obs' \in Seq(Cells \cup {Garbage})
  <2>1. GoodModel(model)
    BY DEF LoadedInv
  <2>2. layout.decoderDim <= Len(whole)
    BY <1>4, <1>5
  <2>3. obs' = Assembled(frames', whole)
    BY <1>1 DEF whole
  <2> DEFINE history == frames'
  <2>4. Assembled(history, whole) \in Seq(Cells \cup {Garbage})
    <3>1. history \in Seq(Seq(Cells))
      BY <1>7
    <3> HIDE DEF history
    <3> QED
      BY <1>4, <1>5, <2>1, <2>2, <3>1, AssembledTyped
  <2> QED
    BY <2>3, <2>4
<1> QED
  BY <1>2, <1>7, <1>8

LEMMA TypeOKInit == Init => TypeOK
<1> SUFFICES ASSUME Init PROVE TypeOK
  OBVIOUS
<1>1. clip.on \in BOOLEAN /\ clip.range \in [Joints -> Int \X Int]
  BY DEF Init, NoClip
<1>2. layout \in [history : Nat \ {0}, actorDim : Nat, single : Nat, decoderDim : Nat]
  BY DEF Init, NoLayout
<1>3. toControl \in [Joints -> 0 .. NumJoints]
  BY JointsAssumption DEF Init, NoMapping, NotFound
<1>4. frames \in Seq(Seq(Cells)) /\ obs \in Seq(Cells \cup {Garbage})
  BY EmptySeq DEF Init
<1>5. frameNo \in 0 .. MaxFrames /\ firstFrame \in 1 .. frameNo + 1
  BY BoundAssumption DEF Init
<1> QED
  BY <1>1, <1>2, <1>3, <1>4, <1>5 DEF Init, TypeOK

LEMMA TypeOKNext == OrderInv /\ LoadedInv /\ TypeOK /\ [Next]_vars => TypeOK'
<1> SUFFICES ASSUME OrderInv, LoadedInv, TypeOK, [Next]_vars PROVE TypeOK'
  OBVIOUS
<1>0. <<>> \in Seq(Seq(Cells)) /\ <<>> \in Seq(Cells \cup {Garbage})
  BY EmptySeq
<1>1. CASE Configure
  <2>1. PICK m \in Models, s \in Setups :
          /\ MetadataParses(m)
          /\ s.clipTarget /\ s.paramLimits # <<>> => Len(s.paramLimits) = NumJoints
          /\ model' = m /\ managed' = s.managed /\ controlOrder' = s.controlOrder
          /\ clip' = IF s.clipTarget THEN ConfiguredClip(ClipRanges(m, s)) ELSE NoClip
    BY <1>1 DEF Configure
  <2>2. clip'.on \in BOOLEAN /\ clip'.range \in [Joints -> Int \X Int]
    <3>1. CASE s.clipTarget
      BY <2>1, <3>1, ClipTyped
    <3>2. CASE ~s.clipTarget
      BY <2>1, <3>2 DEF NoClip
    <3> QED
      BY <3>1, <3>2
  <2> QED
    BY <1>1, <2>1, <2>2 DEF Configure, TypeOK, layoutVars, historyVars
<1>2. CASE Activate
  <2>1. GoodModel(model) /\ ControlNames(controlOrder)
    BY <1>2 DEF Activate, LoadedInv, OrderInv
  <2>2. layout' \in [history : Nat \ {0}, actorDim : Nat, single : Nat, decoderDim : Nat]
    BY <1>2, <2>1, LayoutTyped DEF Activate
  <2>3. toControl' \in [Joints -> 0 .. NumJoints]
    BY <1>2, <2>1, MappingTyped DEF Activate
  <2>4. frameNo' = frameNo /\ firstFrame' = frameNo + 1 /\ frames' = <<>> /\ obs' = <<>>
    BY <1>2 DEF Activate, ResetObservationHistory
  <2>5. firstFrame' \in 1 .. frameNo' + 1
    BY <2>4, BoundAssumption DEF TypeOK
  <2> QED
    BY <1>0, <1>2, <2>2, <2>3, <2>4, <2>5 DEF Activate, TypeOK, loadedVars
<1>3. CASE ActivateFails
  BY <1>3 DEF ActivateFails, TypeOK, loadedVars, layoutVars, historyVars
<1>4. CASE Deactivate
  BY <1>0, <1>4 DEF Deactivate, TypeOK, loadedVars, layoutVars
<1>5. CASE Cleanup
  BY <1>5 DEF Cleanup, TypeOK, loadedVars, layoutVars, historyVars
<1>6. CASE Hold
  <2>1. PolicyNames(model.joints)
    BY <1>6 DEF Hold, OrderInv
  <2>2. command' \in [Joints -> Entries]
    BY <1>6, <2>1, ReadTyped, CommandTyped DEF Hold
  <2> QED
    BY <1>0, <1>6, <2>2 DEF Hold, TypeOK, loadedVars, layoutVars
<1>7. CASE ResetMemory
  <2>1. firstFrame' \in 1 .. frameNo' + 1
    BY <1>7, BoundAssumption DEF ResetMemory, ResetObservationHistory, TypeOK
  <2> QED
    BY <1>0, <1>7, <2>1 DEF ResetMemory, ResetObservationHistory, TypeOK, loadedVars, layoutVars
<1>8. CASE WriteTarget
  <2>1. /\ frames' \in Seq(Seq(Cells)) /\ Len(frames') = layout.history
        /\ obs' \in Seq(Cells \cup {Garbage})
        /\ frameNo' \in 1 .. MaxFrames
    BY <1>8, BuiltTyped DEF WriteTarget
  <2>2. firstFrame' \in 1 .. frameNo' + 1 /\ frameNo' \in 0 .. MaxFrames
    BY <1>8, <2>1, BoundAssumption DEF WriteTarget, BuildObservation, TypeOK
  <2>3. target' \in [Joints -> Entries]
    <3>1. CASE \E raw \in RawTargets :
                 target' = [p \in Joints |-> [from |-> model.joints[p], at |-> Clipped(p, raw)]]
      <4>1. PICK raw \in RawTargets :
              target' = [p \in Joints |-> [from |-> model.joints[p], at |-> Clipped(p, raw)]]
        BY <3>1
      <4>2. \A p \in Joints : model.joints[p] \in JointNames
        BY <1>8 DEF WriteTarget, OrderInv, PolicyNames, Joints
      <4>3. \A p \in Joints : Clipped(p, raw) \in Int
        BY ClippedTyped DEF TypeOK
      <4> QED
        BY <4>1, <4>2, <4>3 DEF Entries
    <3>2. CASE target # <<>> /\ UNCHANGED target
      BY <3>2 DEF TypeOK
    <3> QED
      BY <1>8, <3>1, <3>2 DEF WriteTarget
  <2>4. command' \in [Joints -> Entries]
    <3>1. command' = PolicyVectorToControlOrder(toControl, target')
      BY <1>8 DEF WriteTarget
    <3> DEFINE new == target'
    <3>2. new \in [Joints -> Entries]
      BY <2>3
    <3> HIDE DEF new
    <3>3. PolicyVectorToControlOrder(toControl, new) \in [Joints -> Entries]
      BY <3>2, CommandTyped
    <3> QED
      BY <3>1, <3>3 DEF new
  <2> QED
    BY <1>8, <2>1, <2>2, <2>3, <2>4 DEF WriteTarget, TypeOK, loadedVars, layoutVars
<1>9. CASE UpdateThrows
  BY <1>9 DEF UpdateThrows, TypeOK, loadedVars, layoutVars, historyVars
<1>10. CASE UNCHANGED vars
  BY <1>10 DEF vars, TypeOK, loadedVars, layoutVars, historyVars
<1> QED
  BY <1>1, <1>2, <1>3, <1>4, <1>5, <1>6, <1>7, <1>8, <1>9, <1>10 DEF Next

\* The history has as many frames as the layout says, all of them and the
\* observation are made of measured cells, and the vectors have an entry for
\* every joint, for any metadata.
THEOREM TypeCorrect == Spec => []TypeOK
BY OrderInvInit, OrderInvNext, LoadedInvInit, LoadedInvNext, TypeOKInit, TypeOKNext, PTL DEF Spec

-----------------------------------------------------------------------------
(* A model that was accepted does not end the controller. *)

LEMMA AcceptedAssembles ==
  ASSUME LoadedInv, lifecycle = "active", DecoderTermsLast, ActorDims(model) # 0
  PROVE  Assembles
<1>1. GoodModel(model) /\ LayoutAccepted /\ layout = LayoutOf(model)
  BY DEF LoadedInv
<1>2. /\ model.names # <<>> /\ layout.single = ActorDims(model)
      /\ ManagedSize = layout.single + layout.decoderDim
  BY <1>1 DEF LayoutAccepted
<1>3. VisitedWidth = ActorDims(model)
  BY <1>1, <1>2, VisitedIsActor
<1>4. ActorDims(model) \in Nat
  BY <1>1, LayoutTyped
<1> QED
  BY <1>2, <1>3, <1>4 DEF Assembles

LEMMA AcceptedModelRunsNext ==
  OrderInv /\ LoadedInv /\ AcceptedModelRuns /\ [Next]_vars => AcceptedModelRuns'
<1> SUFFICES ASSUME OrderInv, LoadedInv, AcceptedModelRuns, [Next]_vars, outcome' = "threw"
             PROVE  (~DecoderTermsLast \/ ActorDims(model) = 0 \/ ~OutputsFit)'
  BY DEF AcceptedModelRuns
<1>1. CASE UpdateThrows
  <2>1. ~DecoderTermsLast \/ ActorDims(model) = 0 \/ ~OutputsFit
    BY <1>1, AcceptedAssembles DEF UpdateThrows
  <2>2. model' = model
    BY <1>1 DEF UpdateThrows, loadedVars
  <2>3. DecoderTermsLast' <=> DecoderTermsLast
    BY <2>2 DEF DecoderTermsLast
  <2>4. ActorDims(model)' = ActorDims(model) /\ OutputsFit' = OutputsFit
    BY <2>2 DEF OutputsFit
  <2> QED
    BY <2>1, <2>3, <2>4
<1>2. CASE UNCHANGED <<model, outcome>>
  <2>1. DecoderTermsLast' <=> DecoderTermsLast
    BY <1>2 DEF DecoderTermsLast
  <2>2. ActorDims(model)' = ActorDims(model) /\ OutputsFit' = OutputsFit
    BY <1>2 DEF OutputsFit
  <2> QED
    BY <1>2, <2>1, <2>2 DEF AcceptedModelRuns
<1> QED
  BY <1>1, <1>2 DEF Next, Configure, Activate, ActivateFails, Deactivate, Cleanup, Hold,
     ResetMemory, WriteTarget, vars, loadedVars

\* No model that the activation accepted makes an update throw, if its decoder terms
\* come after its actor terms, there are any of these, and its outputs are as wide as
\* it says.
THEOREM AcceptedModelNeverThrows == Spec => []AcceptedModelRuns
<1>1. Init => AcceptedModelRuns
  BY DEF Init, AcceptedModelRuns
<1> QED
  BY <1>1, OrderInvInit, OrderInvNext, LoadedInvInit, LoadedInvNext, AcceptedModelRunsNext,
     PTL DEF Spec

-----------------------------------------------------------------------------
(* The range of a target. *)

\* As far from the limits of a joint as the factor says.
InRange(range, sent) ==
  LET margin == (FactorDen - FactorNum) * (range[2] - range[1])
  IN Usable(range) => Fine(range[1]) + margin <= sent /\ sent <= Fine(range[2]) - margin

LEMMA ClippedInRange ==
  ASSUME clip.on, clip.range \in [Joints -> Int \X Int], NEW p \in Joints, NEW raw \in RawTargets
  PROVE  InRange(clip.range[p], Clipped(p, raw))
<1> DEFINE low == clip.range[p][1]
           high == clip.range[p][2]
           center == FactorDen * (low + high)
           half == FactorNum * (high - low)
           margin == (FactorDen - FactorNum) * (high - low)
<1>1. /\ low \in Int /\ high \in Int /\ raw \in Int
      /\ FactorNum \in Nat /\ FactorDen \in Nat
  BY FactorAssumption, TargetsAssumption
<1>2. SUFFICES ASSUME Usable(clip.range[p])
               PROVE  /\ Fine(low) + margin <= Clipped(p, raw)
                      /\ Clipped(p, raw) <= Fine(high) - margin
  BY DEF InRange
<1>3. center \in Int /\ half \in Int /\ Fine(raw) \in Int
  BY <1>1 DEF Fine
<1>4. half >= 0
  <2>1. high - low \in Nat
    BY <1>1, <1>2 DEF Usable
  <2> HIDE DEF low, high
  <2>2. \A a, b \in Nat : a * b >= 0
    OBVIOUS
  <2> QED
    BY <1>1, <2>1, <2>2
<1>5. Fine(low) + margin = center - half /\ Fine(high) - margin = center + half
  <2> HIDE DEF low, high
  <2> QED
    BY <1>1 DEF Fine
<1>6. Clipped(p, raw) = IF Fine(raw) < center - half THEN center - half
                        ELSE IF Fine(raw) > center + half THEN center + half
                        ELSE Fine(raw)
  BY <1>2 DEF Clipped
<1> HIDE DEF center, half, margin, low, high
<1> QED
  BY <1>3, <1>4, <1>5, <1>6

\* Makes TargetInOwnRange inductive: a target that is kept was clipped to the
\* limits that are loaded, and the mapping sends every joint to a place of its own.
RangeInv ==
  /\ clip.range \in [Joints -> Int \X Int]
  /\ target # <<>> /\ clip.on => \A p \in Joints : InRange(clip.range[p], target[p].at)
  /\ outcome = "policy" =>
       /\ target # <<>>
       /\ \A p \in Joints : command[toControl[p]] = target[p]

LEMMA RangeInvInit == Init => RangeInv
BY DEF Init, RangeInv, NoClip

LEMMA RangeInvNext == OrderInv /\ TypeOK /\ TypeOK' /\ RangeInv /\ [Next]_vars => RangeInv'
<1> SUFFICES ASSUME OrderInv, TypeOK, TypeOK', RangeInv, [Next]_vars PROVE RangeInv'
  OBVIOUS
<1>1. clip'.range \in [Joints -> Int \X Int]
  BY DEF TypeOK
<1>2. CASE Configure
  BY <1>1, <1>2 DEF Configure, RangeInv
<1>3. CASE Activate
  BY <1>1, <1>3 DEF Activate, RangeInv, loadedVars
<1>4. CASE ActivateFails
  BY <1>4 DEF ActivateFails, RangeInv, loadedVars, layoutVars
<1>5. CASE Deactivate
  BY <1>5 DEF Deactivate, RangeInv, loadedVars, layoutVars
<1>6. CASE Cleanup
  BY <1>6 DEF Cleanup, RangeInv, loadedVars, layoutVars
<1>7. CASE Hold
  BY <1>7 DEF Hold, RangeInv, loadedVars, layoutVars
<1>8. CASE ResetMemory
  BY <1>8 DEF ResetMemory, RangeInv, loadedVars, layoutVars
<1>9. CASE WriteTarget
  <2>1. /\ PolicyNames(model.joints) /\ ControlNames(controlOrder)
        /\ toControl = PolicyToControlIndex(model.joints, controlOrder)
        /\ MappingComplete(toControl)
        /\ command' = PolicyVectorToControlOrder(toControl, target')
        /\ clip' = clip /\ toControl' = toControl
    BY <1>9 DEF OrderInv, WriteTarget, loadedVars, layoutVars
  <2>2. target' # <<>> /\ (clip.on => \A p \in Joints : InRange(clip.range[p], target'[p].at))
    <3>1. CASE \E raw \in RawTargets :
                 target' = [p \in Joints |-> [from |-> model.joints[p], at |-> Clipped(p, raw)]]
      <4>1. PICK raw \in RawTargets :
              target' = [p \in Joints |-> [from |-> model.joints[p], at |-> Clipped(p, raw)]]
        BY <3>1
      <4>2. target' # <<>>
        <5>1. 1 \in Joints
          BY JointsAssumption DEF Joints
        <5>2. 1 \in DOMAIN target'
          BY <4>1, <5>1
        <5> QED
          BY <5>2
      <4>3. clip.on => \A p \in Joints : InRange(clip.range[p], Clipped(p, raw))
        BY ClippedInRange DEF RangeInv
      <4> QED
        BY <4>1, <4>2, <4>3
    <3>2. CASE target # <<>> /\ UNCHANGED target
      BY <3>2 DEF RangeInv
    <3> QED
      BY <1>9, <3>1, <3>2 DEF WriteTarget
  <2>3. ASSUME NEW p \in Joints PROVE command'[toControl[p]] = target'[p]
    <3>1. toControl[p] \in Joints /\ \A q \in Joints : toControl[q] = toControl[p] => q = p
      BY <2>1, MappingByName
    <3>2. (CHOOSE q \in Joints : toControl[q] = toControl[p]) = p
      BY <3>1
    <3>3. command'[toControl[p]] = target'[CHOOSE q \in Joints : toControl[q] = toControl[p]]
      BY <2>1, <3>1 DEF PolicyVectorToControlOrder
    <3> QED
      BY <3>2, <3>3
  <2> QED
    BY <1>1, <2>1, <2>2, <2>3 DEF RangeInv
<1>10. CASE UpdateThrows
  BY <1>10 DEF UpdateThrows, RangeInv, loadedVars, layoutVars
<1>11. CASE UNCHANGED vars
  BY <1>11 DEF vars, RangeInv, loadedVars, layoutVars
<1> QED
  BY <1>2, <1>3, <1>4, <1>5, <1>6, <1>7, <1>8, <1>9, <1>10, <1>11 DEF Next

\* A target of the policy stays, for every joint with usable limits, inside the
\* range of this joint that joint_limit_factor leaves.
THEOREM TargetStaysInRange == Spec => []TargetInOwnRange
<1>1. RangeInv => TargetInOwnRange
  BY DEF RangeInv, TargetInOwnRange, InRange
<1> QED
  BY <1>1, OrderInvInit, OrderInvNext, LoadedInvInit, LoadedInvNext, TypeOKInit, TypeOKNext,
     RangeInvInit, RangeInvNext, PTL DEF Spec

-----------------------------------------------------------------------------
(* The history of frames, and the observation that is made of it.           *)

\* What makes both properties of the observation inductive: the frames of an
\* active controller are the first part of the last measurements, in order, and
\* an observation was assembled from them.
HistoryInv ==
  /\ lifecycle = "active" =>
       /\ frames = <<>> => firstFrame = frameNo + 1
       /\ frames # <<>> =>
            /\ firstFrame <= frameNo
            /\ \A j \in 1 .. layout.history :
                 frames[j] = SubSeq(MeasuredFrame(StackedFrames[j]), 1, layout.single)
  /\ outcome = "policy" =>
       /\ frames # <<>> /\ Assembles
       /\ obs = Assembled(frames, MeasuredFrame(frameNo))

LEMMA HistoryInvInit == Init => HistoryInv
BY DEF Init, HistoryInv

\* Where the layout, the terms and the metadata stay, a frame and the assembly
\* mean the same.
LEMMA SameMeaning ==
  ASSUME UNCHANGED <<model, managed, layout>>
  PROVE  /\ \A number : MeasuredFrame(number)' = MeasuredFrame(number)
         /\ \A history, frame : Assembled(history, frame)' = Assembled(history, frame)
         /\ Assembles' <=> Assembles
<1>1. \A number : MeasuredFrame(number)' = MeasuredFrame(number)
  BY DEF MeasuredFrame
<1>2. VisitedTerms' = VisitedTerms /\ \A i : CursorAt(i)' = CursorAt(i)
  BY DEF VisitedTerms, CursorAt
<1>3. VisitedWidth' = VisitedWidth
  BY <1>2 DEF VisitedWidth
<1>4. \A history : ActorHistory(history)' = ActorHistory(history)
  BY <1>2 DEF ActorHistory
<1>5. \A history, frame : Assembled(history, frame)' = Assembled(history, frame)
  BY <1>4 DEF Assembled
<1>6. ManagedSize' = ManagedSize
  BY DEF ManagedSize
<1> QED
  BY <1>1, <1>3, <1>5, <1>6 DEF Assembles

LEMMA HistoryInvNext ==
  OrderInv /\ LoadedInv /\ TypeOK /\ TypeOK' /\ HistoryInv /\ [Next]_vars => HistoryInv'
<1> SUFFICES ASSUME OrderInv, LoadedInv, TypeOK, TypeOK', HistoryInv, [Next]_vars PROVE HistoryInv'
  OBVIOUS
<1>1. CASE Configure
  BY <1>1 DEF Configure, HistoryInv
<1>2. CASE Activate
  BY <1>2 DEF Activate, ResetObservationHistory, HistoryInv
<1>3. CASE ActivateFails
  BY <1>3 DEF ActivateFails, HistoryInv, OrderInv
<1>4. CASE Deactivate
  BY <1>4 DEF Deactivate, HistoryInv
<1>5. CASE Cleanup
  BY <1>5 DEF Cleanup, HistoryInv, OrderInv
<1>6. CASE Hold \/ UNCHANGED vars
  <2>1. /\ UNCHANGED <<model, managed, layout, frames, frameNo, firstFrame, lifecycle>>
        /\ outcome' = "policy" => outcome = "policy" /\ obs' = obs
    BY <1>6 DEF Hold, vars, loadedVars, layoutVars, historyVars
  <2>2. ASSUME NEW j \in 1 .. layout.history
        PROVE  SubSeq(MeasuredFrame(StackedFrames[j]), 1, layout.single)'
                 = SubSeq(MeasuredFrame(StackedFrames[j]), 1, layout.single)
    BY <2>1 DEF MeasuredFrame, StackedFrames
  <2>3. Assembled(frames, MeasuredFrame(frameNo))' = Assembled(frames, MeasuredFrame(frameNo))
    BY <2>1 DEF Assembled, MeasuredFrame, VisitedWidth, ActorHistory, VisitedTerms, CursorAt
  <2>4. Assembles' <=> Assembles
    BY <2>1, SameMeaning
  <2>5. lifecycle' = "active" /\ frames' # <<>> =>
          \A j \in 1 .. layout'.history :
            frames'[j] = SubSeq(MeasuredFrame(StackedFrames[j]), 1, layout.single)'
    BY <2>1, <2>2 DEF HistoryInv
  <2>6. outcome' = "policy" => obs' = Assembled(frames, MeasuredFrame(frameNo))'
    BY <2>1, <2>3 DEF HistoryInv
  <2> QED
    BY <2>1, <2>4, <2>5, <2>6 DEF HistoryInv
<1>7. CASE ResetMemory
  BY <1>7 DEF ResetMemory, ResetObservationHistory, HistoryInv
<1>8. CASE WriteTarget
  <2>1. PICK frame : frame = SubSeq(MeasuredFrame(frameNo'), 1, layout.single)
    OBVIOUS
  <2>2. /\ lifecycle = "active" /\ Assembles /\ frameNo' = frameNo + 1 /\ firstFrame' = firstFrame
        /\ UNCHANGED <<model, managed, layout>>
        /\ frames' = Pushed(frame) /\ obs' = Assembled(frames', MeasuredFrame(frameNo'))
    BY <1>8, <2>1 DEF WriteTarget, BuildObservation, loadedVars, layoutVars
  <2>3. /\ frameNo \in Nat /\ firstFrame \in 1 .. frameNo + 1 /\ layout.history \in Nat \ {0}
        /\ layout.single \in Nat /\ layout.decoderDim \in Nat
    BY BoundAssumption DEF TypeOK
  <2>4. frame \in Seq(Cells)
    <3> DEFINE whole == MeasuredFrame(frameNo')
    <3>1. managed \in Seq(Terms)
      BY ManagedTyped
    <3>0. frameNo' \in Nat \ {0}
      BY <2>2, <2>3
    <3>2. whole \in Seq(Cells) /\ Len(whole) = layout.single + layout.decoderDim
      BY <2>2, <3>0, <3>1, FrameTyped DEF Assembles
    <3> HIDE DEF whole
    <3>3. \A i \in 1 .. layout.single : whole[i] \in Cells
      BY <2>3, <3>2
    <3>4. SubSeq(whole, 1, layout.single) \in Seq(Cells)
      BY <2>3, <3>3, SubSeqProperties
    <3> QED
      BY <2>1, <3>4 DEF whole
  <2>5. /\ frames \in Seq(Seq(Cells)) /\ (frames = <<>> \/ Len(frames) = layout.history)
        /\ Len(frames') = layout.history
        /\ \A j \in 1 .. layout.history :
             frames'[j] = IF frames = <<>> \/ j = layout.history THEN frame ELSE frames[j + 1]
    BY <2>2, <2>3, <2>4, PushedTyped DEF TypeOK
  <2>6. frames' # <<>>
    BY <2>3, <2>5
  <2>7. firstFrame <= frameNo'
    BY <2>2, <2>3
  <2>8. ASSUME NEW j \in 1 .. layout.history
        PROVE  frames'[j] = SubSeq(MeasuredFrame((StackedFrames')[j]), 1, layout.single)
    <3>1. (StackedFrames')[j] = LET number == frameNo' - layout.history + j
                                IN IF number < firstFrame THEN firstFrame ELSE number
      BY <2>2 DEF StackedFrames
    <3>2. CASE frames = <<>> \/ j = layout.history
      <4>1. frames'[j] = frame
        BY <2>5, <3>2
      <4>2. (StackedFrames')[j] = frameNo'
        <5>1. CASE frames = <<>>
          <6>1. firstFrame = frameNo'
            BY <2>2, <5>1 DEF HistoryInv
          <6> QED
            BY <2>2, <2>3, <3>1, <6>1
        <5>2. CASE j = layout.history
          BY <2>2, <2>3, <2>7, <3>1, <5>2
        <5> QED
          BY <3>2, <5>1, <5>2
      <4> QED
        BY <2>1, <4>1, <4>2
    <3>3. CASE ~(frames = <<>> \/ j = layout.history)
      <4>1. frames'[j] = frames[j + 1] /\ j + 1 \in 1 .. layout.history
        BY <2>3, <2>5, <3>3
      <4>2. frames[j + 1] = SubSeq(MeasuredFrame(StackedFrames[j + 1]), 1, layout.single)
        BY <2>2, <3>3, <4>1 DEF HistoryInv
      <4>3. StackedFrames[j + 1] = (StackedFrames')[j]
        <5>1. StackedFrames[j + 1] = LET number == frameNo - layout.history + (j + 1)
                                     IN IF number < firstFrame THEN firstFrame ELSE number
          BY <4>1 DEF StackedFrames
        <5>2. frameNo - layout.history + (j + 1) = frameNo' - layout.history + j
          BY <2>2, <2>3
        <5> QED
          BY <3>1, <5>1, <5>2
      <4> QED
        BY <4>1, <4>2, <4>3
    <3> QED
      BY <3>2, <3>3
  <2>9. \A number : MeasuredFrame(number)' = MeasuredFrame(number)
    BY <2>2, SameMeaning
  <2>10. ASSUME NEW j \in 1 .. layout'.history
         PROVE  frames'[j] = SubSeq(MeasuredFrame(StackedFrames[j]), 1, layout.single)'
    BY <2>2, <2>8 DEF MeasuredFrame
  <2>11. obs' = Assembled(frames, MeasuredFrame(frameNo))' /\ Assembles'
    BY <2>2 DEF Assembles, Assembled, MeasuredFrame, ManagedSize, VisitedWidth,
       ActorHistory, VisitedTerms, CursorAt
  <2> QED
    BY <2>2, <2>6, <2>7, <2>10, <2>11 DEF HistoryInv
<1>9. CASE UpdateThrows
  BY <1>9 DEF UpdateThrows, HistoryInv
<1> QED
  BY <1>1, <1>2, <1>3, <1>4, <1>5, <1>6, <1>7, <1>8, <1>9 DEF Next

\* The place of a visited term in a frame.
LEMMA VisitedPlace ==
  ASSUME GoodModel(model), NEW i \in VisitedTerms
  PROVE  /\ CursorAt(i) \in Nat /\ model.dims[i] \in Nat /\ VisitedWidth \in Nat
         /\ CursorAt(i + 1) = CursorAt(i) + model.dims[i]
         /\ CursorAt(i + 1) <= VisitedWidth
<1> DEFINE n == Len(model.names)
           d == Len(model.dims)
<1>1. /\ n \in Nat /\ model.dims \in Seq(Nat) /\ d \in Nat
      /\ \A k \in 1 .. n : k \in 1 .. d /\ model.dims[k] \in Nat
  BY MetadataLengths
<1>2. PICK v \in 0 .. n : VisitedTerms = 1 .. v /\ Cardinality(VisitedTerms) = v
  BY VisitedPrefix
<1>3. PICK sums \in [0 .. d -> Nat] :
        Sums(model.dims, sums) /\ \A k \in 0 .. d : CursorAt(k + 1) = sums[k]
  BY CursorSums
<1>4. i \in 1 .. v /\ i \in 1 .. n /\ i \in 1 .. d /\ v \in 1 .. n /\ v \in 0 .. d
  <2>1. i \in 1 .. v /\ i \in 1 .. n /\ v \in 1 .. n
    BY <1>1, <1>2
  <2>2. i \in 1 .. d /\ v \in 1 .. d
    BY <1>1, <2>1
  <2> QED
    BY <1>1, <2>1, <2>2
<1>5. i - 1 \in 0 .. d /\ (i - 1) + 1 = i /\ i \in 0 .. d /\ i <= v
  BY <1>1, <1>4
<1>6. CursorAt(i) = sums[i - 1] /\ CursorAt(i + 1) = sums[i]
  BY <1>3, <1>5
<1>7. sums[i] = sums[i - 1] + model.dims[i]
  BY <1>3, <1>4 DEF Sums
<1>8. sums[i] <= sums[v]
  BY <1>1, <1>3, <1>4, <1>5, SumsGrow
<1>9. VisitedWidth = sums[v]
  BY <1>2, <1>3, <1>4 DEF VisitedWidth
<1>10. sums[i - 1] \in Nat /\ sums[v] \in Nat /\ model.dims[i] \in Nat
  BY <1>1, <1>3, <1>4, <1>5
<1> QED
  BY <1>6, <1>7, <1>8, <1>9, <1>10

\* All that is known where the policy was given an observation.
LEMMA PolicyState ==
  ASSUME TypeOK, OrderInv, LoadedInv, HistoryInv, outcome = "policy"
  PROVE  /\ GoodModel(model) /\ model.names # <<>> /\ managed \in Seq(Terms)
         /\ layout.history \in Nat \ {0} /\ layout.single \in Nat /\ layout.decoderDim \in Nat
         /\ layout.actorDim = layout.history * layout.single
         /\ model.obsInput = layout.actorDim + layout.decoderDim /\ layout.actorDim \in Nat
         /\ VisitedWidth = layout.single /\ layout.single > 0
         /\ layout.single = ActorDims(model) /\ layout.decoderDim = DecoderDims(model)
         /\ frames \in Seq(Seq(Cells)) /\ Len(frames) = layout.history
         /\ frameNo \in Nat \ {0} /\ DOMAIN StackedFrames = 1 .. layout.history
         /\ \A j \in 1 .. layout.history :
              /\ StackedFrames[j] \in Nat \ {0}
              /\ layout.history = 1 => StackedFrames[j] = frameNo
              /\ frames[j] = SubSeq(MeasuredFrame(StackedFrames[j]), 1, layout.single)
              /\ frames[j] \in Seq(Cells) /\ Len(frames[j]) = layout.single
         /\ \A number \in Nat \ {0} :
              /\ MeasuredFrame(number) \in Seq(Cells)
              /\ Len(MeasuredFrame(number)) = layout.single + layout.decoderDim
<1>1. lifecycle = "active"
  BY DEF OrderInv
<1>2. GoodModel(model) /\ LayoutAccepted /\ layout = LayoutOf(model)
  BY <1>1 DEF LoadedInv
<1>3. frames # <<>> /\ Assembles
  BY DEF HistoryInv
<1>4. /\ layout.history \in Nat \ {0} /\ layout.single \in Nat /\ layout.decoderDim \in Nat
      /\ layout.actorDim \in Nat
      /\ frames \in Seq(Seq(Cells)) /\ Len(frames) = layout.history
      /\ frameNo \in Nat /\ firstFrame \in 1 .. frameNo + 1
  BY <1>3, BoundAssumption DEF TypeOK
<1>5. /\ model.names # <<>> /\ layout.single = ActorDims(model)
      /\ layout.decoderDim = DecoderDims(model)
      /\ layout.actorDim % layout.history = 0
      /\ layout.actorDim + layout.decoderDim = model.obsInput
      /\ layout.single = layout.actorDim \div layout.history
  BY <1>2 DEF LayoutAccepted, LayoutOf
<1>6. layout.actorDim = layout.history * layout.single
  <2>1. \A a \in Nat, h \in Nat \ {0} : a % h = 0 => a = h * (a \div h)
    OBVIOUS
  <2> QED
    BY <1>4, <1>5, <2>1
<1>7. firstFrame <= frameNo /\ frameNo \in Nat \ {0}
  BY <1>1, <1>3, <1>4 DEF HistoryInv
<1>8. managed \in Seq(Terms)
  BY ManagedTyped
<1>9. ManagedSize = layout.single + layout.decoderDim /\ VisitedWidth = layout.single /\ layout.single > 0
  BY <1>3 DEF Assembles
<1>10. ASSUME NEW number \in Nat \ {0}
       PROVE  /\ MeasuredFrame(number) \in Seq(Cells)
              /\ Len(MeasuredFrame(number)) = layout.single + layout.decoderDim
  BY <1>8, <1>9, FrameTyped
<1>11. ASSUME NEW j \in 1 .. layout.history
       PROVE  /\ StackedFrames[j] \in Nat \ {0}
              /\ layout.history = 1 => StackedFrames[j] = frameNo
              /\ frames[j] = SubSeq(MeasuredFrame(StackedFrames[j]), 1, layout.single)
              /\ frames[j] \in Seq(Cells) /\ Len(frames[j]) = layout.single
  <2>1. StackedFrames[j] = LET number == frameNo - layout.history + j
                           IN IF number < firstFrame THEN firstFrame ELSE number
    BY DEF StackedFrames
  <2>2. StackedFrames[j] \in Nat \ {0} /\ (layout.history = 1 => StackedFrames[j] = frameNo)
    BY <1>4, <1>7, <2>1
  <2>3. frames[j] = SubSeq(MeasuredFrame(StackedFrames[j]), 1, layout.single)
    BY <1>1, <1>3 DEF HistoryInv
  <2> DEFINE whole == MeasuredFrame(StackedFrames[j])
  <2>4. whole \in Seq(Cells) /\ Len(whole) = layout.single + layout.decoderDim
    BY <1>10, <2>2
  <2> HIDE DEF whole
  <2>5. \A k \in 1 .. layout.single : whole[k] \in Cells
    BY <1>4, <2>4
  <2> DEFINE part == SubSeq(whole, 1, layout.single)
  <2>6. /\ part \in Seq(Cells)
        /\ Len(part) = IF 1 <= layout.single THEN layout.single - 1 + 1 ELSE 0
    BY <1>4, <2>5, SubSeqProperties
  <2> HIDE DEF part
  <2>7. Len(part) = layout.single
    BY <1>4, <1>9, <2>6
  <2> QED
    BY <2>2, <2>3, <2>6, <2>7 DEF part, whole
<1>12. DOMAIN StackedFrames = 1 .. layout.history
  BY DEF StackedFrames
<1> QED
  BY <1>2, <1>4, <1>5, <1>6, <1>7, <1>8, <1>9, <1>10, <1>11, <1>12

\* The observation is the actor's history with the newest decoder state behind it.
LEMMA ObservationParts ==
  ASSUME TypeOK, OrderInv, LoadedInv, HistoryInv, outcome = "policy"
  PROVE  LET whole == MeasuredFrame(frameNo)
             newest == SubSeq(whole, layout.single + 1, Len(whole))
         IN /\ obs = ActorHistory(frames) \o newest
            /\ ActorHistory(frames) \in Seq(Cells)
            /\ Len(ActorHistory(frames)) = layout.actorDim
            /\ newest \in Seq(Cells) /\ Len(newest) = layout.decoderDim
<1> DEFINE whole == MeasuredFrame(frameNo)
           newest == SubSeq(whole, layout.single + 1, Len(whole))
           actor == ActorHistory(frames)
           decoder == Segment(whole, Len(whole) - layout.decoderDim, layout.decoderDim)
<1>1. /\ GoodModel(model) /\ VisitedWidth = layout.single
      /\ layout.history \in Nat \ {0} /\ layout.single \in Nat /\ layout.decoderDim \in Nat
      /\ layout.actorDim = layout.history * layout.single
      /\ model.obsInput = layout.actorDim + layout.decoderDim /\ layout.actorDim \in Nat
      /\ frames \in Seq(Seq(Cells)) /\ Len(frames) = layout.history
      /\ \A j \in 1 .. layout.history : frames[j] \in Seq(Cells) /\ Len(frames[j]) = layout.single
  BY PolicyState
<1>2. whole \in Seq(Cells) /\ Len(whole) = layout.single + layout.decoderDim
  BY PolicyState
<1>3. ASSUME NEW i \in VisitedTerms, NEW j \in DOMAIN frames
      PROVE  TermHistory(frames, i)[j] \in Seq(Cells)
  <2>1. j \in 1 .. layout.history
    BY <1>1
  <2>2. /\ CursorAt(i) \in Nat /\ model.dims[i] \in Nat
        /\ CursorAt(i) + model.dims[i] <= Len(frames[j])
    BY <1>1, <2>1, VisitedPlace
  <2> QED
    BY <1>1, <2>1, <2>2, SegmentTyped DEF TermHistory
<1>4. actor \in Seq(Cells) /\ Len(actor) = layout.actorDim
  BY <1>1, <1>3, ActorHistoryJoined
<1>5. decoder \in Seq(Cells) /\ Len(decoder) = layout.decoderDim /\ decoder = newest
  <2> HIDE DEF whole
  <2>1. /\ Len(whole) - layout.decoderDim = layout.single
        /\ layout.single + layout.decoderDim <= Len(whole)
    BY <1>1, <1>2
  <2>2. decoder = Segment(whole, layout.single, layout.decoderDim)
    BY <2>1
  <2>3. newest = SubSeq(whole, layout.single + 1, layout.single + layout.decoderDim)
    BY <1>2
  <2> HIDE DEF decoder, newest
  <2>4. LET seg == Segment(whole, layout.single, layout.decoderDim)
        IN /\ seg \in Seq(Cells) /\ Len(seg) = layout.decoderDim
           /\ seg = SubSeq(whole, layout.single + 1, layout.single + layout.decoderDim)
    BY <1>1, <1>2, <2>1, SegmentTyped
  <2> QED
    BY <2>2, <2>3, <2>4
<1>6. obs = Assembled(frames, whole)
  BY DEF HistoryInv
<1>7. obs = [k \in 1 .. model.obsInput |->
        IF k <= Len(actor) THEN actor[k]
        ELSE IF k - layout.actorDim \in 1 .. layout.decoderDim
             THEN decoder[k - layout.actorDim]
        ELSE Garbage]
  BY <1>6 DEF Assembled
<1> HIDE DEF whole, newest, actor, decoder
<1> DEFINE both == actor \o decoder
<1>8. /\ both \in Seq(Cells) /\ Len(both) = model.obsInput
      /\ \A k \in 1 .. Len(actor) + Len(decoder) :
           both[k] = IF k <= Len(actor) THEN actor[k] ELSE decoder[k - Len(actor)]
  <2>1. /\ both \in Seq(Cells) /\ Len(both) = Len(actor) + Len(decoder)
        /\ \A k \in 1 .. Len(actor) + Len(decoder) :
             both[k] = IF k <= Len(actor) THEN actor[k] ELSE decoder[k - Len(actor)]
    <3>1. actor \in Seq(Cells) /\ decoder \in Seq(Cells)
      BY <1>4, <1>5
    <3> QED
      BY <3>1, ConcatProperties, Zenon
  <2> HIDE DEF both
  <2> QED
    BY <1>1, <1>4, <1>5, <2>1
<1> HIDE DEF both
<1>9. obs = both
  <2>1. both = [k \in 1 .. model.obsInput |-> both[k]]
    BY <1>8
  <2>2. ASSUME NEW k \in 1 .. model.obsInput
        PROVE  obs[k] = both[k]
    <3>1. k <= Len(actor) \/ k - layout.actorDim \in 1 .. layout.decoderDim
      BY <1>1, <1>4
    <3> QED
      BY <1>1, <1>4, <1>5, <1>7, <1>8, <3>1
  <2>3. obs = [k \in 1 .. model.obsInput |-> obs[k]]
    BY <1>7
  <2> QED
    BY <2>1, <2>2, <2>3
<1> QED
  BY <1>4, <1>5, <1>9 DEF both, newest, actor, whole

-----------------------------------------------------------------------------
(* Every number of the observation was measured, and none twice.            *)

LEMMA FlattenOne ==
  ASSUME NEW X, NEW s \in Seq(X), NEW seqs, seqs = [j \in 1 .. 1 |-> s]
  PROVE  FlattenSeq(seqs) = s
<1> DEFINE parts == [i \in 0 .. 1 |-> IF i = 0 THEN <<>> ELSE s]
<1>1. seqs \in Seq(Seq(X)) /\ Len(seqs) = 1 /\ seqs[1] = s
  OBVIOUS
<1>2. parts[0] = <<>> /\ parts[1] = s
  OBVIOUS
<1> HIDE DEF parts
<1>3. parts[1] = parts[0] \o seqs[1]
  BY <1>1, <1>2, ConcatEmptySeq
<1>4. Joined(seqs, parts)
  BY <1>1, <1>2, <1>3 DEF Joined
<1>5. FlattenSeq(seqs) = parts[Len(seqs)]
  BY <1>1, <1>4, FlattenIs
<1> QED
  BY <1>1, <1>2, <1>5

\* Without a history the actor is given the frame as it is.
LEMMA OneFrame ==
  ASSUME TypeOK, OrderInv, LoadedInv, HistoryInv, outcome = "policy", layout.history = 1
  PROVE  ActorHistory(frames) = frames[1]
<1> DEFINE n == Len(model.names)
           d == Len(model.dims)
           only == frames[1]
<1>1. /\ GoodModel(model) /\ VisitedWidth = layout.single /\ layout.single \in Nat
      /\ layout.single > 0
      /\ frames \in Seq(Seq(Cells)) /\ Len(frames) = 1
      /\ only \in Seq(Cells) /\ Len(only) = layout.single
  BY PolicyState
<1>2. /\ n \in Nat /\ model.dims \in Seq(Nat) /\ d \in Nat
      /\ \A k \in 1 .. n : k \in 1 .. d /\ model.dims[k] \in Nat
  BY <1>1, MetadataLengths
<1>3. PICK v \in 0 .. n : VisitedTerms = 1 .. v /\ Cardinality(VisitedTerms) = v
  BY <1>1, VisitedPrefix
<1> DEFINE terms == [i \in 1 .. v |-> FlattenSeq(TermHistory(frames, i))]
<1>4. ActorHistory(frames) = FlattenSeq(terms)
  BY <1>3 DEF ActorHistory, TermHistory
<1>5. ASSUME NEW i \in 1 .. v
      PROVE  /\ CursorAt(i) \in Nat /\ model.dims[i] \in Nat
             /\ CursorAt(i + 1) = CursorAt(i) + model.dims[i]
             /\ CursorAt(i + 1) <= layout.single
             /\ terms[i] = SubSeq(only, CursorAt(i) + 1, CursorAt(i + 1))
             /\ terms[i] \in Seq(Cells)
  <2>1. i \in VisitedTerms
    BY <1>3
  <2>2. /\ CursorAt(i) \in Nat /\ model.dims[i] \in Nat
        /\ CursorAt(i + 1) = CursorAt(i) + model.dims[i]
        /\ CursorAt(i + 1) <= layout.single
    BY <1>1, <2>1, VisitedPlace
  <2> DEFINE seg == Segment(only, CursorAt(i), model.dims[i])
  <2>3. seg \in Seq(Cells) /\ seg = SubSeq(only, CursorAt(i) + 1, CursorAt(i) + model.dims[i])
    <3>1. CursorAt(i) + model.dims[i] <= Len(only)
      BY <1>1, <2>2
    <3> HIDE DEF only
    <3> QED
      BY <1>1, <2>2, <3>1, SegmentTyped
  <2>4. TermHistory(frames, i) = [j \in 1 .. 1 |-> seg]
    <3>1. DOMAIN frames = 1 .. 1
      BY <1>1
    <3>2. \A j \in 1 .. 1 : j = 1
      OBVIOUS
    <3> QED
      BY <3>1, <3>2 DEF TermHistory
  <2> HIDE DEF seg, only
  <2>5. FlattenSeq(TermHistory(frames, i)) = seg
    BY <2>3, <2>4, FlattenOne
  <2>6. terms[i] = FlattenSeq(TermHistory(frames, i))
    OBVIOUS
  <2> HIDE DEF terms
  <2> QED
    BY <2>2, <2>3, <2>5, <2>6
<1>6. CursorAt(1) = 0 /\ CursorAt(v + 1) = layout.single
  <2>1. PICK sums \in [0 .. d -> Nat] :
          Sums(model.dims, sums) /\ \A k \in 0 .. d : CursorAt(k + 1) = sums[k]
    BY <1>1, CursorSums
  <2>2. 0 \in 0 .. d /\ sums[0] = 0
    BY <1>2, <2>1 DEF Sums
  <2>3. CursorAt(v + 1) = VisitedWidth
    BY <1>3 DEF VisitedWidth
  <2> QED
    BY <1>1, <2>1, <2>2, <2>3
<1> DEFINE parts == [i \in 0 .. v |-> SubSeq(only, 1, CursorAt(i + 1))]
<1> HIDE DEF only, n
<1>7. v \in Nat
  BY <1>2, <1>3
<1>8. terms \in Seq(Seq(Cells)) /\ Len(terms) = v
  <2>1. terms = [i \in 1 .. v |-> terms[i]]
    OBVIOUS
  <2> HIDE DEF terms
  <2> QED
    BY <1>5, <1>7, <2>1
<1> HIDE DEF terms
<1>9. Joined(terms, parts)
  <2>1. parts[0] = <<>>
    <3>1. 0 \in 0 .. v /\ 0 + 1 = 1
      BY <1>7
    <3>2. parts[0] = SubSeq(only, 1, 0)
      BY <1>6, <3>1
    <3>3. SubSeq(only, 1, 0) = <<>>
      BY SubSeqEmpty
    <3> QED
      BY <3>2, <3>3
  <2>2. ASSUME NEW i \in 1 .. v PROVE parts[i] = parts[i - 1] \o terms[i]
    <3>1. i \in 0 .. v /\ i - 1 \in 0 .. v /\ (i - 1) + 1 = i
      BY <1>7
    <3>2. parts[i] = SubSeq(only, 1, CursorAt(i + 1)) /\ parts[i - 1] = SubSeq(only, 1, CursorAt(i))
      BY <3>1
    <3>3. /\ 1 \in 1 .. Len(only) + 1 /\ CursorAt(i) \in 1 - 1 .. Len(only)
          /\ CursorAt(i + 1) \in CursorAt(i) .. Len(only)
      <4> DEFINE from == CursorAt(i)
                 to == CursorAt(i + 1)
      <4>1. /\ from \in Nat /\ to = from + model.dims[i] /\ model.dims[i] \in Nat
            /\ to <= Len(only) /\ Len(only) \in Nat
        BY <1>1, <1>5
      <4> HIDE DEF from, to
      <4>2. from <= to /\ to \in Nat
        BY <4>1
      <4>3. 1 \in 1 .. Len(only) + 1 /\ from \in 1 - 1 .. Len(only) /\ to \in from .. Len(only)
        BY <4>1, <4>2
      <4> QED
        BY <4>3 DEF from, to
    <3>4. SubSeq(only, 1, CursorAt(i)) \o SubSeq(only, CursorAt(i) + 1, CursorAt(i + 1))
            = SubSeq(only, 1, CursorAt(i + 1))
      BY <1>1, <3>3, ConcatAdjacentSubSeq
    <3> QED
      BY <1>5, <3>2, <3>4
  <2> HIDE DEF parts
  <2> QED
    BY <1>8, <2>1, <2>2 DEF Joined
<1>10. FlattenSeq(terms) = parts[v]
  <2> HIDE DEF parts
  <2> QED
    BY <1>8, <1>9, FlattenIs
<1>11. parts[v] = SubSeq(only, 1, Len(only))
  BY <1>1, <1>6, <1>7
<1>12. SubSeq(only, 1, Len(only)) = only
  BY <1>1, SubSeqFull
<1> QED
  BY <1>4, <1>10, <1>11, <1>12 DEF only

\* No cell is twice in a frame of terms that are configured once.
LEMMA FrameOnce ==
  ASSUME managed \in Seq(Terms), NEW number \in Nat \ {0},
         \A i, j \in DOMAIN managed : managed[i] = managed[j] => i = j
  PROVE  \A j, k \in DOMAIN MeasuredFrame(number) :
           MeasuredFrame(number)[j] = MeasuredFrame(number)[k] => j = k
<1> DEFINE seqs == ManagedFrames(number)
           n == Len(managed)
<1>1. /\ n \in Nat /\ DOMAIN managed = 1 .. n /\ \A i \in 1 .. n : managed[i] \in Terms
      /\ seqs \in Seq(Seq(Cells)) /\ Len(seqs) = n
      /\ MeasuredFrame(number) = FlattenSeq(seqs)
  BY FrameTyped
<1>2. PICK parts \in [0 .. n -> Seq(Cells)] : Joined(seqs, parts)
  BY <1>1, JoinedExist
<1>3. MeasuredFrame(number) = parts[n]
  BY <1>1, <1>2, FlattenIs
<1> DEFINE Once(s, i) ==
      /\ \A j \in DOMAIN s : \E a \in 1 .. i : s[j].term = managed[a]
      /\ \A j, k \in DOMAIN s : s[j] = s[k] => j = k
<1> DEFINE T == {i \in Nat : i <= n => Once(parts[i], i)}
<1>4. 0 \in T
  BY <1>2 DEF Joined
<1>5. ASSUME NEW i \in 0 .. n - 1, i \in T PROVE i + 1 \in T
  <2> HIDE DEF n, seqs
  <2>1. i \in Nat /\ i + 1 \in 1 .. n /\ (i + 1) - 1 = i /\ i \in 0 .. n /\ i + 1 \in 0 .. n
    BY <1>1
  <2> DEFINE old == parts[i]
             term == seqs[i + 1]
             new == parts[i + 1]
  <2>2. /\ old \in Seq(Cells) /\ term = TermFrame(managed[i + 1], number)
        /\ managed[i + 1] \in Terms
    BY <1>1, <1>2, <2>1 DEF ManagedFrames, seqs
  <2>3. term \in Seq(Cells)
    <3> HIDE DEF term
    <3> QED
      BY <2>2, TermFrameTyped
  <2>4. new = old \o term
    BY <1>1, <1>2, <2>1 DEF Joined
  <2>5. Once(old, i)
    BY <1>1, <1>5, <2>1
  <2>6. /\ \A k \in DOMAIN term : term[k].term = managed[i + 1] /\ term[k].part = k
    BY <2>2 DEF TermFrame
  <2> HIDE DEF old, term, new
  <2>7. /\ new \in Seq(Cells) /\ Len(new) = Len(old) + Len(term)
        /\ \A k \in 1 .. Len(old) + Len(term) :
             new[k] = IF k <= Len(old) THEN old[k] ELSE term[k - Len(old)]
    BY <2>2, <2>3, <2>4, ConcatProperties
  <2>8. /\ DOMAIN old = 1 .. Len(old) /\ DOMAIN term = 1 .. Len(term)
        /\ DOMAIN new = 1 .. Len(old) + Len(term)
        /\ Len(old) \in Nat /\ Len(term) \in Nat
    BY <2>2, <2>3, <2>7
  <2>9. ASSUME NEW k \in DOMAIN new
        PROVE  \/ k \in DOMAIN old /\ new[k] = old[k]
               \/ k - Len(old) \in DOMAIN term /\ new[k] = term[k - Len(old)] /\ k > Len(old)
    BY <2>7, <2>8
  <2>10. ASSUME NEW j \in DOMAIN new PROVE \E a \in 1 .. i + 1 : new[j].term = managed[a]
    <3>1. CASE j \in DOMAIN old /\ new[j] = old[j]
      <4>1. PICK a \in 1 .. i : old[j].term = managed[a]
        BY <2>5, <3>1
      <4>2. a \in 1 .. i + 1
        BY <2>1
      <4> QED
        BY <3>1, <4>1, <4>2
    <3>2. CASE j - Len(old) \in DOMAIN term /\ new[j] = term[j - Len(old)]
      <4>1. i + 1 \in 1 .. i + 1
        BY <2>1
      <4> QED
        BY <2>6, <3>2, <4>1
    <3> QED
      BY <2>9, <3>1, <3>2
  <2>11. ASSUME NEW j \in DOMAIN old, NEW k \in DOMAIN term PROVE old[j] # term[k]
    <3>1. PICK a \in 1 .. i : old[j].term = managed[a]
      BY <2>5
    <3>2. a \in DOMAIN managed /\ i + 1 \in DOMAIN managed /\ a # i + 1
      BY <1>1, <2>1
    <3> QED
      BY <2>6, <3>1, <3>2
  <2>12. ASSUME NEW j \in DOMAIN new, NEW k \in DOMAIN new, new[j] = new[k] PROVE j = k
    <3>1. CASE j \in DOMAIN old /\ new[j] = old[j] /\ k \in DOMAIN old /\ new[k] = old[k]
      BY <2>5, <2>12, <3>1
    <3>2. CASE /\ j - Len(old) \in DOMAIN term /\ new[j] = term[j - Len(old)]
               /\ k - Len(old) \in DOMAIN term /\ new[k] = term[k - Len(old)]
      <4>1. new[j].part = j - Len(old) /\ new[k].part = k - Len(old)
        BY <2>6, <3>2
      <4>2. j \in Nat /\ k \in Nat
        BY <2>8
      <4> QED
        BY <2>8, <2>12, <4>1, <4>2
    <3> QED
      BY <2>9, <2>11, <2>12, <3>1, <3>2
  <2>13. Once(new, i + 1)
    BY <2>10, <2>12
  <2> HIDE DEF Once
  <2> QED
    BY <2>1, <2>13 DEF new
<1>6. Once(parts[n], n)
  <2> HIDE DEF T, n, Once
  <2>1. \A i \in 0 .. n : i \in T
    BY <1>1, <1>4, <1>5, StepByStep
  <2>2. n \in T
    BY <1>1, <2>1
  <2> QED
    BY <1>1, <2>2 DEF T
<1> QED
  BY <1>3, <1>6

LEMMA MeasuredHolds ==
  ASSUME TermsOnce, TypeOK, OrderInv, LoadedInv, HistoryInv
  PROVE  ObservationMeasured
<1> SUFFICES ASSUME outcome = "policy"
             PROVE  /\ \A k \in DOMAIN obs : obs[k] # Garbage
                    /\ layout.actorDim + layout.decoderDim = Len(obs)
                    /\ layout.history = 1 => \A j, k \in DOMAIN obs : obs[j] = obs[k] => j = k
  BY DEF ObservationMeasured
<1> DEFINE whole == MeasuredFrame(frameNo)
           newest == SubSeq(whole, layout.single + 1, Len(whole))
           actor == ActorHistory(frames)
<1>1. /\ obs = actor \o newest /\ actor \in Seq(Cells) /\ Len(actor) = layout.actorDim
      /\ newest \in Seq(Cells) /\ Len(newest) = layout.decoderDim
  BY ObservationParts
<1>2. /\ layout.history \in Nat \ {0} /\ layout.single \in Nat /\ layout.decoderDim \in Nat
      /\ layout.actorDim \in Nat /\ managed \in Seq(Terms) /\ frameNo \in Nat \ {0}
      /\ whole \in Seq(Cells) /\ Len(whole) = layout.single + layout.decoderDim
      /\ frames[1] \in Seq(Cells)
      /\ layout.history = 1 => frames[1] = SubSeq(whole, 1, layout.single)
  <2>1. layout.history \in Nat \ {0} /\ 1 \in 1 .. layout.history
    BY PolicyState
  <2> QED
    BY <2>1, PolicyState
<1> HIDE DEF actor, newest, whole
<1>3. obs \in Seq(Cells) /\ Len(obs) = layout.actorDim + layout.decoderDim
  <2>1. actor \o newest \in Seq(Cells) /\ Len(actor \o newest) = Len(actor) + Len(newest)
    BY <1>1, ConcatProperties
  <2> QED
    BY <1>1, <2>1
<1>4. ASSUME NEW k \in DOMAIN obs PROVE obs[k] # Garbage
  <2>1. obs[k] \in Cells
    BY <1>3
  <2> QED
    BY <2>1 DEF Cells, Garbage
<1>5. ASSUME layout.history = 1
      PROVE  \A j, k \in DOMAIN obs : obs[j] = obs[k] => j = k
  <2>1. actor = SubSeq(whole, 1, layout.single)
    BY <1>2, <1>5, OneFrame DEF actor
  <2>2. /\ 1 \in 1 .. Len(whole) + 1 /\ layout.single \in 1 - 1 .. Len(whole)
        /\ Len(whole) \in layout.single .. Len(whole)
    BY <1>2
  <2>3. SubSeq(whole, 1, layout.single) \o SubSeq(whole, layout.single + 1, Len(whole))
          = SubSeq(whole, 1, Len(whole))
    BY <1>2, <2>2, ConcatAdjacentSubSeq
  <2>4. SubSeq(whole, 1, Len(whole)) = whole
    BY <1>2, SubSeqFull
  <2>5. obs = whole
    BY <1>1, <2>1, <2>3, <2>4 DEF newest
  <2>6. \A i, j \in DOMAIN managed : managed[i] = managed[j] => i = j
    BY DEF TermsOnce, TypeOK
  <2> QED
    BY <1>2, <2>5, <2>6, FrameOnce DEF whole
<1> QED
  BY <1>3, <1>4, <1>5

\* If update() gets to the policy, its input is made of nothing but numbers that
\* were measured, whatever the metadata says; and if no term is configured twice,
\* none of a frame is given twice.
THEOREM PolicyInputMeasured == TermsOnce => (Spec => []ObservationMeasured)
<1> SUFFICES ASSUME TermsOnce PROVE Spec => []ObservationMeasured
  OBVIOUS
<1>1. TypeOK /\ OrderInv /\ LoadedInv /\ HistoryInv => ObservationMeasured
  BY MeasuredHolds
<1> QED
  BY <1>1, OrderInvInit, OrderInvNext, LoadedInvInit, LoadedInvNext, TypeOKInit, TypeOKNext,
     HistoryInvInit, HistoryInvNext, PTL DEF Spec

-----------------------------------------------------------------------------
(* The observation is the one of the training. *)

\* new is next behind old.
Behind(old, next, new) ==
  /\ Len(old) \in Nat /\ Len(next) \in Nat /\ Len(new) \in Nat
  /\ Len(new) = Len(old) + Len(next)
  /\ \A k \in 1 .. Len(new) :
       new[k] = IF k <= Len(old) THEN old[k] ELSE next[k - Len(old)]

LEMMA JoinStep ==
  ASSUME NEW X, NEW seqs \in Seq(Seq(X)), NEW parts \in [0 .. Len(seqs) -> Seq(X)],
         Joined(seqs, parts), NEW i \in 1 .. Len(seqs)
  PROVE  /\ parts[i - 1] \in Seq(X) /\ parts[i] \in Seq(X) /\ seqs[i] \in Seq(X)
         /\ Behind(parts[i - 1], seqs[i], parts[i])
<1> DEFINE S == Seq(X)
<1>1. Len(seqs) \in Nat /\ i - 1 \in 0 .. Len(seqs) /\ i \in 0 .. Len(seqs)
  OBVIOUS
<1>2. seqs[i] \in S /\ parts[i] \in S /\ parts[i - 1] \in S
  <2>1. seqs \in Seq(S) /\ parts \in [0 .. Len(seqs) -> S]
    OBVIOUS
  <2> HIDE DEF S
  <2>2. seqs[i] \in S
    BY <2>1, ElementOfSeq
  <2>3. parts[i] \in S /\ parts[i - 1] \in S
    BY <1>1, <2>1
  <2> QED
    BY <2>2, <2>3
<1> DEFINE old == parts[i - 1]
           next == seqs[i]
           new == parts[i]
<1>3. new = old \o next
  BY DEF Joined
<1>4. old \in Seq(X) /\ next \in Seq(X) /\ new \in Seq(X)
  BY <1>2
<1> HIDE DEF old, next, new, S
<1>5. Len(old) \in Nat /\ Len(next) \in Nat /\ Len(new) \in Nat
  BY <1>4, LenProperties
<1>6. /\ Len(new) = Len(old) + Len(next)
      /\ \A k \in 1 .. Len(old) + Len(next) :
           new[k] = IF k <= Len(old) THEN old[k] ELSE next[k - Len(old)]
  BY <1>3, <1>4, ConcatProperties
<1> QED
  BY <1>4, <1>5, <1>6 DEF old, next, new, Behind

\* A part that was joined is found again in the whole.
LEMMA PartsInWhole ==
  ASSUME NEW X, NEW seqs \in Seq(Seq(X)), NEW parts \in [0 .. Len(seqs) -> Seq(X)],
         Joined(seqs, parts), NEW i \in 1 .. Len(seqs)
  PROVE  LET whole == parts[Len(seqs)]
         IN /\ Len(parts[i]) = Len(parts[i - 1]) + Len(seqs[i])
            /\ Len(parts[i]) <= Len(whole)
            /\ seqs[i] = SubSeq(whole, Len(parts[i - 1]) + 1, Len(parts[i]))
<1> DEFINE n == Len(seqs)
           from == Len(parts[i - 1])
           to == Len(parts[i])
<1>1. n \in Nat /\ i - 1 \in 0 .. n /\ i \in 0 .. n /\ i \in Nat
  OBVIOUS
<1>2. seqs[i] \in Seq(X) /\ parts[i] \in Seq(X) /\ parts[i - 1] \in Seq(X)
  BY JoinStep
<1>4. /\ to = from + Len(seqs[i]) /\ from \in Nat /\ to \in Nat /\ Len(seqs[i]) \in Nat
      /\ \A k \in 1 .. to :
           parts[i][k] = IF k <= from THEN parts[i - 1][k] ELSE seqs[i][k - from]
  <2>1. Behind(parts[i - 1], seqs[i], parts[i])
    BY JoinStep
  <2> QED
    BY <2>1 DEF Behind
<1> DEFINE T == {m \in Nat : m <= n /\ i <= m =>
                   to <= Len(parts[m]) /\ \A k \in 1 .. to : parts[m][k] = parts[i][k]}
<1>5. 0 \in T
  BY <1>1
<1>6. ASSUME NEW m \in 0 .. n - 1, m \in T PROVE m + 1 \in T
  <2> HIDE DEF n, from, to
  <2>1. m \in Nat /\ m + 1 \in 1 .. n /\ (m + 1) - 1 = m /\ m \in 0 .. n /\ m + 1 \in 0 .. n
    BY <1>1
  <2>4. /\ Len(parts[m + 1]) = Len(parts[m]) + Len(seqs[m + 1])
        /\ \A k \in 1 .. Len(parts[m + 1]) :
             parts[m + 1][k] = IF k <= Len(parts[m]) THEN parts[m][k]
                               ELSE seqs[m + 1][k - Len(parts[m])]
        /\ Len(parts[m]) \in Nat /\ Len(parts[m + 1]) \in Nat /\ Len(seqs[m + 1]) \in Nat
    <3>1. m + 1 \in 1 .. Len(seqs)
      BY <2>1 DEF n
    <3>2. Behind(parts[(m + 1) - 1], seqs[m + 1], parts[m + 1])
      BY <3>1, JoinStep
    <3>3. (m + 1) - 1 = m
      BY <2>1
    <3> QED
      BY <3>2, <3>3 DEF Behind
  <2>5. CASE i <= m
    <3> DEFINE old == parts[m]
               next == seqs[m + 1]
               new == parts[m + 1]
    <3>1. to <= Len(old) /\ \A k \in 1 .. to : old[k] = parts[i][k]
      BY <1>1, <1>6, <2>1, <2>5
    <3>2. /\ Len(new) = Len(old) + Len(next) /\ Len(old) \in Nat /\ Len(next) \in Nat
          /\ \A k \in 1 .. Len(new) : new[k] = IF k <= Len(old) THEN old[k] ELSE next[k - Len(old)]
      BY <2>4
    <3>3. to \in Nat
      BY <1>4
    <3> HIDE DEF old, next, new
    <3>4. to <= Len(new)
      BY <3>1, <3>2, <3>3
    <3>5. ASSUME NEW k \in 1 .. to PROVE new[k] = parts[i][k]
      <4>1. k \in 1 .. Len(new) /\ k <= Len(old)
        BY <3>1, <3>2, <3>3
      <4> QED
        BY <3>1, <3>2, <4>1
    <3> QED
      BY <2>1, <3>4, <3>5 DEF new
  <2>6. CASE i = m + 1
    BY <1>4, <2>1, <2>6 DEF to
  <2>7. CASE i > m + 1
    BY <1>1, <2>1, <2>7
  <2> QED
    BY <1>1, <2>1, <2>5, <2>6, <2>7
<1>7. to <= Len(parts[n]) /\ \A k \in 1 .. to : parts[n][k] = parts[i][k]
  <2> HIDE DEF T, n, from, to
  <2>1. \A m \in 0 .. n : m \in T
    BY <1>1, <1>5, <1>6, StepByStep
  <2>2. n \in T /\ i <= n
    BY <1>1, <2>1
  <2> QED
    BY <1>1, <2>2 DEF T
<1> DEFINE whole == parts[n]
           sub == SubSeq(whole, from + 1, to)
<1>8. whole \in Seq(X) /\ Len(whole) \in Nat
  <2>1. n \in 1 .. Len(seqs)
    BY <1>1
  <2>2. parts[n] \in Seq(X)
    <3> HIDE DEF n
    <3> QED
      BY <2>1, JoinStep
  <2> HIDE DEF n, whole
  <2>3. whole \in Seq(X)
    BY <2>2 DEF whole
  <2> QED
    BY <2>3, LenProperties
<1> HIDE DEF n, from, to, whole
<1>9. /\ sub \in Seq(X) /\ Len(sub) = IF from + 1 <= to THEN to - (from + 1) + 1 ELSE 0
      /\ \A k \in 1 .. to - (from + 1) + 1 : sub[k] = whole[from + 1 + k - 1]
  <2>1. \A k \in from + 1 .. to : whole[k] \in X
    BY <1>4, <1>7, <1>8 DEF whole
  <2>2. from + 1 \in Int /\ to \in Int
    BY <1>4
  <2> HIDE DEF sub
  <2> QED
    BY <2>1, <2>2, SubSeqProperties DEF sub
<1> HIDE DEF sub
<1>10. Len(sub) = Len(seqs[i])
  BY <1>4, <1>9
<1>11. ASSUME NEW k \in 1 .. Len(seqs[i]) PROVE seqs[i][k] = sub[k]
  <2>1. /\ k \in 1 .. to - (from + 1) + 1 /\ from + 1 + k - 1 = from + k
        /\ from + k \in 1 .. to /\ ~(from + k <= from) /\ (from + k) - from = k
    BY <1>4
  <2>2. parts[i][from + k] = seqs[i][k]
    BY <1>4, <2>1
  <2>3. whole[from + k] = parts[i][from + k]
    BY <1>7, <2>1 DEF whole
  <2> QED
    BY <1>9, <2>1, <2>2, <2>3
<1>12. seqs[i] = sub
  BY <1>2, <1>9, <1>10, <1>11, SeqEqual
<1> QED
  BY <1>4, <1>7, <1>12 DEF sub, whole, n, from, to

\* Where the metadata is true, and as far as it is loaded: n terms of the widths
\* that they have.
LEMMA TrueMetadata ==
  ASSUME GoodModel(model), model.names # <<>>, MetadataTrue
  PROVE  LET n == Len(model.names)
         IN /\ n \in Nat /\ DOMAIN model.names = 1 .. n /\ managed = model.names
            /\ managed \in Seq(Terms) /\ model.dims \in Seq(Nat) /\ Len(model.dims) = n
            /\ \A i \in 1 .. n : /\ model.names[i] \in Terms
                                 /\ model.dims[i] = Size[model.names[i]]
                                 /\ model.dims[i] \in Nat \ {0}
<1>1. /\ model.names \in Seq(Terms) /\ model.dims \in Seq(Nat)
      /\ Len(model.dims) = Len(model.names)
  BY MetadataLengths
<1> QED
  BY <1>1, TermsAssumption DEF MetadataTrue

\* A term lies between two stops of the cursor in every frame.
LEMMA TermPlace ==
  ASSUME GoodModel(model), model.names # <<>>, MetadataTrue, NEW number \in Nat \ {0}
  PROVE  LET n == Len(model.names)
             whole == MeasuredFrame(number)
         IN /\ CursorAt(1) = 0 /\ whole \in Seq(Cells) /\ CursorAt(n + 1) = Len(whole)
            /\ \A i \in 1 .. n :
                 /\ CursorAt(i) \in Nat /\ CursorAt(i + 1) \in Nat
                 /\ CursorAt(i + 1) = CursorAt(i) + model.dims[i]
                 /\ CursorAt(i + 1) <= Len(whole)
                 /\ TermFrame(model.names[i], number)
                      = SubSeq(whole, CursorAt(i) + 1, CursorAt(i + 1))
<1> DEFINE n == Len(model.names)
           whole == MeasuredFrame(number)
           seqs == ManagedFrames(number)
<1>1. /\ n \in Nat /\ DOMAIN model.names = 1 .. n /\ managed = model.names
      /\ managed \in Seq(Terms) /\ model.dims \in Seq(Nat) /\ Len(model.dims) = n
      /\ \A i \in 1 .. n : /\ model.names[i] \in Terms
                           /\ model.dims[i] = Size[model.names[i]]
                           /\ model.dims[i] \in Nat \ {0}
  BY TrueMetadata
<1>2. /\ whole = FlattenSeq(seqs) /\ seqs \in Seq(Seq(Cells)) /\ Len(seqs) = n
      /\ whole \in Seq(Cells)
  BY <1>1, FrameTyped
<1>3. PICK sums \in [0 .. n -> Nat] :
        Sums(model.dims, sums) /\ \A i \in 0 .. n : CursorAt(i + 1) = sums[i]
  BY <1>1, CursorSums
<1>4. PICK parts \in [0 .. n -> Seq(Cells)] : Joined(seqs, parts)
  BY <1>2, JoinedExist
<1>5. whole = parts[n]
  BY <1>2, <1>4, FlattenIs
<1>6. ASSUME NEW i \in 1 .. n
      PROVE  seqs[i] = TermFrame(model.names[i], number) /\ Len(seqs[i]) = model.dims[i]
  BY <1>1, TermFrameTyped DEF ManagedFrames
<1> HIDE DEF n, seqs, whole
<1>7. ASSUME NEW i \in 1 .. n
      PROVE  /\ Len(parts[i]) = Len(parts[i - 1]) + Len(seqs[i])
             /\ Len(parts[i]) <= Len(whole)
             /\ seqs[i] = SubSeq(whole, Len(parts[i - 1]) + 1, Len(parts[i]))
  <2>1. parts \in [0 .. Len(seqs) -> Seq(Cells)] /\ i \in 1 .. Len(seqs) /\ whole = parts[Len(seqs)]
    BY <1>2, <1>4, <1>5
  <2>2. LET all == parts[Len(seqs)]
        IN /\ Len(parts[i]) = Len(parts[i - 1]) + Len(seqs[i])
           /\ Len(parts[i]) <= Len(all)
           /\ seqs[i] = SubSeq(all, Len(parts[i - 1]) + 1, Len(parts[i]))
    BY <1>2, <1>4, <2>1, PartsInWhole
  <2> QED
    BY <2>1, <2>2
<1> DEFINE T == {k \in Nat : k <= n => Len(parts[k]) = sums[k]}
<1>8. 0 \in T
  <2>1. parts[0] = <<>> /\ sums[0] = 0
    BY <1>3, <1>4 DEF Joined, Sums
  <2> QED
    BY <2>1
<1>9. ASSUME NEW k \in 0 .. n - 1, k \in T PROVE k + 1 \in T
  <2>1. k \in Nat /\ k <= n /\ k + 1 \in 1 .. n /\ (k + 1) - 1 = k /\ k + 1 \in Nat
    BY <1>1
  <2>2. Len(parts[k]) = sums[k]
    BY <1>9, <2>1
  <2>3. Len(parts[k + 1]) = Len(parts[k]) + model.dims[k + 1]
    BY <1>6, <1>7, <2>1
  <2>4. sums[k + 1] = sums[k] + model.dims[k + 1]
    BY <1>1, <1>3, <2>1 DEF Sums
  <2>5. Len(parts[k + 1]) = sums[k + 1]
    BY <2>2, <2>3, <2>4
  <2> QED
    BY <2>1, <2>5
<1>10. \A k \in 0 .. n : Len(parts[k]) = sums[k]
  <2> HIDE DEF T
  <2>1. \A k \in 0 .. n : k \in T
    BY <1>1, <1>8, <1>9, StepByStep
  <2> QED
    BY <1>1, <2>1 DEF T
<1>11. ASSUME NEW i \in 1 .. n
       PROVE  /\ CursorAt(i) \in Nat /\ CursorAt(i + 1) \in Nat
              /\ CursorAt(i + 1) = CursorAt(i) + model.dims[i]
              /\ CursorAt(i + 1) <= Len(whole)
              /\ TermFrame(model.names[i], number)
                   = SubSeq(whole, CursorAt(i) + 1, CursorAt(i + 1))
  <2>1. i - 1 \in 0 .. n /\ i \in 0 .. n /\ (i - 1) + 1 = i
    BY <1>1
  <2>2. CursorAt(i) = sums[i - 1] /\ CursorAt(i + 1) = sums[i]
    BY <1>3, <2>1
  <2>3. Len(parts[i - 1]) = sums[i - 1] /\ Len(parts[i]) = sums[i]
    BY <1>10, <2>1
  <2>4. sums[i] \in Nat /\ sums[i - 1] \in Nat
    BY <1>3, <2>1
  <2> QED
    BY <1>6, <1>7, <2>2, <2>3, <2>4
<1>12. CursorAt(1) = 0 /\ CursorAt(n + 1) = Len(whole)
  <2>1. 0 \in 0 .. n /\ n \in 0 .. n /\ 0 + 1 = 1
    BY <1>1
  <2>2. sums[0] = 0
    BY <1>3 DEF Sums
  <2> QED
    BY <1>3, <1>5, <1>10, <2>1, <2>2
<1> QED
  BY <1>2, <1>11, <1>12 DEF n, whole

\* If the assembly has visited as much as the actor's terms are wide, it has
\* visited all of them.
LEMMA AllActorVisited ==
  ASSUME GoodModel(model), model.names # <<>>, MetadataTrue, VisitedWidth = ActorDims(model),
         NEW i \in DOMAIN model.names, model.names[i] \notin DecoderTerms
  PROVE  i \in VisitedTerms
<1> DEFINE n == Len(model.names)
           w == WidthsOf(model, Terms \ DecoderTerms)
<1>1. /\ n \in Nat /\ DOMAIN model.names = 1 .. n
      /\ model.dims \in Seq(Nat) /\ Len(model.dims) = n
      /\ \A k \in 1 .. n : model.names[k] \in Terms /\ model.dims[k] \in Nat \ {0}
  BY TrueMetadata
<1>2. PICK v \in 0 .. n : VisitedTerms = 1 .. v /\ Cardinality(VisitedTerms) = v
  BY VisitedPrefix
<1>3. PICK sums \in [0 .. n -> Nat] :
        Sums(model.dims, sums) /\ \A k \in 0 .. n : CursorAt(k + 1) = sums[k]
  BY <1>1, CursorSums
<1>4. w \in Seq(Nat) /\ Len(w) = n /\ ActorDims(model) = SumOf(w)
  BY WidthsTyped DEF ActorDims
<1>5. PICK own \in [0 .. n -> Nat] : Sums(w, own)
  BY <1>4, SumsExist
<1>6. ASSUME NEW k \in 1 .. n, model.names[k] \notin DecoderTerms PROVE w[k] = model.dims[k]
  BY <1>1, <1>6 DEF WidthsOf
<1> HIDE DEF n, w
<1>7. VisitedWidth = sums[v]
  BY <1>2, <1>3 DEF VisitedWidth
<1>8. ActorDims(model) = own[n]
  BY <1>4, <1>5, SumIs
<1> DEFINE T == {k \in Nat : k <= v => own[k] = sums[k]}
<1>9. 0 \in T
  BY <1>3, <1>5 DEF Sums
<1>10. ASSUME NEW j \in 0 .. v - 1, j \in T PROVE j + 1 \in T
  <2>1. j \in Nat /\ j <= v /\ j + 1 \in 1 .. n /\ j + 1 \in 1 .. v /\ (j + 1) - 1 = j /\ j + 1 \in Nat
    BY <1>1, <1>2
  <2>2. own[j + 1] = own[j] + w[j + 1]
    BY <1>4, <1>5, <2>1 DEF Sums
  <2>3. sums[j + 1] = sums[j] + model.dims[j + 1]
    BY <1>1, <1>3, <2>1 DEF Sums
  <2>4. model.names[j + 1] \notin DecoderTerms
    <3>1. j + 1 \in VisitedTerms /\ j + 1 \in 1 .. j + 1
      BY <1>2, <2>1
    <3> QED
      BY <3>1 DEF VisitedTerms
  <2>5. w[j + 1] = model.dims[j + 1] /\ own[j] = sums[j]
    BY <1>6, <1>10, <2>1, <2>4
  <2> QED
    BY <2>1, <2>2, <2>3, <2>5
<1>11. v \in Nat /\ own[v] = sums[v]
  <2> HIDE DEF T
  <2>1. v \in Nat
    BY <1>1, <1>2
  <2>2. \A k \in 0 .. v : k \in T
    BY <1>9, <1>10, <2>1, StepByStep
  <2>3. v \in T
    BY <2>1, <2>2
  <2> QED
    BY <2>1, <2>3 DEF T
<1>12. ASSUME i > v PROVE FALSE
  <2>1. i \in 1 .. n /\ i - 1 \in 0 .. n /\ i \in 0 .. n /\ n \in 0 .. n /\ v <= i - 1 /\ i <= n
    <3>1. i \in 1 .. n
      BY <1>1
    <3>2. n \in Nat /\ v \in Nat /\ i > v
      BY <1>1, <1>11, <1>12
    <3>3. i \in Nat /\ 1 <= i /\ i <= n
      BY <3>1, <3>2
    <3> QED
      BY <3>1, <3>2, <3>3
  <2>2. own[i] = own[i - 1] + model.dims[i]
    BY <1>4, <1>5, <1>6, <2>1 DEF Sums
  <2>3. own[v] <= own[i - 1] /\ own[i] <= own[n]
    BY <1>4, <1>5, <2>1, SumsGrow
  <2>4. own[v] = own[n]
    BY <1>7, <1>8, <1>11
  <2>5. model.dims[i] \in Nat \ {0} /\ own[i] \in Nat /\ own[i - 1] \in Nat /\ own[n] \in Nat /\ own[v] \in Nat
    BY <1>1, <1>5, <2>1
  <2> QED
    BY <2>2, <2>3, <2>4, <2>5
<1> QED
  BY <1>1, <1>2, <1>11, <1>12

\* Nothing that follows makes a joined sequence no longer.
LEMMA FlattenPad ==
  ASSUME NEW X, NEW seqs \in Seq(Seq(X)), NEW v \in 0 .. Len(seqs),
         \A i \in v + 1 .. Len(seqs) : seqs[i] = <<>>
  PROVE  FlattenSeq(seqs) = FlattenSeq([i \in 1 .. v |-> seqs[i]])
<1> DEFINE n == Len(seqs)
           first == [i \in 1 .. v |-> seqs[i]]
<1>1. n \in Nat /\ v \in Nat /\ v <= n /\ \A i \in 1 .. n : seqs[i] \in Seq(X)
  OBVIOUS
<1>2. PICK parts \in [0 .. n -> Seq(X)] : Joined(seqs, parts)
  BY JoinedExist
<1>3. FlattenSeq(seqs) = parts[n]
  BY <1>2, FlattenIs
<1>4. first \in Seq(Seq(X)) /\ Len(first) = v /\ \A i \in 1 .. v : first[i] = seqs[i]
  <2> HIDE DEF n
  <2>1. \A i \in 1 .. v : seqs[i] \in Seq(X)
    BY <1>1
  <2> QED
    BY <1>1, <2>1
<1> HIDE DEF n, first
<1>5. Joined(first, parts)
  <2>1. ASSUME NEW i \in 1 .. Len(first) PROVE parts[i] = parts[i - 1] \o first[i]
    <3>1. i \in 1 .. n /\ first[i] = seqs[i]
      BY <1>1, <1>4
    <3>2. parts[i] = parts[i - 1] \o seqs[i]
      BY <1>2, <3>1 DEF Joined, n
    <3> QED
      BY <3>1, <3>2
  <2> QED
    BY <1>2, <2>1 DEF Joined
<1>6. FlattenSeq(first) = parts[v]
  BY <1>4, <1>5, FlattenIs
<1> DEFINE T == {k \in Nat : k <= n /\ v <= k => parts[k] = parts[v]}
<1>7. 0 \in T
  BY <1>1
<1>8. ASSUME NEW k \in 0 .. n - 1, k \in T PROVE k + 1 \in T
  <2>1. k \in Nat /\ k <= n /\ k \in 0 .. n /\ k + 1 \in 1 .. n /\ (k + 1) - 1 = k /\ k + 1 \in Nat
    BY <1>1
  <2>2. CASE v <= k
    <3>1. parts[k] = parts[v]
      BY <1>8, <2>1, <2>2
    <3>2. seqs[k + 1] = <<>>
      <4>1. k + 1 \in v + 1 .. n
        BY <1>1, <2>1, <2>2
      <4> QED
        BY <4>1 DEF n
    <3>3. parts[k + 1] = parts[k] \o <<>>
      BY <1>2, <2>1, <3>2 DEF Joined, n
    <3>4. parts[k] \in Seq(X)
      BY <1>2, <2>1
    <3>5. parts[k + 1] = parts[k]
      BY <3>3, <3>4, ConcatEmptySeq
    <3> QED
      BY <2>1, <3>1, <3>5
  <2>3. CASE ~(v <= k)
    <3>1. v <= k + 1 => v = k + 1
      BY <1>1, <2>1, <2>3
    <3> QED
      BY <2>1, <3>1
  <2> QED
    BY <2>2, <2>3
<1>9. parts[n] = parts[v]
  <2> HIDE DEF T
  <2>1. \A k \in 0 .. n : k \in T
    BY <1>1, <1>7, <1>8, StepByStep
  <2>2. n \in T
    BY <1>1, <2>1
  <2> QED
    BY <1>1, <2>2 DEF T
<1> QED
  BY <1>3, <1>6, <1>9 DEF first, n

\* A term over some frames is made of its cells in each of them.
LEMMA TermOverTyped ==
  ASSUME NEW name \in Terms, NEW numbers \in Seq(Nat \ {0})
  PROVE  /\ TermOver(name, numbers)
              = FlattenSeq([j \in DOMAIN numbers |-> TermFrame(name, numbers[j])])
         /\ TermOver(name, numbers) \in Seq(Cells)
<1> DEFINE seqs == [j \in DOMAIN numbers |-> TermFrame(name, numbers[j])]
<1>1. TermOver(name, numbers) = FlattenSeq(seqs)
  BY DEF TermOver, TermFrame
<1>2. \A j \in DOMAIN numbers : TermFrame(name, numbers[j]) \in Seq(Cells)
  BY TermFrameTyped
<1>3. seqs \in Seq(Seq(Cells))
  <2>1. DOMAIN numbers = 1 .. Len(numbers) /\ Len(numbers) \in Nat
    OBVIOUS
  <2> QED
    BY <1>2, <2>1
<1> HIDE DEF seqs
<1>4. FlattenSeq(seqs) \in Seq(Cells)
  BY <1>3, FlattenLength
<1> QED
  BY <1>1, <1>4 DEF seqs

\* The terms of one kind, one after the other.
LEMMA TermsOverTyped ==
  ASSUME GoodModel(model), NEW which \in SUBSET Terms, NEW numbers \in Seq(Nat \ {0})
  PROVE  LET seqs == [i \in DOMAIN model.names |->
                        IF model.names[i] \in which THEN TermOver(model.names[i], numbers)
                        ELSE <<>>]
         IN /\ TermsOver(which, numbers) = FlattenSeq(seqs)
            /\ seqs \in Seq(Seq(Cells)) /\ Len(seqs) = Len(model.names)
<1> DEFINE n == Len(model.names)
           Over(i) == IF model.names[i] \in which THEN TermOver(model.names[i], numbers)
                      ELSE <<>>
<1>1. n \in Nat /\ DOMAIN model.names = 1 .. n
  BY MetadataLengths
<1>2. ASSUME NEW i \in DOMAIN model.names PROVE Over(i) \in Seq(Cells)
  <2>1. CASE model.names[i] \in which
    BY <2>1, TermOverTyped
  <2>2. CASE model.names[i] \notin which
    BY <2>2, EmptySeq
  <2> QED
    BY <2>1, <2>2
<1> DEFINE seqs == [i \in DOMAIN model.names |-> Over(i)]
<1>3. TermsOver(which, numbers) = FlattenSeq(seqs)
  BY DEF TermsOver
<1>4. seqs \in Seq(Seq(Cells)) /\ Len(seqs) = n
  <2> HIDE DEF Over, n
  <2> QED
    BY <1>1, <1>2
<1> QED
  BY <1>3, <1>4

LEMMA StackedTyped ==
  ASSUME TypeOK, OrderInv, LoadedInv, HistoryInv, outcome = "policy"
  PROVE  StackedFrames \in Seq(Nat \ {0})
<1> DEFINE h == layout.history
           S == Nat \ {0}
<1>1. h \in Nat /\ \A j \in 1 .. h : StackedFrames[j] \in S
  BY PolicyState
<1>2. StackedFrames = [j \in 1 .. h |-> StackedFrames[j]]
  BY DEF StackedFrames
<1> DEFINE all == StackedFrames
<1> HIDE DEF h, S, all
<1>3. all \in Seq(S)
  BY <1>1, <1>2 DEF all
<1> QED
  BY <1>3 DEF all, S

\* What the assembly reads of a visited term is the term in every stacked frame.
LEMMA TermStacked ==
  ASSUME TypeOK, OrderInv, LoadedInv, HistoryInv, outcome = "policy", MetadataTrue,
         NEW i \in VisitedTerms
  PROVE  FlattenSeq(TermHistory(frames, i)) = TermOver(model.names[i], StackedFrames)
<1> DEFINE n == Len(model.names)
           from == CursorAt(i)
           to == CursorAt(i + 1)
<1>1. /\ GoodModel(model) /\ model.names # <<>>
      /\ layout.history \in Nat \ {0} /\ layout.single \in Nat /\ layout.decoderDim \in Nat
      /\ VisitedWidth = layout.single /\ Len(frames) = layout.history
      /\ frames \in Seq(Seq(Cells)) /\ DOMAIN StackedFrames = 1 .. layout.history
  BY PolicyState
<1>2. i \in 1 .. n /\ DOMAIN frames = 1 .. layout.history
  <2>1. DOMAIN model.names = 1 .. n
    BY <1>1, TrueMetadata
  <2> QED
    BY <1>1, <2>1 DEF VisitedTerms
<1>3. model.dims[i] \in Nat \ {0} /\ model.names[i] \in Terms
  BY <1>1, <1>2, TrueMetadata
<1>4. from \in Nat /\ to = from + model.dims[i] /\ to <= layout.single
  BY <1>1, VisitedPlace
<1> HIDE DEF n, from, to
<1>5. ASSUME NEW j \in 1 .. layout.history
      PROVE  Segment(frames[j], CursorAt(i), model.dims[i])
               = TermFrame(model.names[i], StackedFrames[j])
  <2> DEFINE number == StackedFrames[j]
             whole == MeasuredFrame(number)
             frame == frames[j]
  <2>1. /\ number \in Nat \ {0} /\ frame = SubSeq(whole, 1, layout.single)
        /\ frame \in Seq(Cells) /\ Len(frame) = layout.single
        /\ whole \in Seq(Cells) /\ Len(whole) = layout.single + layout.decoderDim
    <3>1. number \in Nat \ {0}
      BY PolicyState
    <3> QED
      BY <3>1, PolicyState
  <2> HIDE DEF number, frame
  <2>2. TermFrame(model.names[i], number) = SubSeq(whole, from + 1, to)
    BY <1>1, <1>2, <2>1, TermPlace DEF n, from, to
  <2> HIDE DEF whole
  <2>3. from + model.dims[i] <= Len(frame)
    BY <1>3, <1>4, <2>1
  <2>4. Segment(frame, from, model.dims[i]) = SubSeq(frame, from + 1, to)
    BY <1>3, <1>4, <2>1, <2>3, SegmentTyped
  <2>5. SubSeq(SubSeq(whole, 1, layout.single), from + 1, to)
          = SubSeq(whole, 1 + (from + 1) - 1, 1 + to - 1)
    <3>1. /\ 1 \in 1 .. Len(whole) /\ layout.single \in 1 .. Len(whole)
          /\ from + 1 \in 1 .. layout.single - 1 + 1 /\ to \in 1 .. layout.single - 1 + 1
      <4> DEFINE single == layout.single
                 width == model.dims[i]
                 decoder == layout.decoderDim
      <4>1. /\ single \in Nat /\ width \in Nat \ {0} /\ decoder \in Nat /\ from \in Nat
            /\ to = from + width /\ to <= single /\ Len(whole) = single + decoder
        BY <1>1, <1>3, <1>4, <2>1
      <4> HIDE DEF single, width, decoder
      <4>2. /\ 1 \in 1 .. Len(whole) /\ single \in 1 .. Len(whole)
            /\ from + 1 \in 1 .. single - 1 + 1 /\ to \in 1 .. single - 1 + 1
        BY <4>1
      <4> QED
        BY <4>2 DEF single
    <3> QED
      BY <2>1, <3>1, SubSeqOfSubSeq
  <2>6. 1 + (from + 1) - 1 = from + 1 /\ 1 + to - 1 = to
    BY <1>3, <1>4
  <2> QED
    BY <2>1, <2>2, <2>4, <2>5, <2>6 DEF from, number, frame
<1>6. TermHistory(frames, i) = [j \in DOMAIN StackedFrames |-> TermFrame(model.names[i], StackedFrames[j])]
  BY <1>1, <1>2, <1>5 DEF TermHistory
<1>7. StackedFrames \in Seq(Nat \ {0})
  BY StackedTyped
<1> QED
  BY <1>3, <1>6, <1>7, TermOverTyped

\* The visited terms are the ones of the actor.
LEMMA VisitedTrained ==
  ASSUME TypeOK, OrderInv, LoadedInv, HistoryInv, outcome = "policy", MetadataTrue
  PROVE  \E v \in 0 .. Len(model.names) :
           /\ VisitedTerms = 1 .. v /\ Cardinality(VisitedTerms) = v
           /\ CursorAt(v + 1) = layout.single
           /\ \A i \in 1 .. Len(model.names) : model.names[i] \notin DecoderTerms <=> i <= v
<1> DEFINE n == Len(model.names)
<1>1. /\ GoodModel(model) /\ model.names # <<>>
      /\ VisitedWidth = layout.single /\ layout.single = ActorDims(model)
  BY PolicyState
<1>2. n \in Nat /\ DOMAIN model.names = 1 .. n
  BY <1>1, TrueMetadata
<1>3. PICK v \in 0 .. n : VisitedTerms = 1 .. v /\ Cardinality(VisitedTerms) = v
  BY <1>1, VisitedPrefix
<1>4. CursorAt(v + 1) = layout.single
  BY <1>1, <1>3 DEF VisitedWidth
<1>5. ASSUME NEW i \in 1 .. n PROVE model.names[i] \notin DecoderTerms <=> i <= v
  <2>1. ASSUME i <= v PROVE model.names[i] \notin DecoderTerms
    <3>1. i \in VisitedTerms /\ i \in 1 .. i
      BY <1>2, <1>3, <2>1
    <3> QED
      BY <3>1 DEF VisitedTerms
  <2>2. ASSUME model.names[i] \notin DecoderTerms PROVE i <= v
    <3>1. i \in VisitedTerms
      BY <1>1, <1>2, <2>2, AllActorVisited
    <3> QED
      BY <1>3, <3>1
  <2> QED
    BY <2>1, <2>2
<1> QED
  BY <1>3, <1>4, <1>5

LEMMA ActorStacked ==
  ASSUME TypeOK, OrderInv, LoadedInv, HistoryInv, outcome = "policy", MetadataTrue
  PROVE  ActorHistory(frames) = TermsOver(Terms \ DecoderTerms, StackedFrames)
<1> DEFINE n == Len(model.names)
           which == Terms \ DecoderTerms
           seqs == [i \in DOMAIN model.names |->
                      IF model.names[i] \in which THEN TermOver(model.names[i], StackedFrames)
                      ELSE <<>>]
<1>1. /\ GoodModel(model) /\ model.names # <<>> /\ layout.history \in Nat \ {0}
      /\ \A j \in 1 .. layout.history : StackedFrames[j] \in Nat \ {0}
  BY PolicyState
<1>2. /\ n \in Nat /\ DOMAIN model.names = 1 .. n
      /\ \A i \in 1 .. n : model.names[i] \in Terms
  BY <1>1, TrueMetadata
<1>3. PICK v \in 0 .. n :
        /\ VisitedTerms = 1 .. v /\ Cardinality(VisitedTerms) = v
        /\ \A i \in 1 .. n : model.names[i] \notin DecoderTerms <=> i <= v
  BY VisitedTrained
<1>4. StackedFrames \in Seq(Nat \ {0})
  BY StackedTyped
<1>5. /\ TermsOver(which, StackedFrames) = FlattenSeq(seqs)
      /\ seqs \in Seq(Seq(Cells)) /\ Len(seqs) = n
  <2>1. which \in SUBSET Terms
    OBVIOUS
  <2> HIDE DEF which
  <2> QED
    BY <1>1, <1>4, <2>1, TermsOverTyped
<1>6. ASSUME NEW i \in 1 .. n
      PROVE  seqs[i] = IF i <= v THEN TermOver(model.names[i], StackedFrames) ELSE <<>>
  BY <1>2, <1>3
<1> HIDE DEF seqs, n
<1>7. FlattenSeq(seqs) = FlattenSeq([i \in 1 .. v |-> seqs[i]])
  <2>1. v \in 0 .. Len(seqs)
    BY <1>3, <1>5
  <2>2. ASSUME NEW i \in v + 1 .. Len(seqs) PROVE seqs[i] = <<>>
    <3>1. i \in 1 .. n /\ ~(i <= v)
      BY <1>2, <1>3, <1>5
    <3> QED
      BY <1>6, <3>1
  <2> QED
    BY <1>5, <2>1, <2>2, FlattenPad
<1>8. ActorHistory(frames) = FlattenSeq([i \in 1 .. v |-> FlattenSeq(TermHistory(frames, i))])
  BY <1>3 DEF ActorHistory, TermHistory
<1>9. ASSUME NEW i \in 1 .. v PROVE FlattenSeq(TermHistory(frames, i)) = seqs[i]
  <2>1. i \in VisitedTerms /\ i \in 1 .. n /\ i <= v
    BY <1>2, <1>3
  <2>2. FlattenSeq(TermHistory(frames, i)) = TermOver(model.names[i], StackedFrames)
    BY <2>1, TermStacked
  <2> QED
    BY <1>6, <2>1, <2>2
<1>10. [i \in 1 .. v |-> FlattenSeq(TermHistory(frames, i))] = [i \in 1 .. v |-> seqs[i]]
  BY <1>9
<1> QED
  BY <1>5, <1>7, <1>8, <1>10 DEF which

\* The end of the newest frame is the decoder's terms.
LEMMA NewestDecoder ==
  ASSUME TypeOK, OrderInv, LoadedInv, HistoryInv, outcome = "policy", MetadataTrue
  PROVE  SubSeq(MeasuredFrame(frameNo), layout.single + 1, Len(MeasuredFrame(frameNo)))
           = TermsOver(DecoderTerms, <<frameNo>>)
<1> DEFINE n == Len(model.names)
           whole == MeasuredFrame(frameNo)
           seqs == [i \in DOMAIN model.names |->
                      IF model.names[i] \in DecoderTerms
                      THEN TermOver(model.names[i], <<frameNo>>) ELSE <<>>]
           single == layout.single
<1>1. /\ GoodModel(model) /\ model.names # <<>> /\ single \in Nat
      /\ frameNo \in Nat \ {0}
  BY PolicyState
<1>2. /\ n \in Nat /\ DOMAIN model.names = 1 .. n
      /\ \A i \in 1 .. n : model.names[i] \in Terms /\ model.dims[i] \in Nat \ {0}
  BY <1>1, TrueMetadata
<1>3. PICK v \in 0 .. n :
        /\ CursorAt(v + 1) = single
        /\ \A i \in 1 .. n : model.names[i] \notin DecoderTerms <=> i <= v
  BY VisitedTrained
<1>4. /\ TermsOver(DecoderTerms, <<frameNo>>) = FlattenSeq(seqs)
      /\ seqs \in Seq(Seq(Cells)) /\ Len(seqs) = n
  <2>1. <<frameNo>> \in Seq(Nat \ {0}) /\ DecoderTerms \in SUBSET Terms
    BY <1>1, TermsAssumption
  <2> QED
    BY <1>1, <2>1, TermsOverTyped
<1>5. /\ whole \in Seq(Cells) /\ Len(whole) \in Nat /\ CursorAt(n + 1) = Len(whole)
      /\ \A i \in 1 .. n :
           /\ CursorAt(i) \in Nat /\ CursorAt(i + 1) \in Nat
           /\ CursorAt(i + 1) = CursorAt(i) + model.dims[i]
           /\ CursorAt(i + 1) <= Len(whole)
           /\ TermFrame(model.names[i], frameNo) = SubSeq(whole, CursorAt(i) + 1, CursorAt(i + 1))
  <2>1. whole \in Seq(Cells)
    BY <1>1, TermPlace
  <2>2. Len(whole) \in Nat
    <3> HIDE DEF whole
    <3> QED
      BY <2>1, LenProperties
  <2> QED
    BY <1>1, <2>2, TermPlace
<1>6. ASSUME NEW i \in 1 .. n
      PROVE  seqs[i] = IF i <= v THEN <<>> ELSE SubSeq(whole, CursorAt(i) + 1, CursorAt(i + 1))
  <2>1. CASE i <= v
    BY <1>2, <1>3, <2>1
  <2>2. CASE ~(i <= v)
    <3> DEFINE term == TermFrame(model.names[i], frameNo)
    <3>1. TermOver(model.names[i], <<frameNo>>)
            = FlattenSeq([j \in DOMAIN <<frameNo>> |-> TermFrame(model.names[i], (<<frameNo>>)[j])])
      BY DEF TermOver, TermFrame
    <3>2. [j \in DOMAIN <<frameNo>> |-> TermFrame(model.names[i], (<<frameNo>>)[j])]
            = [j \in 1 .. 1 |-> term]
      OBVIOUS
    <3>3. term \in Seq(Cells)
      BY <1>1, <1>2, TermFrameTyped
    <3>4. FlattenSeq([j \in 1 .. 1 |-> term]) = term
      <4> HIDE DEF term
      <4> QED
        BY <3>3, FlattenOne
    <3>5. seqs[i] = TermOver(model.names[i], <<frameNo>>)
      BY <1>2, <1>3, <2>2
    <3> QED
      BY <1>5, <2>2, <3>1, <3>2, <3>4, <3>5
  <2> QED
    BY <2>1, <2>2
<1> HIDE DEF n, whole, seqs, single
\* Behind the actor's terms the cursor only moves on.
<1> DEFINE T == {k \in Nat : k <= n /\ v <= k =>
                   CursorAt(k + 1) \in Nat /\ single <= CursorAt(k + 1)}
<1>7. \A k \in 0 .. n : k \in T
  <2>1. 0 \in T
    BY <1>1, <1>2, <1>3
  <2>2. ASSUME NEW k \in 0 .. n - 1, k \in T PROVE k + 1 \in T
    <3> DEFINE old == CursorAt(k + 1)
               new == CursorAt(k + 1 + 1)
    <3>1. k \in Nat /\ k <= n /\ k + 1 \in 1 .. n /\ k + 1 \in Nat
      BY <1>2
    <3>2. new = old + model.dims[k + 1] /\ model.dims[k + 1] \in Nat /\ old \in Nat /\ new \in Nat
      BY <1>2, <1>5, <3>1
    <3>3. v <= k => single <= old
      BY <2>2, <3>1
    <3>4. v <= k => single <= new
      <4> HIDE DEF old, new
      <4> QED
        BY <1>1, <3>2, <3>3
    <3>5. v = k + 1 => single <= new
      BY <1>1, <1>3
    <3>6. v <= k + 1 => v <= k \/ v = k + 1
      BY <1>2, <1>3, <3>1
    <3> QED
      BY <3>1, <3>2, <3>4, <3>5, <3>6
  <2> HIDE DEF T
  <2> QED
    BY <1>2, <2>1, <2>2, StepByStep
<1>8. ASSUME NEW k \in 0 .. n, v <= k
      PROVE  CursorAt(k + 1) \in Nat /\ single <= CursorAt(k + 1)
  <2>1. k \in T /\ k \in Nat /\ k <= n
    BY <1>2, <1>7
  <2> QED
    BY <1>8, <2>1
<1> HIDE DEF T
<1> DEFINE parts == [i \in 0 .. n |-> IF i <= v THEN <<>>
                                      ELSE SubSeq(whole, single + 1, CursorAt(i + 1))]
<1>9. Joined(seqs, parts)
  <2>1. parts[0] = <<>>
    BY <1>2, <1>3
  <2>2. ASSUME NEW i \in 1 .. n PROVE parts[i] = parts[i - 1] \o seqs[i]
    <3>1. i \in 0 .. n /\ i - 1 \in 0 .. n /\ (i - 1) + 1 = i /\ v \in Nat
      BY <1>2, <1>3
    <3>2. CASE i <= v
      <4>1. parts[i] = <<>> /\ parts[i - 1] = <<>> /\ seqs[i] = <<>>
        BY <1>6, <3>1, <3>2
      <4>2. <<>> \o <<>> = <<>>
        BY EmptySeq, ConcatEmptySeq
      <4> QED
        BY <4>1, <4>2
    <3>3. CASE ~(i <= v)
      <4>1. parts[i] = SubSeq(whole, single + 1, CursorAt(i + 1))
        BY <3>1, <3>3
      <4>2. seqs[i] = SubSeq(whole, CursorAt(i) + 1, CursorAt(i + 1))
        BY <1>6, <3>3
      <4>3. v <= i - 1
        BY <3>1, <3>3
      <4>4. CursorAt(i) \in Nat /\ single <= CursorAt(i)
        BY <1>8, <3>1, <4>3
      <4>5. parts[i - 1] = SubSeq(whole, single + 1, CursorAt(i))
        <5>1. CASE i - 1 = v
          <6>1. CursorAt(i) = single /\ parts[i - 1] = <<>>
            BY <1>3, <3>1, <5>1
          <6>2. SubSeq(whole, single + 1, single) = <<>>
            BY <1>1, SubSeqEmpty
          <6> QED
            BY <6>1, <6>2
        <5>2. CASE i - 1 # v
          <6>1. ~(i - 1 <= v)
            BY <3>1, <4>3, <5>2
          <6>2. parts[i - 1] = SubSeq(whole, single + 1, CursorAt((i - 1) + 1))
            BY <3>1, <6>1
          <6> QED
            BY <3>1, <6>2
        <5> QED
          BY <5>1, <5>2
      <4>6. /\ single + 1 \in 1 .. Len(whole) + 1 /\ CursorAt(i) \in (single + 1) - 1 .. Len(whole)
            /\ CursorAt(i + 1) \in CursorAt(i) .. Len(whole)
        <5> DEFINE from == CursorAt(i)
                   to == CursorAt(i + 1)
        <5>1. /\ from \in Nat /\ to = from + model.dims[i] /\ model.dims[i] \in Nat
              /\ to <= Len(whole) /\ Len(whole) \in Nat /\ single <= from /\ single \in Nat
          BY <1>1, <1>2, <1>5, <4>4
        <5> HIDE DEF from, to
        <5>2. from <= to /\ to \in Nat
          BY <5>1
        <5>3. /\ single + 1 \in 1 .. Len(whole) + 1 /\ from \in (single + 1) - 1 .. Len(whole)
              /\ to \in from .. Len(whole)
          BY <5>1, <5>2
        <5> QED
          BY <5>3 DEF from, to
      <4>7. SubSeq(whole, single + 1, CursorAt(i)) \o SubSeq(whole, CursorAt(i) + 1, CursorAt(i + 1))
              = SubSeq(whole, single + 1, CursorAt(i + 1))
        BY <1>5, <4>6, ConcatAdjacentSubSeq
      <4> QED
        BY <4>1, <4>2, <4>5, <4>7
    <3> QED
      BY <3>2, <3>3
  <2> HIDE DEF parts
  <2> QED
    BY <1>4, <2>1, <2>2 DEF Joined
<1>10. FlattenSeq(seqs) = parts[n]
  <2> HIDE DEF parts
  <2> QED
    BY <1>4, <1>9, FlattenIs
<1>11. parts[n] = SubSeq(whole, single + 1, Len(whole))
  <2>1. n \in 0 .. n /\ v \in Nat
    BY <1>2, <1>3
  <2>2. CASE n <= v
    <3>1. n = v
      BY <1>2, <1>3, <2>2
    <3>2. single = Len(whole)
      BY <1>3, <1>5, <3>1
    <3>3. SubSeq(whole, single + 1, single) = <<>>
      BY <1>1, SubSeqEmpty
    <3> QED
      BY <2>1, <2>2, <3>2, <3>3
  <2>3. CASE ~(n <= v)
    BY <1>5, <2>1, <2>3
  <2> QED
    BY <2>2, <2>3
<1> QED
  BY <1>4, <1>10, <1>11 DEF whole, single

\* Where the metadata tells the truth about the terms, the policy is given what it
\* was trained on: every term of the actor over the frames of this activation,
\* oldest to newest, and the decoder state of the newest frame.
THEOREM PolicyInputAsTrained == Spec => []ObservationAsTrained
<1>1. TypeOK /\ OrderInv /\ LoadedInv /\ HistoryInv => ObservationAsTrained
  <2> SUFFICES ASSUME TypeOK, OrderInv, LoadedInv, HistoryInv, outcome = "policy", MetadataTrue
               PROVE  obs = TrainedLayout
    BY DEF ObservationAsTrained
  <2>1. obs = ActorHistory(frames)
                \o SubSeq(MeasuredFrame(frameNo), layout.single + 1, Len(MeasuredFrame(frameNo)))
    BY ObservationParts
  <2> QED
    BY <2>1, ActorStacked, NewestDecoder DEF TrainedLayout
<1> QED
  BY <1>1, OrderInvInit, OrderInvNext, LoadedInvInit, LoadedInvNext, TypeOKInit, TypeOKNext,
     HistoryInvInit, HistoryInvNext, PTL DEF Spec
=============================================================================
