------------------------------ MODULE JointOrder ------------------------------
(***************************************************************************)
(* The three joint orders of SoftTouchDribbleController and the mapping    *)
(* between them: the policy's (its metadata), the controller's (the order  *)
(* of its command vectors) and the robot model's (its position vector).    *)
(*                                                                         *)
(* An entry of a vector is abstracted to the joint it is about and to an   *)
(* integer value.                                                          *)
(***************************************************************************)
EXTENDS Integers, Sequences

CONSTANTS
  NumJoints,     \* kSoftTouchDribbleNumJoints
  JointNames,
  ModelOrder     \* the joints of the robot model, in the order of its vectors

ASSUME JointsAssumption ==
  /\ NumJoints \in Nat \ {0}
  /\ ModelOrder \in Seq(JointNames)
  /\ \A name \in JointNames : \E i \in DOMAIN ModelOrder : ModelOrder[i] = name

Joints == 1 .. NumJoints    \* indices in policy order

\* An index that was not found: std::numeric_limits<size_t>::max().
NotFound == 0

\* What an entry of vector_t out(29) holds before it is written.
Unwritten == [from |-> "nothing", at |-> 0]

\* policyIndexByName: of two joints of one name, emplace keeps the first.
NamedFirst(policyNames, p) == \A q \in 1 .. p - 1 : policyNames[q] # policyNames[p]

\* configureJointMappings: where the joint is among the control joints, of which
\* no two have one name.
PolicyToControlIndex(policyNames, controlNames) ==
  [p \in Joints |->
     LET named == {c \in DOMAIN controlNames : controlNames[c] = policyNames[p]}
     IN IF NamedFirst(policyNames, p) /\ named # {}
        THEN CHOOSE c \in named : TRUE
        ELSE NotFound]

\* configureJointMappings does not throw.
MappingComplete(toControl) == \A p \in Joints : toControl[p] # NotFound

\* Mutant of PolicyVectorToControlOrder: the mapping is used the wrong way round.
ControlVectorToPolicyOrder(toControl, value) == [c \in Joints |-> value[toControl[c]]]

\* policyVectorToControlOrder: entry by entry, into an uninitialised vector.
PolicyVectorToControlOrder(toControl, value) ==
  [c \in Joints |-> IF \E p \in Joints : toControl[p] = c
                    THEN value[CHOOSE p \in Joints : toControl[p] = c]
                    ELSE Unwritten]

\* leggedModel()->getJointIndex, outside the repository.
JointIndex(name) == CHOOSE i \in DOMAIN ModelOrder : ModelOrder[i] = name

\* readPolicyJointPosition, in policy order, from a vector in model order.
ReadPolicyJointPosition(policyNames, positions) ==
  [p \in Joints |-> positions[JointIndex(policyNames[p])]]
=============================================================================
