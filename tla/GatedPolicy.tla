----------------------------- MODULE GatedPolicy -----------------------------
(***************************************************************************)
(* What SoftTouchDribbleController promises to the robot, with update() in *)
(* one piece: an update is stamped, may forget the policy's target, and    *)
(* ends by commanding nothing, the measured positions, or a target.  That  *)
(* a target is only commanded on fresh inputs is said of the one instant   *)
(* in which the command is written, as if nothing could arrive between the *)
(* test of the inputs, their use and the command.                          *)
(***************************************************************************)
EXTENDS Integers

CONSTANTS Topics, Timeouts   \* input topics, and how long each stays fresh, a natural

VARIABLES
  clock,
  now,       \* the time of the last update or activation
  inputs,    \* has and stamp of the last message kept, per topic
  active,
  gated,     \* the command mode is one that tests the inputs
  period,    \* for how long a target may be commanded again
  target,    \* the policy's last target: when, and from what, it was computed
  written    \* what has been commanded since now was set

vars == <<clock, now, inputs, active, gated, period, target, written>>

NoInputs == [t \in Topics |-> [has |-> FALSE, stamp |-> 0]]
NoTarget == [has |-> FALSE, at |-> 0, basis |-> [t \in Topics |-> 0]]

AllFresh ==
  \A t \in Topics :
    inputs[t].has /\ (now <= 0 \/ now - inputs[t].stamp <= Timeouts[t])

Init ==
  /\ clock = 0
  /\ now = 0
  /\ inputs = NoInputs
  /\ active = FALSE
  /\ gated \in BOOLEAN
  /\ period \in Nat
  /\ target = NoTarget
  /\ written = "none"

Tick == clock' > clock /\ UNCHANGED <<now, inputs, active, gated, period, target, written>>

\* Of two messages on a topic the one with the later stamp is kept.
Receive(t) ==
  /\ inputs' = [inputs EXCEPT ![t] = [has |-> TRUE, stamp |-> inputs'[t].stamp]]
  /\ inputs[t].has => inputs'[t].stamp >= inputs[t].stamp
  /\ UNCHANGED <<clock, now, active, gated, period, target, written>>

\* A configuration starts from nothing.
Configure ==
  /\ ~active /\ ~active'
  /\ now' = 0
  /\ inputs' = NoInputs
  /\ gated' \in BOOLEAN
  /\ period' \in Nat
  /\ target' = NoTarget
  /\ written' = "none"
  /\ UNCHANGED clock

Activate ==
  /\ ~active /\ active'
  /\ now' \in {now, clock}
  /\ target' \in {target, NoTarget}
  /\ written' = "none"
  /\ UNCHANGED <<clock, inputs, gated, period>>

Deactivate ==
  /\ active /\ ~active'
  /\ UNCHANGED <<clock, now, inputs, gated, period, target, written>>

\* An update is broken off, and the controller with it.
Break ==
  /\ active /\ ~active'
  /\ now' \in {now, clock}
  /\ target' = NoTarget
  /\ written' = "none"
  /\ UNCHANGED <<clock, inputs, gated, period>>

\* An update starts: it is stamped and has commanded nothing.
Begin ==
  /\ active
  /\ now' = clock
  /\ target' \in {target, NoTarget}
  /\ written' = "none"
  /\ UNCHANGED <<clock, inputs, active, gated, period>>

Forget ==
  /\ active
  /\ written = "none"
  /\ target' = NoTarget
  /\ UNCHANGED <<clock, now, inputs, active, gated, period, written>>

\* The joints are kept where they are.
Hold ==
  /\ active
  /\ written = "none" /\ written' = "hold"
  /\ UNCHANGED <<clock, now, inputs, active, gated, period, target>>

\* A target is computed from inputs that are all fresh, or one that was, less than
\* a period ago, is commanded again, while all inputs are fresh.
Command ==
  /\ active
  /\ written = "none" /\ written' = "policy"
  /\ gated => AllFresh
  /\ \/ target' = [has |-> TRUE, at |-> now, basis |-> [t \in Topics |-> inputs[t].stamp]]
     \/ target' = target /\ (gated => target.has /\ now - target.at < period)
  /\ UNCHANGED <<clock, now, inputs, active, gated, period>>

Next ==
  \/ Tick
  \/ \E t \in Topics : Receive(t)
  \/ Configure \/ Activate \/ Deactivate \/ Break
  \/ Begin \/ Forget \/ Hold \/ Command

Spec == Init /\ [][Next]_vars
=============================================================================
