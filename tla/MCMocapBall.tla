----------------------------- MODULE MCMocapBall -----------------------------
(***************************************************************************)
(* The instance of MocapBall for TLC.                                      *)
(***************************************************************************)
EXTENDS MocapBall

Nothing == <<>>
Other == <<FALSE>>
Ball == <<TRUE>>
OtherAndBall == <<FALSE, TRUE>>

\* Five frames: the ball is seen, may be lost in either way or come with another marker,
\* may be covered, and is seen again.
Shapes ==
  [stamp \in Time |->
     CASE stamp = 2 -> {Nothing, Other, OtherAndBall}
       [] stamp = 3 -> {Other, Ball}
       [] stamp \in {1, 4, 5} -> {Ball}
       [] OTHER -> {Nothing}]

\* The proofs need it.
ASSUME InstanceFits == OnlyBall /\ TimeoutCoversLags
=============================================================================
