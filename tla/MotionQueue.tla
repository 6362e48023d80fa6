---------------------------- MODULE MotionQueue ----------------------------
(***************************************************************************)
(* What the planner and the stepper subsystem promise together: a queue of *)
(* motions, executed one after the other, each to its last step.  Neither  *)
(* the two buffers a motion passes through, nor re-planning, nor holds     *)
(* show.                                                                   *)
(***************************************************************************)
EXTENDS Integers

CONSTANTS
  Motions,     \* motions are numbered in the order they are sent
  Lengths      \* of motions

VARIABLES
  left,        \* motion -> what is left to execute of it
  sent         \* the number of the last motion sent

Init ==
  /\ \A m \in Motions : left[m] = 0
  /\ sent = 0

\* The motions of which a step changes what is left.
Changed == {m \in Motions : left'[m] # left[m]}

Add ==
  /\ sent' = sent + 1
  /\ Changed = {sent'}
  /\ left'[sent'] \in Lengths

\* Some more steps of the first motion that has any left.
Execute ==
  /\ sent' = sent
  /\ LET changed == Changed
     IN  \E m \in changed :
           /\ changed = {m}
           /\ left'[m] < left[m] /\ left'[m] >= 0
           /\ \A earlier \in Motions : earlier < m => left[earlier] = 0

\* A reset, or the cancelling of a jog.
Flush ==
  /\ sent' = sent
  /\ \A m \in Motions : left'[m] = 0

Next == Add \/ Execute \/ Flush

Spec == Init /\ [][Next]_<<[m \in Motions |-> left[m]], sent>>
=============================================================================
