----------------------------- MODULE LimitMonitor ------------------------------
(***************************************************************************)
(* robot::safety::LimitMonitor, asked after every call made to a joint: it *)
(* looks at the position alone and remembers nothing, so a joint under a   *)
(* monitor is JointMotion with the answer as a function of the state.      *)
(***************************************************************************)
EXTENDS JointMotion

CONSTANT Margin                 \* marginRadians_

ASSUME MarginAssumption == Margin \in Nat

(* Mutated form: the distance to the upper limit only.                     *)
DistanceToUpperLimit(position) == MaxPosition - position

DistanceToNearestLimit(position) ==
  LET toMin == position - MinPosition
      toMax == MaxPosition - position
  IN IF toMax < toMin THEN toMax ELSE toMin

(* The joints check reports, each with its LimitViolation.  A joint whose  *)
(* position is NaN is at no distance from anything and is not among them.  *)
LimitViolations(joints) ==
  [ i \in {k \in DOMAIN joints : /\ joints[k].position # NaN
                                 /\ DistanceToNearestLimit(joints[k].position) <= Margin} |->
      [ position |-> joints[i].position,
        distance |-> LET d == DistanceToNearestLimit(joints[i].position)
                     IN IF d < 0 THEN 0 ELSE d ] ]

Flagged == 0 \in DOMAIN LimitViolations([i \in {0} |-> joint])

-------------------------------------------------------------------------------
(* Properties. *)

\* A monitor asked before every update, with a margin no shorter than the way a
\* joint makes at full speed in the longest of them, flags a joint before it
\* stands at a limit; only homing puts one there unannounced (limit_monitor.hpp
\* 24-27 "catch a joint approaching a bound before it gets there").
AtLimit(j) == j.position \in {MinPosition, MaxPosition}
MarginCoversStep == \A dt \in Steps : MaxVelocity * dt <= Margin

WarnedBeforeLimit ==
  [][ MarginCoversStep /\ AtLimit(joint') /\ ~AtLimit(joint) => Flagged \/ Homed(joint') ]_joint
===============================================================================
