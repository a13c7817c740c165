------------------------------ MODULE JointMotion ------------------------------
(***************************************************************************)
(* One robot::core::Joint under any sequence of calls, with any time steps.*)
(***************************************************************************)
EXTENDS Joint

CONSTANTS
  Commands,                     \* the doubles a caller passes as targets
  Steps                         \* the durations it passes to update, in ticks

ASSUME CommandsAssumption == Commands \subseteq Number /\ Steps \subseteq Int

VARIABLE joint

TypeOK == joint \in JointRecord

Init == joint = NewJoint

Enable  == joint' = JointEnable(joint)
Disable == joint' = JointDisable(joint)
Home    == joint' = JointHome(joint)
SetTargetPosition(position) == joint' = JointSetTarget(joint, position)
SetTargetVelocity(velocity) == joint' = JointSetTargetVelocity(joint, velocity)
Update(dt) == joint' = JointUpdate(joint, dt)

Next ==
  \/ Enable
  \/ Disable
  \/ Home
  \/ \E position \in Commands : SetTargetPosition(position)
  \/ \E velocity \in Commands : SetTargetVelocity(velocity)
  \/ \E dt \in Steps : Update(dt)

Spec == Init /\ [][Next]_joint

(* The control loop calls update over and over with one fixed period.      *)
UpdateTick == Update(1)
FairSpec == Spec /\ WF_joint(UpdateTick)

-------------------------------------------------------------------------------
(* Properties. *)

\* Joint keeps position, velocity and accepted target within JointLimits,
\* through every order of calls, when zero is a legal position and nobody
\* commands NaN (joint.hpp 94-101).
WithinLimits == InLimits(joint)

\* What joint_state.hpp 16-17 says of Joint: that it keeps the values of its
\* state within JointLimits.  It does not when it is told to go to NaN.
StateWithinLimits ==
  /\ joint.position \in MinPosition .. MaxPosition
  /\ joint.velocity \in -MaxVelocity .. MaxVelocity

\* One call moves the joint and changes its velocity by no more than the
\* limits allow for the time it was given; a velocity that changes by more
\* was cut to zero at a position limit.  Only home moves a joint at once, and
\* leaves it at rest at zero with zero as its target.
Homed(j) == j.position = 0 /\ j.velocity = 0 /\ j.targetPosition = 0 /\ j.homed

MotionWithin(dt) ==
  /\ joint'.position - joint.position \in -(MaxVelocity * dt) .. MaxVelocity * dt
  /\ \/ joint'.velocity - joint.velocity \in -(MaxAcceleration * dt) .. MaxAcceleration * dt
     \/ joint'.velocity = 0 /\ joint'.position \in {MinPosition, MaxPosition}

MotionIsBounded ==
  [][ joint'.position # joint.position \/ joint'.velocity # joint.velocity
        => \/ Homed(joint')
           \/ joint.enabled /\ \E dt \in Steps : dt > 0 /\ MotionWithin(dt) ]_joint

\* When nobody calls anything but update any more, an enabled joint comes to
\* rest on its target (joint_test ConvergesTowardTargetPosition, 70).
SettlesOnTarget ==
  <>[][UpdateTick]_joint =>
     <>[](joint.enabled => joint.position = joint.targetPosition /\ joint.velocity = 0)
===============================================================================
