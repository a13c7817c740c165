--------------------------------- MODULE Joint ---------------------------------
(***************************************************************************)
(* robot::core::Joint: one operator per method, over a joint record.       *)
(*                                                                         *)
(* Units.  Time is counted in ticks; positions in position units;          *)
(* velocities in position units per tick; accelerations are kept as the    *)
(* pair <<delta_v, dt>> whose quotient the code stores.  PositionGain is   *)
(* kPositionGain (8 per second) times the length of a tick, so that with a *)
(* tick of 125 ms and PositionGain = 1 every quantity the code computes is *)
(* an integer and the operators below compute exactly what the doubles do. *)
(*                                                                         *)
(* faulted_ and torque are left out: no code ever writes either.           *)
(***************************************************************************)
EXTENDS Numbers

CONSTANTS
  MinPosition, MaxPosition,     \* JointLimits, in the units above
  MaxVelocity, MaxAcceleration,
  PositionGain

(* JointLimits::validate: Robot::create refuses any other limits.          *)
LimitsValid ==
  /\ MinPosition < MaxPosition
  /\ MaxVelocity > 0
  /\ MaxAcceleration > 0

ASSUME JointAssumption ==
  /\ MinPosition \in Int /\ MaxPosition \in Int
  /\ MaxVelocity \in Int /\ MaxAcceleration \in Int
  /\ LimitsValid
  /\ PositionGain \in Nat \ {0}
  /\ NaN \notin Int

JointRecord ==
  [ enabled : BOOLEAN, homed : BOOLEAN,
    position : Number, velocity : Number, acceleration : Number \X Int,
    targetPosition : Number, targetVelocity : Number ]

(* A freshly constructed Joint: everything 0.0, disabled, not homed.       *)
NewJoint ==
  [ enabled |-> FALSE, homed |-> FALSE,
    position |-> 0, velocity |-> 0, acceleration |-> << 0, 1 >>,
    targetPosition |-> 0, targetVelocity |-> 0 ]

-------------------------------------------------------------------------------
JointEnable(joint) == [joint EXCEPT !.enabled = TRUE]

JointDisable(joint) == [joint EXCEPT !.enabled = FALSE]

(* home: position and motion are declared zero, enabled or not.            *)
JointHome(joint) ==
  [joint EXCEPT !.position = 0, !.velocity = 0, !.acceleration = << 0, 1 >>,
                !.targetPosition = 0, !.targetVelocity = 0, !.homed = TRUE]

(* setTargetPosition and setTargetVelocity: whether the call succeeds.     *)
(* The code rejects x < lo or x > hi, so NaN is accepted.                  *)
Within(x, lo, hi) == x = NaN \/ (lo <= x /\ x <= hi)

(* Mutated form: only the upper limit is compared.                         *)
TargetAcceptedUpperOnly(joint, position) ==
  joint.enabled /\ (position = NaN \/ position <= MaxPosition)

TargetAccepted(joint, position) ==
  joint.enabled /\ Within(position, MinPosition, MaxPosition)

JointSetTarget(joint, position) ==
  IF TargetAccepted(joint, position)
  THEN [joint EXCEPT !.targetPosition = position] ELSE joint

JointSetTargetVelocity(joint, velocity) ==
  IF joint.enabled /\ Within(velocity, -MaxVelocity, MaxVelocity)
  THEN [joint EXCEPT !.targetVelocity = velocity] ELSE joint

-------------------------------------------------------------------------------
(* clampToLimits: back to the bound, with the velocity toward it removed.  *)
ClampToLimits(joint) ==
  IF joint.position > MaxPosition
    THEN [joint EXCEPT !.position = MaxPosition, !.velocity = IF @ > 0 THEN 0 ELSE @]
  ELSE IF joint.position < MinPosition
    THEN [joint EXCEPT !.position = MinPosition, !.velocity = IF @ < 0 THEN 0 ELSE @]
  ELSE joint

(* A NaN in any of the three numbers update reads makes it write NaN.      *)
Poisoned(joint) == NaN \in {joint.position, joint.velocity, joint.targetPosition}

(* Mutated form: the ramp has no lower bound, so a joint never brakes.      *)
AdvanceNeverBrakes(joint, dt) ==
  LET desired  == Clamp(PositionGain * (joint.targetPosition - joint.position),
                        -MaxVelocity, MaxVelocity)
      delta    == Clamp(desired - joint.velocity, 0, MaxAcceleration * dt)
      velocity == Clamp(joint.velocity + delta, -MaxVelocity, MaxVelocity)
  IN ClampToLimits([joint EXCEPT !.acceleration = << delta, dt >>,
                                 !.velocity = velocity,
                                 !.position = @ + velocity * dt])

(* The body of update on numbers: a proportional velocity setpoint, clamped*)
(* to the speed limit, approached by at most MaxAcceleration * dt, then    *)
(* integrated and clamped to the position limits.                          *)
Advance(joint, dt) ==
  LET desired  == Clamp(PositionGain * (joint.targetPosition - joint.position),
                        -MaxVelocity, MaxVelocity)
      maxDelta == MaxAcceleration * dt
      delta    == Clamp(desired - joint.velocity, -maxDelta, maxDelta)
      velocity == Clamp(joint.velocity + delta, -MaxVelocity, MaxVelocity)
  IN ClampToLimits([joint EXCEPT !.acceleration = << delta, dt >>,
                                 !.velocity = velocity,
                                 !.position = @ + velocity * dt])

(* Mutated form: the ramp is skipped.                                       *)
UpdateJumpsToSetpoint(joint, dt) ==
  IF ~joint.enabled \/ dt <= 0 THEN joint
  ELSE LET desired == Clamp(PositionGain * (joint.targetPosition - joint.position),
                            -MaxVelocity, MaxVelocity)
       IN ClampToLimits([joint EXCEPT !.velocity = desired, !.position = @ + desired * dt])

(* update.                                                                 *)
JointUpdate(joint, dt) ==
  IF ~joint.enabled \/ dt <= 0 THEN joint
  ELSE IF Poisoned(joint)
    THEN [joint EXCEPT !.acceleration = << NaN, dt >>, !.velocity = NaN, !.position = NaN]
  ELSE Advance(joint, dt)

-------------------------------------------------------------------------------
(* A joint within its limits, as JointState's comment promises             *)
(* (joint_state.hpp 16-17).                                                *)
InLimits(joint) ==
  /\ joint.position \in MinPosition .. MaxPosition
  /\ joint.velocity \in -MaxVelocity .. MaxVelocity
  /\ joint.targetPosition \in MinPosition .. MaxPosition
===============================================================================
