------------------------- MODULE TrapezoidalTrajectory -------------------------
(***************************************************************************)
(* robot::motion::TrapezoidalTrajectory: the profile from rest to rest     *)
(* between two positions, accelerating, cruising if it is long enough, and *)
(* decelerating.                                                           *)
(*                                                                         *)
(* Positions, velocities and times are whole numbers in units of which the *)
(* acceleration is an even one, so that half of it is whole.  A profile is *)
(* OnGrid when its phases begin and end on ticks; then everything the code *)
(* computes in doubles is exact here.  A tick is far longer than the 100 ns*)
(* of kEndpointEpsilonS, which hides the rounding of duration to           *)
(* nanoseconds and nothing else.                                           *)
(***************************************************************************)
EXTENDS Joint

ASSUME EvenAcceleration == MaxAcceleration % 2 = 0

(* std::sqrt, where it is exact.                                           *)
Sqrt(n) == CHOOSE r \in 0 .. n : r * r = n

Created(start, target) ==
  \A position \in {start, target} : MinPosition <= position /\ position <= MaxPosition

Sign(x) == IF x > 0 THEN 1 ELSE IF x < 0 THEN -1 ELSE 0

(* The distance covered while accelerating to full speed.                  *)
FullAccelDistance == (MaxVelocity * MaxVelocity) \div (2 * MaxAcceleration)

Profile(start, target, accel, cruise, velocity, accelDistance) ==
  [ start |-> start, target |-> target, sign |-> Sign(target - start), accel |-> accel,
    cruise |-> cruise, velocity |-> velocity, accelDistance |-> accelDistance ]

Resting(start) == Profile(start, start, 0, 0, 0, 0)

(* Mutated form: the cruise is given the whole distance, ramps included.   *)
TrapezoidalWholeDistance(start, target) ==
  Profile(start, target, MaxVelocity \div MaxAcceleration,
          Abs(target - start) \div MaxVelocity, MaxVelocity, FullAccelDistance)

Trapezoidal(start, target) ==
  Profile(start, target, MaxVelocity \div MaxAcceleration,
          (Abs(target - start) - 2 * FullAccelDistance) \div MaxVelocity,
          MaxVelocity, FullAccelDistance)

Triangular(start, target) ==
  LET peak  == Sqrt(Abs(target - start) * MaxAcceleration)
      accel == peak \div MaxAcceleration
  IN Profile(start, target, accel, 0, peak, (MaxAcceleration \div 2) * accel * accel)

Create(start, target) ==
  IF start = target THEN Resting(start)
  ELSE IF 2 * FullAccelDistance <= Abs(target - start) THEN Trapezoidal(start, target)
  ELSE Triangular(start, target)

OnGrid(start, target) ==
  LET distance == Abs(target - start) IN
  /\ MaxVelocity % MaxAcceleration = 0
  /\ \/ \E cruise \in 0 .. distance :
          distance = 2 * FullAccelDistance + MaxVelocity * cruise
     \/ \E accel \in 0 .. MaxVelocity \div MaxAcceleration :
          distance = MaxAcceleration * accel * accel

Duration(profile) == 2 * profile.accel + profile.cruise

-------------------------------------------------------------------------------
Sample(position, velocity, acceleration) ==
  [ position |-> position, velocity |-> velocity, acceleration |-> acceleration ]

(* What sample returns in each phase, s being the time since it began.     *)
Along(profile, distance, velocity, acceleration) ==
  Sample(profile.start + profile.sign * distance, profile.sign * velocity,
         profile.sign * acceleration)

Accelerating(profile, s) ==
  Along(profile, (MaxAcceleration \div 2) * s * s, MaxAcceleration * s, MaxAcceleration)

Cruising(profile, s) ==
  Along(profile, profile.accelDistance + profile.velocity * s, profile.velocity, 0)

(* Mutated form: the distance of the cruise is left out.                   *)
DeceleratingFromCruise(profile, s) ==
  Along(profile, profile.accelDistance
                   + profile.velocity * s - (MaxAcceleration \div 2) * s * s,
        profile.velocity - MaxAcceleration * s, -MaxAcceleration)

Decelerating(profile, s) ==
  Along(profile, profile.accelDistance + profile.velocity * profile.cruise
                   + profile.velocity * s - (MaxAcceleration \div 2) * s * s,
        profile.velocity - MaxAcceleration * s, -MaxAcceleration)

SampleAt(profile, t) ==
  LET tau == Clamp(t, 0, Duration(profile)) IN
  IF profile.sign = 0 THEN Sample(profile.start, 0, 0)
  ELSE IF tau = Duration(profile) THEN Sample(profile.target, 0, 0)
  ELSE IF tau <= profile.accel THEN Accelerating(profile, tau)
  ELSE IF tau <= profile.accel + profile.cruise THEN Cruising(profile, tau - profile.accel)
  ELSE Decelerating(profile, tau - profile.accel - profile.cruise)
===============================================================================
