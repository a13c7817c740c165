----------------------------- MODULE JointPrograms -----------------------------
(***************************************************************************)
(* The programs of this repository that move one axis or read its          *)
(* instruments; a behaviour is a run of one of them:                       *)
(*                                                                         *)
(*   "caller"     any caller of Joint and LimitMonitor: JointMotion        *)
(*   "warm-up", then "benchmark"                                           *)
(*                the loops of apps/robot-benchmark: ControlLoop::step on a*)
(*                joint that is enabled and has one target, the controller *)
(*                being Moving throughout, then the sensors                *)
(*   "profile"    a TrapezoidalTrajectory, sampled at every tick           *)
(*   "devices"    any caller of a VirtualMotor and an AnalogIO             *)
(*                                                                         *)
(* The benchmark's joints are alike and independent, so one stands for all.*)
(* Its encoder and proximity readings go into a sum nobody looks at.       *)
(***************************************************************************)
EXTENDS LimitMonitor, TrapezoidalTrajectory, Devices

CONSTANTS
  Positions,                    \* where profiles begin and end
  BenchmarkTarget,              \* the benchmark's 1.0 rad
  Ambient, HeatPerSpeed,        \* its 25.0 and 5.0, in the units of the model
  MaxSafeCelsius, MaxSafeAmps,  \* its 90.0 and 10.0
  Rating, Torques,              \* the motor's max_torque, and what is asked of it
  Channels, Low, High, Levels   \* the analog channels, their range, what is written

ASSUME ProgramAssumption ==
  /\ Positions \subseteq MinPosition .. MaxPosition
  /\ BenchmarkTarget \in MinPosition .. MaxPosition
  /\ {Ambient, MaxSafeCelsius, MaxSafeAmps, Low, High} \subseteq Int
  /\ HeatPerSpeed \in Nat /\ Rating \in Nat \ {0}
  /\ Torques \subseteq Int /\ Levels \subseteq Int
  /\ Low < High

VARIABLES
  program,                      \* which of the programs runs, and how far the benchmark is
  profile, t,                   \* the trajectory, and the ticks since it began
  celsius,                      \* TemperatureSensor::celsius_
  alarms,                       \* which thresholds the last readings exceeded
  motor,                        \* VirtualMotor
  levels                        \* AnalogIO::channels_

sensors == << celsius, alarms >>
devices == << motor, levels >>
axis == << joint, profile, t, sensors, devices >>

Moves == {move \in Positions \X Positions :
            OnGrid(move[1], move[2]) /\ Created(move[1], move[2])}

ProgramInit ==
  /\ program \in {"caller", "warm-up", "profile", "devices"}
  /\ IF program = "warm-up" THEN joint = JointSetTarget(JointEnable(NewJoint), BenchmarkTarget)
     ELSE Init
  /\ \E move \in Moves : profile = IF program = "profile" THEN Create(move[1], move[2])
                                   ELSE Resting(0)
  /\ t = 0
  /\ celsius = Ambient /\ alarms = {}
  /\ motor = NewMotor
  /\ levels = [channel \in Channels |-> Low]

-------------------------------------------------------------------------------
Call == Next /\ UNCHANGED << profile, t, sensors, devices >>

(* The profile, sampled as time goes on and for a while after its end.     *)
Play ==
  /\ t <= Duration(profile)
  /\ t' = t + 1
  /\ UNCHANGED << joint, profile, sensors, devices >>

(* What the benchmark reads from its sensors after a step.                 *)
Read(velocity) ==
  /\ celsius' \in Lag(celsius, Ambient + HeatPerSpeed * velocity, 1)
  /\ alarms' = {alarm \in {"temperature", "current"} :
                  IF alarm = "temperature" THEN IsOverTemperature(celsius', MaxSafeCelsius)
                                           ELSE IsOverCurrent(velocity, MaxSafeAmps)}

(* The warm-up reads the encoders only, of which nothing is kept.          *)
WarmUpCycle == Update(1) /\ UNCHANGED << profile, t, sensors, devices >>

BenchmarkCycle ==
  /\ Update(1)
  /\ Read(joint'.velocity)
  /\ UNCHANGED << profile, t, devices >>

UseDevices ==
  /\ \/ /\ \/ \E torque \in Torques : motor' = SetCommandedTorque(motor, Rating, torque)
           \/ \E dt \in {-1, 1} : motor' \in UpdatedMotors(motor, dt)
        /\ UNCHANGED levels
     \/ /\ \E channel \in Channels \cup {-1}, level \in Levels :
             levels' = AnalogWrite(levels, Low, High, channel, level)
        /\ UNCHANGED motor
  /\ UNCHANGED << joint, profile, t, sensors >>

Benchmark ==
  \/ program = "warm-up" /\ WarmUpCycle /\ program' \in {"warm-up", "benchmark"}
  \/ program = "benchmark" /\ BenchmarkCycle /\ UNCHANGED program

ProgramNext ==
  \/ Benchmark
  \/ /\ UNCHANGED program
     /\ \/ program = "caller" /\ Call
        \/ program = "profile" /\ Play
        \/ program = "devices" /\ UseDevices

(* The caller's own fairness, and the benchmark's: it loops without a pause.*)
ProgramSpec ==
  /\ ProgramInit /\ [][ProgramNext]_<< program, axis >>
  /\ WF_<< program, axis >>(program = "caller" /\ UNCHANGED program /\ UpdateTick
                              /\ UNCHANGED << profile, t, sensors, devices >>)
  /\ WF_<< program, axis >>(Benchmark)

-------------------------------------------------------------------------------
(* Properties. *)

\* The profile is a motion an axis can make: between two ticks the position
\* changes by the mean of the two velocities, the velocity by no more than the
\* acceleration, and neither leaves what the limits and the move allow; it
\* begins at rest at the start and ends at rest on the target.  Phases that did
\* not meet would show here (trapezoidal_trajectory.cpp 100-124).
PhasesMeet ==
  LET here  == SampleAt(profile, t)
      next  == SampleAt(profile, t + 1)
      first == SampleAt(profile, 0)
      last  == SampleAt(profile, Duration(profile))
  IN /\ 2 * (next.position - here.position) = here.velocity + next.velocity
     /\ Abs(next.velocity - here.velocity) <= MaxAcceleration
     /\ Abs(here.velocity) <= MaxVelocity
     /\ 0 <= here.velocity * profile.sign
     /\ first.position = profile.start /\ first.velocity = 0
     /\ last.position = profile.target /\ last.velocity = 0

\* No motion within the limits is shorter: in one tick less an axis that
\* accelerates and brakes as hard as it may does not get from start to target
\* (the choice between trapezoid and triangle, trapezoidal_trajectory.cpp 42-58).
Reach(n) ==
  IF n * MaxAcceleration <= 2 * MaxVelocity THEN (MaxAcceleration * n * n) \div 4
  ELSE MaxVelocity * n - (MaxVelocity * MaxVelocity) \div MaxAcceleration

NoTimeWasted ==
  profile.sign # 0 => Reach(Duration(profile) - 1) < Abs(profile.target - profile.start)
===============================================================================
