-------------------------------- MODULE Devices --------------------------------
(***************************************************************************)
(* The virtual hardware and the sensors: small value objects, one operator *)
(* per method.  Quantities are whole numbers; NaN is the double that is no *)
(* number, whose comparisons are all false.  Exponential decay, Gaussian   *)
(* noise and what lies between two whole numbers are left open: operators  *)
(* that involve them give the set of values the code may arrive at.        *)
(***************************************************************************)
EXTENDS Numbers

-------------------------------------------------------------------------------
(* VirtualMotor: a record of the commanded and the actual torque.          *)

NewMotor == [ commanded |-> 0, torque |-> 0 ]

(* OutOfRange leaves the motor alone; NaN is not out of range.             *)
SetCommandedTorque(motor, rating, torque) ==
  IF torque # NaN /\ Abs(torque) > rating THEN motor
  ELSE [motor EXCEPT !.commanded = torque]

(* First-order lag, of the motor's torque and of the temperature: in any   *)
(* positive time the value comes nearer to its target and never passes it. *)
Lag(value, target, dt) ==
  IF dt <= 0 THEN {value}
  ELSE IF NaN \in {value, target} THEN {NaN}
  ELSE IF value <= target THEN value .. target ELSE target .. value

UpdatedMotors(motor, dt) ==
  {[motor EXCEPT !.torque = x] : x \in Lag(motor.torque, motor.commanded, dt)}

-------------------------------------------------------------------------------
(* VirtualEncoder: the nearest count, halves away from zero.               *)

Counts(position, resolution) ==
  LET magnitude == (2 * Abs(position) + resolution) \div (2 * resolution)
  IN IF position < 0 THEN -magnitude ELSE magnitude

Quantized(position, resolution) == Counts(position, resolution) * resolution

(* EncoderSensor: failureMode_ and lastReading_.                           *)
EncoderFailureMode == { "None", "Stuck", "Disconnected" }

NewEncoderSensor == [ mode |-> "None", last |-> 0 ]

(* Mutated form: the last reading is remembered in every mode.             *)
EncoderReadsAndKeeps(sensor, position, offset, noise, resolution) ==
  IF sensor.mode = "Disconnected"
    THEN {[ value |-> NaN, sensor |-> [sensor EXCEPT !.last = NaN] ]}
  ELSE IF sensor.mode = "Stuck" THEN {[ value |-> sensor.last, sensor |-> sensor ]}
  ELSE {[ value |-> x, sensor |-> [sensor EXCEPT !.last = x] ] :
          x \in {Quantized(position + offset, resolution) + n : n \in -noise .. noise}}

(* What a read returns and leaves behind, per failure mode.  The fields of *)
(* the code's sensor that never change are the arguments.                  *)
EncoderReads(sensor, position, offset, noise, resolution) ==
  IF sensor.mode = "Disconnected" THEN {[ value |-> NaN, sensor |-> sensor ]}
  ELSE IF sensor.mode = "Stuck" THEN {[ value |-> sensor.last, sensor |-> sensor ]}
  ELSE {[ value |-> x, sensor |-> [sensor EXCEPT !.last = x] ] :
          x \in {Quantized(position + offset, resolution) + n : n \in -noise .. noise}}

SetFailureMode(sensor, mode) == [sensor EXCEPT !.mode = mode]

-------------------------------------------------------------------------------
(* The thresholds of the other sensors, and of a NaN none is exceeded.     *)
IsOverTemperature(celsius, maxSafe) == celsius # NaN /\ celsius > maxSafe
IsOverCurrent(amps, maxSafe)        == amps # NaN /\ Abs(amps) > maxSafe

(* AnalogIO: channels counted from zero.  A write to no channel, or out of *)
(* the range, changes nothing; NaN passes the range.                       *)
AnalogWrite(channels, lo, hi, channel, value) ==
  IF channel \in DOMAIN channels /\ (value = NaN \/ (lo <= value /\ value <= hi))
  THEN [channels EXCEPT ![channel] = value] ELSE channels

===============================================================================
