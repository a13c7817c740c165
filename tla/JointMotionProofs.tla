--------------------------- MODULE JointMotionProofs ---------------------------
(***************************************************************************)
(* One joint under any sequence of calls: it stays within its limits, and  *)
(* no call moves it faster than they allow; so under the programs of this  *)
(* repository.  And a trajectory's profile: a motion within the limits,    *)
(* without a break, and the shortest there is.                             *)
(***************************************************************************)
EXTENDS JointPrograms, RobotLemmas

\* A joint keeps its type whatever it is told, NaN included.
THEOREM TypeCorrect == Spec => []TypeOK
<1>1. Init => TypeOK
  <2>1. 0 \in Number /\ << 0, 1 >> \in Number \X Int
    BY DEF Number
  <2> QED
    BY <2>1 DEF Init, TypeOK, NewJoint, JointRecord
<1>2. TypeOK /\ [Next]_joint => TypeOK'
  <2> SUFFICES ASSUME joint \in JointRecord, [Next]_joint PROVE joint' \in JointRecord
    BY DEF TypeOK
  <2>1. CASE Enable \/ Disable \/ Home
    BY <2>1, SwitchingTypes DEF Enable, Disable, Home
  <2>2. CASE \E position \in Commands : SetTargetPosition(position)
    BY <2>2, CommandsAssumption, SetTargetType DEF SetTargetPosition
  <2>3. CASE \E velocity \in Commands : SetTargetVelocity(velocity)
    BY <2>3, CommandsAssumption DEF SetTargetVelocity, JointSetTargetVelocity, JointRecord
  <2>4. CASE \E dt \in Steps : Update(dt)
    BY <2>4, CommandsAssumption, UpdateType DEF Update
  <2>5. CASE UNCHANGED joint
    BY <2>5
  <2> QED
    BY <2>1, <2>2, <2>3, <2>4, <2>5 DEF Next
<1> QED
  BY <1>1, <1>2, PTL DEF Spec

\* The inductive invariant: the type of a joint and its limits together.
SoundInv == SoundJoint(joint)

\* No call takes a joint out of its type or its limits.
LEMMA SoundStep ==
  ASSUME ZeroIsLegal, NaN \notin Commands, SoundInv, [Next]_joint
  PROVE  SoundInv'
<1>1. SoundJoint(joint)
  BY DEF SoundInv
<1>2. \A x \in Commands : x \in Int
  BY CommandsAssumption DEF Number
<1>3. CASE Enable
  BY <1>1, <1>3, SwitchingKeepsSound DEF Enable, SoundInv
<1>4. CASE Disable
  BY <1>1, <1>4, SwitchingKeepsSound DEF Disable, SoundInv
<1>5. CASE Home
  BY <1>1, <1>5, SwitchingKeepsSound DEF Home, SoundInv
<1>6. CASE \E position \in Commands : SetTargetPosition(position)
  BY <1>1, <1>2, <1>6, SettersKeepSound DEF SetTargetPosition, SoundInv
<1>7. CASE \E velocity \in Commands : SetTargetVelocity(velocity)
  BY <1>1, <1>2, <1>7, SettersKeepSound DEF SetTargetVelocity, SoundInv
<1>8. CASE \E dt \in Steps : Update(dt)
  BY <1>1, <1>8, CommandsAssumption, UpdateKeepsSound DEF Update, SoundInv
<1>9. CASE UNCHANGED joint
  BY <1>9 DEF SoundInv
<1> QED
  BY <1>3, <1>4, <1>5, <1>6, <1>7, <1>8, <1>9 DEF Next

\* Type and limits hold throughout.
LEMMA SoundCorrect ==
  ASSUME ZeroIsLegal, NaN \notin Commands
  PROVE  Spec => []SoundInv
<1>1. Init => SoundInv
  BY NewJointSound DEF Init, SoundInv
<1>2. SoundInv /\ [Next]_joint => SoundInv'
  BY SoundStep
<1> QED
  BY <1>1, <1>2, PTL DEF Spec

\* Position, velocity and accepted target stay within the limits through any
\* sequence of calls, provided zero is a legal position and nobody commands
\* NaN (joint.cpp 33-102; without either premise a run finds them outside).
THEOREM WithinLimitsCorrect ==
  ASSUME ZeroIsLegal, NaN \notin Commands
  PROVE  Spec => []WithinLimits
<1>1. SoundInv => WithinLimits
  BY DEF SoundInv, SoundJoint, WithinLimits
<1> QED
  BY <1>1, SoundCorrect, PTL

Bounded ==
  joint'.position # joint.position \/ joint'.velocity # joint.velocity
    => \/ Homed(joint')
       \/ joint.enabled /\ \E dt \in Steps : dt > 0 /\ MotionWithin(dt)

\* One call of the joint's, whichever it is.
LEMMA BoundedStep ==
  ASSUME ZeroIsLegal, NaN \notin Commands, SoundInv, Next
  PROVE  Bounded
<1> USE DEF Bounded
<1>1. SoundJoint(joint) /\ joint \in JointRecord
  BY DEF SoundInv, SoundJoint
<1>2. CASE Enable
  BY <1>1, <1>2 DEF Enable, JointEnable, JointRecord
<1>3. CASE Disable
  BY <1>1, <1>3 DEF Disable, JointDisable, JointRecord
<1>4. CASE Home
  <2>1. Homed(joint')
    BY <1>1, <1>4 DEF Home, JointHome, JointRecord, Homed
  <2> QED
    BY <2>1
<1>5. CASE \E position \in Commands : SetTargetPosition(position)
  BY <1>1, <1>5 DEF SetTargetPosition, JointSetTarget, JointRecord
<1>6. CASE \E velocity \in Commands : SetTargetVelocity(velocity)
  BY <1>1, <1>6 DEF SetTargetVelocity, JointSetTargetVelocity, JointRecord
<1>7. CASE \E dt \in Steps : Update(dt)
  <2>1. PICK dt \in Steps : Update(dt)
    BY <1>7
  <2>2. dt \in Int
    BY CommandsAssumption
  <2>3. CASE ~joint.enabled \/ dt <= 0
    BY <2>1, <2>3 DEF Update, JointUpdate
  <2>4. CASE joint.enabled /\ ~(dt <= 0)
    <3>1. joint' = Advance(joint, dt)
      BY <1>1, <2>1, <2>4, SoundNotPoisoned DEF Update, JointUpdate
    <3>2. dt > 0
      BY <2>2, <2>4
    <3>3. MotionWithin(dt)
      BY <1>1, <2>2, <3>1, <3>2, AdvanceBounded DEF MotionWithin
    <3> QED
      BY <2>4, <3>2, <3>3
  <2> QED
    BY <2>3, <2>4
<1> QED
  BY <1>2, <1>3, <1>4, <1>5, <1>6, <1>7 DEF Next

\* No call but home moves the joint faster than MaxVelocity, or changes its
\* velocity faster than MaxAcceleration, over the time it was given; and only
\* an enabled joint moves (joint.cpp 64-102).
THEOREM MotionIsBoundedCorrect ==
  ASSUME ZeroIsLegal, NaN \notin Commands
  PROVE  Spec => MotionIsBounded
<1>1. SoundInv /\ [Next]_joint => [Bounded]_joint
  BY BoundedStep
<1>2. [][Bounded]_joint <=> MotionIsBounded
  BY PTL DEF MotionIsBounded, Bounded
<1> QED
  BY <1>1, <1>2, SoundCorrect, PTL DEF Spec

-------------------------------------------------------------------------------
\* check flags a joint no further than the margin from either limit
\* (limit_monitor.cpp 25-35).
LEMMA NearIsFlagged ==
  ASSUME NEW limit \in {MinPosition, MaxPosition}, joint.position \in MinPosition .. MaxPosition,
         joint.position - limit <= Margin, limit - joint.position <= Margin
  PROVE  Flagged
<1>1. /\ joint.position \in Int /\ joint.position # NaN
      /\ MinPosition \in Int /\ MaxPosition \in Int /\ Margin \in Int
  BY JointAssumption, MarginAssumption
<1>2. DistanceToNearestLimit(joint.position) <= Margin
  BY <1>1 DEF DistanceToNearestLimit
<1> DEFINE joints == [i \in {0} |-> joint]
<1>3. DOMAIN joints = {0} /\ joints[0] = joint
  OBVIOUS
<1> HIDE DEF joints
<1>4. DOMAIN LimitViolations(joints) =
        {k \in DOMAIN joints : /\ joints[k].position # NaN
                               /\ DistanceToNearestLimit(joints[k].position) <= Margin}
  BY DEF LimitViolations
<1>5. 0 \in DOMAIN LimitViolations(joints)
  BY <1>1, <1>2, <1>3, <1>4
<1> QED
  BY <1>5 DEF Flagged, joints

Warned ==
  MarginCoversStep /\ AtLimit(joint') /\ ~AtLimit(joint) => Flagged \/ Homed(joint')

\* One call of the joint's, seen by a monitor that looked just before it.
LEMMA WarnedStep ==
  ASSUME ZeroIsLegal, NaN \notin Commands, SoundInv, Next
  PROVE  Warned
<1> SUFFICES ASSUME MarginCoversStep, AtLimit(joint'), ~AtLimit(joint)
             PROVE  Flagged \/ Homed(joint')
  BY DEF Warned
<1>1. SoundJoint(joint) /\ joint \in JointRecord /\ joint.position \in MinPosition .. MaxPosition
  BY DEF SoundInv, SoundJoint, InLimits
<1>2. joint'.position # joint.position
  BY DEF AtLimit
<1>3. CASE Enable
  BY <1>1, <1>2, <1>3 DEF Enable, JointEnable, JointRecord
<1>4. CASE Disable
  BY <1>1, <1>2, <1>4 DEF Disable, JointDisable, JointRecord
<1>5. CASE Home
  BY <1>1, <1>5 DEF Home, JointHome, JointRecord, Homed
<1>6. CASE \E position \in Commands : SetTargetPosition(position)
  BY <1>1, <1>2, <1>6 DEF SetTargetPosition, JointSetTarget, JointRecord
<1>7. CASE \E velocity \in Commands : SetTargetVelocity(velocity)
  BY <1>1, <1>2, <1>7 DEF SetTargetVelocity, JointSetTargetVelocity, JointRecord
<1>8. CASE \E dt \in Steps : Update(dt)
  <2>1. PICK dt \in Steps : Update(dt)
    BY <1>8
  <2>2. joint.enabled /\ dt \in Int /\ dt > 0
    BY <1>2, <2>1, CommandsAssumption DEF Update, JointUpdate
  <2>3. joint' = Advance(joint, dt)
    BY <1>1, <2>1, <2>2, SoundNotPoisoned DEF Update, JointUpdate
  <2>4. joint'.position - joint.position \in -(MaxVelocity * dt) .. MaxVelocity * dt
    BY <1>1, <2>2, <2>3, AdvanceBounded
  <2>5. MaxVelocity * dt <= Margin /\ MaxVelocity * dt \in Int
    BY <2>1, <2>2, JointAssumption DEF MarginCoversStep
  <2>6. joint'.position \in {MinPosition, MaxPosition}
    BY DEF AtLimit
  <2>7. /\ joint.position - joint'.position <= Margin
        /\ joint'.position - joint.position <= Margin
    <3> DEFINE way == MaxVelocity * dt
    <3>1. way \in Int /\ way <= Margin /\ joint'.position - joint.position \in -way .. way
      BY <2>4, <2>5
    <3>2. joint.position \in Int /\ joint'.position \in Int /\ Margin \in Int
      BY <1>1, <2>6, JointAssumption, MarginAssumption
    <3> HIDE DEF way
    <3> QED
      BY <3>1, <3>2
  <2> QED
    BY <1>1, <2>6, <2>7, NearIsFlagged
<1> QED
  BY <1>3, <1>4, <1>5, <1>6, <1>7, <1>8 DEF Next

\* A monitor whose margin is no shorter than the longest step at full speed
\* flags a joint before it stands at a limit, for all limits around zero and any
\* numeric commands (limit_monitor.hpp 24-27).
THEOREM WarnedBeforeLimitCorrect ==
  ASSUME ZeroIsLegal, NaN \notin Commands
  PROVE  Spec => WarnedBeforeLimit
<1>1. SoundInv /\ [Next]_joint => [Warned]_joint
  BY WarnedStep
<1>2. [][Warned]_joint <=> WarnedBeforeLimit
  BY PTL DEF WarnedBeforeLimit, Warned
<1> QED
  BY <1>1, <1>2, SoundCorrect, PTL DEF Spec

-------------------------------------------------------------------------------
\* The benchmark's own loop calls update and nothing else, with one period.
LEMMA ProgramsCallJoint ==
  ASSUME 1 \in Steps, [ProgramNext]_<< program, axis >>
  PROVE  [Next]_joint
BY DEF ProgramNext, Benchmark, WarmUpCycle, BenchmarkCycle, Call, Play, UseDevices,
       axis, Next

\* Type and limits hold of every program's joint.
LEMMA ProgramsSoundCorrect ==
  ASSUME ZeroIsLegal, NaN \notin Commands, 1 \in Steps
  PROVE  ProgramSpec => []SoundInv
<1>1. ProgramInit => SoundInv
  <2>1. BenchmarkTarget \in Int
    BY ProgramAssumption, JointAssumption
  <2>2. SoundJoint(NewJoint)
    BY NewJointSound
  <2>3. SoundJoint(JointEnable(NewJoint))
    BY <2>2, SwitchingKeepsSound
  <2>4. SoundJoint(JointSetTarget(JointEnable(NewJoint), BenchmarkTarget))
    BY <2>1, <2>3, SettersKeepSound
  <2> QED
    BY <2>2, <2>4 DEF ProgramInit, Init, SoundInv
<1>2. SoundInv /\ [ProgramNext]_<< program, axis >> => SoundInv'
  BY SoundStep, ProgramsCallJoint
<1> QED
  BY <1>1, <1>2, PTL DEF ProgramSpec

\* All of the above holds of every program that moves an axis, the benchmark's
\* two loops included, which begin with a joint that is already enabled and has
\* a target (apps/robot-benchmark/main.cpp 138-192).
THEOREM ProgramsMoveCorrect ==
  ASSUME ZeroIsLegal, NaN \notin Commands, 1 \in Steps
  PROVE  ProgramSpec => []WithinLimits /\ MotionIsBounded /\ WarnedBeforeLimit
<1>1. SoundInv => WithinLimits
  BY DEF SoundInv, SoundJoint, WithinLimits
<1>2. SoundInv /\ [ProgramNext]_<< program, axis >> => [Bounded]_joint
  BY BoundedStep, ProgramsCallJoint
<1>3. SoundInv /\ [ProgramNext]_<< program, axis >> => [Warned]_joint
  BY WarnedStep, ProgramsCallJoint
<1>4. [][Bounded]_joint <=> MotionIsBounded
  BY PTL DEF MotionIsBounded, Bounded
<1>5. [][Warned]_joint <=> WarnedBeforeLimit
  BY PTL DEF WarnedBeforeLimit, Warned
<1> QED
  BY <1>1, <1>2, <1>3, <1>4, <1>5, ProgramsSoundCorrect, PTL DEF ProgramSpec

-------------------------------------------------------------------------------
(* The trajectories.  What a profile is, and how far along it a tick is,    *)
(* takes multiplication of unknowns, so the facts about it come first.      *)

\* Whole-number division.
LEMMA Division ==
  ASSUME NEW a \in Nat, NEW b \in Nat \ {0}
  PROVE  /\ a \div b \in Nat
         /\ (a \div b) * b <= a /\ a < (a \div b) * b + b
OBVIOUS

\* Multiplying keeps the order.
LEMMA ProductOrder ==
  ASSUME NEW m \in Nat, NEW n \in Nat, NEW b \in Nat, m <= n
  PROVE  m * b <= n * b
<1> DEFINE d == n - m
<1>1. d \in Nat /\ n = m + d
  OBVIOUS
<1> HIDE DEF d
<1>2. (m + d) * b = m * b + d * b /\ d * b \in Nat /\ m * b \in Nat
  BY <1>1
<1> QED
  BY <1>1, <1>2

\* Dividing a product gives the factor back.
LEMMA ExactDivision ==
  ASSUME NEW m \in Nat, NEW b \in Nat \ {0}
  PROVE  (m * b) \div b = m
<1> DEFINE q == (m * b) \div b
<1>1. q \in Nat /\ q * b <= m * b /\ m * b < q * b + b
  BY Division, m * b \in Nat
<1> HIDE DEF q
<1>2. (q + 1) * b = q * b + b /\ (m + 1) * b = m * b + b
  BY <1>1
<1>3. ~(m + 1 <= q)
  <2> SUFFICES ASSUME m + 1 <= q PROVE FALSE
    OBVIOUS
  <2>1. (m + 1) * b <= q * b
    BY <1>1, ProductOrder
  <2> QED BY <1>1, <1>2, <2>1, q * b \in Nat, m * b \in Nat
<1>4. ~(q + 1 <= m)
  <2> SUFFICES ASSUME q + 1 <= m PROVE FALSE
    OBVIOUS
  <2>1. (q + 1) * b <= m * b
    BY <1>1, ProductOrder
  <2> QED BY <1>1, <1>2, <2>1, q * b \in Nat, m * b \in Nat
<1> QED
  BY <1>1, <1>3, <1>4 DEF q

\* What Sqrt chooses is the only such number.
LEMMA SquareRootIsUnique ==
  ASSUME NEW m \in Nat, NEW n \in Nat, m * m = n * n
  PROVE  m = n
<1>1. ASSUME NEW i \in Nat, NEW j \in Nat, i < j, i * i = j * j PROVE FALSE
  <2>1. i * i <= j * i
    BY <1>1, ProductOrder
  <2>2. (i + 1) * j <= j * j
    BY <1>1, ProductOrder
  <2>3. (i + 1) * j = i * j + j /\ i * j = j * i /\ i * j \in Nat
    OBVIOUS
  <2> QED
    BY <1>1, <2>1, <2>2, <2>3
<1> QED
  BY <1>1

(* Half an acceleration is whole (EvenAcceleration).                       *)
Half == MaxAcceleration \div 2

\* Of the limits, what the profile's arithmetic needs.
LEMMA HalfAcceleration ==
  /\ Half \in Nat \ {0} /\ MaxAcceleration = 2 * Half
  /\ MaxAcceleration \in Nat \ {0} /\ MaxVelocity \in Nat \ {0}
<1>1. MaxAcceleration \in Nat \ {0} /\ MaxVelocity \in Nat \ {0} /\ MaxAcceleration % 2 = 0
  BY JointAssumption, EvenAcceleration DEF LimitsValid
<1> QED
  BY <1>1 DEF Half

(* A profile of three phases: a ticks of acceleration, c of cruise, and a   *)
(* of braking, over twice the ramp and the cruise.                          *)
Ramp(a) == Half * a * a
Length(a, c) == 2 * Ramp(a) + MaxAcceleration * a * c

PhasesOf(p, a, c) ==
  /\ p.accel = a /\ p.cruise = c
  /\ p.velocity = MaxAcceleration * a /\ p.accelDistance = Ramp(a)
  /\ a # 0 /\ MaxAcceleration * a <= MaxVelocity
  /\ c # 0 => MaxAcceleration * a = MaxVelocity
  /\ p.sign \in {-1, 1} /\ p.start \in Int
  /\ p.target = p.start + p.sign * Length(a, c)

AtRest(p) ==
  /\ p.sign = 0 /\ p.start \in Int /\ p.target = p.start
  /\ p.accel = 0 /\ p.cruise = 0

Shaped(p) == AtRest(p) \/ \E a, c \in Nat : PhasesOf(p, a, c)

\* The code's FullAccelDistance is the ramp of k ticks that ends at full speed.
LEMMA FullSpeedRamp ==
  ASSUME NEW k \in Nat, MaxVelocity = MaxAcceleration * k
  PROVE  FullAccelDistance = Ramp(k)
<1>1. Ramp(k) \in Nat /\ 2 * MaxAcceleration \in Nat \ {0}
  BY HalfAcceleration DEF Ramp
<1>2. MaxVelocity * MaxVelocity = Ramp(k) * (2 * MaxAcceleration)
  <2>1. \A h \in Nat : (2 * h * k) * (2 * h * k) = (h * k * k) * (2 * (2 * h))
    OBVIOUS
  <2> QED
    BY <2>1, HalfAcceleration DEF Ramp
<1> QED
  BY <1>1, <1>2, ExactDivision DEF FullAccelDistance

\* Two ramps make what a triangular profile covers.
LEMMA TwoRamps ==
  ASSUME NEW a \in Nat
  PROVE  2 * Ramp(a) = MaxAcceleration * a * a /\ Ramp(a) \in Nat
BY HalfAcceleration DEF Ramp

\* create gives every move on the grid a profile of three phases.
LEMMA CreateShaped ==
  ASSUME NEW start \in Int, NEW target \in Int, OnGrid(start, target)
  PROVE  Shaped(Create(start, target))
<1> DEFINE distance == Abs(target - start)
           k == MaxVelocity \div MaxAcceleration
<1>1. /\ distance \in Nat /\ k \in Nat \ {0} /\ MaxVelocity = MaxAcceleration * k
  <2>1. distance \in Nat
    BY DEF Abs
  <2>2. MaxVelocity % MaxAcceleration = 0
    BY DEF OnGrid
  <2>3. \A v, b \in Nat \ {0} : v % b = 0 => v = b * (v \div b) /\ v \div b \in Nat \ {0}
    OBVIOUS
  <2> QED
    BY <2>1, <2>2, <2>3, HalfAcceleration
<1>2. FullAccelDistance = Ramp(k)
  BY <1>1, FullSpeedRamp
<1>3. start # target =>
        /\ Sign(target - start) \in {-1, 1} /\ distance # 0
        /\ target = start + Sign(target - start) * distance
  BY DEF Sign, Abs
<1>4. \/ \E cruise \in Nat : distance = 2 * Ramp(k) + MaxVelocity * cruise
      \/ \E accel \in 0 .. k : distance = MaxAcceleration * accel * accel
  BY <1>2 DEF OnGrid
<1>5. CASE start = target
  <2>1. AtRest(Create(start, target))
    BY <1>5 DEF Create, Resting, Profile, AtRest, Sign
  <2> QED
    BY <2>1 DEF Shaped
<1>6. CASE start # target /\ 2 * FullAccelDistance <= distance
  <2>1. PICK cruise \in Nat : distance = 2 * Ramp(k) + MaxVelocity * cruise
    <3>1. CASE \E accel \in 0 .. k : distance = MaxAcceleration * accel * accel
      <4>1. PICK accel \in 0 .. k : distance = MaxAcceleration * accel * accel
        BY <3>1
      <4>2. MaxAcceleration * k * k <= MaxAcceleration * accel * accel
        BY <1>1, <1>2, <1>6, <4>1, TwoRamps
      <4>3. MaxAcceleration * accel * accel <= MaxAcceleration * k * k
        <5>1. accel * accel <= k * accel /\ k * accel = accel * k /\ accel * k <= k * k
          BY <1>1, <4>1, ProductOrder
        <5>2. accel * accel <= k * k /\ accel * accel \in Nat /\ k * k \in Nat
          BY <5>1, <1>1, <4>1
        <5>3. (accel * accel) * MaxAcceleration <= (k * k) * MaxAcceleration
          BY <5>2, ProductOrder, HalfAcceleration
        <5> QED
          BY <5>3, <1>1, <4>1, HalfAcceleration
      <4>4. distance = 2 * Ramp(k) + MaxVelocity * 0
        BY <1>1, <4>1, <4>2, <4>3, TwoRamps, HalfAcceleration
      <4> QED
        BY <4>4
    <3> QED
      BY <1>4, <3>1
  <2>2. (distance - 2 * FullAccelDistance) \div MaxVelocity = cruise
    <3>1. distance - 2 * FullAccelDistance = cruise * MaxVelocity
      BY <1>1, <1>2, <2>1, TwoRamps, HalfAcceleration
    <3> QED
      BY <3>1, ExactDivision, HalfAcceleration
  <2>3. Create(start, target) =
          Profile(start, target, k, cruise, MaxVelocity, FullAccelDistance)
    BY <1>6, <2>2 DEF Create, Trapezoidal
  <2> HIDE DEF k, distance
  <2>4. distance = Length(k, cruise)
    BY <1>1, <2>1 DEF Length
  <2>5. PhasesOf(Create(start, target), k, cruise)
    BY <1>1, <1>2, <1>3, <1>6, <2>3, <2>4, HalfAcceleration DEF PhasesOf, Profile
  <2> QED
    BY <1>1, <2>5 DEF Shaped
<1>7. CASE start # target /\ ~(2 * FullAccelDistance <= distance)
  <2>1. PICK accel \in 0 .. k : distance = MaxAcceleration * accel * accel
    <3>1. ASSUME NEW cruise \in Nat, distance = 2 * Ramp(k) + MaxVelocity * cruise
          PROVE  FALSE
      BY <1>1, <1>2, <1>7, <3>1, TwoRamps, HalfAcceleration
    <3> QED
      BY <1>4, <3>1
  <2>2. accel \in Nat /\ MaxAcceleration * accel \in Nat /\ accel # 0
    BY <1>1, <1>3, <1>7, <2>1, HalfAcceleration
  <2> DEFINE n == distance * MaxAcceleration
             peak == MaxAcceleration * accel
  <2>3. n = peak * peak /\ peak \in 0 .. n /\ n \in Nat
    <3>1. n = peak * peak
      <4>1. \A x, y \in Nat : (x * y * y) * x = (x * y) * (x * y)
        OBVIOUS
      <4> QED
        BY <2>1, <2>2, <4>1, HalfAcceleration
    <3>2. peak \in Nat \ {0}
      BY <2>2, HalfAcceleration
    <3> HIDE DEF peak, n
    <3>3. 1 * peak <= peak * peak
      BY <3>2, ProductOrder
    <3> QED
      BY <3>1, <3>2, <3>3
  <2>4. Sqrt(n) = peak
    <3> HIDE DEF peak, n
    <3>1. \A r \in 0 .. n : r * r = n => r = peak
      BY <2>3, SquareRootIsUnique
    <3> QED
      BY <2>3, <3>1 DEF Sqrt
  <2>5. peak \div MaxAcceleration = accel
    <3>1. peak = accel * MaxAcceleration
      BY <2>2, HalfAcceleration
    <3> QED
      BY <2>2, <3>1, ExactDivision, HalfAcceleration
  <2>6. Create(start, target) = Profile(start, target, accel, 0, peak, Ramp(accel))
    BY <1>7, <2>4, <2>5 DEF Create, Triangular, Ramp, Half
  <2>7. distance = Length(accel, 0)
    BY <2>1, <2>2, TwoRamps, HalfAcceleration DEF Length
  <2>8. peak <= MaxVelocity
    <3>1. accel * MaxAcceleration <= k * MaxAcceleration
      BY <1>1, <2>1, <2>2, ProductOrder, HalfAcceleration
    <3> QED
      BY <1>1, <2>2, <3>1, HalfAcceleration
  <2> HIDE DEF k, distance
  <2>9. PhasesOf(Create(start, target), accel, 0)
    BY <1>3, <1>7, <2>2, <2>6, <2>7, <2>8 DEF PhasesOf, Profile
  <2> QED
    BY <2>2, <2>9 DEF Shaped
<1> QED
  BY <1>5, <1>6, <1>7

(* Where a profile is tau ticks after its start, and how fast it is: the   *)
(* distance from the start and the speed, without their sign.              *)
Is(p, tau, distance, speed) ==
  /\ SampleAt(p, tau).position = p.start + p.sign * distance
  /\ SampleAt(p, tau).velocity = p.sign * speed

\* sample, phase by phase; the phases agree where they meet.
LEMMA PhasesAgree ==
  ASSUME NEW p, NEW a \in Nat, NEW c \in Nat, PhasesOf(p, a, c), NEW tau \in Nat
  PROVE  /\ tau <= a => Is(p, tau, Half * tau * tau, MaxAcceleration * tau)
         /\ \A s \in 0 .. c :
              tau = a + s => Is(p, tau, Ramp(a) + MaxAcceleration * a * s, MaxAcceleration * a)
         /\ \A s \in 0 .. a :
              tau = a + c + s =>
                Is(p, tau, Ramp(a) + MaxAcceleration * a * c
                             + MaxAcceleration * a * s - Half * s * s,
                           MaxAcceleration * a - MaxAcceleration * s)
         /\ tau >= a + c + a => Is(p, tau, Length(a, c), 0)
<1> DEFINE D == Duration(p)
           A == MaxAcceleration
<1>1. /\ p.accel = a /\ p.cruise = c /\ p.velocity = A * a /\ p.accelDistance = Ramp(a)
      /\ a # 0 /\ p.sign \in {-1, 1} /\ p.start \in Int
      /\ p.target = p.start + p.sign * Length(a, c)
      /\ D = 2 * a + c /\ Half \in Nat /\ A \in Nat /\ A = 2 * Half
  BY HalfAcceleration DEF PhasesOf, Duration
<1>2. Clamp(tau, 0, D) = IF D < tau THEN D ELSE tau
  BY <1>1 DEF Clamp
<1>3. CASE tau >= D
  <2>1. SampleAt(p, tau) = Sample(p.target, 0, 0)
    BY <1>1, <1>2, <1>3 DEF SampleAt
  <2>2. Is(p, tau, Length(a, c), 0)
    BY <1>1, <2>1 DEF Is, Sample
  <2>3. ASSUME NEW s \in 0 .. a, tau = a + c + s
        PROVE  Is(p, tau, Ramp(a) + A * a * c + A * a * s - Half * s * s, A * a - A * s)
    <3>1. s = a
      BY <1>1, <1>3, <2>3
    <3>2. Ramp(a) + A * a * c + A * a * a - Half * a * a = Length(a, c) /\ A * a - A * a = 0
      BY <1>1, TwoRamps DEF Length, Ramp
    <3> HIDE DEF A
    <3> QED
      BY <2>2, <3>1, <3>2
  <2>4. tau > a /\ \A s \in 0 .. c : tau # a + s
    BY <1>1, <1>3
  <2> HIDE DEF A
  <2> QED
    BY <1>1, <1>3, <2>2, <2>3, <2>4 DEF A
<1>4. CASE tau < D
  <2>1. SampleAt(p, tau) =
          IF tau <= a THEN Accelerating(p, tau)
          ELSE IF tau <= a + c THEN Cruising(p, tau - a)
          ELSE Decelerating(p, tau - a - c)
    BY <1>1, <1>2, <1>4 DEF SampleAt
  <2>2. ASSUME tau <= a
        PROVE  Is(p, tau, Half * tau * tau, A * tau)
    BY <2>1, <2>2 DEF Is, Accelerating, Along, Sample, Half
  <2>3. ASSUME NEW s \in 0 .. c, tau = a + s
        PROVE  Is(p, tau, Ramp(a) + A * a * s, A * a)
    <3>1. CASE s = 0
      <4>1. Half * tau * tau = Ramp(a) + A * a * s /\ A * tau = A * a
        BY <1>1, <2>3, <3>1 DEF Ramp
      <4> HIDE DEF A
      <4> QED
        BY <2>2, <2>3, <3>1, <4>1 DEF A
    <3>2. CASE s # 0
      <4>1. SampleAt(p, tau) = Cruising(p, s)
        BY <2>1, <2>3, <3>2
      <4> QED
        BY <1>1, <4>1 DEF Is, Cruising, Along, Sample
    <3> QED
      BY <3>1, <3>2
  <2>4. ASSUME NEW s \in 0 .. a, tau = a + c + s
        PROVE  Is(p, tau, Ramp(a) + A * a * c + A * a * s - Half * s * s, A * a - A * s)
    <3>1. CASE s = 0
      <4>1. /\ Ramp(a) + A * a * c + A * a * s - Half * s * s = Ramp(a) + A * a * c
            /\ A * a - A * s = A * a
        BY <1>1, <3>1, TwoRamps
      <4>2. c \in 0 .. c /\ tau = a + c
        BY <2>4, <3>1
      <4> HIDE DEF A
      <4> QED
        BY <2>3, <4>1, <4>2
    <3>2. CASE s # 0
      <4>1. SampleAt(p, tau) = Decelerating(p, s)
        BY <2>1, <2>4, <3>2
      <4> QED
        BY <1>1, <4>1 DEF Is, Decelerating, Along, Sample, Half
    <3> QED
      BY <3>1, <3>2
  <2> QED
    BY <1>1, <1>4, <2>2, <2>3, <2>4
<1> QED
  BY <1>1, <1>3, <1>4

(* The same as a condition on distance and speed.                          *)
InPhase(a, c, tau, distance, speed) ==
  \/ tau <= a /\ distance = Half * tau * tau /\ speed = MaxAcceleration * tau
  \/ \E s \in 0 .. c :
       /\ tau = a + s
       /\ distance = Ramp(a) + MaxAcceleration * a * s
       /\ speed = MaxAcceleration * a
  \/ \E s \in 0 .. a :
       /\ tau = a + c + s
       /\ distance = Ramp(a) + MaxAcceleration * a * c + MaxAcceleration * a * s - Half * s * s
       /\ speed = MaxAcceleration * a - MaxAcceleration * s
  \/ tau >= a + c + a /\ distance = Length(a, c) /\ speed = 0

\* The same, for a distance and a speed known to be those of the phase.
LEMMA SamplesAre ==
  ASSUME NEW p, NEW a \in Nat, NEW c \in Nat, PhasesOf(p, a, c), NEW tau \in Nat,
         NEW distance, NEW speed, InPhase(a, c, tau, distance, speed)
  PROVE  Is(p, tau, distance, speed)
<1> DEFINE fast == MaxAcceleration * a
<1>1. /\ tau <= a => Is(p, tau, Half * tau * tau, MaxAcceleration * tau)
      /\ \A s \in 0 .. c :
           tau = a + s => Is(p, tau, Ramp(a) + MaxAcceleration * a * s, MaxAcceleration * a)
      /\ \A s \in 0 .. a :
           tau = a + c + s =>
             Is(p, tau, Ramp(a) + MaxAcceleration * a * c
                          + MaxAcceleration * a * s - Half * s * s,
                        MaxAcceleration * a - MaxAcceleration * s)
      /\ tau >= a + c + a => Is(p, tau, Length(a, c), 0)
  BY PhasesAgree
<1> QED
  BY Zenon, <1>1 DEF InPhase

\* Distances d, e and speeds v, w one tick apart: the distance changes by the
\* mean of the two speeds, the speed by no more than the acceleration.
Steady(d, e, v, w) ==
  /\ 2 * (e - d) = v + w /\ v <= MaxVelocity
  /\ w - v <= MaxAcceleration /\ v - w <= MaxAcceleration

\* What PhasesMeet says of the two samples.
Meets(p, tau, next) ==
  /\ 2 * (SampleAt(p, next).position - SampleAt(p, tau).position)
       = SampleAt(p, tau).velocity + SampleAt(p, next).velocity
  /\ Abs(SampleAt(p, next).velocity - SampleAt(p, tau).velocity) <= MaxAcceleration
  /\ Abs(SampleAt(p, tau).velocity) <= MaxVelocity
  /\ 0 <= SampleAt(p, tau).velocity * p.sign

\* One tick from an exact distance and speed to the next.
LEMMA TickMeets ==
  ASSUME NEW p, p.sign \in {-1, 1}, p.start \in Int, NEW tau, NEW next,
         NEW d \in Int, NEW e \in Int, NEW v \in Nat, NEW w \in Nat,
         Is(p, tau, d, v), Is(p, next, e, w), Steady(d, e, v, w)
  PROVE  Meets(p, tau, next)
<1> USE DEF Steady, Meets
<1>1. MaxVelocity \in Nat /\ MaxAcceleration \in Nat
  BY HalfAcceleration
<1>2. CASE p.sign = 1
  BY <1>1, <1>2 DEF Is, Abs
<1>3. CASE p.sign = -1
  <2>1. /\ SampleAt(p, tau).position = p.start - d /\ SampleAt(p, tau).velocity = -v
        /\ SampleAt(p, next).position = p.start - e /\ SampleAt(p, next).velocity = -w
    BY <1>3 DEF Is
  <2>2. (-v) * p.sign = v
    BY <1>3
  <2> QED
    BY <1>1, <2>1, <2>2 DEF Abs
<1> QED
  BY <1>2, <1>3

\* The same for two ticks of which only the phase is known.
LEMMA PhaseTickMeets ==
  ASSUME NEW p, p.sign \in {-1, 1}, p.start \in Int,
         NEW a \in Nat, NEW c \in Nat, PhasesOf(p, a, c), NEW tau \in Nat, NEW next \in Nat,
         \E d, e \in Int, v, w \in Nat :
           InPhase(a, c, tau, d, v) /\ InPhase(a, c, next, e, w) /\ Steady(d, e, v, w)
  PROVE  Meets(p, tau, next)
<1>1. PICK d \in Int, e \in Int, v \in Nat, w \in Nat :
        InPhase(a, c, tau, d, v) /\ InPhase(a, c, next, e, w) /\ Steady(d, e, v, w)
  OBVIOUS
<1>2. Is(p, tau, d, v) /\ Is(p, next, e, w)
  BY <1>1, SamplesAre
<1> QED
  BY <1>1, <1>2, TickMeets

\* Phase by phase, one tick within it: the phases of a shaped profile meet.
LEMMA ShapedMeets ==
  ASSUME Shaped(profile), t \in Nat
  PROVE  PhasesMeet
<1>1. MaxVelocity \in Nat /\ MaxAcceleration \in Nat
  BY HalfAcceleration
<1>2. CASE AtRest(profile)
  <2>1. \A tau \in Int : SampleAt(profile, tau) = Sample(profile.start, 0, 0)
    BY <1>2 DEF SampleAt, AtRest
  <2>2. Duration(profile) = 0
    BY <1>2 DEF AtRest, Duration
  <2>3. 0 * profile.sign = 0 /\ t + 1 \in Int /\ profile.start \in Int
    BY <1>2 DEF AtRest
  <2> QED
    BY <1>1, <1>2, <2>1, <2>2, <2>3 DEF PhasesMeet, AtRest, Sample, Abs
<1>3. CASE \E a, c \in Nat : PhasesOf(profile, a, c)
  <2> PICK a \in Nat, c \in Nat : PhasesOf(profile, a, c)
    BY <1>3
  <2> DEFINE top == MaxAcceleration * a
             far == Ramp(a) + MaxAcceleration * a * c
  <2>1. /\ profile.sign \in {-1, 1} /\ profile.start \in Int /\ a # 0
        /\ profile.target = profile.start + profile.sign * Length(a, c)
        /\ Duration(profile) = a + c + a /\ top <= MaxVelocity
    BY DEF PhasesOf, Duration
  <2>2. /\ Half \in Nat /\ MaxAcceleration = 2 * Half /\ Ramp(a) \in Nat /\ Length(a, c) \in Nat
        /\ top \in Nat /\ far \in Nat
    <3>1. Half \in Nat /\ MaxAcceleration = 2 * Half /\ Ramp(a) \in Nat
      BY HalfAcceleration, TwoRamps
    <3>2. top \in Nat /\ top * c \in Nat
      BY <3>1
    <3> QED
      BY <3>1, <3>2 DEF Length
  <2>3. /\ Is(profile, 0, 0, 0) /\ Is(profile, Duration(profile), Length(a, c), 0)
    <3>1. InPhase(a, c, 0, 0, 0) /\ InPhase(a, c, Duration(profile), Length(a, c), 0)
      BY <2>1, <2>2 DEF InPhase
    <3>2. 0 \in Nat /\ Duration(profile) \in Nat
      BY <2>1
    <3> QED
      BY <3>1, <3>2, SamplesAre
  <2>4. /\ SampleAt(profile, 0).position = profile.start
        /\ SampleAt(profile, 0).velocity = 0
        /\ SampleAt(profile, Duration(profile)).position = profile.target
        /\ SampleAt(profile, Duration(profile)).velocity = 0
    BY <2>1, <2>3 DEF Is
  <2>5. SUFFICES \E d, e \in Int, v, w \in Nat :
                   InPhase(a, c, t, d, v) /\ InPhase(a, c, t + 1, e, w) /\ Steady(d, e, v, w)
    <3>1. t \in Nat /\ t + 1 \in Nat
      OBVIOUS
    <3>2. Meets(profile, t, t + 1)
      BY <2>1, <2>5, <3>1, PhaseTickMeets
    <3> QED
      BY <2>4, <3>2 DEF PhasesMeet, Meets
  <2>6. CASE t < a
    <3> DEFINE d == Half * t * t
               e == Half * (t + 1) * (t + 1)
               v == MaxAcceleration * t
               w == MaxAcceleration * (t + 1)
    <3>1. InPhase(a, c, t, d, v) /\ InPhase(a, c, t + 1, e, w)
      BY <2>6 DEF InPhase
    <3>2. /\ d \in Int /\ e \in Int /\ v \in Nat /\ w \in Nat
          /\ 2 * (e - d) = v + w /\ w = v + MaxAcceleration
      BY <2>2
    <3>3. v <= top
      <4>1. t * MaxAcceleration <= a * MaxAcceleration
        BY <1>1, <2>6, ProductOrder
      <4> QED
        BY <1>1, <4>1
    <3> HIDE DEF d, e, v, w, top
    <3> QED
      BY <1>1, <2>1, <2>2, <3>1, <3>2, <3>3 DEF Steady
  <2>7. CASE a <= t /\ t < a + c
    <3> DEFINE s == t - a
               d == Ramp(a) + MaxAcceleration * a * s
               e == Ramp(a) + MaxAcceleration * a * (s + 1)
    <3>1. s \in 0 .. c /\ s + 1 \in 0 .. c /\ t = a + s /\ t + 1 = a + (s + 1)
      BY <2>7
    <3> HIDE DEF s
    <3>2. InPhase(a, c, t, d, top)
      BY <3>1 DEF InPhase
    <3>3. InPhase(a, c, t + 1, e, top)
      BY <3>1 DEF InPhase
    <3>4. d \in Int /\ e \in Int /\ 2 * (e - d) = top + top
      BY <2>2, <3>1
    <3> HIDE DEF d, e, top
    <3> QED
      BY <1>1, <2>1, <2>2, <3>2, <3>3, <3>4 DEF Steady
  <2>8. CASE a + c <= t /\ t < a + c + a
    <3> DEFINE s == t - (a + c)
               d == far + MaxAcceleration * a * s - Half * s * s
               e == far + MaxAcceleration * a * (s + 1) - Half * (s + 1) * (s + 1)
               v == MaxAcceleration * a - MaxAcceleration * s
               w == MaxAcceleration * a - MaxAcceleration * (s + 1)
    <3>1. s \in 0 .. a /\ s + 1 \in 0 .. a /\ t = a + c + s /\ t + 1 = a + c + (s + 1)
      BY <2>8
    <3> HIDE DEF s
    <3>2. InPhase(a, c, t, d, v)
      BY <3>1 DEF InPhase
    <3>3. InPhase(a, c, t + 1, e, w)
      BY <3>1 DEF InPhase
    <3>4. v \in Nat /\ w \in Nat /\ v <= top
      <4>1. (s + 1) * MaxAcceleration <= a * MaxAcceleration /\ s * MaxAcceleration <= a * MaxAcceleration
        BY <1>1, <3>1, ProductOrder
      <4> QED
        BY <1>1, <3>1, <4>1
    <3>5. d \in Int /\ e \in Int /\ 2 * (e - d) = v + w /\ v = w + MaxAcceleration
      BY <2>2, <3>1
    <3> HIDE DEF d, e, v, w, top
    <3> QED
      BY <1>1, <2>1, <2>2, <3>2, <3>3, <3>4, <3>5 DEF Steady
  <2>9. CASE a + c + a <= t
    <3>1. InPhase(a, c, t, Length(a, c), 0) /\ InPhase(a, c, t + 1, Length(a, c), 0)
      BY <2>9 DEF InPhase
    <3> QED
      BY <1>1, <2>2, <3>1 DEF Steady
  <2> QED
    BY <2>6, <2>7, <2>8, <2>9
<1> QED
  BY <1>2, <1>3 DEF Shaped

\* The reach of a motion shorter by a tick than the profile's.
LEMMA ShapedIsShortest ==
  ASSUME Shaped(profile)
  PROVE  NoTimeWasted
<1> SUFFICES ASSUME profile.sign # 0
             PROVE  Reach(Duration(profile) - 1) < Abs(profile.target - profile.start)
  BY DEF NoTimeWasted
<1> PICK a \in Nat, c \in Nat : PhasesOf(profile, a, c)
  BY DEF Shaped, AtRest
<1> DEFINE A == MaxAcceleration
           V == MaxVelocity
           n == 2 * a + c - 1
           L == Length(a, c)
<1>1. /\ A \in Nat \ {0} /\ V \in Nat \ {0} /\ a # 0 /\ A * a <= V /\ A * a \in Nat
      /\ c # 0 => A * a = V
      /\ n \in Nat /\ Duration(profile) - 1 = n
  BY HalfAcceleration DEF PhasesOf, Duration
<1>2. L = A * a * a + A * a * c /\ L \in Nat
  <2>1. A * a * a \in Nat /\ A * a * c \in Nat
    BY <1>1
  <2>2. L = 2 * Ramp(a) + A * a * c
    BY DEF Length
  <2> HIDE DEF L
  <2> QED
    BY <2>1, <2>2, TwoRamps
<1>3. Abs(profile.target - profile.start) = L
  BY <1>2 DEF PhasesOf, Abs
<1>4. ASSUME NEW q \in Nat, NEW r \in Nat, q < 4 * r
      PROVE  q \div 4 < r
  BY <1>4
<1>5. CASE c \in {0, 1}
  <2>1. n * A <= 2 * V
    BY <1>1, <1>5
  <2>2. A * n * n < 4 * L /\ A * n * n \in Nat
    <3>1. CASE c = 0
      <4>1. A * n * n = 4 * (A * a * a) - 4 * (A * a) + A /\ L = A * a * a
        BY <1>1, <1>2, <3>1
      <4>2. 1 * A <= a * A
        BY <1>1, ProductOrder
      <4> QED
        BY <1>1, <4>1, <4>2
    <3>2. CASE c = 1
      <4>1. A * n * n = 4 * (A * a * a) /\ L = A * a * a + A * a
        BY <1>1, <1>2, <3>2
      <4>2. A * a # 0
        BY <1>1
      <4> QED
        BY <1>1, <4>1, <4>2
    <3> QED
      BY <1>5, <3>1, <3>2
  <2>3. Reach(n) = (A * n * n) \div 4
    BY <2>1 DEF Reach
  <2> HIDE DEF n, L, A, V
  <2> QED
    BY <1>1, <1>2, <1>3, <1>4, <2>2, <2>3
<1>6. CASE c > 1
  <2>1. ~(n * A <= 2 * V)
    <3>1. n * A = 2 * (A * a) + (c - 1) * A /\ 1 * A <= (c - 1) * A
      BY <1>1, <1>6, ProductOrder
    <3> QED
      BY <1>1, <1>6, <3>1
  <2>2. (V * V) \div A = A * a * a
    <3>1. V * V = (A * a * a) * A /\ A * a * a \in Nat
      BY <1>1, <1>6
    <3> QED
      BY <1>1, <3>1, ExactDivision
  <2>3. Reach(n) = V * n - A * a * a
    BY <2>1, <2>2 DEF Reach
  <2>4. V * n = 2 * (A * a * a) + A * a * c - A * a /\ A * a # 0
    BY <1>1, <1>6
  <2> HIDE DEF n, L
  <2> QED
    BY <1>1, <1>2, <1>3, <2>3, <2>4
<1> QED
  BY <1>5, <1>6

(* The profile is one of create's and time goes on in ticks.               *)
ProfileInv == Shaped(profile) /\ t \in Nat

\* A profile never changes once it is made.
LEMMA ProfileInvCorrect == ProgramSpec => []ProfileInv
<1>1. ProgramInit => ProfileInv
  <2> SUFFICES ASSUME ProgramInit PROVE ProfileInv
    OBVIOUS
  <2>1. PICK move \in Moves : profile = IF program = "profile" THEN Create(move[1], move[2])
                                        ELSE Resting(0)
    BY DEF ProgramInit
  <2>2. move[1] \in Int /\ move[2] \in Int /\ OnGrid(move[1], move[2])
    <3>1. \A x \in Positions : x \in Int
      BY ProgramAssumption, JointAssumption
    <3> QED
      BY <3>1 DEF Moves
  <2>3. Shaped(Create(move[1], move[2]))
    BY <2>2, CreateShaped
  <2>4. AtRest(Resting(0))
    BY DEF AtRest, Resting, Profile, Sign
  <2> QED
    BY <2>1, <2>3, <2>4 DEF ProfileInv, Shaped, ProgramInit
<1>2. ProfileInv /\ [ProgramNext]_<< program, axis >> => ProfileInv'
  <2> SUFFICES ASSUME ProfileInv, [ProgramNext]_<< program, axis >> PROVE ProfileInv'
    OBVIOUS
  <2>1. profile' = profile /\ t' \in {t, t + 1}
    BY DEF ProgramNext, Benchmark, WarmUpCycle, BenchmarkCycle, Call, Play, UseDevices, axis
  <2> QED
    BY <2>1 DEF ProfileInv, Shaped, AtRest, PhasesOf
<1> QED
  BY <1>1, <1>2, PTL DEF ProgramSpec

\* Every profile create makes is a motion the axis can make, through every tick
\* and beyond its end, for all limits whose ramps end on ticks and all positions
\* (trapezoidal_trajectory.cpp 42-124).
THEOREM PhasesMeetCorrect == ProgramSpec => []PhasesMeet
<1>1. ProfileInv => PhasesMeet
  BY ShapedMeets DEF ProfileInv
<1> QED
  BY <1>1, ProfileInvCorrect, PTL

\* No motion within the limits is shorter by a tick, trapezoid or triangle, for
\* all limits and positions whose ramps end on ticks
\* (trapezoidal_trajectory.cpp 42-58).
THEOREM NoTimeWastedCorrect == ProgramSpec => []NoTimeWasted
<1>1. ProfileInv => NoTimeWasted
  BY ShapedIsShortest DEF ProfileInv
<1> QED
  BY <1>1, ProfileInvCorrect, PTL

===============================================================================
