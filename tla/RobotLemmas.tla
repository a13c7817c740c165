------------------------------ MODULE RobotLemmas ------------------------------
(***************************************************************************)
(* What the operators of the core do, for any limits, any gain and any     *)
(* number of joints: the rows of the transition table, the methods of a    *)
(* joint that is within its limits, and the operations on the shared robot *)
(* built from both.                                                        *)
(*                                                                         *)
(* The two premises the code leaves to its callers are premises here: zero *)
(* is a legal position (construction and home go there unasked) and no     *)
(* target is NaN (the range checks let it through).                        *)
(***************************************************************************)
EXTENDS RobotOperations, TLAPS

(* The transition table read one event at a time, as the proofs use it.    *)

\* handleEvent leads to a controller state and nowhere else: the type of the
\* transition table (controller_state_machine.cpp 109-116).
LEMMA HandleEventType ==
  ASSUME NEW s \in ControllerState, NEW e \in ControllerEvent
  PROVE  HandleEvent(s, e) \in ControllerState
<1>1. LeadsTo[e] \in ControllerState
  BY DEF LeadsTo, ControllerState, ControllerEvent
<1> QED
  BY <1>1 DEF HandleEvent

\* The rows of the events the emulator fires (controller_state_machine.cpp
\* 30-81).
LEMMA EmulatorRows ==
  ASSUME NEW s \in ControllerState
  PROVE  /\ HandleEvent(s, "ServoEnable") = IF s \in {"Idle", "ServoOff"} THEN "ServoOn" ELSE s
         /\ HandleEvent(s, "ServoDisable") = IF s \in {"ServoOn", "Ready"} THEN "ServoOff" ELSE s
         /\ HandleEvent(s, "ControllerReady") = IF s = "ServoOn" THEN "Ready" ELSE s
         /\ HandleEvent(s, "CommandMove") = IF s = "Ready" THEN "Moving" ELSE s
         /\ HandleEvent(s, "CommandStop") =
              IF s \in {"Moving", "Paused", "Ready"} THEN "Stopping" ELSE s
         /\ HandleEvent(s, "StopComplete") = IF s = "Stopping" THEN "Ready" ELSE s
         /\ HandleEvent(s, "EStopTriggered") =
              IF s \in {"ServoOn", "Ready", "Moving", "Paused", "Stopping"}
              THEN "EmergencyStop" ELSE s
BY DEF HandleEvent, CanHandle, AcceptedFrom, LeadsTo

LEMMA BootRows ==
  HandleEvent(HandleEvent(HandleEvent("PowerOff", "PowerOn"), "BootComplete"), "InitComplete")
    = "Idle"
<1>1. HandleEvent("PowerOff", "PowerOn") = "Booting"
  BY DEF HandleEvent, CanHandle, AcceptedFrom, LeadsTo
<1>2. HandleEvent("Booting", "BootComplete") = "Initializing"
  BY DEF HandleEvent, CanHandle, AcceptedFrom, LeadsTo
<1>3. HandleEvent("Initializing", "InitComplete") = "Idle"
  BY DEF HandleEvent, CanHandle, AcceptedFrom, LeadsTo
<1> QED
  BY <1>1, <1>2, <1>3

-------------------------------------------------------------------------------
(* One joint.                                                              *)

ZeroIsLegal == MinPosition <= 0 /\ 0 <= MaxPosition

\* A joint of the right type, within its limits.
SoundJoint(j) == j \in JointRecord /\ InLimits(j)

-------------------------------------------------------------------------------
\* std::clamp stays between its bounds.
LEMMA ClampBetween ==
  ASSUME NEW x \in Int, NEW lo \in Int, NEW hi \in Int, lo <= hi
  PROVE  Clamp(x, lo, hi) \in lo .. hi
BY DEF Clamp

\* std::clamp returns an integer, even with its bounds the wrong way around.
LEMMA ClampInt ==
  ASSUME NEW x \in Int, NEW lo \in Int, NEW hi \in Int
  PROVE  Clamp(x, lo, hi) \in Int
BY DEF Clamp

\* The methods that switch a joint keep its type, and do to enabled and to
\* the position what their names say (joint.cpp 25-40).
LEMMA SwitchingTypes ==
  ASSUME NEW j \in JointRecord
  PROVE  /\ JointEnable(j) \in JointRecord
         /\ JointEnable(j).enabled
         /\ JointEnable(j).position = j.position
         /\ JointDisable(j) \in JointRecord
         /\ ~JointDisable(j).enabled
         /\ JointDisable(j).position = j.position
         /\ JointHome(j) \in JointRecord
         /\ JointHome(j).enabled = j.enabled
<1>1. /\ JointEnable(j) \in JointRecord
      /\ JointEnable(j).enabled
      /\ JointEnable(j).position = j.position
  BY DEF JointEnable, JointRecord
<1>2. /\ JointDisable(j) \in JointRecord
      /\ ~JointDisable(j).enabled
      /\ JointDisable(j).position = j.position
  BY DEF JointDisable, JointRecord
<1>3. JointHome(j) \in JointRecord /\ JointHome(j).enabled = j.enabled
  <2>1. 0 \in Number /\ << 0, 1 >> \in Number \X Int
    BY DEF Number
  <2> QED
    BY <2>1 DEF JointHome, JointRecord
<1> QED
  BY <1>1, <1>2, <1>3

\* setTargetPosition changes the target only (joint.cpp 42-51).
LEMMA SetTargetType ==
  ASSUME NEW j \in JointRecord, NEW x \in Number
  PROVE  /\ JointSetTarget(j, x) \in JointRecord
         /\ JointSetTarget(j, x).enabled = j.enabled
         /\ JointSetTarget(j, x).position = j.position
         /\ TargetAccepted(j, x) => JointSetTarget(j, x).targetPosition = x
BY DEF JointSetTarget, JointRecord

\* clampToLimits keeps a joint's type and leaves enabled and target alone.
LEMMA ClampToLimitsType ==
  ASSUME NEW j \in JointRecord
  PROVE  /\ ClampToLimits(j) \in JointRecord
         /\ ClampToLimits(j).enabled = j.enabled
         /\ ClampToLimits(j).targetPosition = j.targetPosition
<1>1. 0 \in Number /\ MinPosition \in Number /\ MaxPosition \in Number
  BY JointAssumption DEF Number
<1>2. CASE j.position > MaxPosition
  BY <1>1, <1>2 DEF ClampToLimits, JointRecord
<1>3. CASE ~(j.position > MaxPosition) /\ j.position < MinPosition
  BY <1>1, <1>3 DEF ClampToLimits, JointRecord
<1>4. CASE ~(j.position > MaxPosition) /\ ~(j.position < MinPosition)
  BY <1>4 DEF ClampToLimits
<1> QED
  BY <1>2, <1>3, <1>4

\* update keeps a joint's type and leaves enabled and target alone, whatever
\* numbers the joint holds; and it changes an enabled joint only (joint.cpp 64-92).
LEMMA UpdateType ==
  ASSUME NEW j \in JointRecord, NEW dt \in Int
  PROVE  /\ JointUpdate(j, dt) \in JointRecord
         /\ JointUpdate(j, dt).enabled = j.enabled
         /\ JointUpdate(j, dt).targetPosition = j.targetPosition
         /\ ~j.enabled => JointUpdate(j, dt) = j
<1>1. CASE ~j.enabled \/ dt <= 0
  BY <1>1 DEF JointUpdate
<1>2. CASE j.enabled /\ ~(dt <= 0) /\ Poisoned(j)
  <2>1. NaN \in Number /\ << NaN, dt >> \in Number \X Int
    BY DEF Number
  <2> QED
    BY <1>2, <2>1 DEF JointUpdate, JointRecord
<1>3. CASE j.enabled /\ ~(dt <= 0) /\ ~Poisoned(j)
  <2> DEFINE desired  == Clamp(PositionGain * (j.targetPosition - j.position),
                               -MaxVelocity, MaxVelocity)
             maxDelta == MaxAcceleration * dt
             delta    == Clamp(desired - j.velocity, -maxDelta, maxDelta)
             velocity == Clamp(j.velocity + delta, -MaxVelocity, MaxVelocity)
             moved    == [j EXCEPT !.acceleration = << delta, dt >>,
                                   !.velocity = velocity,
                                   !.position = @ + velocity * dt]
  <2>1. JointUpdate(j, dt) = ClampToLimits(moved)
    BY <1>3 DEF JointUpdate, Advance
  <2>2. /\ j.position \in Int /\ j.velocity \in Int /\ j.targetPosition \in Int
        /\ MaxVelocity \in Int /\ -MaxVelocity \in Int
        /\ MaxAcceleration \in Int /\ PositionGain \in Int
    BY <1>3, JointAssumption DEF Poisoned, JointRecord, Number
  <2>3. maxDelta \in Int /\ -maxDelta \in Int
    BY <2>2
  <2>4. desired \in Int
    <3>1. PositionGain * (j.targetPosition - j.position) \in Int
      BY <2>2
    <3> QED
      BY <2>2, <3>1, ClampInt
  <2>5. delta \in Int
    <3> HIDE DEF desired, maxDelta
    <3>1. desired - j.velocity \in Int
      BY <2>2, <2>4
    <3> QED
      BY <2>3, <3>1, ClampInt
  <2>6. velocity \in Int /\ velocity * dt \in Int
    <3> HIDE DEF delta
    <3>1. j.velocity + delta \in Int
      BY <2>2, <2>5
    <3>2. velocity \in Int
      BY <2>2, <3>1, ClampInt
    <3> HIDE DEF velocity
    <3> QED
      BY <3>2
  <2>7. /\ moved \in JointRecord /\ moved.enabled = j.enabled
        /\ moved.targetPosition = j.targetPosition
    <3> HIDE DEF delta, velocity
    <3>1. /\ velocity \in Number
          /\ j.position + velocity * dt \in Number
          /\ << delta, dt >> \in Number \X Int
      BY <2>2, <2>5, <2>6 DEF Number
    <3> QED
      BY <3>1 DEF JointRecord
  <2> HIDE DEF moved
  <2> QED
    BY <1>3, <2>1, <2>7, ClampToLimitsType
<1> QED
  BY <1>1, <1>2, <1>3

-------------------------------------------------------------------------------
\* A joint starts within its limits when zero is one of its positions.
LEMMA NewJointSound ==
  ASSUME ZeroIsLegal
  PROVE  SoundJoint(NewJoint)
BY JointAssumption DEF ZeroIsLegal, SoundJoint, NewJoint, InLimits, JointRecord,
                       Number, LimitsValid

\* enable, disable and home keep a joint within its limits (joint.cpp 25-40).
LEMMA SwitchingKeepsSound ==
  ASSUME NEW j, SoundJoint(j)
  PROVE  /\ SoundJoint(JointEnable(j))
         /\ SoundJoint(JointDisable(j))
         /\ ZeroIsLegal => SoundJoint(JointHome(j))
<1>1. SoundJoint(JointEnable(j))
  BY DEF SoundJoint, JointEnable, JointRecord, InLimits
<1>2. SoundJoint(JointDisable(j))
  BY DEF SoundJoint, JointDisable, JointRecord, InLimits
<1>3. ZeroIsLegal => SoundJoint(JointHome(j))
  <2>1. ZeroIsLegal => /\ 0 \in MinPosition .. MaxPosition
                       /\ 0 \in -MaxVelocity .. MaxVelocity
    BY JointAssumption DEF ZeroIsLegal, LimitsValid
  <2>2. 0 \in Number /\ << 0, 1 >> \in Number \X Int
    BY DEF Number
  <2>3. JointHome(j) \in JointRecord
    BY <2>2 DEF SoundJoint, JointHome, JointRecord
  <2>4. /\ JointHome(j).position = 0
        /\ JointHome(j).velocity = 0
        /\ JointHome(j).targetPosition = 0
    BY DEF SoundJoint, JointHome, JointRecord
  <2> QED
    BY <2>1, <2>3, <2>4 DEF SoundJoint, InLimits
<1> QED
  BY <1>1, <1>2, <1>3

\* The two setters keep a joint within its limits, whatever number they are
\* given (joint.cpp 42-62).
LEMMA SettersKeepSound ==
  ASSUME NEW j, SoundJoint(j), NEW x \in Int
  PROVE  /\ SoundJoint(JointSetTarget(j, x))
         /\ SoundJoint(JointSetTargetVelocity(j, x))
<1>1. x # NaN
  BY JointAssumption
<1>2. SoundJoint(JointSetTarget(j, x))
  BY <1>1, JointAssumption
     DEF SoundJoint, JointSetTarget, TargetAccepted, Within, JointRecord, InLimits, Number
<1>3. SoundJoint(JointSetTargetVelocity(j, x))
  BY <1>1, JointAssumption
     DEF SoundJoint, JointSetTargetVelocity, Within, JointRecord, InLimits, Number
<1> QED
  BY <1>2, <1>3

-------------------------------------------------------------------------------
\* One update of an enabled joint within its limits, for a positive duration:
\* it stays within them, keeps its target, moves by at most MaxVelocity * dt
\* and changes its velocity by at most MaxAcceleration * dt unless it is
\* stopped at a position limit (joint.cpp 64-102).
LEMMA AdvanceBounded ==
  ASSUME NEW j, SoundJoint(j), NEW dt \in Int, dt > 0
  PROVE  LET k == Advance(j, dt) IN
         /\ SoundJoint(k)
         /\ k.targetPosition = j.targetPosition
         /\ k.enabled = j.enabled
         /\ k.position - j.position \in -(MaxVelocity * dt) .. MaxVelocity * dt
         /\ \/ k.velocity - j.velocity \in -(MaxAcceleration * dt) .. MaxAcceleration * dt
            \/ k.velocity = 0 /\ k.position \in {MinPosition, MaxPosition}
<1> DEFINE desired  == Clamp(PositionGain * (j.targetPosition - j.position),
                             -MaxVelocity, MaxVelocity)
           maxDelta == MaxAcceleration * dt
           delta    == Clamp(desired - j.velocity, -maxDelta, maxDelta)
           velocity == Clamp(j.velocity + delta, -MaxVelocity, MaxVelocity)
           moved    == [j EXCEPT !.acceleration = << delta, dt >>,
                                 !.velocity = velocity,
                                 !.position = @ + velocity * dt]
<1>1. /\ MinPosition \in Int /\ MaxPosition \in Int /\ MaxVelocity \in Int
      /\ MaxAcceleration \in Int /\ PositionGain \in Int
      /\ MinPosition < MaxPosition /\ MaxVelocity > 0 /\ MaxAcceleration > 0
  BY JointAssumption DEF LimitsValid
<1>2. /\ j \in JointRecord
      /\ j.position \in MinPosition .. MaxPosition
      /\ j.velocity \in -MaxVelocity .. MaxVelocity
      /\ j.targetPosition \in MinPosition .. MaxPosition
  BY DEF SoundJoint, InLimits
<1>3. Advance(j, dt) = ClampToLimits(moved)
  BY DEF Advance
<1>4. desired \in Int
  <2>1. PositionGain * (j.targetPosition - j.position) \in Int /\ -MaxVelocity \in Int
    BY <1>1, <1>2
  <2> QED
    BY <1>1, <2>1, ClampInt
<1>5. maxDelta \in Int /\ -maxDelta <= maxDelta
  <2>1. MaxAcceleration * dt \in Int /\ MaxAcceleration * dt > 0
    BY <1>1
  <2> QED
    BY <2>1
<1>6. delta \in -maxDelta .. maxDelta
  <2> HIDE DEF desired, maxDelta
  <2>1. desired - j.velocity \in Int /\ -maxDelta \in Int
    BY <1>1, <1>2, <1>4, <1>5
  <2> QED
    BY <1>5, <2>1, ClampBetween
<1>7. velocity \in -MaxVelocity .. MaxVelocity
  <2> HIDE DEF maxDelta, delta
  <2>1. j.velocity + delta \in Int /\ -MaxVelocity \in Int /\ -MaxVelocity <= MaxVelocity
    BY <1>1, <1>2, <1>5, <1>6
  <2> QED
    BY <1>1, <2>1, ClampBetween
<1>8. velocity - j.velocity \in -maxDelta .. maxDelta
  <2> HIDE DEF maxDelta, delta
  <2> QED
    BY <1>1, <1>2, <1>5, <1>6 DEF Clamp
<1>9. velocity * dt \in -(MaxVelocity * dt) .. MaxVelocity * dt
  <2> HIDE DEF velocity
  <2>1. velocity \in Int /\ -MaxVelocity <= velocity /\ velocity <= MaxVelocity
    BY <1>1, <1>7
  <2>2. velocity * dt <= MaxVelocity * dt
    BY <1>1, <2>1
  <2>3. -(MaxVelocity * dt) <= velocity * dt
    BY <1>1, <2>1
  <2> QED
    BY <1>1, <2>1, <2>2, <2>3
<1>10. /\ moved \in JointRecord
       /\ moved.position = j.position + velocity * dt
       /\ moved.velocity = velocity
       /\ moved.targetPosition = j.targetPosition
       /\ moved.enabled = j.enabled
  <2> HIDE DEF velocity, delta, maxDelta
  <2>1. velocity \in Int /\ delta \in Int /\ velocity * dt \in Int
    BY <1>1, <1>5, <1>6, <1>7
  <2>2. /\ velocity \in Number
        /\ j.position + velocity * dt \in Number
        /\ << delta, dt >> \in Number \X Int
    BY <1>1, <1>2, <2>1 DEF Number
  <2>3. moved \in JointRecord
    BY <1>2, <2>2 DEF JointRecord
  <2> QED
    BY <1>2, <2>3 DEF JointRecord
<1> HIDE DEF moved, velocity, delta, desired
<1>11. LET k == ClampToLimits(moved) IN
       /\ k \in JointRecord
       /\ k.targetPosition = j.targetPosition
       /\ k.enabled = j.enabled
       /\ k.position = Clamp(moved.position, MinPosition, MaxPosition)
       /\ \/ k.velocity = velocity
          \/ k.velocity = 0 /\ k.position \in {MinPosition, MaxPosition}
  <2>1. moved.position \in Int /\ moved.velocity \in Int
    BY <1>1, <1>2, <1>7, <1>9, <1>10
  <2>2. 0 \in Number /\ MinPosition \in Number /\ MaxPosition \in Number
    BY <1>1 DEF Number
  <2>3. CASE moved.position > MaxPosition
    <3>1. /\ ClampToLimits(moved) = [moved EXCEPT !.position = MaxPosition,
                                       !.velocity = IF @ > 0 THEN 0 ELSE @]
          /\ Clamp(moved.position, MinPosition, MaxPosition) = MaxPosition
      BY <1>1, <2>1, <2>3 DEF ClampToLimits, Clamp
    <3> QED
      BY <1>10, <2>2, <3>1 DEF JointRecord
  <2>4. CASE moved.position < MinPosition
    <3>1. /\ ClampToLimits(moved) = [moved EXCEPT !.position = MinPosition,
                                       !.velocity = IF @ < 0 THEN 0 ELSE @]
          /\ Clamp(moved.position, MinPosition, MaxPosition) = MinPosition
      BY <1>1, <2>1, <2>4 DEF ClampToLimits, Clamp
    <3> QED
      BY <1>10, <2>2, <3>1 DEF JointRecord
  <2>5. CASE MinPosition <= moved.position /\ moved.position <= MaxPosition
    BY <1>1, <1>10, <2>1, <2>5 DEF ClampToLimits, Clamp
  <2> QED
    BY <1>1, <2>1, <2>3, <2>4, <2>5
<1>12. moved.position \in Int
  BY <1>1, <1>2, <1>9, <1>10
<1>13. Clamp(moved.position, MinPosition, MaxPosition) \in MinPosition .. MaxPosition
  <2>1. MinPosition <= MaxPosition
    BY <1>1
  <2> QED
    BY <1>1, <1>12, <2>1, ClampBetween
<1>14. Clamp(moved.position, MinPosition, MaxPosition) - j.position
         \in -(MaxVelocity * dt) .. MaxVelocity * dt
  <2>1. MaxVelocity * dt \in Int /\ MaxVelocity * dt > 0
    BY <1>1
  <2> HIDE DEF maxDelta
  <2> QED
    BY <1>1, <1>2, <1>9, <1>10, <2>1 DEF Clamp
<1> QED
  BY <1>1, <1>2, <1>3, <1>7, <1>8, <1>11, <1>13, <1>14 DEF SoundJoint, InLimits

\* A sound joint holds no NaN, so update never takes that path.
LEMMA SoundNotPoisoned ==
  ASSUME NEW j, SoundJoint(j)
  PROVE  ~Poisoned(j)
BY JointAssumption DEF SoundJoint, InLimits, Poisoned

\* update keeps a joint within its limits, for any duration.
LEMMA UpdateKeepsSound ==
  ASSUME NEW j, SoundJoint(j), NEW dt \in Int
  PROVE  SoundJoint(JointUpdate(j, dt))
BY AdvanceBounded, SoundNotPoisoned DEF JointUpdate

-------------------------------------------------------------------------------
(* The robot.                                                              *)

-------------------------------------------------------------------------------
\* The robot the emulator boots is in Idle, disabled, its brakes engaged
\* (main.cpp 101-111).
LEMMA BootedFacts ==
  /\ BootedRobot \in Robots
  /\ BootedRobot.controller = "Idle"
  /\ BootedRobot.joints = [i \in Joints |-> NewJoint]
<1> DEFINE fresh == [ controller |-> "PowerOff",
                      joints |-> [i \in Joints |-> NewJoint],
                      brakes |-> [i \in Joints |-> "Engaged"] ]
<1>1. BootedRobot = [ controller |-> "Idle",
                      joints |-> [i \in Joints |-> NewJoint],
                      brakes |-> [i \in Joints |-> "Engaged"] ]
  <2>1. BootedRobot = [fresh EXCEPT !.controller =
            HandleEvent(HandleEvent(HandleEvent("PowerOff", "PowerOn"),
                                    "BootComplete"), "InitComplete")]
    BY DEF BootedRobot, Fire
  <2> QED
    BY <2>1, BootRows
<1>2. NewJoint \in JointRecord
  <2>1. 0 \in Number /\ << 0, 1 >> \in Number \X Int
    BY DEF Number
  <2> QED
    BY <2>1 DEF NewJoint, JointRecord
<1> QED
  BY <1>1, <1>2 DEF Robots, ControllerState

\* An event changes the controller and nothing else.
LEMMA FireFacts ==
  ASSUME NEW r \in Robots, NEW e \in ControllerEvent
  PROVE  /\ Fire(r, e) \in Robots
         /\ Fire(r, e).controller = HandleEvent(r.controller, e)
         /\ Fire(r, e).joints = r.joints
         /\ Fire(r, e).brakes = r.brakes
<1>1. HandleEvent(r.controller, e) \in ControllerState
  BY HandleEventType DEF Robots
<1> QED
  BY <1>1 DEF Fire, Robots

\* The operations on all joints change the joints and nothing else.
LEMMA JointsFacts ==
  ASSUME NEW r \in Robots
  PROVE  /\ EnableJoints(r) \in Robots
         /\ EnableJoints(r).controller = r.controller
         /\ EnableJoints(r).joints = [i \in Joints |-> JointEnable(r.joints[i])]
         /\ DisableJoints(r) \in Robots
         /\ DisableJoints(r).controller = r.controller
         /\ DisableJoints(r).joints = [i \in Joints |-> JointDisable(r.joints[i])]
         /\ HomeJoints(r) \in Robots
         /\ HomeJoints(r).controller = r.controller
         /\ HomeJoints(r).joints = [i \in Joints |-> JointHome(r.joints[i])]
         /\ UpdateJoints(r) \in Robots
         /\ UpdateJoints(r).controller = r.controller
         /\ UpdateJoints(r).joints = [i \in Joints |-> JointUpdate(r.joints[i], 1)]
<1>1. \A i \in Joints : r.joints[i] \in JointRecord
  BY DEF Robots
<1>2. [i \in Joints |-> JointEnable(r.joints[i])] \in [Joints -> JointRecord]
  BY <1>1, SwitchingTypes
<1>3. [i \in Joints |-> JointDisable(r.joints[i])] \in [Joints -> JointRecord]
  BY <1>1, SwitchingTypes
<1>4. [i \in Joints |-> JointHome(r.joints[i])] \in [Joints -> JointRecord]
  BY <1>1, SwitchingTypes
<1>5. [i \in Joints |-> JointUpdate(r.joints[i], 1)] \in [Joints -> JointRecord]
  BY <1>1, UpdateType
<1>6. /\ EnableJoints(r) \in Robots
      /\ EnableJoints(r).controller = r.controller
      /\ EnableJoints(r).joints = [i \in Joints |-> JointEnable(r.joints[i])]
  BY <1>2 DEF EnableJoints, Robots
<1>7. /\ DisableJoints(r) \in Robots
      /\ DisableJoints(r).controller = r.controller
      /\ DisableJoints(r).joints = [i \in Joints |-> JointDisable(r.joints[i])]
  BY <1>3 DEF DisableJoints, Robots
<1>8. /\ HomeJoints(r) \in Robots
      /\ HomeJoints(r).controller = r.controller
      /\ HomeJoints(r).joints = [i \in Joints |-> JointHome(r.joints[i])]
  BY <1>4 DEF HomeJoints, Robots
<1>9. /\ UpdateJoints(r) \in Robots
      /\ UpdateJoints(r).controller = r.controller
      /\ UpdateJoints(r).joints = [i \in Joints |-> JointUpdate(r.joints[i], 1)]
  BY <1>5 DEF UpdateJoints, Robots
<1> QED
  BY <1>6, <1>7, <1>8, <1>9

\* Engaging the brakes changes the brakes and nothing else.
LEMMA BrakesFacts ==
  ASSUME NEW r \in Robots
  PROVE  /\ EngageBrakes(r) \in Robots
         /\ EngageBrakes(r).controller = r.controller
         /\ EngageBrakes(r).joints = r.joints
BY DEF EngageBrakes, Robots

\* An accepted target changes one joint, and nothing of that joint but its
\* target.
LEMMA SetTargetFacts ==
  ASSUME NEW r \in Robots, NEW q \in Requests, q.type = "MoveJoint", MoveAccepted(r, q)
  PROVE  /\ SetTarget(r, q) \in Robots
         /\ SetTarget(r, q).controller = r.controller
         /\ q.joint \in Joints /\ q.target \in Targets
         /\ SetTarget(r, q).joints =
              [r.joints EXCEPT ![q.joint] = JointSetTarget(@, q.target)]
<1>1. q.joint \in 0 .. JointCount /\ q.target \in Targets
  BY DEF Requests
<1>2. q.joint \in Joints
  BY <1>1, RobotAssumption DEF MoveAccepted, Joints
<1>3. r.joints[q.joint] \in JointRecord
  BY <1>2 DEF Robots
<1>4. JointSetTarget(r.joints[q.joint], q.target) \in JointRecord
  BY <1>1, <1>3, RobotAssumption, SetTargetType
<1>5. [r.joints EXCEPT ![q.joint] = JointSetTarget(@, q.target)] \in [Joints -> JointRecord]
  BY <1>2, <1>4 DEF Robots
<1>6. SetTarget(r, q) = [r EXCEPT !.joints =
        [r.joints EXCEPT ![q.joint] = JointSetTarget(@, q.target)]]
  BY DEF SetTarget
<1> QED
  BY <1>1, <1>2, <1>5, <1>6 DEF Robots

\* Motion is started from Ready only, and only the controller notices.
LEMMA StartMotionFacts ==
  ASSUME NEW r \in Robots
  PROVE  /\ StartMotion(r) \in Robots
         /\ StartMotion(r).controller = IF r.controller = "Ready" THEN "Moving" ELSE r.controller
         /\ StartMotion(r).joints = r.joints
<1>1. "CommandMove" \in ControllerEvent /\ r.controller \in ControllerState
  BY DEF ControllerEvent, Robots
<1> QED
  BY <1>1, FireFacts, EmulatorRows DEF StartMotion

-------------------------------------------------------------------------------
\* The states the controller rests in between two operations: of the fourteen,
\* the five the emulator's own events lead to.
SettledState == { "Idle", "ServoOff", "Ready", "Moving", "EmergencyStop" }

LEMMA SettledIsState == SettledState \subseteq ControllerState
BY DEF SettledState, ControllerState

\* The events the handlers fire are controller events.
LEMMA FiredEvents ==
  /\ "ServoEnable" \in ControllerEvent /\ "ControllerReady" \in ControllerEvent
  /\ "ServoDisable" \in ControllerEvent /\ "CommandMove" \in ControllerEvent
  /\ "CommandStop" \in ControllerEvent /\ "StopComplete" \in ControllerEvent
  /\ "EStopTriggered" \in ControllerEvent
BY DEF ControllerEvent

\* Two events in a row settle the controller again after an enable and after a
\* stop; one is enough for a disable, an emergency stop and a move
\* (command_dispatcher.cpp 67-123).
LEMMA OperationsSettle ==
  ASSUME NEW r \in Robots, r.controller \in SettledState
  PROVE  /\ Fire(Fire(r, "ServoEnable"), "ControllerReady").controller \in SettledState
         /\ Fire(Fire(r, "CommandStop"), "StopComplete").controller \in SettledState
         /\ Fire(r, "ServoDisable").controller \in SettledState
         /\ Fire(r, "EStopTriggered").controller \in SettledState
         /\ StartMotion(r).controller \in SettledState
<1> USE FiredEvents, FireFacts DEF SettledState
<1>1. r.controller \in ControllerState
  BY SettledIsState
<1>2. Fire(Fire(r, "ServoEnable"), "ControllerReady").controller \in SettledState
  <2>1. /\ Fire(r, "ServoEnable") \in Robots
        /\ Fire(r, "ServoEnable").controller = HandleEvent(r.controller, "ServoEnable")
    OBVIOUS
  <2>2. Fire(r, "ServoEnable").controller \in SettledState \cup {"ServoOn"}
    BY <1>1, <2>1, EmulatorRows
  <2>3. Fire(r, "ServoEnable").controller \in ControllerState
    BY <2>1 DEF Robots
  <2>4. Fire(Fire(r, "ServoEnable"), "ControllerReady").controller =
          HandleEvent(Fire(r, "ServoEnable").controller, "ControllerReady")
    BY <2>1
  <2>5. \A s \in SettledState \cup {"ServoOn"} : HandleEvent(s, "ControllerReady") \in SettledState
    <3> TAKE s \in SettledState \cup {"ServoOn"}
    <3>1. s \in ControllerState
      BY DEF ControllerState
    <3> QED
      BY <3>1, EmulatorRows
  <2> QED
    BY Zenon, <2>2, <2>4, <2>5
<1>3. Fire(Fire(r, "CommandStop"), "StopComplete").controller \in SettledState
  <2>1. /\ Fire(r, "CommandStop") \in Robots
        /\ Fire(r, "CommandStop").controller = HandleEvent(r.controller, "CommandStop")
    OBVIOUS
  <2>2. Fire(r, "CommandStop").controller \in SettledState \cup {"Stopping"}
    BY <1>1, <2>1, EmulatorRows
  <2>3. Fire(r, "CommandStop").controller \in ControllerState
    BY <2>1 DEF Robots
  <2>4. Fire(Fire(r, "CommandStop"), "StopComplete").controller =
          HandleEvent(Fire(r, "CommandStop").controller, "StopComplete")
    BY <2>1
  <2>5. \A s \in SettledState \cup {"Stopping"} : HandleEvent(s, "StopComplete") \in SettledState
    <3> TAKE s \in SettledState \cup {"Stopping"}
    <3>1. s \in ControllerState
      BY DEF ControllerState
    <3> QED
      BY <3>1, EmulatorRows
  <2> QED
    BY Zenon, <2>2, <2>4, <2>5
<1>4. Fire(r, "ServoDisable").controller \in SettledState
  <2>1. Fire(r, "ServoDisable").controller = HandleEvent(r.controller, "ServoDisable")
    OBVIOUS
  <2>2. HandleEvent(r.controller, "ServoDisable") \in SettledState
    BY <1>1, EmulatorRows
  <2> QED
    BY <2>1, <2>2
<1>5. Fire(r, "EStopTriggered").controller \in SettledState
  <2>1. Fire(r, "EStopTriggered").controller = HandleEvent(r.controller, "EStopTriggered")
    OBVIOUS
  <2>2. HandleEvent(r.controller, "EStopTriggered") \in SettledState
    BY <1>1, EmulatorRows
  <2> QED
    BY <2>1, <2>2
<1>6. StartMotion(r).controller \in SettledState
  BY StartMotionFacts
<1> QED
  BY <1>2, <1>3, <1>4, <1>5, <1>6
===============================================================================
