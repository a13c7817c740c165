-------------------------- MODULE RobotServiceProofs --------------------------
(***************************************************************************)
(* The safety of the service, for any number of joints, any limits, any    *)
(* targets and any set of commands in use; and that the calls of a bridge  *)
(* that is being served return.                                            *)
(***************************************************************************)
EXTENDS RosBridge, RobotLemmas

\* What each handler leaves behind: the controller by its rows, the joints by
\* the one method the handler calls on them.
LEMMA EnableFacts ==
  ASSUME robot \in Robots, NEW q, Enable(q)
  PROVE  /\ robot' \in Robots
         /\ robot'.controller = IF robot.controller \in {"Idle", "ServoOff", "ServoOn"}
                                THEN "Ready" ELSE robot.controller
         /\ robot'.joints = [i \in Joints |-> JointEnable(robot.joints[i])]
<1> DEFINE r1 == EnableJoints(robot)
           r2 == Fire(r1, "ServoEnable")
<1>1. /\ r1 \in Robots /\ r1.controller = robot.controller
      /\ r1.joints = [i \in Joints |-> JointEnable(robot.joints[i])]
  BY JointsFacts
<1> HIDE DEF r1
<1>2. /\ r2 \in Robots /\ r2.joints = r1.joints
      /\ r2.controller = HandleEvent(r1.controller, "ServoEnable")
  BY <1>1, FireFacts, FiredEvents
<1>3. robot' = Fire(r2, "ControllerReady")
  BY DEF Enable, r1
<1> HIDE DEF r2
<1>4. /\ robot' \in Robots /\ robot'.joints = r2.joints
      /\ robot'.controller = HandleEvent(r2.controller, "ControllerReady")
  BY <1>2, <1>3, FireFacts, FiredEvents
<1>5. r1.controller \in ControllerState /\ r2.controller \in ControllerState
  BY <1>1, <1>2 DEF Robots
<1>6. /\ r2.controller = IF r1.controller \in {"Idle", "ServoOff"}
                         THEN "ServoOn" ELSE r1.controller
      /\ robot'.controller = IF r2.controller = "ServoOn" THEN "Ready" ELSE r2.controller
  BY <1>2, <1>4, <1>5, EmulatorRows
<1> QED
  BY <1>1, <1>2, <1>4, <1>6

LEMMA DisableFacts ==
  ASSUME robot \in Robots, NEW q, Disable(q)
  PROVE  /\ robot' \in Robots
         /\ robot'.controller = IF robot.controller \in {"ServoOn", "Ready"}
                                THEN "ServoOff" ELSE robot.controller
         /\ robot'.joints = [i \in Joints |-> JointDisable(robot.joints[i])]
<1> DEFINE r1 == DisableJoints(robot)
<1>1. /\ r1 \in Robots /\ r1.controller = robot.controller
      /\ r1.joints = [i \in Joints |-> JointDisable(robot.joints[i])]
  BY JointsFacts
<1>2. robot' = Fire(r1, "ServoDisable") /\ r1.controller \in ControllerState
  BY <1>1 DEF Disable, Robots
<1> HIDE DEF r1
<1>3. /\ robot' \in Robots /\ robot'.joints = r1.joints
      /\ robot'.controller = HandleEvent(r1.controller, "ServoDisable")
  BY <1>1, <1>2, FireFacts, FiredEvents
<1> QED
  BY <1>1, <1>2, <1>3, EmulatorRows

LEMMA StopFacts ==
  ASSUME robot \in Robots, NEW q, Stop(q)
  PROVE  /\ robot' \in Robots
         /\ robot'.controller = IF robot.controller \in {"Moving", "Paused", "Ready", "Stopping"}
                                THEN "Ready" ELSE robot.controller
         /\ robot'.joints = robot.joints
<1> DEFINE r1 == Fire(robot, "CommandStop")
<1>1. /\ r1 \in Robots /\ r1.joints = robot.joints
      /\ r1.controller = HandleEvent(robot.controller, "CommandStop")
  BY FireFacts, FiredEvents
<1>2. robot' = Fire(r1, "StopComplete")
  BY DEF Stop
<1> HIDE DEF r1
<1>3. /\ robot' \in Robots /\ robot'.joints = r1.joints
      /\ robot'.controller = HandleEvent(r1.controller, "StopComplete")
  BY <1>1, <1>2, FireFacts, FiredEvents
<1>4. robot.controller \in ControllerState /\ r1.controller \in ControllerState
  BY <1>1 DEF Robots
<1>5. /\ r1.controller = IF robot.controller \in {"Moving", "Paused", "Ready"}
                         THEN "Stopping" ELSE robot.controller
      /\ robot'.controller = IF r1.controller = "Stopping" THEN "Ready" ELSE r1.controller
  BY <1>1, <1>3, <1>4, EmulatorRows
<1> QED
  BY <1>1, <1>3, <1>5

LEMMA EStopFacts ==
  ASSUME robot \in Robots, TriggerEStop
  PROVE  /\ robot' \in Robots
         /\ robot'.controller =
              IF robot.controller \in {"ServoOn", "Ready", "Moving", "Paused", "Stopping"}
              THEN "EmergencyStop" ELSE robot.controller
         /\ robot'.joints = robot.joints
<1> DEFINE r1 == EngageBrakes(robot)
<1>1. r1 \in Robots /\ r1.controller = robot.controller /\ r1.joints = robot.joints
  BY BrakesFacts
<1>2. robot' = Fire(r1, "EStopTriggered") /\ r1.controller \in ControllerState
  BY <1>1 DEF TriggerEStop, Robots
<1> HIDE DEF r1
<1>3. /\ robot' \in Robots /\ robot'.joints = r1.joints
      /\ robot'.controller = HandleEvent(r1.controller, "EStopTriggered")
  BY <1>1, <1>2, FireFacts, FiredEvents
<1> QED
  BY <1>1, <1>2, <1>3, EmulatorRows

\* Home and the control cycle replace every joint and touch nothing else of the
\* robot (command_dispatcher.cpp 84-89, control_loop.cpp 42-47).
LEMMA HomeFacts ==
  ASSUME robot \in Robots, NEW q, Home(q)
  PROVE  /\ robot' \in Robots /\ robot'.controller = robot.controller
         /\ robot'.joints = [i \in Joints |-> JointHome(robot.joints[i])]
         /\ \A i \in Joints : robot'.joints[i] = JointHome(robot.joints[i])
<1>1. robot' = HomeJoints(robot)
  BY DEF Home
<1>2. /\ robot' \in Robots /\ robot'.controller = robot.controller
      /\ robot'.joints = [i \in Joints |-> JointHome(robot.joints[i])]
  BY <1>1, JointsFacts
<1> QED
  BY <1>2

LEMMA CycleFacts ==
  ASSUME robot \in Robots, ControlCycle
  PROVE  /\ robot.controller = "Moving" /\ UNCHANGED reply
         /\ robot' \in Robots /\ robot'.controller = robot.controller
         /\ robot'.joints = [i \in Joints |-> JointUpdate(robot.joints[i], 1)]
         /\ \A i \in Joints : robot'.joints[i] = JointUpdate(robot.joints[i], 1)
<1>1. robot' = UpdateJoints(robot) /\ robot.controller = "Moving" /\ UNCHANGED reply
  BY DEF ControlCycle
<1>2. /\ robot' \in Robots /\ robot'.controller = robot.controller
      /\ robot'.joints = [i \in Joints |-> JointUpdate(robot.joints[i], 1)]
  BY <1>1, JointsFacts
<1> QED
  BY <1>1, <1>2

LEMMA MoveJointFacts ==
  ASSUME robot \in Robots, NEW q \in Requests, MoveJoint(q)
  PROVE  /\ robot' \in Robots
         /\ robot'.controller = IF robot.controller = "Ready" THEN "Moving" ELSE robot.controller
         /\ q.joint \in Joints /\ q.target \in Targets
         /\ robot'.joints = [robot.joints EXCEPT ![q.joint] = JointSetTarget(@, q.target)]
<1> DEFINE r1 == SetTarget(robot, q)
<1>1. /\ r1 \in Robots /\ r1.controller = robot.controller
      /\ q.joint \in Joints /\ q.target \in Targets
      /\ r1.joints = [robot.joints EXCEPT ![q.joint] = JointSetTarget(@, q.target)]
  BY SetTargetFacts DEF MoveJoint
<1>2. robot' = StartMotion(r1)
  BY DEF MoveJoint
<1> HIDE DEF r1
<1> QED
  BY <1>1, <1>2, StartMotionFacts

-------------------------------------------------------------------------------
\* Every step keeps the robot's type.
LEMMA RobotStaysRobot ==
  ASSUME robot \in Robots, [Next]_vars
  PROVE  robot' \in Robots
<1>1. CASE \E q \in Requests : Dispatch(q)
  <2>1. PICK q \in Requests : Dispatch(q)
    BY <1>1
  <2>2. CASE GetStatus(q) \/ RejectMove(q) \/ Refuse(q)
    BY <2>2 DEF GetStatus, RejectMove, Refuse
  <2>3. CASE Home(q)
    BY <2>3, HomeFacts
  <2>4. CASE EmergencyStop(q)
    BY <2>4, EStopFacts DEF EmergencyStop
  <2> QED
    BY <2>1, <2>2, <2>3, <2>4, EnableFacts, DisableFacts, StopFacts, MoveJointFacts DEF Dispatch
<1>2. CASE ControlCycle
  BY <1>2, CycleFacts
<1>3. CASE WatchdogStop
  BY <1>3, EStopFacts DEF WatchdogStop
<1>4. CASE Deliver \/ UNCHANGED vars
  BY <1>4 DEF Deliver, vars
<1> QED
  BY <1>1, <1>2, <1>3, <1>4 DEF Next

\* Commands carry the types the clients use, whatever else they carry.
LEMMA RequestTyped ==
  ASSUME NEW q \in Requests
  PROVE  q.type \in RequestTypes
BY DEF Requests

\* The service keeps the types of the robot and of its replies: each reply
\* names the command it answers (command_dispatcher.cpp 125-138).
THEOREM TypeCorrect == Spec => []TypeOK
<1>1. Init => TypeOK
  BY BootedFacts DEF Init, TypeOK
<1>2. TypeOK /\ [Next]_vars => TypeOK'
  <2> SUFFICES ASSUME TypeOK, [Next]_vars PROVE TypeOK'
    OBVIOUS
  <2> DEFINE Replies == [ type : RequestTypes, status : {"Ok", "Error"},
                          body : {None} \cup Status ]
  <2>1. robot \in Robots /\ reply \in {None} \cup Replies
    BY DEF TypeOK
  <2>2. robot' \in Robots
    BY <2>1, RobotStaysRobot
  <2>3. reply' \in {None} \cup Replies
    <3>1. CASE \E q \in Requests : Dispatch(q)
      <4>1. PICK q \in Requests : Dispatch(q)
        BY <3>1
      <4>2. q.type \in RequestTypes
        BY RequestTyped
      <4>3. StatusOf(robot) \in Status
        BY <2>1 DEF StatusOf, Status, Robots, JointRecord
      <4>4. \A s \in {"Ok", "Error"}, b \in {None} \cup Status : Reply(q.type, s, b) \in Replies
        BY <4>2 DEF Reply
      <4> HIDE DEF Replies
      <4>5. \E s \in {"Ok", "Error"}, b \in {None} \cup Status : reply' = Reply(q.type, s, b)
        BY <4>1, <4>3 DEF Dispatch, GetStatus, Enable, Disable, Home, MoveJoint, RejectMove,
                          Stop, EmergencyStop, Refuse
      <4> QED
        BY <4>4, <4>5
    <3>2. CASE ControlCycle \/ WatchdogStop \/ UNCHANGED vars
      BY <2>1, <3>2 DEF ControlCycle, WatchdogStop, vars
    <3>3. CASE Deliver
      BY <3>3 DEF Deliver
    <3> QED
      BY <3>1, <3>2, <3>3 DEF Next
  <2> QED
    BY <2>2, <2>3 DEF TypeOK
<1> QED
  BY <1>1, <1>2, PTL DEF Spec

-------------------------------------------------------------------------------
\* The inductive invariant behind the limits: no joint holds NaN, or a value
\* outside of them.
SoundInv == \A i \in Joints : SoundJoint(robot.joints[i])

LEMMA SoundCorrect ==
  ASSUME ZeroIsLegal, NaN \notin Targets
  PROVE  Spec => []SoundInv
<1> USE DEF SoundInv
<1>1. Init => SoundInv
  BY BootedFacts, NewJointSound DEF Init
<1>2. TypeOK /\ SoundInv /\ [Next]_vars => SoundInv'
  <2> SUFFICES ASSUME robot \in Robots, SoundInv, [Next]_vars PROVE SoundInv'
    BY DEF TypeOK
  <2>1. ASSUME NEW q \in Requests, Dispatch(q)
        PROVE  SoundInv'
    <3>1. CASE Enable(q)
      BY <3>1, EnableFacts, SwitchingKeepsSound
    <3>2. CASE Disable(q)
      BY <3>2, DisableFacts, SwitchingKeepsSound
    <3>3. CASE Home(q)
      <4>1. \A i \in Joints : robot'.joints[i] = JointHome(robot.joints[i])
        BY <3>3, HomeFacts
      <4> QED
        BY <4>1, SwitchingKeepsSound
    <3>4. CASE MoveJoint(q)
      <4>1. /\ q.joint \in Joints /\ q.target \in Int
            /\ robot'.joints = [robot.joints EXCEPT ![q.joint] = JointSetTarget(@, q.target)]
        BY <3>4, MoveJointFacts, RobotAssumption DEF Number
      <4>2. SoundJoint(JointSetTarget(robot.joints[q.joint], q.target))
        BY <4>1, SettersKeepSound
      <4> QED
        BY <4>1, <4>2 DEF Robots
    <3>5. CASE Stop(q)
      BY <3>5, StopFacts
    <3>6. CASE EmergencyStop(q)
      BY <3>6, EStopFacts DEF EmergencyStop
    <3>7. CASE GetStatus(q) \/ RejectMove(q) \/ Refuse(q)
      BY <3>7 DEF GetStatus, RejectMove, Refuse
    <3> QED
      BY <2>1, <3>1, <3>2, <3>3, <3>4, <3>5, <3>6, <3>7 DEF Dispatch
  <2>2. CASE ControlCycle
    <3>1. \A i \in Joints : robot'.joints[i] = JointUpdate(robot.joints[i], 1)
      BY <2>2, CycleFacts
    <3> QED
      BY <3>1, UpdateKeepsSound
  <2>3. CASE WatchdogStop
    BY <2>3, EStopFacts DEF WatchdogStop
  <2>4. CASE Deliver \/ UNCHANGED vars
    BY <2>4 DEF Deliver, vars
  <2> QED
    BY <2>1, <2>2, <2>3, <2>4 DEF Next
<1> QED
  BY <1>1, <1>2, TypeCorrect, PTL DEF Spec

\* No command and no control cycle takes a joint out of its limits, for any
\* number of joints, provided zero is a legal position and no client sends
\* NaN (command_dispatcher.cpp 67-112, joint.cpp 25-102).
THEOREM JointsInLimitsCorrect ==
  ASSUME ZeroIsLegal, NaN \notin Targets
  PROVE  Spec => []JointsInLimits
<1>1. SoundInv => JointsInLimits
  BY DEF SoundInv, SoundJoint, JointsInLimits
<1> QED
  BY <1>1, SoundCorrect, PTL

\* The joints are enabled all together, and never while the controller's state
\* says the servos are off: the dispatcher's two writes, to the joints and to
\* the controller, agree in every handler (command_dispatcher.cpp 67-82).
THEOREM ServosOffCorrect == Spec => []ServosOffMeansDisabled
<1>1. Init => ServosOffMeansDisabled
  <2>1. \A i \in Joints : BootedRobot.joints[i] = NewJoint
    BY BootedFacts
  <2> QED
    BY <2>1 DEF Init, ServosOffMeansDisabled, NewJoint
<1>2. TypeOK /\ ServosOffMeansDisabled /\ [Next]_vars => ServosOffMeansDisabled'
  <2> SUFFICES ASSUME robot \in Robots, ServosOffMeansDisabled, [Next]_vars
               PROVE  ServosOffMeansDisabled'
    BY DEF TypeOK
  <2> DEFINE SameSwitches == \A i \in Joints : robot'.joints[i].enabled = robot.joints[i].enabled
  <2>1. \A i \in Joints : robot.joints[i] \in JointRecord
    BY DEF Robots
  <2>2. SameSwitches /\ (robot'.controller \in {"Idle", "ServoOff"} =>
                            robot.controller \in {"Idle", "ServoOff"})
          => ServosOffMeansDisabled'
    BY DEF ServosOffMeansDisabled
  <2>3. ASSUME NEW q \in Requests, Dispatch(q)
        PROVE  ServosOffMeansDisabled'
    <3>1. CASE Enable(q)
      <4>1. /\ \A i \in Joints : robot'.joints[i] = JointEnable(robot.joints[i])
            /\ robot'.controller \notin {"Idle", "ServoOff"}
        BY <3>1, EnableFacts
      <4>2. \A i \in Joints : robot'.joints[i].enabled = TRUE
        BY <2>1, <4>1, SwitchingTypes
      <4> QED
        BY <4>1, <4>2 DEF ServosOffMeansDisabled
    <3>2. CASE Disable(q)
      <4>1. \A i \in Joints : robot'.joints[i] = JointDisable(robot.joints[i])
        BY <3>2, DisableFacts
      <4>2. \A i \in Joints : robot'.joints[i].enabled = FALSE
        BY <2>1, <4>1, SwitchingTypes
      <4> QED
        BY <4>2 DEF ServosOffMeansDisabled
    <3>3. CASE Home(q)
      <4>1. /\ \A i \in Joints : robot'.joints[i] = JointHome(robot.joints[i])
            /\ robot'.controller = robot.controller
        BY <3>3, HomeFacts
      <4> QED
        BY <2>1, <2>2, <4>1, SwitchingTypes
    <3>4. CASE MoveJoint(q)
      <4>1. /\ q.joint \in Joints /\ q.target \in Number
            /\ robot'.controller = IF robot.controller = "Ready" THEN "Moving"
                                   ELSE robot.controller
            /\ robot'.joints = [robot.joints EXCEPT ![q.joint] = JointSetTarget(@, q.target)]
        BY <3>4, MoveJointFacts, RobotAssumption
      <4>2. SameSwitches
        BY <2>1, <4>1, SetTargetType DEF Robots
      <4> QED
        BY <2>2, <4>1, <4>2
    <3>5. CASE Stop(q)
      BY <2>2, <3>5, StopFacts
    <3>6. CASE EmergencyStop(q)
      BY <2>2, <3>6, EStopFacts DEF EmergencyStop
    <3>7. CASE GetStatus(q) \/ RejectMove(q) \/ Refuse(q)
      BY <2>2, <3>7 DEF GetStatus, RejectMove, Refuse
    <3> QED
      BY <2>3, <3>1, <3>2, <3>3, <3>4, <3>5, <3>6, <3>7 DEF Dispatch
  <2>4. CASE ControlCycle
    <3>1. /\ \A i \in Joints : robot'.joints[i] = JointUpdate(robot.joints[i], 1)
          /\ robot'.controller = robot.controller
      BY <2>4, CycleFacts
    <3> QED
      BY <2>1, <2>2, <3>1, UpdateType
  <2>5. CASE WatchdogStop
    BY <2>2, <2>5, EStopFacts DEF WatchdogStop
  <2>6. CASE Deliver \/ UNCHANGED vars
    BY <2>2, <2>6 DEF Deliver, vars
  <2> QED
    BY <2>3, <2>4, <2>5, <2>6 DEF Next
<1> QED
  BY <1>1, <1>2, TypeCorrect, PTL DEF Spec

-------------------------------------------------------------------------------
\* The controller rests in five of its fourteen states.  Inductive, and what
\* the answer to an emergency stop needs: from any other state but these a
\* trigger would leave the controller somewhere else.
Settled == robot.controller \in SettledState

LEMMA SettledCorrect == Spec => []Settled
<1>1. Init => Settled
  BY BootedFacts DEF Init, Settled, SettledState
<1>2. TypeOK /\ Settled /\ [Next]_vars => Settled'
  <2> SUFFICES ASSUME robot \in Robots, Settled, [Next]_vars PROVE Settled'
    BY DEF TypeOK
  <2> USE DEF Settled, SettledState
  <2>1. CASE \E q \in Requests : Dispatch(q)
    <3>1. PICK q \in Requests : Dispatch(q)
      BY <2>1
    <3>2. CASE Enable(q)
      BY <3>2, EnableFacts
    <3>3. CASE Disable(q)
      BY <3>3, DisableFacts
    <3>4. CASE Home(q)
      BY <3>4, HomeFacts
    <3>5. CASE MoveJoint(q)
      BY <3>5, MoveJointFacts
    <3>6. CASE Stop(q)
      BY <3>6, StopFacts
    <3>7. CASE EmergencyStop(q)
      BY <3>7, EStopFacts DEF EmergencyStop
    <3>8. CASE GetStatus(q) \/ RejectMove(q) \/ Refuse(q)
      BY <3>8 DEF GetStatus, RejectMove, Refuse
    <3> QED
      BY <3>1, <3>2, <3>3, <3>4, <3>5, <3>6, <3>7, <3>8 DEF Dispatch
  <2>2. CASE ControlCycle
    BY <2>2, CycleFacts
  <2>3. CASE WatchdogStop
    BY <2>3, EStopFacts DEF WatchdogStop
  <2>4. CASE Deliver \/ UNCHANGED vars
    BY <2>4 DEF Deliver, vars
  <2> QED
    BY <2>1, <2>2, <2>3, <2>4 DEF Next
<1> QED
  BY <1>1, <1>2, TypeCorrect, PTL DEF Spec

\* While the answer to a stop or an emergency stop is on its way, the robot
\* is stopped: whatever the control thread and the watchdog do meanwhile, they
\* do not undo it (command_dispatcher.cpp 114-123).
THEOREM StopRepliesCorrect == Spec => []StopRepliesHold
<1>1. Init => StopRepliesHold
  BY DEF Init, StopRepliesHold
<1>2. TypeOK /\ Settled /\ StopRepliesHold /\ [Next]_vars => StopRepliesHold'
  <2> SUFFICES ASSUME robot \in Robots, Settled, StopRepliesHold, [Next]_vars
               PROVE  StopRepliesHold'
    BY DEF TypeOK
  <2> USE DEF Settled, SettledState, StopRepliesHold
  <2>1. CASE \E q \in Requests : Dispatch(q)
    <3>1. PICK q \in Requests : Dispatch(q)
      BY <2>1
    <3>2. CASE Stop(q)
      BY <3>2, StopFacts DEF Stop, Reply
    <3>3. CASE EmergencyStop(q)
      BY <3>3, EStopFacts DEF EmergencyStop, Reply
    <3>4. CASE ~Stop(q) /\ ~EmergencyStop(q)
      <4>1. reply'.type \notin {"Stop", "EmergencyStop"}
        BY <3>1, <3>4 DEF Dispatch, GetStatus, Enable, Disable, Home, MoveJoint, RejectMove,
                          Refuse, Reply, Implemented
      <4> QED
        BY <4>1
    <3> QED
      BY <3>2, <3>3, <3>4
  <2>2. CASE ControlCycle
    BY <2>2, CycleFacts
  <2>3. CASE WatchdogStop
    BY <2>3, EStopFacts DEF WatchdogStop
  <2>4. CASE Deliver \/ UNCHANGED vars
    BY <2>4 DEF Deliver, vars
  <2> QED
    BY <2>1, <2>2, <2>3, <2>4 DEF Next
<1> QED
  BY <1>1, <1>2, TypeCorrect, SettledCorrect, PTL DEF Spec

\* Nothing the server offers leaves EmergencyStop, and no joint moves there
\* unless it is homed (controller_state.hpp 32, control_loop.cpp 42-47).
THEOREM EStopIsFinalCorrect == Spec => EStopIsFinal
<1> DEFINE Final ==
      robot.controller = "EmergencyStop" =>
        /\ robot'.controller = "EmergencyStop"
        /\ \A i \in Joints :
             robot'.joints[i].position # robot.joints[i].position =>
               robot'.joints[i] = JointHome(robot.joints[i])
<1>1. TypeOK /\ [Next]_vars => [Final]_vars
  <2> SUFFICES ASSUME robot \in Robots, Next, robot.controller = "EmergencyStop"
               PROVE  /\ robot'.controller = "EmergencyStop"
                      /\ \A i \in Joints :
                           robot'.joints[i].position # robot.joints[i].position =>
                             robot'.joints[i] = JointHome(robot.joints[i])
    BY DEF TypeOK
  <2>1. \A i \in Joints : robot.joints[i] \in JointRecord
    BY DEF Robots
  <2>2. CASE \E q \in Requests : Dispatch(q)
    <3>1. PICK q \in Requests : Dispatch(q)
      BY <2>2
    <3>2. CASE Enable(q)
      <4>1. /\ \A i \in Joints : robot'.joints[i] = JointEnable(robot.joints[i])
            /\ robot'.controller = "EmergencyStop"
        BY <3>2, EnableFacts
      <4> QED
        BY <2>1, <4>1, SwitchingTypes
    <3>3. CASE Disable(q)
      <4>1. /\ \A i \in Joints : robot'.joints[i] = JointDisable(robot.joints[i])
            /\ robot'.controller = "EmergencyStop"
        BY <3>3, DisableFacts
      <4> QED
        BY <2>1, <4>1, SwitchingTypes
    <3>4. CASE Home(q)
      BY <3>4, HomeFacts
    <3>5. CASE MoveJoint(q)
      <4>1. /\ robot'.joints = [robot.joints EXCEPT ![q.joint] = JointSetTarget(@, q.target)]
            /\ q.joint \in Joints /\ q.target \in Number
            /\ robot'.controller = "EmergencyStop"
        BY <3>5, MoveJointFacts, RobotAssumption
      <4>2. \A i \in Joints : robot'.joints[i].position = robot.joints[i].position
        BY <2>1, <4>1, SetTargetType DEF Robots
      <4> QED
        BY <4>1, <4>2
    <3>6. CASE Stop(q)
      BY <3>6, StopFacts
    <3>7. CASE EmergencyStop(q)
      BY <3>7, EStopFacts DEF EmergencyStop
    <3>8. CASE GetStatus(q) \/ RejectMove(q) \/ Refuse(q)
      BY <3>8 DEF GetStatus, RejectMove, Refuse
    <3> QED
      BY <3>1, <3>2, <3>3, <3>4, <3>5, <3>6, <3>7, <3>8 DEF Dispatch
  <2>3. CASE ControlCycle
    BY <2>3 DEF ControlCycle
  <2>4. CASE WatchdogStop
    BY <2>4, EStopFacts DEF WatchdogStop
  <2>5. CASE Deliver
    BY <2>5 DEF Deliver
  <2> QED
    BY <2>2, <2>3, <2>4, <2>5 DEF Next
<1>2. [][Final]_vars <=> EStopIsFinal
  BY PTL DEF EStopIsFinal
<1> QED
  BY <1>1, <1>2, TypeCorrect, PTL DEF Spec

\* A joint moves only when it is enabled and the controller Moving, and then by
\* one period of full speed at most; otherwise it was homed: for any number of
\* joints, zero being a legal position and no client sending NaN
\* (control_loop.cpp 42-47, joint.cpp 64-92).
THEOREM MotionOnlyWhileMovingCorrect ==
  ASSUME ZeroIsLegal, NaN \notin Targets
  PROVE  Spec => MotionOnlyWhileMoving
<1> DEFINE Moves ==
      \A i \in Joints :
        robot'.joints[i].position # robot.joints[i].position =>
          \/ robot'.joints[i] = JointHome(robot.joints[i])
          \/ /\ robot.controller = "Moving" /\ robot.joints[i].enabled
             /\ robot'.joints[i].position - robot.joints[i].position
                  \in -MaxVelocity .. MaxVelocity
<1>1. TypeOK /\ SoundInv /\ [Next]_vars => [Moves]_vars
  <2> SUFFICES ASSUME robot \in Robots, SoundInv, Next, NEW i \in Joints,
                      robot'.joints[i].position # robot.joints[i].position
               PROVE  \/ robot'.joints[i] = JointHome(robot.joints[i])
                      \/ /\ robot.controller = "Moving" /\ robot.joints[i].enabled
                         /\ robot'.joints[i].position - robot.joints[i].position
                              \in -MaxVelocity .. MaxVelocity
    BY DEF TypeOK
  <2>1. /\ \A k \in Joints : robot.joints[k] \in JointRecord
        /\ robot.joints[i] \in JointRecord /\ SoundJoint(robot.joints[i])
    BY DEF Robots, SoundInv
  <2>2. CASE \E q \in Requests : Dispatch(q)
    <3>1. PICK q \in Requests : Dispatch(q)
      BY <2>2
    <3>2. CASE Enable(q)
      <4>1. robot'.joints[i] = JointEnable(robot.joints[i])
        BY <3>2, EnableFacts
      <4> QED
        BY <2>1, <4>1, SwitchingTypes
    <3>3. CASE Disable(q)
      <4>1. robot'.joints[i] = JointDisable(robot.joints[i])
        BY <3>3, DisableFacts
      <4> QED
        BY <2>1, <4>1, SwitchingTypes
    <3>4. CASE Home(q)
      BY <3>4, HomeFacts
    <3>5. CASE MoveJoint(q)
      <4>1. /\ robot'.joints = [robot.joints EXCEPT ![q.joint] = JointSetTarget(@, q.target)]
            /\ q.joint \in Joints /\ q.target \in Number
        BY <3>5, MoveJointFacts, RobotAssumption
      <4>2. \A k \in Joints : robot'.joints[k].position = robot.joints[k].position
        BY <2>1, <4>1, SetTargetType DEF Robots
      <4> QED
        BY <4>2
    <3>6. CASE Stop(q)
      BY <3>6, StopFacts
    <3>7. CASE EmergencyStop(q)
      BY <3>7, EStopFacts DEF EmergencyStop
    <3>8. CASE GetStatus(q) \/ RejectMove(q) \/ Refuse(q)
      BY <3>8 DEF GetStatus, RejectMove, Refuse
    <3> QED
      BY <3>1, <3>2, <3>3, <3>4, <3>5, <3>6, <3>7, <3>8 DEF Dispatch
  <2>3. CASE ControlCycle
    <3>1. robot'.joints[i] = JointUpdate(robot.joints[i], 1) /\ robot.controller = "Moving"
      BY <2>3, CycleFacts
    <3>2. robot.joints[i].enabled
      BY <3>1 DEF JointUpdate
    <3>3. robot'.joints[i] = Advance(robot.joints[i], 1)
      BY <2>1, <3>1, <3>2, SoundNotPoisoned DEF JointUpdate
    <3>4. robot'.joints[i].position - robot.joints[i].position
            \in -(MaxVelocity * 1) .. MaxVelocity * 1
      BY <2>1, <3>3, AdvanceBounded
    <3>5. MaxVelocity * 1 = MaxVelocity
      BY JointAssumption
    <3> QED
      BY <3>1, <3>2, <3>4, <3>5
  <2>4. CASE WatchdogStop
    BY <2>4, EStopFacts DEF WatchdogStop
  <2>5. CASE Deliver
    BY <2>5 DEF Deliver
  <2> QED
    BY <2>2, <2>3, <2>4, <2>5 DEF Next
<1>2. [][Moves]_vars <=> MotionOnlyWhileMoving
  BY PTL DEF MotionOnlyWhileMoving
<1> QED
  BY <1>1, <1>2, SoundCorrect, TypeCorrect, PTL DEF Spec

\* A request answered with an error changed nothing, in any state of the robot
\* (command_dispatcher.cpp 48-53 and 93-105).
THEOREM ErrorMeansNoEffectCorrect == Spec => ErrorMeansNoEffect
<1> DEFINE Harmless ==
      reply = None /\ reply' # None /\ reply'.status = "Error" => robot' = robot
<1>1. [Next]_vars => [Harmless]_vars
  <2> SUFFICES ASSUME Next, reply = None, reply' # None, reply'.status = "Error"
               PROVE  robot' = robot
    OBVIOUS
  <2>1. PICK q \in Requests : Dispatch(q)
    BY DEF Next, ControlCycle, WatchdogStop, Deliver
  <2>2. \A type, body : Reply(type, "Ok", body).status = "Ok"
    BY DEF Reply
  <2>3. ~(Enable(q) \/ Disable(q) \/ Home(q) \/ MoveJoint(q) \/ Stop(q) \/ EmergencyStop(q))
    BY <2>2 DEF Enable, Disable, Home, MoveJoint, Stop, EmergencyStop
  <2> QED
    BY <2>1, <2>3 DEF Dispatch, GetStatus, RejectMove, Refuse
<1>2. [][Harmless]_vars <=> ErrorMeansNoEffect
  BY PTL DEF ErrorMeansNoEffect
<1> QED
  BY <1>1, <1>2, PTL DEF Spec

-------------------------------------------------------------------------------
\* The types of what the bridge holds: it never asks for an axis it does not
\* have, nor for a position no request can carry.
BridgeTypeOK ==
  bridge \in [ link : {"none", "queued", "served", "lost"}, call : {"idle", "read", "write"},
             next : Axes, commands : [Axes -> Targets] ]

\* Every request of the bridge is one the emulator may be sent
\* (hardware_interface.cpp 89 and 110-114).
LEMMA BridgeRequests ==
  ASSUME BridgeTypeOK
  PROVE  StatusRequest \in Requests /\ MoveRequest \in Requests
<1>1. StatusRequest \in Requests
  BY BridgeAssumption DEF StatusRequest, Requests
<1>2. bridge.next \in Nat /\ bridge.commands[bridge.next] \in Targets
  BY BridgeAssumption DEF BridgeTypeOK, Axes
<1>3. (IF bridge.next < JointCount THEN bridge.next ELSE JointCount) \in 0 .. JointCount
  BY <1>2, RobotAssumption
<1>4. "MoveJoint" \in RequestTypes \cap {"MoveJoint"}
  BY BridgeAssumption
<1> QED
  BY <1>1, <1>2, <1>3, <1>4 DEF MoveRequest, Requests

LEMMA BridgeTypeCorrect == BridgeSpec => []BridgeTypeOK
<1> USE DEF BridgeTypeOK
<1>1. BridgeInit => BridgeTypeOK
  <2>1. 0 \in Axes /\ 0 \in Targets
    BY BridgeAssumption DEF Axes
  <2> QED
    BY <2>1 DEF BridgeInit, NewBridge
<1>2. BridgeTypeOK /\ [BridgeNext]_bridgeVars => BridgeTypeOK'
  <2> SUFFICES ASSUME BridgeTypeOK, [BridgeNext]_bridgeVars PROVE BridgeTypeOK'
    OBVIOUS
  <2>1. 0 \in Axes /\ 0 \in Targets
    BY BridgeAssumption DEF Axes
  <2>2. CASE Lifecycle
    <3>1. CASE Activate \/ Deactivate \/ AcceptBridge
      BY <3>1 DEF Activate, Deactivate, AcceptBridge
    <3>2. CASE Break
      BY <2>1, <3>2 DEF Break
    <3>3. CASE Restart
      <4>1. [i \in Axes |-> 0] \in [Axes -> Targets]
        BY <2>1
      <4> QED
        BY <2>1, <3>3, <4>1 DEF Restart, NewBridge
    <3> QED
      BY <2>2, <3>1, <3>2, <3>3 DEF Lifecycle
  <2>3. CASE \E i \in Axes, radians \in Targets : SetCommand(i, radians)
    BY <2>3 DEF SetCommand
  <2>4. CASE \E call \in {"read", "write"} : StartCall(call)
    BY <2>4 DEF StartCall
  <2>5. CASE TakeAnswer
    <3>1. bridge.next # BridgeJoints - 1 => bridge.next + 1 \in Axes
      BY BridgeAssumption DEF Axes
    <3> QED
      BY <2>1, <2>5, <3>1 DEF TakeAnswer, Return
  <2>6. CASE TakeStatus
    BY <2>1, <2>6 DEF TakeStatus, Return
  <2>7. CASE UNCHANGED bridge
    BY <2>7
  <2> QED
    BY <2>2, <2>3, <2>4, <2>5, <2>6, <2>7
       DEF BridgeNext, Exchange, AskStatus, AskMove, OperatorDispatch, OperatorDeliver, Cycle,
           Stopped, bridgeVars
<1> QED
  BY <1>1, <1>2, PTL DEF BridgeSpec

\* The bridge and the operator between them are a client of the service: every
\* step of theirs is a step of RobotService or leaves robot and reply alone, so
\* what is proved of the service holds with a bridge of any number of axes
\* (hardware_interface.cpp 67-122 goes through Client::execute and no other way).
THEOREM BridgeUsesService == BridgeSpec => Spec
<1>1. BridgeInit => Init
  BY DEF BridgeInit
<1>2. BridgeTypeOK /\ [BridgeNext]_bridgeVars => [Next]_vars
  <2> SUFFICES ASSUME BridgeTypeOK, [BridgeNext]_bridgeVars PROVE [Next]_vars
    OBVIOUS
  <2>1. CASE UNCHANGED vars
    BY <2>1
  <2>2. CASE Break \/ Restart
    BY <2>2 DEF Break, Restart, Next, Deliver, vars
  <2>3. CASE AskStatus \/ AskMove
    BY <2>3, BridgeRequests DEF AskStatus, AskMove, Next
  <2>4. CASE TakeStatus \/ TakeAnswer \/ OperatorDeliver
    BY <2>4 DEF TakeStatus, TakeAnswer, OperatorDeliver, Next
  <2>5. CASE \E q \in Requests : OperatorDispatch(q)
    BY <2>5 DEF OperatorDispatch, Next
  <2>6. CASE Cycle \/ Stopped
    BY <2>6 DEF Cycle, Stopped, Next
  <2> QED
    BY <2>1, <2>2, <2>3, <2>4, <2>5, <2>6
       DEF BridgeNext, Lifecycle, Activate, Deactivate, AcceptBridge, SetCommand, StartCall,
           Exchange, bridgeVars, vars
<1> QED
  BY <1>1, <1>2, BridgeTypeCorrect, PTL DEF BridgeSpec, Spec

-------------------------------------------------------------------------------
\* A control cycle and a stop leave every joint's target where it is.
LEMMA TargetsKept ==
  ASSUME robot \in Robots, ControlCycle \/ WatchdogStop
  PROVE  /\ \A i \in Joints : robot'.joints[i].targetPosition = robot.joints[i].targetPosition
         /\ reply' = reply
<1>1. CASE ControlCycle
  <2>1. \A i \in Joints : robot'.joints[i] = JointUpdate(robot.joints[i], 1)
    BY <1>1, CycleFacts
  <2>2. \A i \in Joints : robot.joints[i] \in JointRecord
    BY DEF Robots
  <2> QED
    BY <1>1, <2>1, <2>2, UpdateType DEF ControlCycle
<1>2. CASE WatchdogStop
  BY <1>2, EStopFacts DEF WatchdogStop
<1> QED
  BY <1>1, <1>2

\* What a write that asks for its next joint changes: that joint's target,
\* when the answer is not an error, and nothing else of any target.
LEMMA AskMoveFacts ==
  ASSUME robot \in Robots, BridgeTypeOK, AskMove
  PROVE  /\ reply = None /\ UNCHANGED bridge
         /\ \A i \in Joints :
              robot'.joints[i].targetPosition # robot.joints[i].targetPosition =>
                i = bridge.next /\ robot'.joints[i].targetPosition = bridge.commands[i]
         /\ reply'.status = "Ok" =>
              /\ bridge.next \in Joints
              /\ robot'.joints[bridge.next].targetPosition = bridge.commands[bridge.next]
<1> DEFINE q == MoveRequest
<1>1. /\ q \in Requests /\ q.type = "MoveJoint" /\ q.target = bridge.commands[bridge.next]
      /\ q.joint = IF bridge.next < JointCount THEN bridge.next ELSE JointCount
  BY BridgeRequests DEF MoveRequest
<1>2. Dispatch(q) /\ reply = None /\ UNCHANGED bridge
  BY DEF AskMove, Dispatch
<1> HIDE DEF q
<1>3. CASE MoveJoint(q)
  <2>1. /\ q.joint \in Joints /\ q.target \in Number
        /\ robot'.joints = [robot.joints EXCEPT ![q.joint] = JointSetTarget(@, q.target)]
    BY <1>1, <1>3, MoveJointFacts, RobotAssumption
  <2>2. q.joint = bridge.next
    BY <1>1, <2>1, RobotAssumption DEF Joints
  <2>3. robot.joints[q.joint] \in JointRecord /\ TargetAccepted(robot.joints[q.joint], q.target)
    BY <1>3, <2>1 DEF Robots, MoveJoint, MoveAccepted
  <2>4. JointSetTarget(robot.joints[q.joint], q.target).targetPosition = q.target
    BY <2>1, <2>3, SetTargetType
  <2>5. DOMAIN robot.joints = Joints
    BY DEF Robots
  <2> QED
    BY <1>1, <1>2, <2>1, <2>2, <2>4, <2>5
<1>4. CASE RejectMove(q)
  BY <1>2, <1>4 DEF RejectMove, Reply
<1> QED
  BY <1>1, <1>2, <1>3, <1>4
     DEF Dispatch, GetStatus, Enable, Disable, Home, Stop, EmergencyStop, Refuse, Implemented

\* The inductive invariant of write: the joints before the one it has got to
\* have their commands, and so has that one when its answer says so.
Writing == Served /\ bridge.call = "write"
Sent(i) == i \in Joints /\ robot.joints[i].targetPosition = bridge.commands[i]

WriteInv ==
  /\ Served /\ Idle => reply = None
  /\ Idle \/ ~Served => bridge.next = 0
  /\ Writing => \A i \in Axes : i < bridge.next => Sent(i)
  /\ Writing /\ reply # None /\ reply.status = "Ok" => Sent(bridge.next)

LEMMA WriteCorrect == BridgeSpec => []WriteInv
<1>1. BridgeInit => WriteInv
  BY DEF BridgeInit, NewBridge, WriteInv, Writing, Served, Idle
<1>2. TypeOK /\ BridgeTypeOK /\ WriteInv /\ [BridgeNext]_bridgeVars => WriteInv'
  <2> SUFFICES ASSUME robot \in Robots, reply # None => reply.status \in {"Ok", "Error"},
                      BridgeTypeOK, WriteInv, [BridgeNext]_bridgeVars
               PROVE  WriteInv'
    BY DEF TypeOK
  <2>1. \A i \in Axes : ~(i < 0)
    BY DEF Axes
  <2>2. CASE Lifecycle
    <3>1. ASSUME bridge'.next = 0, ~Served' \/ reply' = None
          PROVE  WriteInv'
      BY <2>1, <3>1 DEF WriteInv, Writing
    <3>2. CASE Activate \/ Deactivate
      BY <3>1, <3>2 DEF Activate, Deactivate, BridgeTypeOK, WriteInv, Served, vars
    <3>3. CASE AcceptBridge
      BY <3>1, <3>3 DEF AcceptBridge, BridgeTypeOK, WriteInv, Served, vars
    <3>4. CASE Break
      BY <3>1, <3>4 DEF Break, BridgeTypeOK, Served
    <3>5. CASE Restart
      BY <3>1, <3>5 DEF Restart, NewBridge, Served
    <3> QED
      BY <2>2, <3>2, <3>3, <3>4, <3>5 DEF Lifecycle
  <2>3. CASE \E i \in Axes, radians \in Targets : SetCommand(i, radians)
    BY <2>3 DEF SetCommand, vars, BridgeTypeOK, WriteInv, Writing, Served, Idle
  <2>4. CASE \E call \in {"read", "write"} : StartCall(call)
    BY <2>1, <2>4 DEF StartCall, vars, BridgeTypeOK, WriteInv, Writing, Served, Idle
  <2>5. CASE AskStatus
    BY <2>5 DEF AskStatus, WriteInv, Writing, Served, Idle
  <2>6. CASE AskMove
    <3>1. /\ UNCHANGED bridge /\ reply = None
          /\ \A i \in Joints :
               robot'.joints[i].targetPosition # robot.joints[i].targetPosition =>
                 i = bridge.next /\ robot'.joints[i].targetPosition = bridge.commands[i]
          /\ reply'.status = "Ok" =>
               /\ bridge.next \in Joints
               /\ robot'.joints[bridge.next].targetPosition = bridge.commands[bridge.next]
      BY <2>6, AskMoveFacts
    <3>2. Writing /\ Writing' /\ ~Idle'
      BY <2>6, <3>1 DEF AskMove, Writing, Served, Idle
    <3>3. \A i \in Axes : Sent(i) => Sent(i)'
      BY <3>1 DEF Sent
    <3> QED
      BY <3>1, <3>2, <3>3 DEF WriteInv, Sent, Writing, Served, Idle
  <2>7. CASE TakeStatus
    BY <2>7 DEF TakeStatus, Deliver, Return, BridgeTypeOK, WriteInv, Writing, Served, Idle
  <2>8. CASE TakeAnswer
    <3>1. Writing /\ reply # None /\ reply' = None /\ robot' = robot
      BY <2>8 DEF TakeAnswer, Deliver, Writing
    <3>2. CASE bridge' = [bridge EXCEPT !.call = "idle", !.next = 0]
      BY <3>1, <3>2 DEF BridgeTypeOK, WriteInv, Writing, Served, Idle
    <3>3. CASE reply.status = "Ok" /\ bridge' = [bridge EXCEPT !.next = @ + 1]
      <4>1. /\ bridge'.next = bridge.next + 1 /\ bridge'.commands = bridge.commands
            /\ bridge'.link = bridge.link /\ bridge'.call = bridge.call
        BY <3>3 DEF BridgeTypeOK
      <4>2. \A i \in Axes : i < bridge.next + 1 => i < bridge.next \/ i = bridge.next
        BY BridgeAssumption DEF Axes, BridgeTypeOK
      <4>3. \A i \in Axes : i < bridge.next + 1 => Sent(i)
        BY <3>1, <3>3, <4>2 DEF WriteInv
      <4>4. \A i \in Axes : Sent(i) => Sent(i)'
        BY <3>1, <4>1 DEF Sent
      <4>5. Writing' /\ ~Idle'
        BY <3>1, <4>1 DEF Writing, Served, Idle
      <4> QED
        BY <3>1, <4>1, <4>3, <4>4, <4>5 DEF WriteInv, Writing
    <3>4. reply.status \in {"Ok", "Error"}
      BY <3>1
    <3> QED
      BY <2>8, <3>2, <3>3, <3>4 DEF TakeAnswer, Return
  <2>9. CASE OperatorDeliver \/ \E q \in Requests : OperatorDispatch(q)
    BY <2>9 DEF OperatorDeliver, OperatorDispatch, WriteInv, Writing, Served, Idle
  <2>10. CASE Cycle \/ Stopped
    <3>1. /\ \A i \in Joints : robot'.joints[i].targetPosition = robot.joints[i].targetPosition
          /\ UNCHANGED bridge /\ UNCHANGED reply
      BY <2>10, TargetsKept DEF Cycle, Stopped
    <3>2. \A i \in Axes : Sent(i) => Sent(i)'
      BY <3>1 DEF Sent
    <3>3. bridge.next \in Axes
      BY DEF BridgeTypeOK
    <3> QED
      BY <3>1, <3>2, <3>3 DEF WriteInv, Writing, Served, Idle
  <2>11. CASE UNCHANGED bridgeVars
    BY <2>11 DEF bridgeVars, WriteInv, Writing, Sent, Served, Idle
  <2> QED
    BY <2>2, <2>3, <2>4, <2>5, <2>6, <2>7, <2>8, <2>9, <2>10, <2>11 DEF BridgeNext, Exchange
<1> QED
  BY <1>1, <1>2, TypeCorrect, BridgeUsesService, BridgeTypeCorrect, PTL DEF BridgeSpec

\* What the emulator was asked to do is told by write's result, for any number
\* of axes and joints, wherever the connection breaks (hardware_interface.cpp
\* 103-122).
THEOREM WritesInOrderCorrect == BridgeSpec => WritesInOrder
<1> DEFINE InOrder ==
      Served /\ bridge.call = "write" =>
        /\ \A i \in Joints :
             robot'.joints[i].targetPosition # robot.joints[i].targetPosition =>
               i = bridge.next /\ robot'.joints[i].targetPosition = bridge.commands[i]
        /\ bridge'.call = "idle" /\ bridge'.link # "none" =>
             \A i \in Axes : i < Reached =>
               i \in Joints /\ robot.joints[i].targetPosition = bridge.commands[i]
<1>1. TypeOK /\ BridgeTypeOK /\ WriteInv /\ [BridgeNext]_bridgeVars => [InOrder]_bridgeVars
  <2> SUFFICES ASSUME robot \in Robots, BridgeTypeOK, WriteInv, BridgeNext, Writing
               PROVE  InOrder
    BY DEF TypeOK, Writing
  <2>1. Served /\ bridge.call = "write" /\ ~Idle
    BY DEF Writing, Idle
  <2>2. CASE AskMove
    BY <2>1, <2>2, AskMoveFacts
  <2>3. CASE Cycle \/ Stopped
    BY <2>1, <2>3, TargetsKept DEF Cycle, Stopped
  <2>4. CASE TakeAnswer
    <3>1. robot' = robot /\ reply # None
      BY <2>4 DEF TakeAnswer, Deliver
    <3>2. ASSUME bridge'.call = "idle"
          PROVE  reply.status = "Error" \/ bridge.next = BridgeJoints - 1
      BY <2>1, <2>4, <3>2 DEF TakeAnswer, BridgeTypeOK
    <3>3. ASSUME bridge'.call = "idle", NEW i \in Axes, i < Reached
          PROVE  Sent(i)
      <4>1. CASE Returned = "OK"
        <5>1. reply.status = "Ok" /\ Reached = BridgeJoints
          BY <4>1 DEF Returned, Reached
        <5>2. bridge.next = BridgeJoints - 1
          BY <3>2, <3>3, <5>1
        <5>3. i < bridge.next \/ i = bridge.next
          BY <5>2, BridgeAssumption DEF Axes
        <5> QED
          BY <3>1, <5>1, <5>3 DEF WriteInv
      <4>2. CASE Returned # "OK"
        BY <3>3, <4>2 DEF Reached, WriteInv
      <4> QED
        BY <4>1, <4>2
    <3> QED
      BY <3>1, <3>3 DEF Sent
  <2>5. CASE Break
    <3>1. bridge'.link = "lost" /\ robot' = robot
      BY <2>5 DEF Break, BridgeTypeOK
    <3>2. Reached = bridge.next
      BY <3>1 DEF Reached, Returned
    <3> QED
      BY <3>1, <3>2 DEF WriteInv, Sent
  <2>6. CASE Restart
    BY <2>6 DEF Restart, NewBridge
  <2>7. CASE AcceptBridge
    BY <2>1, <2>7 DEF AcceptBridge, Served
  <2> QED
    BY <2>1, <2>2, <2>3, <2>4, <2>5, <2>6, <2>7
       DEF BridgeNext, Lifecycle, Activate, Deactivate, SetCommand, StartCall, Exchange,
           AskStatus, TakeStatus, OperatorDispatch, OperatorDeliver
<1>2. [][InOrder]_bridgeVars <=> WritesInOrder
  BY PTL DEF WritesInOrder
<1> QED
  BY <1>1, <1>2, TypeCorrect, BridgeUsesService, BridgeTypeCorrect, WriteCorrect, PTL
     DEF BridgeSpec

-------------------------------------------------------------------------------
(* A call of the bridge returns.                                           *)

\* The fairness of FairBridgeSpec with its guard written out in place of
\* ENABLED: a connection that is served and waits for an answer is given one.
Calling == Served /\ ~Idle

ServesOn == []([]Calling => <><< Exchange >>_bridgeVars)

\* A call that has come to axis n, or further.
CameTo(n) == Calling /\ bridge.next >= n

\* Who came to n returns or comes to m.
Goes(n, m) == CameTo(n) ~> Idle \/ CameTo(m)

\* An answer is not None, whatever the request.
LEMMA Answered ==
  ASSUME NEW q \in Requests, Dispatch(q), robot \in Robots
  PROVE  reply' # None
<1>1. q.type \in RequestTypes
  BY RequestTyped
<1>2. StatusOf(robot) \in Status
  BY DEF StatusOf, Status, Robots, JointRecord
<1>3. reply' \in [ type : RequestTypes, status : {"Ok", "Error"}, body : {None} \cup Status ]
  BY <1>1, <1>2
     DEF Dispatch, GetStatus, Enable, Disable, Home, MoveJoint, RejectMove, Stop, EmergencyStop,
         Refuse, Reply
<1> QED
  BY <1>3, ReplyAssumption

\* A step is the next of the call under way, ends the call, or leaves both the
\* call and the answer it waits for alone.
LEMMA CallSteps ==
  ASSUME TypeOK, BridgeTypeOK, [BridgeNext]_bridgeVars, Calling
  PROVE  \/ Idle'
         \/ << Exchange >>_bridgeVars
         \/ UNCHANGED << bridge, reply >>
<1> USE DEF Calling, Served, Idle, BridgeTypeOK
<1>1. CASE Lifecycle
  <2>1. bridge.link = "served" /\ bridge.call # "idle"
    OBVIOUS
  <2>2. CASE Activate \/ Deactivate \/ AcceptBridge
    BY <2>1, <2>2 DEF Activate, Deactivate, AcceptBridge
  <2>3. CASE Break
    BY <2>3 DEF Break
  <2>4. CASE Restart
    BY <2>4 DEF Restart, NewBridge
  <2> QED
    BY <1>1, <2>2, <2>3, <2>4 DEF Lifecycle
<1>2. CASE Exchange
  BY <1>2 DEF bridgeVars, vars
<1>3. CASE Cycle \/ Stopped
  BY <1>3 DEF Cycle, Stopped, ControlCycle, WatchdogStop
<1>4. CASE UNCHANGED bridgeVars
  BY <1>4 DEF bridgeVars
<1> QED
  BY <1>1, <1>2, <1>3, <1>4
     DEF BridgeNext, SetCommand, StartCall, OperatorDispatch, OperatorDeliver

\* The emulator answers what it was asked; the bridge takes the answer and asks
\* for the next axis, or returns.
LEMMA ExchangeSteps ==
  ASSUME TypeOK, BridgeTypeOK, Exchange
  PROVE  /\ reply = None => bridge' = bridge /\ reply' # None
         /\ reply # None =>
              Idle' \/ (reply' = None /\ Calling' /\ bridge'.next = bridge.next + 1)
<1> USE DEF Calling, Served, Idle, BridgeTypeOK
<1>1. CASE AskStatus \/ AskMove
  <2>1. PICK q \in Requests : Dispatch(q) /\ bridge' = bridge
    BY <1>1, BridgeRequests DEF AskStatus, AskMove
  <2>2. reply = None /\ reply' # None
    BY <2>1, Answered DEF Dispatch, TypeOK
  <2> QED
    BY <2>1, <2>2
<1>2. CASE TakeStatus
  BY <1>2 DEF TakeStatus, Return, Deliver
<1>3. CASE TakeAnswer
  BY <1>3 DEF TakeAnswer, Return, Deliver, Axes
<1> QED
  BY <1>1, <1>2, <1>3 DEF Exchange

\* One axis further.
LEMMA NextAxis ==
  ASSUME NEW n \in Nat
  PROVE  BridgeSpec /\ ServesOn => Goes(n, n + 1)
<1> DEFINE Asks  == CameTo(n) /\ reply = None
           Hears == CameTo(n) /\ reply # None
           Inv   == TypeOK /\ BridgeTypeOK
           Later == CameTo(n + 1)
<1>1. BridgeSpec => []Inv
  BY TypeCorrect, BridgeUsesService, BridgeTypeCorrect, PTL
<1>2. Asks \/ Hears => Calling
  BY DEF CameTo
<1>3. /\ Inv /\ Asks /\ [BridgeNext]_bridgeVars =>
           Asks' \/ Idle' \/ << Exchange >>_bridgeVars
      /\ Inv /\ Hears /\ [BridgeNext]_bridgeVars =>
           Hears' \/ Idle' \/ << Exchange >>_bridgeVars
  BY CallSteps DEF CameTo, Calling, Served, Idle
<1>4. Inv /\ Asks /\ << Exchange >>_bridgeVars => Hears'
  BY ExchangeSteps DEF CameTo, Calling, Served, Idle
<1>5. Inv /\ Hears /\ << Exchange >>_bridgeVars => Idle' \/ Later'
  <2> SUFFICES ASSUME Inv, Hears, Exchange, ~Idle' PROVE Later'
    OBVIOUS
  <2>1. Calling' /\ bridge'.next = bridge.next + 1
    BY ExchangeSteps
  <2>2. bridge.next \in Nat /\ bridge.next >= n
    BY BridgeAssumption DEF BridgeTypeOK, Axes, CameTo
  <2> QED
    BY <2>1, <2>2 DEF CameTo
<1>6. CameTo(n) => Asks \/ Hears
  OBVIOUS
<1> HIDE DEF Asks, Hears, Inv, Later
<1>7. BridgeSpec /\ ServesOn => (CameTo(n) ~> Idle \/ Later)
  BY <1>1, <1>2, <1>3, <1>4, <1>5, <1>6, PTL DEF BridgeSpec, ServesOn
<1> QED
  BY <1>7 DEF Goes, Later

\* A way and another one.
LEMMA GoesOn ==
  ASSUME NEW n \in Nat, NEW k \in Nat, NEW m \in Nat
  PROVE  Goes(n, k) /\ Goes(k, m) => Goes(n, m)
BY PTL DEF Goes

\* A read or a write on a connection that is served returns, if the serving
\* loop goes on: for as many axes as a joint index can name.  There are fewer
\* than 2^8, and the proof doubles the number of axes eight times
\* (hardware_interface.cpp 86-122, client.cpp 63-117).
THEOREM BridgeCallsCorrect == BridgeSpec /\ ServesOn => BridgeCallsReturn
<1> DEFINE Far(k) == \A n \in Nat : BridgeSpec /\ ServesOn => Goes(n, n + k)
<1>1. Far(1)
  BY NextAxis
<1>2. ASSUME NEW k \in Nat, Far(k)
      PROVE  Far(2 * k)
  <2> SUFFICES ASSUME NEW n \in Nat
               PROVE  BridgeSpec /\ ServesOn => Goes(n, n + 2 * k)
    OBVIOUS
  <2>1. n + k \in Nat /\ n + 2 * k \in Nat /\ (n + k) + k = n + 2 * k
    OBVIOUS
  <2>2. BridgeSpec /\ ServesOn => Goes(n, n + k) /\ Goes(n + k, (n + k) + k)
    BY <1>2, <2>1
  <2> QED
    BY <2>1, <2>2, GoesOn
<1> HIDE DEF Far
<1>3. Far(256)
  <2>1. Far(2) /\ Far(4) /\ Far(8) /\ Far(16)
    BY <1>1, <1>2
  <2> QED
    BY <2>1, <1>2
<1>4. BridgeSpec /\ ServesOn => Goes(0, 256)
  <2>1. 0 \in Nat /\ 0 + 256 = 256
    OBVIOUS
  <2> QED
    BY <1>3, <2>1 DEF Far
<1>5. BridgeTypeOK => ~CameTo(256)
  BY BridgeAssumption DEF BridgeTypeOK, Axes, CameTo
<1>6. BridgeTypeOK /\ Calling => CameTo(0)
  BY BridgeAssumption DEF BridgeTypeOK, Axes, CameTo
<1> QED
  BY <1>4, <1>5, <1>6, BridgeTypeCorrect, PTL DEF Goes, BridgeCallsReturn, Calling
===============================================================================
