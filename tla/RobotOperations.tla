---------------------------- MODULE RobotOperations ----------------------------
(***************************************************************************)
(* What the emulator's threads share - one Robot, its controller and its   *)
(* brakes - and the elementary operations the command dispatcher, the      *)
(* control loop and the emergency stop apply to it.                        *)
(*                                                                         *)
(* The shared objects are one record, so that an operation is an operator  *)
(* from a record to a record; the modules above choose which operations    *)
(* are indivisible.                                                        *)
(***************************************************************************)
EXTENDS Joint, ControllerStateMachine

CONSTANTS
  JointCount,                   \* kJointCount, 6 in the emulator
  Targets,                      \* the targetRadians a MoveJoint may carry
  RequestTypes,                 \* the command types the clients send
  None                          \* no request, no reply, no status body

CommandType ==
  { "Connect", "GetStatus", "Enable", "Disable", "Home", "MoveJoint", "MoveLinear",
    "Stop", "EmergencyStop", "GetPosition", "GetIO", "SetIO", "ResetFault",
    "InjectFault" }

ASSUME RobotAssumption ==
  /\ JointCount \in Nat \ {0}   \* RobotConfig::validate refuses no joints
  /\ Targets \subseteq Number
  /\ RequestTypes \subseteq CommandType

Joints == 0 .. JointCount - 1

(* The commands CommandDispatcher::dispatch has a handler for.             *)
Implemented ==
  { "GetStatus", "Enable", "Disable", "Home", "MoveJoint", "Stop", "EmergencyStop" }

(* A decoded frame.  Only MoveJoint reads its payload: it may be truncated,*)
(* or name a joint past the last one.                                      *)
Requests ==
  [ type : RequestTypes \ {"MoveJoint"}, truncated : {FALSE}, joint : {0}, target : {0} ]
    \cup
  [ type : RequestTypes \cap {"MoveJoint"}, truncated : BOOLEAN,
    joint : 0 .. JointCount, target : Targets ]

Robots ==
  [ controller : ControllerState, joints : [Joints -> JointRecord],
    brakes : [Joints -> {"Engaged", "Released"}] ]

-------------------------------------------------------------------------------
Fire(robot, event) == [robot EXCEPT !.controller = HandleEvent(@, event)]

(* The emulator before any thread starts: new joints, brakes engaged, and  *)
(* the controller driven through its start-up events.                      *)
BootedRobot ==
  Fire(Fire(Fire([ controller |-> "PowerOff",
                   joints |-> [i \in Joints |-> NewJoint],
                   brakes |-> [i \in Joints |-> "Engaged"] ],
                 "PowerOn"), "BootComplete"), "InitComplete")

EnableJoints(robot)  == [robot EXCEPT !.joints = [i \in Joints |-> JointEnable(@[i])]]
DisableJoints(robot) == [robot EXCEPT !.joints = [i \in Joints |-> JointDisable(@[i])]]
HomeJoints(robot)    == [robot EXCEPT !.joints = [i \in Joints |-> JointHome(@[i])]]
EngageBrakes(robot)  == [robot EXCEPT !.brakes = [i \in Joints |-> "Engaged"]]

(* Robot::update with the loop's fixed period, one tick.                   *)
UpdateJoints(robot)  == [robot EXCEPT !.joints = [i \in Joints |-> JointUpdate(@[i], 1)]]

(* MoveJoint: the payload decodes, names a joint, and the joint takes it.  *)
MoveAccepted(robot, request) ==
  /\ ~request.truncated
  /\ request.joint < JointCount
  /\ TargetAccepted(robot.joints[request.joint], request.target)

SetTarget(robot, request) ==
  [robot EXCEPT !.joints[request.joint] = JointSetTarget(@, request.target)]

(* Motion begins only from Ready; in every other state nothing is fired.   *)
StartMotion(robot) ==
  IF robot.controller = "Ready" THEN Fire(robot, "CommandMove") ELSE robot

(* What GetStatus reports: the controller's state name and each joint.     *)
StatusOf(robot) ==
  [ controller |-> robot.controller,
    joints |-> [i \in Joints |-> [ position |-> robot.joints[i].position,
                                   velocity |-> robot.joints[i].velocity ]] ]

Reply(type, status, body) == [type |-> type, status |-> status, body |-> body]
===============================================================================
