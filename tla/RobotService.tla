----------------------------- MODULE RobotService -----------------------------
(***************************************************************************)
(* What the emulator promises its clients: every command, every control    *)
(* cycle and every emergency stop takes effect at one instant, on a robot  *)
(* nobody else is changing.  EmulatorServer, with its threads and its      *)
(* mutex, implements this specification.                                   *)
(*                                                                         *)
(* One action per handler of CommandDispatcher, one for ControlLoop::step, *)
(* one for the watchdog's emergency stop, and the delivery of a reply.     *)
(***************************************************************************)
EXTENDS RobotOperations

VARIABLES
  robot,                        \* the Robot, its controller and its brakes
  reply                         \* the reply on its way to the client, or None

vars == << robot, reply >>

Init ==
  /\ robot = BootedRobot
  /\ reply = None

-------------------------------------------------------------------------------
(* The handlers of CommandDispatcher.                                      *)
GetStatus(request) ==
  /\ request.type = "GetStatus"
  /\ reply' = Reply("GetStatus", "Ok", StatusOf(robot))
  /\ UNCHANGED robot

Enable(request) ==
  /\ request.type = "Enable"
  /\ robot' = Fire(Fire(EnableJoints(robot), "ServoEnable"), "ControllerReady")
  /\ reply' = Reply("Enable", "Ok", None)

(* Mutated form: the servo event is fired but the joints are forgotten.    *)
DisableForgetsJoints(request) ==
  /\ request.type = "Disable"
  /\ robot' = Fire(robot, "ServoDisable")
  /\ reply' = Reply("Disable", "Ok", None)

Disable(request) ==
  /\ request.type = "Disable"
  /\ robot' = Fire(DisableJoints(robot), "ServoDisable")
  /\ reply' = Reply("Disable", "Ok", None)

Home(request) ==
  /\ request.type = "Home"
  /\ robot' = HomeJoints(robot)
  /\ reply' = Reply("Home", "Ok", None)

MoveJoint(request) ==
  /\ request.type = "MoveJoint"
  /\ MoveAccepted(robot, request)
  /\ robot' = StartMotion(SetTarget(robot, request))
  /\ reply' = Reply("MoveJoint", "Ok", None)

(* Mutated form: the motion is started before the target is looked at.     *)
RejectMoveAfterStart(request) ==
  /\ request.type = "MoveJoint"
  /\ ~MoveAccepted(robot, request)
  /\ robot' = StartMotion(robot)
  /\ reply' = Reply("MoveJoint", "Error", None)

RejectMove(request) ==
  /\ request.type = "MoveJoint"
  /\ ~MoveAccepted(robot, request)
  /\ reply' = Reply("MoveJoint", "Error", None)
  /\ UNCHANGED robot

Stop(request) ==
  /\ request.type = "Stop"
  /\ robot' = Fire(Fire(robot, "CommandStop"), "StopComplete")
  /\ reply' = Reply("Stop", "Ok", None)

TriggerEStop == robot' = Fire(EngageBrakes(robot), "EStopTriggered")

EmergencyStop(request) ==
  /\ request.type = "EmergencyStop"
  /\ TriggerEStop
  /\ reply' = Reply("EmergencyStop", "Ok", None)

(* A command this server does not implement.                               *)
Refuse(request) ==
  /\ request.type \notin Implemented
  /\ reply' = Reply(request.type, "Error", None)
  /\ UNCHANGED robot

Dispatch(request) ==
  /\ reply = None
  /\ \/ GetStatus(request)
     \/ Enable(request)
     \/ Disable(request)
     \/ Home(request)
     \/ MoveJoint(request)
     \/ RejectMove(request)
     \/ Stop(request)
     \/ EmergencyStop(request)
     \/ Refuse(request)

-------------------------------------------------------------------------------
(* Mutated form: the guard on the controller's state dropped.              *)
ControlCycleInAnyState ==
  /\ robot' = UpdateJoints(robot)
  /\ UNCHANGED reply

(* ControlLoop::step: the joints advance only while the controller moves.  *)
ControlCycle ==
  /\ robot.controller = "Moving"
  /\ robot' = UpdateJoints(robot)
  /\ UNCHANGED reply

(* The watchdog's answer to a stalled control loop.                        *)
WatchdogStop == TriggerEStop /\ UNCHANGED reply

(* The reply reaches the client, or the connection breaks under it.        *)
Deliver ==
  /\ reply # None
  /\ reply' = None
  /\ UNCHANGED robot

Next ==
  \/ \E request \in Requests : Dispatch(request)
  \/ ControlCycle
  \/ WatchdogStop
  \/ Deliver

Spec == Init /\ [][Next]_vars

-------------------------------------------------------------------------------
(* Properties. *)

Status == [ controller : ControllerState,
            joints : [Joints -> [ position : Number, velocity : Number ]] ]

TypeOK ==
  /\ robot \in Robots
  /\ reply \in {None} \cup
               [ type : RequestTypes, status : {"Ok", "Error"}, body : {None} \cup Status ]

\* No sequence of commands and control cycles takes any joint's position,
\* velocity or target out of its limits (joint_state.hpp 16-17).
JointsInLimits == \A i \in Joints : InLimits(robot.joints[i])

\* The joints are enabled and disabled together, and the two states that say
\* the servos are off are only reached with every joint disabled
\* (controller_state.hpp 25-26; the dispatcher writes joints and controller
\* separately, command_dispatcher.cpp 67-82).
ServosOffMeansDisabled ==
  /\ \A i, j \in Joints : robot.joints[i].enabled = robot.joints[j].enabled
  /\ robot.controller \in {"Idle", "ServoOff"} =>
        \A i \in Joints : ~robot.joints[i].enabled

\* The client that gets the answer to a stop or an emergency stop knows the
\* robot is at that moment in no state from which it is moving, and after an
\* emergency stop in none from which the next MoveJoint could start it
\* without an Enable (command_dispatcher.cpp 114-123).
StopRepliesHold ==
  reply # None =>
    /\ reply.type = "Stop" => robot.controller \notin {"Moving", "Stopping"}
    /\ reply.type = "EmergencyStop" =>
         robot.controller \in {"EmergencyStop", "Idle", "ServoOff"}

\* Nothing the server offers leaves EmergencyStop, and from then on no joint
\* moves except by being homed (controller_state.hpp 32; ControlLoop::step
\* tests the state, control_loop.cpp 42-47).
EStopIsFinal ==
  [][ robot.controller = "EmergencyStop" =>
        /\ robot'.controller = "EmergencyStop"
        /\ \A i \in Joints :
             robot'.joints[i].position # robot.joints[i].position =>
               robot'.joints[i] = JointHome(robot.joints[i]) ]_vars

\* A joint moves only while the controller is Moving and the joint enabled, by
\* no more than one period of full speed; anything else that changes a
\* position is homing (joint.hpp 58-59, control_loop.hpp step).
MotionOnlyWhileMoving ==
  [][ \A i \in Joints :
        robot'.joints[i].position # robot.joints[i].position =>
          \/ robot'.joints[i] = JointHome(robot.joints[i])
          \/ /\ robot.controller = "Moving" /\ robot.joints[i].enabled
             /\ robot'.joints[i].position - robot.joints[i].position
                  \in -MaxVelocity .. MaxVelocity ]_vars

\* A request answered with an error changed nothing (joint.hpp 82-90,
\* server-integration.md 114).
ErrorMeansNoEffect ==
  [][ reply = None /\ reply' # None /\ reply'.status = "Error" => robot' = robot ]_vars
===============================================================================
