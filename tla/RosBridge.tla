------------------------------- MODULE RosBridge -------------------------------
(***************************************************************************)
(* The ros2_control hardware interface as a client of the emulator: its    *)
(* lifecycle, the cycles of read and write the controller manager drives   *)
(* it through, and the service it calls over one connection.               *)
(*                                                                         *)
(* The serving loop keeps to one connection at a time.  While it is the    *)
(* bridge's, no other client is answered; while the bridge waits in the    *)
(* backlog or has no connection, the operator's commands are.  read and    *)
(* write are called by one thread, in turn, and wait without a timeout.    *)
(***************************************************************************)
EXTENDS RobotService

CONSTANT BridgeJoints           \* how many joints the URDF gives the bridge

\* on_init refuses more joints than a joint index can name; the commands it
\* starts with are zeros, and a request can carry them.
ASSUME BridgeAssumption ==
  /\ BridgeJoints \in 1 .. 255
  /\ 0 \in Targets
  /\ {"GetStatus", "MoveJoint"} \subseteq RequestTypes

\* None is no reply.
ASSUME ReplyAssumption ==
  None \notin [ type : RequestTypes, status : {"Ok", "Error"}, body : {None} \cup Status ]

VARIABLE
  bridge                        \* the hardware interface, its client included

bridgeVars == << robot, reply, bridge >>

Axes == 0 .. BridgeJoints - 1

(* What read copies into the state interfaces is for the controllers: the  *)
(* bridge never looks at it again, and it is left out.                     *)
NewBridge ==
  [ link |-> "none", call |-> "idle", next |-> 0, commands |-> [i \in Axes |-> 0] ]

BridgeInit == Init /\ bridge = NewBridge

Idle   == bridge.call = "idle"
Served == bridge.link = "served"

Return == bridge' = [bridge EXCEPT !.call = "idle", !.next = 0]

-------------------------------------------------------------------------------
(* The lifecycle.  A connect that fails leaves everything as it was; one   *)
(* that succeeds has reached the backlog, not the serving loop.            *)
Activate ==
  /\ Idle /\ bridge.link = "none"
  /\ bridge' = [bridge EXCEPT !.link = "queued"]
  /\ UNCHANGED vars

Deactivate ==
  /\ Idle /\ bridge.link # "none"
  /\ bridge' = [bridge EXCEPT !.link = "none"]
  /\ UNCHANGED vars

AcceptBridge ==
  /\ bridge.link = "queued" /\ reply = None
  /\ bridge' = [bridge EXCEPT !.link = "served"]
  /\ UNCHANGED vars

(* The connection is lost, and with it an answer on its way; the call that *)
(* waits for it fails, and the client stays, useless, until deactivated.   *)
Break ==
  /\ bridge.link \in {"queued", "served"}
  /\ bridge' = [bridge EXCEPT !.link = "lost", !.call = "idle", !.next = 0]
  /\ reply' = IF Served THEN None ELSE reply
  /\ UNCHANGED robot

(* The controller manager's process ends, by SIGPIPE for one, and begins   *)
(* again.                                                                  *)
Restart ==
  /\ bridge' = NewBridge
  /\ reply' = IF Served THEN None ELSE reply
  /\ UNCHANGED robot

-------------------------------------------------------------------------------
(* A controller writes the command interface of an axis between cycles.    *)
SetCommand(i, radians) ==
  /\ Idle
  /\ bridge' = [bridge EXCEPT !.commands[i] = radians]
  /\ UNCHANGED vars

(* read and write ask over the connection there is; without one they       *)
(* return ERROR and change nothing.                                        *)
StartCall(call) ==
  /\ Idle
  /\ bridge.link \in {"queued", "served"}
  /\ bridge' = [bridge EXCEPT !.call = call]
  /\ UNCHANGED vars

StatusRequest == [type |-> "GetStatus", truncated |-> FALSE, joint |-> 0, target |-> 0]

(* The emulator has no more to say of a joint past its last than of the    *)
(* one after it.                                                           *)
MoveRequest ==
  [ type |-> "MoveJoint", truncated |-> FALSE, target |-> bridge.commands[bridge.next],
    joint |-> IF bridge.next < JointCount THEN bridge.next ELSE JointCount ]

AskStatus ==
  /\ Served /\ bridge.call = "read"
  /\ Dispatch(StatusRequest)
  /\ UNCHANGED bridge

AskMove ==
  /\ Served /\ bridge.call = "write"
  /\ Dispatch(MoveRequest)
  /\ UNCHANGED bridge

TakeStatus ==
  /\ Served /\ bridge.call = "read"
  /\ Deliver
  /\ Return

(* Mutated form: a joint that was refused is left out, and write goes on.  *)
TakeAnswerGoesOn ==
  /\ Served /\ bridge.call = "write"
  /\ Deliver
  /\ IF bridge.next = BridgeJoints - 1
       THEN Return
       ELSE bridge' = [bridge EXCEPT !.next = @ + 1]

(* Mutated form: a joint that was refused is asked again until it is not.  *)
TakeAnswerRetries ==
  /\ Served /\ bridge.call = "write"
  /\ Deliver
  /\ CASE reply.status = "Error" -> UNCHANGED bridge
       [] reply.status = "Ok" /\ bridge.next = BridgeJoints - 1 -> Return
       [] OTHER -> bridge' = [bridge EXCEPT !.next = @ + 1]

(* write: one MoveJoint per axis, in order, until one is refused.  It      *)
(* returns OK when the last was not.                                       *)
TakeAnswer ==
  /\ Served /\ bridge.call = "write"
  /\ Deliver
  /\ IF reply.status = "Error" \/ bridge.next = BridgeJoints - 1
       THEN Return
       ELSE bridge' = [bridge EXCEPT !.next = @ + 1]

-------------------------------------------------------------------------------
(* Everyone else: the operator's robotctl while the serving loop is free   *)
(* of the bridge, the control thread and the watchdog always.              *)
OperatorDispatch(request) == ~Served /\ Dispatch(request) /\ UNCHANGED bridge
OperatorDeliver           == ~Served /\ Deliver /\ UNCHANGED bridge
Cycle                     == ControlCycle /\ UNCHANGED bridge
Stopped                   == WatchdogStop /\ UNCHANGED bridge

Lifecycle == Activate \/ Deactivate \/ AcceptBridge \/ Break \/ Restart
Exchange  == AskStatus \/ AskMove \/ TakeStatus \/ TakeAnswer

BridgeNext ==
  \/ Lifecycle
  \/ \E i \in Axes, radians \in Targets : SetCommand(i, radians)
  \/ \E call \in {"read", "write"} : StartCall(call)
  \/ Exchange
  \/ \E request \in Requests : OperatorDispatch(request)
  \/ OperatorDeliver
  \/ Cycle
  \/ Stopped

BridgeSpec == BridgeInit /\ [][BridgeNext]_bridgeVars

(* The connection the serving loop has accepted is served.                 *)
FairBridgeSpec == BridgeSpec /\ WF_bridgeVars(Exchange)

-------------------------------------------------------------------------------
(* Properties. *)

\* What the emulator was asked to do is told by write's result: all of the
\* commands when it returned OK; when it returned ERROR, those before the joint
\* it got to, and no joint after it changed its target in between
\* (hardware_interface.cpp 103-122: one MoveJoint per joint, up to the first
\* failure).
Returned == IF bridge'.link = "served" /\ reply.status = "Ok" THEN "OK" ELSE "ERROR"
Reached  == IF Returned = "OK" THEN BridgeJoints ELSE bridge.next

WritesInOrder ==
  [][ Served /\ bridge.call = "write" =>
        /\ \A i \in Joints :
             robot'.joints[i].targetPosition # robot.joints[i].targetPosition =>
               i = bridge.next /\ robot'.joints[i].targetPosition = bridge.commands[i]
        /\ bridge'.call = "idle" /\ bridge'.link # "none" =>
             \A i \in Axes : i < Reached =>
               i \in Joints /\ robot.joints[i].targetPosition = bridge.commands[i] ]_bridgeVars

\* A read or a write on an accepted connection returns: OK, or ERROR at the
\* first joint that is refused (client.cpp 63-117 waits without a timeout, and
\* the controller manager's thread with it).
BridgeCallsReturn == Served /\ ~Idle ~> Idle
===============================================================================
