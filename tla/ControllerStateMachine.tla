------------------------ MODULE ControllerStateMachine ------------------------
(***************************************************************************)
(* The transition table of robot::controller::ControllerStateMachine.      *)
(*                                                                         *)
(* The class keeps one ControllerState and two flat constant tables of     *)
(* (from, event, to) rows.  It reads no clock and holds no reference, so   *)
(* it is modelled as operators over a controller state; a module that owns *)
(* a controller keeps that state in a variable of its own.                 *)
(***************************************************************************)

ControllerState ==
  { "PowerOff", "Booting", "Initializing", "Idle", "ServoOff", "ServoOn",
    "Ready", "Moving", "Paused", "Stopping", "EmergencyStop", "Fault",
    "Recovery", "Shutdown" }

ControllerEvent ==
  { "PowerOn", "BootComplete", "InitComplete", "ServoEnable", "ServoDisable",
    "ControllerReady", "CommandMove", "MotionComplete", "CommandPause",
    "CommandResume", "CommandStop", "StopComplete", "EStopTriggered",
    "EStopReset", "FaultDetected", "RecoveryStart", "RecoveryComplete",
    "PowerOff" }

(* Both tables together, read by event: in the code every event leads to   *)
(* one state, so its rows are the states it is accepted from ...           *)
AcceptedFrom ==
  [ PowerOn          |-> {"PowerOff"},
    BootComplete     |-> {"Booting"},
    InitComplete     |-> {"Initializing"},
    ServoEnable      |-> {"Idle", "ServoOff"},
    ServoDisable     |-> {"ServoOn", "Ready"},
    ControllerReady  |-> {"ServoOn"},
    CommandMove      |-> {"Ready"},
    MotionComplete   |-> {"Moving"},
    CommandPause     |-> {"Moving"},
    CommandResume    |-> {"Paused"},
    CommandStop      |-> {"Moving", "Paused", "Ready"},
    StopComplete     |-> {"Stopping"},
    EStopTriggered   |-> {"ServoOn", "Ready", "Moving", "Paused", "Stopping"},
    EStopReset       |-> {"EmergencyStop"},
    RecoveryStart    |-> {"Fault"},
    RecoveryComplete |-> {"Recovery"},
    FaultDetected    |-> {"Idle", "ServoOff", "ServoOn", "Ready", "Moving", "Paused",
                          "Stopping", "EmergencyStop"},
    PowerOff         |-> {"Idle", "ServoOff", "Ready", "Fault"} ]

(* ... and the state it leads to.                                          *)
LeadsTo ==
  [ PowerOn          |-> "Booting",
    BootComplete     |-> "Initializing",
    InitComplete     |-> "Idle",
    ServoEnable      |-> "ServoOn",
    ServoDisable     |-> "ServoOff",
    ControllerReady  |-> "Ready",
    CommandMove      |-> "Moving",
    MotionComplete   |-> "Ready",
    CommandPause     |-> "Paused",
    CommandResume    |-> "Moving",
    CommandStop      |-> "Stopping",
    StopComplete     |-> "Ready",
    EStopTriggered   |-> "EmergencyStop",
    EStopReset       |-> "Ready",
    RecoveryStart    |-> "Recovery",
    RecoveryComplete |-> "Ready",
    FaultDetected    |-> "Fault",
    PowerOff         |-> "Shutdown" ]

CanHandle(state, event) == state \in AcceptedFrom[event]

-------------------------------------------------------------------------------
(* Mutated forms of HandleEvent: a wrong or missing row.                   *)

\* ServoDisable accepted in Idle, which makes "never yet enabled" a lie.
HandleEventDisablesIdle(state, event) ==
  IF state = "Idle" /\ event = "ServoDisable" THEN "ServoOff"
  ELSE IF CanHandle(state, event) THEN LeadsTo[event] ELSE state

\* The (Moving, EStopTriggered) row forgotten.
HandleEventMovingIgnoresEStop(state, event) ==
  IF state = "Moving" /\ event = "EStopTriggered" THEN state
  ELSE IF CanHandle(state, event) THEN LeadsTo[event] ELSE state

\* CommandStop accepted in EmergencyStop: a stop would release the latch.
HandleEventStopReleasesEStop(state, event) ==
  IF state = "EmergencyStop" /\ event = "CommandStop" THEN "Stopping"
  ELSE IF CanHandle(state, event) THEN LeadsTo[event] ELSE state

-------------------------------------------------------------------------------
(* handleEvent: the destination of the matching row; a pair without a row  *)
(* is InvalidTransition and leaves the state alone.                        *)
HandleEvent(state, event) ==
  IF CanHandle(state, event) THEN LeadsTo[event] ELSE state
===============================================================================
