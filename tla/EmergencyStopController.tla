------------------------ MODULE EmergencyStopController ------------------------
(***************************************************************************)
(* robot::safety::EmergencyStopController over the controller state        *)
(* machine and a span of VirtualBrakes, driven through the public calls of *)
(* the three classes in any order a program using the libraries may choose.*)
(*                                                                         *)
(* The calls are made one at a time: none of the classes takes a lock, the *)
(* caller serialises them (EmulatorServer models how the emulator does).   *)
(***************************************************************************)
EXTENDS ControllerStateMachine

CONSTANT Brakes                 \* the brakes handed to the controller

VARIABLES
  controller,                   \* ControllerStateMachine::state_
  brakes,                       \* VirtualBrake::state_ of each brake
  servos,                       \* history: what the accepted servo events said last
  stopped,                      \* history: an accepted E-stop or fault not yet cleared
  faulted,                      \* history: FaultDetected was accepted at least once
  held                          \* history: a trigger came after the last release

vars == << controller, brakes, servos, stopped, faulted, held >>
history == << servos, stopped, faulted >>

BrakeState == { "Engaged", "Released" }

TypeOK ==
  /\ controller \in ControllerState
  /\ brakes \in [Brakes -> BrakeState]
  /\ servos \in { "never", "on", "off" }
  /\ stopped \in { "no", "estop", "fault" }
  /\ faulted \in BOOLEAN
  /\ held \in BOOLEAN

-------------------------------------------------------------------------------

Init ==
  /\ controller = "PowerOff"
  /\ brakes = [b \in Brakes |-> "Engaged"]
  /\ servos = "never"
  /\ stopped = "no"
  /\ faulted = FALSE
  /\ held = FALSE

(* What an accepted event adds to the history: a rejected one adds nothing.*)
Remember(event) ==
  LET accepted == CanHandle(controller, event) IN
  /\ servos' = IF accepted /\ event = "ServoEnable" THEN "on"
               ELSE IF accepted /\ event = "ServoDisable" THEN "off" ELSE servos
  /\ stopped' = IF accepted /\ event = "EStopTriggered" THEN "estop"
                ELSE IF accepted /\ event = "FaultDetected" THEN "fault"
                ELSE IF accepted /\ event \in {"EStopReset", "RecoveryComplete"} THEN "no"
                ELSE stopped
  /\ faulted' = (faulted \/ (accepted /\ event = "FaultDetected"))

(* ControllerStateMachine::handleEvent called directly.                    *)
Handle(event) ==
  /\ controller' = HandleEvent(controller, event)
  /\ Remember(event)
  /\ UNCHANGED << brakes, held >>

(* Mutated form: the brakes are engaged only if the transition is legal.   *)
TriggerGatedOnTransition ==
  /\ brakes' = IF CanHandle(controller, "EStopTriggered")
               THEN [b \in Brakes |-> "Engaged"] ELSE brakes
  /\ controller' = HandleEvent(controller, "EStopTriggered")
  /\ Remember("EStopTriggered")
  /\ held' = TRUE

(* EmergencyStopController::trigger: every brake first, then the event,    *)
(* whose result is discarded.                                              *)
Trigger ==
  /\ brakes' = [b \in Brakes |-> "Engaged"]
  /\ controller' = HandleEvent(controller, "EStopTriggered")
  /\ Remember("EStopTriggered")
  /\ held' = TRUE

(* EmergencyStopController::reset: the event only, never a brake.          *)
Reset ==
  /\ controller' = HandleEvent(controller, "EStopReset")
  /\ Remember("EStopReset")
  /\ UNCHANGED << brakes, held >>

(* VirtualBrake::engage and VirtualBrake::release of one brake.            *)
Engage(b) ==
  /\ brakes' = [brakes EXCEPT ![b] = "Engaged"]
  /\ UNCHANGED << controller, history, held >>

Release(b) ==
  /\ brakes' = [brakes EXCEPT ![b] = "Released"]
  /\ held' = FALSE
  /\ UNCHANGED << controller, history >>

Next ==
  \/ \E event \in ControllerEvent : Handle(event)
  \/ Trigger
  \/ Reset
  \/ \E b \in Brakes : Engage(b) \/ Release(b)

Spec == Init /\ [][Next]_vars

-------------------------------------------------------------------------------
(* Properties. *)

\* Servos as the state names and their comments tell it (controller_state.hpp
\* 22-27): up to Idle they were never enabled, ServoOff means disabled after
\* having been on, ServoOn enabled; and as long as no fault was ever detected
\* the states from Ready on are reached with servos on.
ServoHistoryMatchesState ==
  /\ controller \in {"PowerOff", "Booting", "Initializing", "Idle"} => servos = "never"
  /\ controller = "ServoOff" => servos = "off"
  /\ controller = "ServoOn" => servos = "on"
  /\ (controller \in {"Ready", "Moving", "Paused", "Stopping", "EmergencyStop"} /\ ~faulted)
       => servos = "on"

\* An emergency stop or a fault that was accepted keeps the controller out of
\* every operational state until it is cleared, whatever calls come between
\* (controller_state.hpp 32, phase-02 brief 150).
StoppedUntilCleared ==
  /\ stopped = "estop" => controller = "EmergencyStop"
  /\ stopped = "fault" => controller \in {"Fault", "Recovery", "Shutdown"}

\* Once triggered, the brakes stay engaged until somebody releases one: no
\* transition, accepted or not, and no reset lets go of them
\* (emergency_stop_controller.hpp 38-51).
TriggerHoldsBrakes == held => \A b \in Brakes : brakes[b] = "Engaged"
===============================================================================
