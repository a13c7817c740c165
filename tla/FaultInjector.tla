----------------------------- MODULE FaultInjector -----------------------------
(***************************************************************************)
(* robot::fault::FaultInjector wired to the classes its handlers are meant *)
(* for: the emergency stop controller with its state machine and brakes,   *)
(* and an encoder sensor.  The repository ships the injector unwired and   *)
(* leaves the handlers to the caller; Scripts holds the ones registered    *)
(* here, each the list of calls its body makes.                            *)
(*                                                                         *)
(* Everything runs on one thread: inject calls the handler and returns     *)
(* after it, a handler that injects calls another handler inside itself.   *)
(* todo is what is left of the running handlers' bodies, innermost first;  *)
(* the callers of all these classes have their turn when it is empty.      *)
(*                                                                         *)
(* A handler that registers another one for its own fault would destroy    *)
(* the function it is running in; no script does.                          *)
(***************************************************************************)
EXTENDS EmergencyStopController, Devices, SequencesExt

CONSTANTS
  Faults,                       \* the ActiveFaults in use: a type and a joint, or None
  Scripts,                      \* the handlers callers register, by type of fault
  Positions,                    \* the true positions the encoder is shown
  Noise, Offset, Resolution,    \* the encoder's
  None                          \* no joint, no handler, no reading

VARIABLES
  active,                       \* FaultInjector::active_
  handlers,                     \* FaultInjector::handlers_
  todo,                         \* calls the running handlers have yet to make
  encoder,                      \* the EncoderSensor
  reading,                      \* what the call just made read from it, or None
  standing,                     \* history: faults injected and not cleared since
  stopDue,                      \* history: a fault whose handler stops the robot was injected
  healthy                       \* history: what the last read in mode None returned

injector == << active, handlers, todo, standing, stopDue >>
sensor == << encoder, healthy >>
allVars == << vars, injector, sensor, reading >>

FaultType == {fault.type : fault \in Faults}

(* The bodies of handlers: stop the robot, report to the state machine, set*)
(* the encoder's mode, clear the fault in hand, inject a robot-wide one.   *)
Calls ==
  [ call : {"trigger", "report", "clear"} ]
    \cup [ call : {"setFailureMode"}, mode : EncoderFailureMode ]
    \cup [ call : {"inject"}, type : FaultType ]

(* EncoderSensor::create refuses a negative deviation of the noise, and     *)
(* VirtualEncoder::create a turn of no counts.                              *)
ASSUME SensorAssumption ==
  /\ Positions \subseteq Int /\ Offset \in Int
  /\ Noise \in Nat /\ Resolution \in Nat \ {0}
  /\ NaN \notin Int

ASSUME ScriptsAssumption == \A type \in FaultType : Scripts[type] \subseteq Seq(Calls)

FaultInit ==
  /\ Init
  /\ active = << >> /\ standing = {}
  /\ handlers = [type \in FaultType |-> << >>]
  /\ todo = << >>
  /\ encoder = NewEncoderSensor /\ healthy = 0
  /\ reading = None
  /\ stopDue = FALSE

-------------------------------------------------------------------------------
(* FaultInjector's methods.  No handler registered is the empty script.    *)

Register(type, script) ==
  /\ handlers' = [handlers EXCEPT ![type] = script]
  /\ UNCHANGED << vars, sensor, active, todo, standing, stopDue >>

(* Does the handler of this type, or one it calls, trigger the stop?       *)
StopsRobot(type) ==
  \E call \in ToSet(handlers[type]) :
    \/ call.call = "trigger"
    \/ call.call = "inject" /\ [ call |-> "trigger" ] \in ToSet(handlers[call.type])

(* The handler is called for every injection, with the joint's index: its  *)
(* body goes before what is left of the bodies it is called from.          *)
InjectBefore(fault, rest) ==
  /\ active' = IF fault \in ToSet(active) THEN active ELSE Append(active, fault)
  /\ todo' = [k \in DOMAIN handlers[fault.type] |->
                [ call |-> handlers[fault.type][k], fault |-> fault ]] \o rest
  /\ standing' = standing \cup {fault}
  /\ stopDue' = (stopDue \/ StopsRobot(fault.type))
  /\ UNCHANGED << vars, sensor, handlers >>

(* Mutated form: the handler is called only for a fault not yet active.    *)
InjectOnce(fault) ==
  IF fault \in ToSet(active)
  THEN /\ stopDue' = (stopDue \/ StopsRobot(fault.type))
       /\ UNCHANGED << vars, sensor, handlers, active, todo, standing >>
  ELSE InjectBefore(fault, << >>)

Inject(fault) == InjectBefore(fault, << >>)

(* std::erase: the elements of s that are not erased, in their order.      *)
Without(s, erased) ==
  LET kept[n \in 0 .. Len(s)] ==
        IF n = 0 THEN << >>
        ELSE IF s[n] \in erased THEN kept[n - 1] ELSE Append(kept[n - 1], s[n])
  IN  kept[Len(s)]

(* Mutated form: only the type is compared.                                *)
ClearType(fault) ==
  /\ active' = Without(active, {other \in ToSet(active) : other.type = fault.type})
  /\ standing' = standing \ {fault}
  /\ UNCHANGED << vars, sensor, handlers, stopDue >>

Clear(fault) ==
  /\ active' = Without(active, {fault})
  /\ standing' = standing \ {fault}
  /\ UNCHANGED << vars, sensor, handlers, stopDue >>

ClearAll ==
  /\ active' = << >> /\ standing' = {}
  /\ UNCHANGED << vars, sensor, handlers, todo, stopDue >>

-------------------------------------------------------------------------------
(* EncoderSensor's methods.                                                *)

SetMode(mode) ==
  /\ encoder' = SetFailureMode(encoder, mode)
  /\ UNCHANGED << vars, active, handlers, standing, stopDue, healthy >>

Read(position) ==
  \E read \in EncoderReads(encoder, position, Offset, Noise, Resolution) :
    /\ encoder' = read.sensor
    /\ reading' = [ mode |-> encoder.mode, position |-> position, value |-> read.value ]
    /\ healthy' = IF encoder.mode = "None" THEN read.value ELSE healthy
    /\ UNCHANGED << vars, injector >>

-------------------------------------------------------------------------------
(* The next call a running handler makes.                                  *)
HandlerCall ==
  /\ todo # << >>
  /\ reading' = None
  /\ LET next == Head(todo) IN
     \/ /\ next.call.call = "trigger"
        /\ Trigger
        /\ UNCHANGED << active, handlers, standing, stopDue, sensor >>
        /\ todo' = Tail(todo)
     \/ /\ next.call.call = "report"
        /\ Handle("FaultDetected")
        /\ UNCHANGED << active, handlers, standing, stopDue, sensor >>
        /\ todo' = Tail(todo)
     \/ next.call.call = "clear" /\ Clear(next.fault) /\ todo' = Tail(todo)
     \/ /\ next.call.call = "setFailureMode"
        /\ SetMode(next.call.mode)
        /\ todo' = Tail(todo)
     \/ /\ next.call.call = "inject"
        /\ InjectBefore([ type |-> next.call.type, joint |-> None ], Tail(todo))

(* What the owners of the other objects call: all of EmergencyStop-        *)
(* Controller's Next, of which a release ends what a stop was due.         *)
OwnerOfStop ==
  \/ /\ \/ \E event \in ControllerEvent : Handle(event)
        \/ Trigger
        \/ Reset
        \/ \E b \in Brakes : Engage(b)
     /\ UNCHANGED << injector, sensor >>
  \/ /\ \E b \in Brakes : Release(b)
     /\ stopDue' = FALSE
     /\ UNCHANGED << active, handlers, todo, standing, sensor >>

OwnerCall ==
  /\ todo = << >>
  /\ \/ \E position \in Positions : Read(position)
     \/ /\ reading' = None
        /\ \/ \E fault \in Faults : Inject(fault)
           \/ \E fault \in Faults : Clear(fault) /\ UNCHANGED todo
           \/ ClearAll
           \/ \E type \in FaultType : \E script \in Scripts[type] : Register(type, script)
           \/ \E mode \in EncoderFailureMode : SetMode(mode) /\ UNCHANGED todo
           \/ OwnerOfStop

FaultNext == HandlerCall \/ OwnerCall

FaultSpec == FaultInit /\ [][FaultNext]_allVars

-------------------------------------------------------------------------------
(* Properties. *)

FaultTypeOK ==
  /\ TypeOK
  /\ active \in Seq(Faults) /\ standing \subseteq Faults
  /\ handlers \in [FaultType -> Seq(Calls)]
  /\ todo \in Seq([ call : Calls, fault : Faults ])
  /\ encoder \in [ mode : EncoderFailureMode, last : Number ]
  /\ stopDue \in BOOLEAN

\* The faults reported active are those injected and not cleared since, each
\* once, also while a handler injects and clears others (fault_injector.hpp
\* 49-52 and 55, fault_injector_test 80, 101).
FaultsAsInjected ==
  /\ ToSet(active) = standing
  /\ \A i, j \in DOMAIN active : active[i] = active[j] => i = j

\* When inject returns, a fault whose handler stops the robot has stopped it,
\* however often it was active before and whatever state the controller is in:
\* the brakes hold until somebody releases one (fault_injector.hpp 49-52 "the
\* handler, if any, is still invoked every call").
InjectionStopsRobot ==
  todo = << >> /\ stopDue => \A b \in Brakes : brakes[b] = "Engaged"

\* What an encoder tells: within noise, offset and half a count of the truth in
\* normal operation; stuck, what it last told then, whatever it was in between;
\* and NaN when and only when it is disconnected (encoder_sensor.hpp 58-65).
EncoderTells ==
  reading # None =>
    /\ reading.value = NaN <=> reading.mode = "Disconnected"
    /\ reading.mode = "Stuck" => reading.value = healthy
    /\ reading.mode = "None" =>
         2 * Abs(reading.value - reading.position) <= 2 * (Noise + Abs(Offset)) + Resolution
===============================================================================
