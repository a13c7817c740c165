-------------------------- MODULE FaultInjectorProofs --------------------------
(***************************************************************************)
(* The invariants of EmergencyStopController alone, for any set of brakes, *)
(* and of the whole that FaultInjector wires around it, for any faults, any*)
(* handlers and any encoder.                                               *)
(***************************************************************************)
EXTENDS FaultInjector, SequenceTheorems, WellFoundedInduction, TLAPS

\* handleEvent leads to a controller state and nowhere else: the type of the
\* transition table (controller_state_machine.cpp 109-116).
LEMMA HandleEventType ==
  ASSUME NEW s \in ControllerState, NEW e \in ControllerEvent
  PROVE  HandleEvent(s, e) \in ControllerState
<1>1. LeadsTo[e] \in ControllerState
  BY DEF LeadsTo, ControllerState, ControllerEvent
<1> QED
  BY <1>1 DEF HandleEvent

\* The classes keep their types under any sequence of calls.
THEOREM TypeCorrect == Spec => []TypeOK
<1>1. Init => TypeOK
  BY DEF Init, TypeOK, ControllerState, BrakeState
<1>2. TypeOK /\ [Next]_vars => TypeOK'
  <2> SUFFICES ASSUME TypeOK, [Next]_vars PROVE TypeOK'
    OBVIOUS
  <2>1. ASSUME NEW e \in ControllerEvent, controller' = HandleEvent(controller, e), Remember(e)
        PROVE  /\ controller' \in ControllerState
               /\ servos' \in { "never", "on", "off" }
               /\ stopped' \in { "no", "estop", "fault" }
               /\ faulted' \in BOOLEAN
    <3>1. controller' \in ControllerState
      BY <2>1, HandleEventType DEF TypeOK
    <3> QED
      BY <2>1, <3>1 DEF TypeOK, Remember
  <2>2. CASE \E e \in ControllerEvent : Handle(e)
    BY <2>1, <2>2 DEF Handle, TypeOK
  <2>3. CASE Trigger
    <3>1. "EStopTriggered" \in ControllerEvent
      BY DEF ControllerEvent
    <3> QED
      BY <2>1, <2>3, <3>1 DEF Trigger, TypeOK, BrakeState
  <2>4. CASE Reset
    <3>1. "EStopReset" \in ControllerEvent
      BY DEF ControllerEvent
    <3> QED
      BY <2>1, <2>4, <3>1 DEF Reset, TypeOK
  <2>5. CASE \E b \in Brakes : Engage(b) \/ Release(b)
    BY <2>5 DEF Engage, Release, TypeOK, history, BrakeState
  <2>6. CASE UNCHANGED vars
    BY <2>6 DEF vars, TypeOK
  <2> QED
    BY <2>2, <2>3, <2>4, <2>5, <2>6 DEF Next
<1> QED
  BY <1>1, <1>2, PTL DEF Spec

-------------------------------------------------------------------------------
(* The history invariants are inductive together with one fact more: Fault *)
(* and Recovery are only entered through FaultDetected.                    *)
HistoryInv ==
  /\ TypeOK
  /\ ServoHistoryMatchesState
  /\ StoppedUntilCleared
  /\ controller \in {"Fault", "Recovery"} => faulted

\* Any event, accepted or not, keeps the history invariants.
LEMMA EventKeepsHistory ==
  ASSUME HistoryInv, NEW e \in ControllerEvent,
         controller' = HandleEvent(controller, e), Remember(e), TypeOK'
  PROVE  HistoryInv'
<1> USE DEF HistoryInv, TypeOK
<1>1. CASE ~CanHandle(controller, e)
  BY <1>1 DEF HandleEvent, Remember, ServoHistoryMatchesState, StoppedUntilCleared
<1>2. CASE CanHandle(controller, e)
  <2>1. controller \in AcceptedFrom[e] /\ controller' = LeadsTo[e]
    BY <1>2 DEF CanHandle, HandleEvent
  <2>2. /\ servos' = IF e = "ServoEnable" THEN "on"
                     ELSE IF e = "ServoDisable" THEN "off" ELSE servos
        /\ stopped' = IF e = "EStopTriggered" THEN "estop"
                      ELSE IF e = "FaultDetected" THEN "fault"
                      ELSE IF e \in {"EStopReset", "RecoveryComplete"} THEN "no" ELSE stopped
        /\ faulted' = (faulted \/ e = "FaultDetected")
    BY <1>2 DEF Remember
  <2>3. ServoHistoryMatchesState'
    BY <2>1, <2>2 DEF ServoHistoryMatchesState, AcceptedFrom, LeadsTo, ControllerEvent
  <2>4. StoppedUntilCleared'
    BY <2>1, <2>2 DEF StoppedUntilCleared, AcceptedFrom, LeadsTo, ControllerEvent
  <2>5. (controller \in {"Fault", "Recovery"} => faulted)'
    <3>1. LeadsTo[e] = "Fault" => e = "FaultDetected"
      BY DEF LeadsTo, ControllerEvent
    <3>2. LeadsTo[e] = "Recovery" => e = "RecoveryStart"
      BY DEF LeadsTo, ControllerEvent
    <3>3. e = "RecoveryStart" => controller = "Fault"
      BY <2>1 DEF AcceptedFrom
    <3>4. CASE e = "FaultDetected"
      BY <2>2, <3>4
    <3>5. CASE e # "FaultDetected"
      BY <2>1, <2>2, <3>1, <3>2, <3>3, <3>5
    <3> QED
      BY <3>4, <3>5
  <2> QED
    BY <2>3, <2>4, <2>5
<1> QED
  BY <1>1, <1>2

LEMMA HistoryInvCorrect == Spec => []HistoryInv
<1>1. Init => HistoryInv
  BY DEF Init, HistoryInv, TypeOK, ControllerState, BrakeState,
         ServoHistoryMatchesState, StoppedUntilCleared
<1>2. HistoryInv /\ TypeOK' /\ [Next]_vars => HistoryInv'
  <2> SUFFICES ASSUME HistoryInv, TypeOK', [Next]_vars PROVE HistoryInv'
    OBVIOUS
  <2>1. CASE \E e \in ControllerEvent : Handle(e)
    BY <2>1, EventKeepsHistory DEF Handle
  <2>2. CASE Trigger
    <3>1. "EStopTriggered" \in ControllerEvent
      BY DEF ControllerEvent
    <3> QED
      BY <2>2, <3>1, EventKeepsHistory DEF Trigger
  <2>3. CASE Reset
    <3>1. "EStopReset" \in ControllerEvent
      BY DEF ControllerEvent
    <3> QED
      BY <2>3, <3>1, EventKeepsHistory DEF Reset
  <2>4. CASE \E b \in Brakes : Engage(b) \/ Release(b)
    BY <2>4 DEF Engage, Release, history, HistoryInv,
                ServoHistoryMatchesState, StoppedUntilCleared
  <2>5. CASE UNCHANGED vars
    BY <2>5 DEF vars, HistoryInv, ServoHistoryMatchesState, StoppedUntilCleared
  <2> QED
    BY <2>1, <2>2, <2>3, <2>4, <2>5 DEF Next
<1> QED
  BY <1>1, <1>2, TypeCorrect, PTL DEF Spec

\* What the state names say happened to the servos did happen, for any set of
\* brakes and any sequence of calls (controller_state.hpp 22-27).
THEOREM ServoHistoryCorrect == Spec => []ServoHistoryMatchesState
<1>1. HistoryInv => ServoHistoryMatchesState
  BY DEF HistoryInv
<1> QED
  BY <1>1, HistoryInvCorrect, PTL

\* An accepted emergency stop or fault keeps the controller out of the
\* operational states until it is cleared, whatever is called in between
\* (controller_state.hpp 32).
THEOREM StoppedCorrect == Spec => []StoppedUntilCleared
<1>1. HistoryInv => StoppedUntilCleared
  BY DEF HistoryInv
<1> QED
  BY <1>1, HistoryInvCorrect, PTL

\* After a trigger every brake is engaged until somebody releases one
\* (emergency_stop_controller.cpp 18-36: trigger engages whatever the
\* transition's outcome, reset touches no brake).
THEOREM TriggerCorrect == Spec => []TriggerHoldsBrakes
<1>1. Init => TriggerHoldsBrakes
  BY DEF Init, TriggerHoldsBrakes
<1>2. TypeOK /\ TriggerHoldsBrakes /\ [Next]_vars => TriggerHoldsBrakes'
  BY DEF TypeOK, TriggerHoldsBrakes, Next, vars, Handle, Trigger, Reset, Engage, Release
<1> QED
  BY <1>1, <1>2, TypeCorrect, PTL DEF Spec

-------------------------------------------------------------------------------
\* Injector, handlers and encoder use the emergency stop controller through its
\* own calls, so that all of the above holds of it inside the whole, whatever
\* the handlers do (fault_injector.cpp 20-29 calls them and nothing else).
THEOREM InjectorUsesStop == FaultSpec => Spec
<1>1. FaultInit => Init
  BY DEF FaultInit
<1>2. [FaultNext]_allVars => [Next]_vars
  <2> SUFFICES ASSUME [FaultNext]_allVars PROVE [Next]_vars
    OBVIOUS
  <2>1. "FaultDetected" \in ControllerEvent
    BY DEF ControllerEvent
  <2>2. CASE HandlerCall
    BY <2>1, <2>2 DEF HandlerCall, Clear, SetMode, InjectBefore, Next
  <2>3. CASE OwnerOfStop
    BY <2>3 DEF OwnerOfStop, Next
  <2>4. CASE OwnerCall /\ ~OwnerOfStop
    BY <2>4 DEF OwnerCall, Read, Inject, InjectBefore, Clear, ClearAll, Register, SetMode
  <2> QED
    BY <2>2, <2>3, <2>4 DEF FaultNext, allVars
<1> QED
  BY <1>1, <1>2, PTL DEF FaultSpec, Spec

-------------------------------------------------------------------------------
(* A stop that is due is done or lies ahead: the brakes hold, or a call    *)
(* that triggers is among those the running handlers have yet to make.     *)

Pending == [ call : Calls, fault : Faults \cup [ type : FaultType, joint : {None} ] ]

Triggers(call) ==
  \/ call.call = "trigger"
  \/ call.call = "inject" /\ [ call |-> "trigger" ] \in ToSet(handlers[call.type])

Ahead(calls) == \E k \in DOMAIN calls : Triggers(calls[k].call)
Holding == \A b \in Brakes : brakes[b] = "Engaged"

HandlersTyped ==
  /\ handlers \in [FaultType -> Seq(Calls)]
  /\ todo \in Seq(Pending)

StopInv == HandlersTyped /\ (stopDue => Holding \/ Ahead(todo))

\* The sequence facts, of the calls that are pending.
LEMMA PendingTail ==
  ASSUME NEW s \in Seq(Pending), s # << >>
  PROVE  /\ Head(s) \in Pending /\ Tail(s) \in Seq(Pending)
         /\ Ahead(s) => Triggers(Head(s).call) \/ Ahead(Tail(s))
<1>1. /\ Head(s) \in Pending /\ Tail(s) \in Seq(Pending) /\ Head(s) = s[1]
      /\ Len(s) \in Nat /\ Len(Tail(s)) = Len(s) - 1
      /\ \A i \in 1 .. Len(Tail(s)) : Tail(s)[i] = s[i + 1]
  BY HeadTailProperties
<1>2. DOMAIN s = 1 .. Len(s) /\ DOMAIN Tail(s) = 1 .. Len(Tail(s))
  BY <1>1
<1>3. ASSUME NEW k \in DOMAIN s, Triggers(s[k].call), k # 1
      PROVE  Ahead(Tail(s))
  <2>1. k - 1 \in DOMAIN Tail(s) /\ Tail(s)[k - 1] = s[k]
    BY <1>1, <1>2, <1>3
  <2> QED
    BY <1>3, <2>1 DEF Ahead
<1> QED
  BY <1>1, <1>3 DEF Ahead

\* What an injection makes pending: the body of its handler, then the rest.
LEMMA InjectionAhead ==
  ASSUME HandlersTyped, NEW fault \in Faults \cup [ type : FaultType, joint : {None} ],
         NEW rest \in Seq(Pending), InjectBefore(fault, rest)
  PROVE  /\ HandlersTyped' /\ UNCHANGED << brakes, handlers >>
         /\ stopDue' = (stopDue \/ StopsRobot(fault.type))
         /\ StopsRobot(fault.type) \/ Ahead(rest) => Ahead(todo')
<1> DEFINE script == handlers[fault.type]
           body == [k \in DOMAIN script |-> [ call |-> script[k], fault |-> fault ]]
<1>1. fault.type \in FaultType
  BY DEF FaultType
<1>2. script \in Seq(Calls) /\ Len(script) \in Nat
  BY <1>1 DEF HandlersTyped
<1>3. \A k \in DOMAIN script : script[k] \in Calls
  BY <1>2
<1>4. /\ todo' = body \o rest /\ UNCHANGED << brakes, handlers >>
      /\ stopDue' = (stopDue \/ StopsRobot(fault.type))
  BY DEF InjectBefore, vars
<1>5. DOMAIN script = 1 .. Len(script)
  BY <1>2
<1> HIDE DEF script
<1>6. \A k \in DOMAIN script : body[k] \in Pending /\ body[k].call = script[k]
  BY <1>3 DEF Pending
<1>7. body \in Seq(Pending) /\ Len(body) = Len(script)
  <2>1. body \in [1 .. Len(script) -> Pending]
    BY <1>5, <1>6
  <2> QED
    BY <1>2, <2>1
<1> HIDE DEF body
<1>8. /\ body \o rest \in Seq(Pending) /\ Len(body \o rest) = Len(body) + Len(rest)
      /\ \A i \in 1 .. Len(body) + Len(rest) :
           (body \o rest)[i] = IF i <= Len(body) THEN body[i] ELSE rest[i - Len(body)]
  BY <1>7, ConcatProperties
<1>9. DOMAIN todo' = 1 .. Len(body) + Len(rest) /\ Len(body) \in Nat /\ Len(rest) \in Nat
  BY <1>4, <1>7, <1>8
<1>10. ASSUME StopsRobot(fault.type)
       PROVE  Ahead(todo')
  <2>1. \E k \in DOMAIN script : Triggers(script[k])
    <3>1. PICK call \in ToSet(script) : Triggers(call)
      BY Zenon, <1>10 DEF StopsRobot, Triggers, script
    <3>2. PICK k \in DOMAIN script : call = script[k]
      BY Zenon, <3>1 DEF ToSet
    <3> QED
      BY Zenon, <3>1, <3>2
  <2> PICK k \in DOMAIN script : Triggers(script[k])
    BY <2>1
  <2>2. k \in DOMAIN todo' /\ todo'[k].call = script[k]
    BY <1>2, <1>4, <1>5, <1>6, <1>7, <1>8, <1>9
  <2> QED
    BY <2>1, <2>2 DEF Ahead
<1>11. ASSUME Ahead(rest)
       PROVE  Ahead(todo')
  <2>1. PICK k \in DOMAIN rest : Triggers(rest[k].call)
    BY <1>11 DEF Ahead
  <2>2. k \in 1 .. Len(rest)
    OBVIOUS
  <2>3. Len(body) + k \in DOMAIN todo' /\ todo'[Len(body) + k] = rest[k]
    BY <2>2, <1>4, <1>8, <1>9
  <2> QED
    BY <2>1, <2>3 DEF Ahead
<1> QED
  BY <1>4, <1>8, <1>10, <1>11 DEF HandlersTyped

\* A stop that is due is done or lies ahead, throughout.
LEMMA StopInvCorrect == FaultSpec => []StopInv
<1>1. FaultInit => StopInv
  BY DEF FaultInit, StopInv, HandlersTyped
<1>2. StopInv /\ [FaultNext]_allVars => StopInv'
  <2> SUFFICES ASSUME StopInv, [FaultNext]_allVars PROVE StopInv'
    OBVIOUS
  <2>1. HandlersTyped /\ (stopDue => Holding \/ Ahead(todo))
    BY DEF StopInv
  <2>2. CASE HandlerCall
    <3> DEFINE next == Head(todo)
    <3>1. /\ next \in Pending /\ Tail(todo) \in Seq(Pending)
          /\ Ahead(todo) => Triggers(next.call) \/ Ahead(Tail(todo))
      BY <2>1, <2>2, PendingTail DEF HandlerCall, HandlersTyped
    <3>2. ASSUME handlers' = handlers, stopDue' = stopDue, todo' = Tail(todo),
                 Holding' \/ (UNCHANGED brakes /\ ~Triggers(next.call))
          PROVE  StopInv'
      <4>1. HandlersTyped'
        BY <2>1, <3>1, <3>2 DEF HandlersTyped
      <4>2. CASE Holding'
        BY <4>1, <4>2 DEF StopInv
      <4>3. CASE UNCHANGED brakes /\ ~Triggers(next.call)
        <5>1. Ahead(todo) => Ahead(todo)'
          BY <3>1, <3>2, <4>3 DEF Ahead, Triggers
        <5> QED
          BY <2>1, <3>2, <4>1, <4>3, <5>1 DEF StopInv, Holding
      <4> QED
        BY <3>2, <4>2, <4>3
    <3>3. CASE next.call.call = "trigger" /\ Trigger /\ todo' = Tail(todo)
                 /\ UNCHANGED << handlers, stopDue >>
      <4>1. Holding'
        BY <3>3 DEF Trigger, Holding
      <4> QED
        BY <3>2, <3>3, <4>1
    <3>4. CASE next.call.call \in {"report", "clear", "setFailureMode"} /\ UNCHANGED brakes
                 /\ todo' = Tail(todo) /\ UNCHANGED << handlers, stopDue >>
      <4>1. ~Triggers(next.call)
        BY <3>4 DEF Triggers
      <4> QED
        BY <3>2, <3>4, <4>1
    <3>5. CASE next.call.call = "inject"
                 /\ InjectBefore([ type |-> next.call.type, joint |-> None ], Tail(todo))
      <4> DEFINE fault == [ type |-> next.call.type, joint |-> None ]
      <4>1. next.call.type \in FaultType
        BY <3>1, <3>5 DEF Pending, Calls
      <4>2. fault \in [ type : FaultType, joint : {None} ] /\ fault.type = next.call.type
        BY <4>1
      <4> HIDE DEF next
      <4>3. /\ HandlersTyped' /\ UNCHANGED << brakes, handlers >>
            /\ stopDue' = (stopDue \/ StopsRobot(fault.type))
            /\ StopsRobot(fault.type) \/ Ahead(Tail(todo)) => Ahead(todo')
        BY <2>1, <3>1, <3>5, <4>2, InjectionAhead
      <4>4. Triggers(next.call) => StopsRobot(fault.type)
        BY <3>5, <4>2 DEF Triggers, StopsRobot, ToSet
      <4>5. Ahead(todo') => Ahead(todo)'
        BY <4>3 DEF Ahead, Triggers
      <4> QED
        BY <2>1, <3>1, <4>3, <4>4, <4>5 DEF StopInv, Holding
    <3> QED
      BY <2>2, <3>3, <3>4, <3>5 DEF HandlerCall, Clear, SetMode, Handle, vars
  <2>3. CASE OwnerCall
    <3>1. todo = << >> /\ ~Ahead(todo)
      BY <2>3 DEF OwnerCall, Ahead
    <3>2. ASSUME HandlersTyped', stopDue' => Holding'
          PROVE  StopInv'
      BY <3>2 DEF StopInv
    <3>3. CASE \E fault \in Faults : Inject(fault)
      <4>1. PICK fault \in Faults : InjectBefore(fault, << >>)
        BY <3>3 DEF Inject
      <4>2. << >> \in Seq(Pending)
        OBVIOUS
      <4>3. /\ HandlersTyped' /\ UNCHANGED << brakes, handlers >>
            /\ stopDue' = (stopDue \/ StopsRobot(fault.type))
            /\ StopsRobot(fault.type) => Ahead(todo')
        BY <2>1, <4>1, <4>2, InjectionAhead
      <4>4. Ahead(todo') => Ahead(todo)'
        BY <4>3 DEF Ahead, Triggers
      <4> QED
        BY <2>1, <3>1, <4>3, <4>4 DEF StopInv, Holding
    <3>4. CASE \E type \in FaultType : \E script \in Scripts[type] : Register(type, script)
      <4> PICK type \in FaultType : \E script \in Scripts[type] : Register(type, script)
        BY <3>4
      <4>1. PICK script \in Scripts[type] : Register(type, script)
        OBVIOUS
      <4>2. script \in Seq(Calls)
        BY ScriptsAssumption
      <4>3. handlers' = [handlers EXCEPT ![type] = script] /\ UNCHANGED << brakes, todo, stopDue >>
        BY <4>1 DEF Register, vars
      <4>4. HandlersTyped'
        BY <2>1, <4>2, <4>3 DEF HandlersTyped
      <4> QED
        BY <2>1, <3>1, <3>2, <4>3, <4>4 DEF Holding
    <3>5. CASE OwnerOfStop
      <4>1. UNCHANGED << handlers, todo >> /\ (stopDue' => stopDue /\ (Holding => Holding'))
        <5>1. CASE \E b \in Brakes : Release(b) /\ stopDue' = FALSE
                     /\ UNCHANGED << active, handlers, todo, standing, sensor >>
          BY <5>1
        <5>2. CASE /\ \/ \E event \in ControllerEvent : Handle(event)
                      \/ Trigger \/ Reset
                   /\ UNCHANGED injector
          BY <5>2 DEF Handle, Trigger, Reset, Holding, injector
        <5>3. CASE (\E b \in Brakes : Engage(b)) /\ UNCHANGED injector
          BY <5>3 DEF Engage, Holding, injector
        <5> QED
          BY <3>5, <5>1, <5>2, <5>3 DEF OwnerOfStop
      <4> QED
        BY <2>1, <3>1, <3>2, <4>1 DEF HandlersTyped
    <3>6. CASE UNCHANGED << brakes, handlers, stopDue >> /\ todo' = todo
      BY <2>1, <3>1, <3>2, <3>6 DEF HandlersTyped, Holding
    <3> QED
      BY <2>3, <3>3, <3>4, <3>5, <3>6
         DEF OwnerCall, Read, Clear, ClearAll, SetMode, vars, injector
  <2>4. CASE UNCHANGED allVars
    BY <2>1, <2>4 DEF allVars, vars, injector, StopInv, HandlersTyped, Holding, Ahead, Triggers
  <2> QED
    BY <2>2, <2>3, <2>4 DEF FaultNext
<1> QED
  BY <1>1, <1>2, PTL DEF FaultSpec

\* When inject returns, a fault whose handler stops the robot has stopped it:
\* for any faults, any brakes and any handlers that finish (fault_injector.cpp
\* 20-29, emergency_stop_controller.cpp 18-32).
THEOREM InjectionStopsCorrect == FaultSpec => []InjectionStopsRobot
<1>1. StopInv => InjectionStopsRobot
  BY DEF StopInv, InjectionStopsRobot, Holding, Ahead
<1> QED
  BY <1>1, StopInvCorrect, PTL
-------------------------------------------------------------------------------
(* Erasing from a sequence, by induction on how much of it has been kept.  *)

\* Induction over the natural numbers, for a set of them.
LEMMA NaturalsInSet ==
  ASSUME NEW S, 0 \in S, \A n \in Nat : n \in S => n + 1 \in S
  PROVE  Nat \subseteq S
<1> SUFFICES ASSUME Nat \ S # {} PROVE FALSE
  OBVIOUS
<1>1. PICK n \in Nat \ S : \A m \in Nat \ S : ~(<< m, n >> \in OpToRel(<, Nat))
  <2>1. Nat \ S \subseteq Nat
    OBVIOUS
  <2> QED
    BY <2>1, NatLessThanWellFounded, WFMin
<1>2. \A m \in Nat \ S : ~(m < n)
  BY <1>1 DEF OpToRel
<1>3. n # 0 /\ n - 1 \in Nat /\ n - 1 \notin S
  BY <1>2
<1> QED
  BY <1>2, <1>3

(* No element twice.                                                       *)
EachOnce(s) == \A i, j \in DOMAIN s : s[i] = s[j] => i = j

(* kept is what Without has kept of the first m elements.                  *)
KeptUpTo(s, erased, m, kept) ==
  kept = [n \in 0 .. m |->
            IF n = 0 THEN << >>
            ELSE IF s[n] \in erased THEN kept[n - 1] ELSE Append(kept[n - 1], s[n])]

\* There is such a function, for every m: the one Without chooses.
LEMMA KeptExists ==
  ASSUME NEW S, NEW s \in Seq(S), NEW erased, NEW m \in Nat
  PROVE  \E kept : KeptUpTo(s, erased, m, kept)
<1> DEFINE done == {n \in Nat : \E kept : KeptUpTo(s, erased, n, kept)}
<1>1. 0 \in done
  <2> DEFINE none == [n \in 0 .. 0 |-> << >>]
  <2>1. KeptUpTo(s, erased, 0, none)
    BY DEF KeptUpTo
  <2> QED
    BY <2>1
<1>2. ASSUME NEW n \in Nat, n \in done
      PROVE  n + 1 \in done
  <2> PICK kept : KeptUpTo(s, erased, n, kept)
    BY <1>2
  <2> DEFINE last == IF s[n + 1] \in erased THEN kept[n] ELSE Append(kept[n], s[n + 1])
             more == [k \in 0 .. n + 1 |-> IF k = n + 1 THEN last ELSE kept[k]]
             next == [k \in 0 .. n + 1 |->
                        IF k = 0 THEN << >>
                        ELSE IF s[k] \in erased THEN more[k - 1] ELSE Append(more[k - 1], s[k])]
  <2>1. \A k \in 0 .. n :
          kept[k] = IF k = 0 THEN << >>
                    ELSE IF s[k] \in erased THEN kept[k - 1] ELSE Append(kept[k - 1], s[k])
    BY DEF KeptUpTo
  <2>2. \A k \in 0 .. n : more[k] = kept[k]
    OBVIOUS
  <2>3. ASSUME NEW k \in 0 .. n + 1
        PROVE  more[k] = next[k]
    <3>1. CASE k = 0
      BY <2>1, <2>2, <3>1
    <3>2. CASE k \in 1 .. n
      <4>1. k - 1 \in 0 .. n /\ more[k - 1] = kept[k - 1] /\ more[k] = kept[k]
        BY <3>2
      <4> QED
        BY <2>1, <3>2, <4>1
    <3>3. CASE k = n + 1
      <4>1. more[k] = last /\ k - 1 = n /\ more[k - 1] = kept[n]
        BY <3>3
      <4> HIDE DEF more
      <4> QED
        BY <3>3, <4>1
    <3> QED
      BY <3>1, <3>2, <3>3
  <2>4. more = next
    BY <2>3
  <2>5. KeptUpTo(s, erased, n + 1, more)
    BY <2>4 DEF KeptUpTo
  <2> QED
    BY <2>5
<1> HIDE DEF done
<1>3. Nat \subseteq done
  BY <1>1, <1>2, NaturalsInSet
<1> QED
  BY <1>3 DEF done

\* What std::erase leaves: the other elements, each as often as it was there.
LEMMA WithoutProperties ==
  ASSUME NEW S, NEW s \in Seq(S), NEW erased
  PROVE  /\ Without(s, erased) \in Seq(S \ erased)
         /\ ToSet(Without(s, erased)) = ToSet(s) \ erased
         /\ EachOnce(s) => EachOnce(Without(s, erased))
<1> DEFINE kept == CHOOSE f : KeptUpTo(s, erased, Len(s), f)
<1>1. Len(s) \in Nat /\ DOMAIN s = 1 .. Len(s)
  OBVIOUS
<1>2. KeptUpTo(s, erased, Len(s), kept)
  BY <1>1, KeptExists
<1>3. kept = CHOOSE f : f = [n \in 0 .. Len(s) |->
            IF n = 0 THEN << >>
            ELSE IF s[n] \in erased THEN f[n - 1] ELSE Append(f[n - 1], s[n])]
  BY Zenon DEF KeptUpTo
<1> HIDE DEF kept
<1>4. Without(s, erased) = kept[Len(s)]
  BY <1>3 DEF Without
<1>5. /\ kept[0] = << >>
      /\ \A n \in 1 .. Len(s) :
           kept[n] = IF s[n] \in erased THEN kept[n - 1] ELSE Append(kept[n - 1], s[n])
  <2>1. ASSUME NEW f, KeptUpTo(s, erased, Len(s), f)
        PROVE  \A n \in 0 .. Len(s) :
                 f[n] = IF n = 0 THEN << >>
                        ELSE IF s[n] \in erased THEN f[n - 1] ELSE Append(f[n - 1], s[n])
    BY <2>1 DEF KeptUpTo
  <2>2. \A n \in 0 .. Len(s) :
          kept[n] = IF n = 0 THEN << >>
                    ELSE IF s[n] \in erased THEN kept[n - 1] ELSE Append(kept[n - 1], s[n])
    BY <1>2, <2>1
  <2> QED
    BY <1>1, <2>2
<1> DEFINE left(n) == {s[i] : i \in 1 .. n} \ erased
           good(n) == /\ kept[n] \in Seq(S \ erased)
                      /\ ToSet(kept[n]) = left(n)
                      /\ EachOnce(s) => EachOnce(kept[n])
           done == {n \in Nat : n <= Len(s) => good(n)}
<1>6. 0 \in done
  <2>1. good(0)
    BY <1>5 DEF ToSet, EachOnce
  <2> QED
    BY <2>1
<1>7. ASSUME NEW n \in Nat, n \in done
      PROVE  n + 1 \in done
  <2> SUFFICES ASSUME n + 1 <= Len(s) PROVE good(n + 1)
    OBVIOUS
  <2>1. n + 1 \in 1 .. Len(s) /\ (n + 1) - 1 = n
    BY <1>1
  <2>2. good(n)
    BY <1>1, <1>7, <2>1
  <2>3. kept[n + 1] = IF s[n + 1] \in erased THEN kept[n] ELSE Append(kept[n], s[n + 1])
    BY <1>5, <2>1
  <2>4. left(n + 1) = left(n) \cup ({s[n + 1]} \ erased)
    <3>1. 1 .. n + 1 = (1 .. n) \cup {n + 1}
      OBVIOUS
    <3> QED
      BY <3>1
  <2>5. CASE s[n + 1] \in erased
    BY <2>2, <2>3, <2>4, <2>5
  <2>6. CASE s[n + 1] \notin erased
    <3> DEFINE before == kept[n]
               x == s[n + 1]
    <3>1. x \in S \ erased
      BY <1>1, <2>1, <2>6
    <3>2. before \in Seq(S \ erased) /\ ToSet(before) = left(n)
      BY <2>2
    <3>3. /\ kept[n + 1] = Append(before, x)
          /\ Append(before, x) \in Seq(S \ erased)
          /\ Len(before) \in Nat
          /\ DOMAIN before = 1 .. Len(before)
          /\ DOMAIN Append(before, x) = 1 .. Len(before) + 1
          /\ \A i \in 1 .. Len(before) : Append(before, x)[i] = before[i]
          /\ Append(before, x)[Len(before) + 1] = x
      BY <2>3, <2>6, <3>1, <3>2
    <3> HIDE DEF before
    <3>4. ToSet(kept[n + 1]) = ToSet(before) \cup {x}
      BY <3>3 DEF ToSet
    <3>5. left(n + 1) = left(n) \cup {x}
      BY <2>4, <2>6
    <3>6. ASSUME EachOnce(s)
          PROVE  EachOnce(kept[n + 1])
      <4>1. EachOnce(before)
        BY <2>2, <3>6 DEF before
      <4>2. x \notin left(n)
        BY <1>1, <2>1, <3>6 DEF EachOnce
      <4>3. \A i \in DOMAIN before : before[i] # x
        BY <3>2, <4>2 DEF ToSet
      <4> HIDE DEF x, left
      <4> QED
        BY <3>3, <4>1, <4>3 DEF EachOnce
    <3> QED
      BY <3>2, <3>3, <3>4, <3>5, <3>6
  <2> QED
    BY <2>5, <2>6
<1> HIDE DEF done, good
<1>8. Nat \subseteq done
  BY <1>6, <1>7, NaturalsInSet
<1>9. good(Len(s))
  BY <1>1, <1>8 DEF done
<1>10. left(Len(s)) = ToSet(s) \ erased
  BY <1>1 DEF ToSet
<1> QED
  BY <1>4, <1>9, <1>10 DEF good
-------------------------------------------------------------------------------
(* The active faults are a sequence of the standing ones.                  *)
ActiveInv == active \in Seq(standing) /\ FaultsAsInjected

\* An injection adds a fault that is not there yet, and only that.
LEMMA InjectKeepsActive ==
  ASSUME ActiveInv, NEW fault, NEW rest, InjectBefore(fault, rest)
  PROVE  ActiveInv'
<1>1. /\ active \in Seq(standing) /\ ToSet(active) = standing
      /\ \A i, j \in DOMAIN active : active[i] = active[j] => i = j
  BY DEF ActiveInv, FaultsAsInjected
<1>2. /\ active' = IF fault \in ToSet(active) THEN active ELSE Append(active, fault)
      /\ standing' = standing \cup {fault}
  BY DEF InjectBefore
<1>3. CASE fault \in ToSet(active)
  <2>1. active' = active /\ standing' = standing
    BY <1>1, <1>2, <1>3
  <2> QED
    BY <1>1, <2>1 DEF ActiveInv, FaultsAsInjected
<1>4. CASE fault \notin ToSet(active)
  <2>1. active \in Seq(standing \cup {fault})
    BY <1>1
  <2>2. /\ active' \in Seq(standing')
        /\ Len(active) \in Nat
        /\ DOMAIN active = 1 .. Len(active)
        /\ DOMAIN active' = 1 .. Len(active) + 1
        /\ \A i \in 1 .. Len(active) : active'[i] = active[i]
        /\ active'[Len(active) + 1] = fault
    BY <1>2, <1>4, <2>1
  <2>3. ToSet(active') = ToSet(active) \cup {fault}
    BY <2>2 DEF ToSet
  <2>4. \A i \in DOMAIN active : active[i] # fault
    BY <1>4 DEF ToSet
  <2>5. \A i, j \in DOMAIN active' : active'[i] = active'[j] => i = j
    BY <1>1, <2>2, <2>4
  <2> QED
    BY <1>1, <1>2, <2>2, <2>3, <2>5 DEF ActiveInv, FaultsAsInjected
<1> QED
  BY <1>3, <1>4

\* A clear removes the one fault, wherever it stands.
LEMMA ClearKeepsActive ==
  ASSUME ActiveInv, NEW fault, Clear(fault)
  PROVE  ActiveInv'
<1>1. /\ active \in Seq(standing) /\ ToSet(active) = standing /\ EachOnce(active)
  BY DEF ActiveInv, FaultsAsInjected, EachOnce
<1>2. active' = Without(active, {fault}) /\ standing' = standing \ {fault}
  BY DEF Clear
<1>3. /\ active' \in Seq(standing') /\ ToSet(active') = standing' /\ EachOnce(active')
  BY <1>1, <1>2, WithoutProperties
<1> QED
  BY <1>3 DEF ActiveInv, FaultsAsInjected, EachOnce

\* The faults reported active are those injected and not cleared since, each
\* once, for any faults and any handlers that inject and clear in turn
\* (fault_injector.cpp 20-38).
THEOREM FaultsAsInjectedCorrect == FaultSpec => []FaultsAsInjected
<1>1. FaultInit => ActiveInv
  BY DEF FaultInit, ActiveInv, FaultsAsInjected, ToSet
<1>2. ActiveInv /\ [FaultNext]_allVars => ActiveInv'
  <2> SUFFICES ASSUME ActiveInv, [FaultNext]_allVars PROVE ActiveInv'
    OBVIOUS
  <2>1. ASSUME UNCHANGED << active, standing >>
        PROVE  ActiveInv'
    BY <2>1 DEF ActiveInv, FaultsAsInjected
  <2>2. CASE HandlerCall
    <3>1. CASE Clear(Head(todo).fault)
      BY <3>1, ClearKeepsActive
    <3>2. CASE InjectBefore([ type |-> Head(todo).call.type, joint |-> None ], Tail(todo))
      BY <3>2, InjectKeepsActive
    <3> QED
      BY <2>1, <2>2, <3>1, <3>2 DEF HandlerCall, SetMode
  <2>3. CASE OwnerCall
    <3>1. CASE \E fault \in Faults : Inject(fault)
      BY <3>1, InjectKeepsActive DEF Inject
    <3>2. CASE \E fault \in Faults : Clear(fault)
      BY <3>2, ClearKeepsActive
    <3>3. CASE ClearAll
      BY <3>3 DEF ClearAll, ActiveInv, FaultsAsInjected, ToSet
    <3>4. CASE OwnerOfStop
      BY <2>1, <3>4 DEF OwnerOfStop, injector
    <3> QED
      BY <2>1, <2>3, <3>1, <3>2, <3>3, <3>4 DEF OwnerCall, Read, Register, SetMode, injector
  <2>4. CASE UNCHANGED allVars
    BY <2>1, <2>4 DEF allVars, injector
  <2> QED
    BY <2>2, <2>3, <2>4 DEF FaultNext
<1>3. ActiveInv => FaultsAsInjected
  BY DEF ActiveInv
<1> QED
  BY <1>1, <1>2, <1>3, PTL DEF FaultSpec

-------------------------------------------------------------------------------
(* The encoder: what it has last told in normal operation is what it keeps.*)
SensorInv ==
  /\ encoder \in [ mode : EncoderFailureMode, last : Int ]
  /\ encoder.last = healthy
  /\ EncoderTells

\* Whole-number division.
LEMMA Division ==
  ASSUME NEW a \in Nat, NEW b \in Nat \ {0}
  PROVE  /\ a \div b \in Nat
         /\ (a \div b) * b <= a /\ a < (a \div b) * b + b
OBVIOUS

\* A position of no sign, a whole number of counts and the half count between.
LEMMA HalfCount ==
  ASSUME NEW a \in Nat, NEW r \in Nat \ {0}, NEW m \in Nat,
         m * (2 * r) <= 2 * a + r, 2 * a + r < m * (2 * r) + 2 * r
  PROVE  2 * (m * r) - 2 * a <= r /\ 2 * a - 2 * (m * r) <= r
<1>1. m * (2 * r) = 2 * (m * r) /\ m * r \in Nat
  OBVIOUS
<1> QED
  BY <1>1

\* The nearest count is within half a count, on either side of zero.
LEMMA QuantizedNear ==
  ASSUME NEW position \in Int, NEW r \in Nat \ {0}
  PROVE  /\ Quantized(position, r) \in Int
         /\ 2 * Abs(Quantized(position, r) - position) <= r
<1> DEFINE a == Abs(position)
           m == (2 * a + r) \div (2 * r)
<1>1. a \in Nat /\ 2 * a + r \in Nat /\ 2 * r \in Nat \ {0}
  BY DEF Abs
<1>2. m \in Nat /\ m * (2 * r) <= 2 * a + r /\ 2 * a + r < m * (2 * r) + 2 * r
  BY <1>1, Division
<1>3. Quantized(position, r) = (IF position < 0 THEN -m ELSE m) * r
  BY DEF Quantized, Counts
<1>4. a = IF position < 0 THEN -position ELSE position
  BY DEF Abs
<1> HIDE DEF a, m
<1>5. 2 * (m * r) - 2 * a <= r /\ 2 * a - 2 * (m * r) <= r
  BY <1>1, <1>2, HalfCount
<1>6. m * r \in Nat /\ (-m) * r = -(m * r)
  BY <1>2
<1>7. Quantized(position, r) = IF position < 0 THEN -(m * r) ELSE m * r
  BY <1>3, <1>6
<1> QED
  BY <1>4, <1>5, <1>6, <1>7 DEF Abs

\* What a read returns in normal operation, whatever the noise.
LEMMA ReadNear ==
  ASSUME NEW position \in Positions, NEW n \in -Noise .. Noise, NEW value,
         value = Quantized(position + Offset, Resolution) + n
  PROVE  /\ value \in Int
         /\ 2 * Abs(value - position) <= 2 * (Noise + Abs(Offset)) + Resolution
<1>1. /\ position \in Int /\ Offset \in Int /\ position + Offset \in Int
      /\ Noise \in Nat /\ n \in Int /\ Resolution \in Nat \ {0}
  BY SensorAssumption
<1> DEFINE q == Quantized(position + Offset, Resolution)
<1>2. q \in Int /\ 2 * Abs(q - (position + Offset)) <= Resolution
  BY <1>1, QuantizedNear
<1> HIDE DEF q
<1>3. value = q + n
  BY DEF q
<1> QED
  BY <1>1, <1>2, <1>3 DEF Abs

\* A read in each of the modes.
LEMMA ReadKeepsSensor ==
  ASSUME SensorInv, NEW position \in Positions, Read(position)
  PROVE  SensorInv'
<1>1. PICK read \in EncoderReads(encoder, position, Offset, Noise, Resolution) :
        /\ encoder' = read.sensor
        /\ reading' = [ mode |-> encoder.mode, position |-> position, value |-> read.value ]
        /\ healthy' = IF encoder.mode = "None" THEN read.value ELSE healthy
  BY DEF Read
<1>2. /\ encoder \in [ mode : EncoderFailureMode, last : Int ] /\ encoder.last = healthy
      /\ healthy \in Int
  BY DEF SensorInv
<1>3. reading'.mode = encoder.mode /\ reading'.position = position /\ reading'.value = read.value
  BY <1>1
<1>4. CASE encoder.mode = "Disconnected"
  <2>1. read.value = NaN /\ read.sensor = encoder
    BY <1>1, <1>4 DEF EncoderReads
  <2> QED
    BY <1>1, <1>2, <1>3, <1>4, <2>1 DEF SensorInv, EncoderTells
<1>5. CASE encoder.mode = "Stuck"
  <2>1. read.value = encoder.last /\ read.sensor = encoder
    BY <1>1, <1>5 DEF EncoderReads
  <2>2. read.value \in Int /\ read.value # NaN
    BY <1>2, <2>1, SensorAssumption
  <2> QED
    BY <1>1, <1>2, <1>3, <1>5, <2>1, <2>2 DEF SensorInv, EncoderTells
<1>6. CASE encoder.mode = "None"
  <2>1. PICK n \in -Noise .. Noise :
          /\ read.value = Quantized(position + Offset, Resolution) + n
          /\ read.sensor = [encoder EXCEPT !.last = read.value]
    BY <1>1, <1>6 DEF EncoderReads
  <2>2. /\ read.value \in Int
        /\ 2 * Abs(read.value - position) <= 2 * (Noise + Abs(Offset)) + Resolution
    BY <2>1, ReadNear
  <2>3. read.value # NaN
    BY <2>2, SensorAssumption
  <2>4. encoder' \in [ mode : EncoderFailureMode, last : Int ] /\ encoder'.last = healthy'
    BY <1>1, <1>2, <1>6, <2>1, <2>2
  <2>5. EncoderTells'
    BY <1>3, <1>6, <2>2, <2>3 DEF EncoderTells
  <2> QED
    BY <2>4, <2>5 DEF SensorInv
<1> QED
  BY <1>2, <1>4, <1>5, <1>6 DEF EncoderFailureMode

\* What an encoder tells is within noise, offset and half a count of the truth,
\* what it last told in normal operation when stuck, and NaN when and only when
\* disconnected: for every position, offset, noise and number of counts, after
\* any faults and handlers (encoder_sensor.cpp 37-51, virtual_encoder.cpp 26-35).
THEOREM EncoderTellsCorrect == FaultSpec => []EncoderTells
<1>1. FaultInit => SensorInv
  BY DEF FaultInit, SensorInv, EncoderTells, NewEncoderSensor, EncoderFailureMode
<1>2. SensorInv /\ StopInv /\ [FaultNext]_allVars => SensorInv'
  <2> SUFFICES ASSUME SensorInv, StopInv, [FaultNext]_allVars PROVE SensorInv'
    OBVIOUS
  <2>1. ASSUME UNCHANGED sensor, reading' = None \/ reading' = reading
        PROVE  SensorInv'
    BY <2>1 DEF SensorInv, EncoderTells, sensor
  <2>2. ASSUME NEW mode \in EncoderFailureMode, SetMode(mode), reading' = None
        PROVE  SensorInv'
    BY <2>2 DEF SensorInv, EncoderTells, SetMode, SetFailureMode
  <2>3. CASE HandlerCall
    <3>1. ASSUME Head(todo).call.call = "setFailureMode", SetMode(Head(todo).call.mode)
          PROVE  SensorInv'
      <4>1. Head(todo) \in Pending
        BY <2>3, PendingTail DEF HandlerCall, StopInv, HandlersTyped
      <4>2. Head(todo).call.mode \in EncoderFailureMode
        BY <3>1, <4>1 DEF Pending, Calls
      <4> QED
        BY <2>2, <2>3, <3>1, <4>2 DEF HandlerCall
    <3> QED
      BY <2>1, <2>3, <3>1 DEF HandlerCall, Clear, InjectBefore
  <2>4. CASE OwnerCall
    <3>1. CASE \E position \in Positions : Read(position)
      BY <3>1, ReadKeepsSensor
    <3>2. CASE \E mode \in EncoderFailureMode : SetMode(mode) /\ reading' = None
      BY <2>2, <3>2
    <3>3. CASE OwnerOfStop /\ reading' = None
      BY <2>1, <3>3 DEF OwnerOfStop
    <3> QED
      BY <2>1, <2>4, <3>1, <3>2, <3>3
         DEF OwnerCall, Inject, InjectBefore, Clear, ClearAll, Register
  <2>5. CASE UNCHANGED allVars
    BY <2>1, <2>5 DEF allVars
  <2> QED
    BY <2>3, <2>4, <2>5 DEF FaultNext
<1>3. SensorInv => EncoderTells
  BY DEF SensorInv
<1> QED
  BY <1>1, <1>2, <1>3, StopInvCorrect, PTL DEF FaultSpec
===========================================================================
