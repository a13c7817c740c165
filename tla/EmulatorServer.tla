---------------------------- MODULE EmulatorServer ----------------------------
(***************************************************************************)
(* apps/robot-emulator: the threads of the emulator around one robot.      *)
(*                                                                         *)
(*   control     locks robotMutex, runs ControlLoop::step, unlocks, sleeps *)
(*   connection  serves one client: receives a frame, locks, dispatches it,*)
(*               unlocks, sends the answer                                 *)
(*   watchdog    polls the loop's cycle counter, without the lock          *)
(*   response    polls the watchdog; at the first trip locks and triggers  *)
(*               the emergency stop, once                                  *)
(*                                                                         *)
(* None of the classes called inside the critical sections takes a lock:   *)
(* each section is several steps here, so that what the mutex guarantees is*)
(* a result and not a premise.  A loop over the joints or the brakes is one*)
(* step.                                                                   *)
(*                                                                         *)
(* cyclesExecuted and the watchdog's copy of it are only ever compared for *)
(* equality, so the pair is kept as the flag heartbeat: they differ.  Time *)
(* is kept where the code compares it: the age of the last change of the   *)
(* counter, in poll intervals, up to the watchdog's timeout.               *)
(***************************************************************************)
EXTENDS RobotOperations

CONSTANT TimeoutPolls           \* watchdog timeout / poll interval: 10

Lockers == { "control", "connection", "response" }
Threads == Lockers \cup { "watchdog" }

(* The answers a handler builds; a status body is filled in in two steps.  *)
Status == [ controller : ControllerState,
            joints : {None} \cup [Joints -> [ position : Number, velocity : Number ]] ]

Replies == [ type : RequestTypes, status : {"Ok", "Error"}, body : {None} \cup Status ]

(* None is neither a thread nor an answer.                                 *)
ASSUME ServerAssumption ==
  /\ TimeoutPolls \in Nat \ {0}
  /\ None \notin Lockers \cup Replies

VARIABLES
  robot,                        \* the shared Robot, controller and brakes
  robotMutex,                   \* its owner, or None
  pc,                           \* where each thread is
  request,                      \* connection: the frame being served, or None
  response,                     \* connection: the answer being built, or None
  heartbeat,                    \* cyclesExecuted differs from lastSeenCounter_
  age,                          \* now - lastChangeTimeNs_ at the last poll
  tripped,                      \* Watchdog::tripped_
  alreadyTripped,               \* response: the trip has been taken
  committed                     \* history: the robot when the mutex was last free

shared == << robot, robotMutex, committed >>
connectionVars == << request, response >>
watchdogVars == << heartbeat, age, tripped >>
vars == << shared, pc, connectionVars, watchdogVars, alreadyTripped >>

Go(thread, label) == pc' = [pc EXCEPT ![thread] = label]

Init ==
  /\ robot = BootedRobot
  /\ committed = robot
  /\ robotMutex = None
  /\ pc = [ control |-> "lock", connection |-> "accept",
            watchdog |-> "poll", response |-> "check" ]
  /\ request = None /\ response = None
  /\ heartbeat = FALSE /\ age = 0 /\ tripped = FALSE
  /\ alreadyTripped = FALSE

-------------------------------------------------------------------------------
(* The mutex.  A thread at "lock" has called lock_guard's constructor; it  *)
(* continues at the first step of its critical section.                    *)

(* CommandDispatcher::dispatch: the first step of each handler.  A command *)
(* without a handler changes nothing and is answered with an error.        *)
Handler ==
  [ GetStatus |-> "readState", Enable |-> "enableJoints", Disable |-> "disableJoints",
    Home |-> "homeJoints", MoveJoint |-> "setTarget", Stop |-> "CommandStop",
    EmergencyStop |-> "engageBrakes" ]

SectionStart(thread) ==
  IF thread = "control" THEN "checkMoving"
  ELSE IF thread = "response" THEN "engageBrakes"
  ELSE IF request.type \in Implemented THEN Handler[request.type]
  ELSE "refuse"

(* Mutated form: the lock_guard is missing.                                *)
LockWithoutWaiting(thread) ==
  /\ pc[thread] = "lock"
  /\ robotMutex' = thread
  /\ Go(thread, SectionStart(thread))
  /\ UNCHANGED << robot, committed, connectionVars, watchdogVars, alreadyTripped >>

Lock(thread) ==
  /\ pc[thread] = "lock"
  /\ robotMutex = None
  /\ robotMutex' = thread
  /\ Go(thread, SectionStart(thread))
  /\ UNCHANGED << robot, committed, connectionVars, watchdogVars, alreadyTripped >>

AfterUnlock == [ control |-> "lock", connection |-> "send", response |-> "check" ]

Unlock(thread) ==
  /\ pc[thread] = "unlock"
  /\ robotMutex' = None
  /\ committed' = robot
  /\ Go(thread, AfterUnlock[thread])
  /\ request' = IF thread = "connection" THEN None ELSE request
  /\ UNCHANGED << robot, response, watchdogVars, alreadyTripped >>

-------------------------------------------------------------------------------
(* Control thread: ControlLoop::step.                                      *)

CheckMoving ==
  /\ pc["control"] = "checkMoving"
  /\ Go("control", IF robot.controller = "Moving" THEN "updateJoints" ELSE "count")
  /\ UNCHANGED << shared, connectionVars, watchdogVars, alreadyTripped >>

UpdateRobot ==
  /\ pc["control"] = "updateJoints"
  /\ robot' = UpdateJoints(robot)
  /\ Go("control", "count")
  /\ UNCHANGED << robotMutex, committed, connectionVars, watchdogVars, alreadyTripped >>

CountCycle ==
  /\ pc["control"] = "count"
  /\ heartbeat' = TRUE
  /\ Go("control", "unlock")
  /\ UNCHANGED << shared, connectionVars, age, tripped, alreadyTripped >>

-------------------------------------------------------------------------------
(* Connection thread: the socket.                                          *)

Accept ==
  /\ pc["connection"] = "accept"
  /\ Go("connection", "receive")
  /\ UNCHANGED << shared, connectionVars, watchdogVars, alreadyTripped >>

(* A frame arrives and decodes; its bytes are erased from the buffer.      *)
Receive(frame) ==
  /\ pc["connection"] = "receive"
  /\ request' = frame
  /\ response' = Reply(frame.type, "Ok", None)
  /\ Go("connection", "lock")
  /\ UNCHANGED << shared, watchdogVars, alreadyTripped >>

(* The client is gone, or what it sent is not a frame.                     *)
Disconnect ==
  /\ pc["connection"] = "receive"
  /\ Go("connection", "accept")
  /\ UNCHANGED << shared, connectionVars, watchdogVars, alreadyTripped >>

(* The answer is sent outside the lock; if that fails the client is given  *)
(* up, and never learns what its request did.                              *)
Send ==
  /\ pc["connection"] = "send"
  /\ response' = None
  /\ \E next \in {"receive", "accept"} : Go("connection", next)
  /\ UNCHANGED << shared, request, watchdogVars, alreadyTripped >>

-------------------------------------------------------------------------------
(* Connection and response threads: the handlers of CommandDispatcher and  *)
(* EmergencyStopController::trigger, one shared object at a time.          *)

(* The steps that only change the robot, and what follows each.           *)
(* Mutated form: a stop is left half done.                                 *)
FollowingStopIncomplete ==
  [ enableJoints |-> "ServoEnable", ServoEnable |-> "ControllerReady",
    ControllerReady |-> "unlock", disableJoints |-> "ServoDisable",
    ServoDisable |-> "unlock", homeJoints |-> "unlock", startMotion |-> "unlock",
    CommandStop |-> "unlock", StopComplete |-> "unlock",
    engageBrakes |-> "EStopTriggered", EStopTriggered |-> "unlock" ]

Following ==
  [ enableJoints |-> "ServoEnable", ServoEnable |-> "ControllerReady",
    ControllerReady |-> "unlock",
    disableJoints |-> "ServoDisable", ServoDisable |-> "unlock",
    homeJoints |-> "unlock",
    startMotion |-> "unlock",
    CommandStop |-> "StopComplete", StopComplete |-> "unlock",
    engageBrakes |-> "EStopTriggered", EStopTriggered |-> "unlock" ]

HandlerStep(thread) ==
  /\ \/ pc[thread] = "enableJoints"    /\ robot' = EnableJoints(robot)
     \/ pc[thread] = "disableJoints"   /\ robot' = DisableJoints(robot)
     \/ pc[thread] = "homeJoints"      /\ robot' = HomeJoints(robot)
     \/ pc[thread] = "engageBrakes"    /\ robot' = EngageBrakes(robot)
     \/ pc[thread] = "startMotion"     /\ robot' = StartMotion(robot)
     \/ pc[thread] \in ControllerEvent /\ robot' = Fire(robot, pc[thread])
  /\ Go(thread, Following[pc[thread]])
  /\ UNCHANGED << robotMutex, committed, connectionVars, watchdogVars, alreadyTripped >>

(* handleMoveJoint up to setTargetPosition, with its three early returns.  *)
AcceptTarget ==
  /\ pc["connection"] = "setTarget"
  /\ MoveAccepted(robot, request)
  /\ robot' = SetTarget(robot, request)
  /\ Go("connection", "startMotion")
  /\ UNCHANGED << robotMutex, committed, connectionVars, watchdogVars, alreadyTripped >>

(* Mutated form: the early return skips the unlock.                        *)
RejectWithoutUnlock ==
  /\ \/ pc["connection"] = "setTarget" /\ ~MoveAccepted(robot, request)
     \/ pc["connection"] = "refuse"
  /\ response' = [response EXCEPT !.status = "Error"]
  /\ Go("connection", "send")
  /\ UNCHANGED << shared, request, watchdogVars, alreadyTripped >>

RejectRequest ==
  /\ \/ pc["connection"] = "setTarget" /\ ~MoveAccepted(robot, request)
     \/ pc["connection"] = "refuse"
  /\ response' = [response EXCEPT !.status = "Error"]
  /\ Go("connection", "unlock")
  /\ UNCHANGED << shared, request, watchdogVars, alreadyTripped >>

(* Mutated form: the lock covers only the first read.                      *)
ReadStateAndRelease ==
  /\ pc["connection"] = "readState"
  /\ response' = [response EXCEPT !.body = [controller |-> robot.controller, joints |-> None]]
  /\ robotMutex' = None
  /\ Go("connection", "readJoints")
  /\ UNCHANGED << robot, committed, request, watchdogVars, alreadyTripped >>

(* handleGetStatus: the controller's state first, then the joints.         *)
ReadState ==
  /\ pc["connection"] = "readState"
  /\ response' = [response EXCEPT !.body = [controller |-> robot.controller, joints |-> None]]
  /\ Go("connection", "readJoints")
  /\ UNCHANGED << shared, request, watchdogVars, alreadyTripped >>

ReadJoints ==
  /\ pc["connection"] = "readJoints"
  /\ response' = [response EXCEPT !.body.joints = StatusOf(robot).joints]
  /\ Go("connection", "unlock")
  /\ UNCHANGED << shared, request, watchdogVars, alreadyTripped >>

-------------------------------------------------------------------------------
(* Watchdog thread, and the thread that answers it.                        *)

(* One poll that finds the counter changed: remember it and when.          *)
PollChanged ==
  /\ pc["watchdog"] = "poll"
  /\ heartbeat
  /\ heartbeat' = FALSE
  /\ age' = 0
  /\ UNCHANGED << shared, pc, connectionVars, tripped, alreadyTripped >>

(* Mutated form: every poll restarts the clock, not only a changed one.    *)
PollUnchangedRestarts ==
  /\ pc["watchdog"] = "poll"
  /\ ~heartbeat
  /\ age' = 0
  /\ UNCHANGED << shared, pc, connectionVars, heartbeat, tripped, alreadyTripped >>

(* One poll that finds it unchanged, at least one poll interval later.     *)
PollUnchanged ==
  /\ pc["watchdog"] = "poll"
  /\ ~heartbeat
  /\ \E later \in (age + 1) .. (age + TimeoutPolls) :
       /\ age' = IF later < TimeoutPolls THEN later ELSE TimeoutPolls
       /\ IF later < TimeoutPolls THEN UNCHANGED pc ELSE Go("watchdog", "trip")
  /\ UNCHANGED << shared, connectionVars, heartbeat, tripped, alreadyTripped >>

Trip ==
  /\ pc["watchdog"] = "trip"
  /\ tripped' = TRUE
  /\ Go("watchdog", "poll")
  /\ UNCHANGED << shared, connectionVars, heartbeat, age, alreadyTripped >>

(* The response thread wakes up and finds the first trip.                  *)
TakeTrip ==
  /\ pc["response"] = "check"
  /\ tripped /\ ~alreadyTripped
  /\ alreadyTripped' = TRUE
  /\ Go("response", "lock")
  /\ UNCHANGED << shared, connectionVars, watchdogVars >>

-------------------------------------------------------------------------------
Control == CheckMoving \/ UpdateRobot \/ CountCycle \/ Unlock("control")

Serve ==
  \/ AcceptTarget \/ RejectRequest \/ ReadState \/ ReadJoints
  \/ HandlerStep("connection")
  \/ Unlock("connection")

Respond == HandlerStep("response") \/ Unlock("response")

Next ==
  \/ \E thread \in Lockers : Lock(thread)
  \/ Control
  \/ Accept
  \/ \E frame \in Requests : Receive(frame)
  \/ Disconnect
  \/ Send
  \/ Serve
  \/ PollChanged \/ PollUnchanged \/ Trip
  \/ TakeTrip
  \/ Respond

Spec == Init /\ [][Next]_vars

(* Every thread but the control thread keeps running, and a thread waiting *)
(* for a mutex that keeps being released gets it in the end: the holders   *)
(* sleep or wait for their client between two critical sections.  Clients  *)
(* need not send anything.                                                 *)
OthersFair ==
  /\ SF_vars(Lock("connection")) /\ SF_vars(Lock("response"))
  /\ WF_vars(Serve) /\ WF_vars(Send) /\ WF_vars(Respond) /\ WF_vars(TakeTrip)
  /\ WF_vars(PollChanged \/ PollUnchanged \/ Trip)

(* The control thread may lock up anywhere: what the watchdog is there for.*)
FairSpec == Spec /\ OthersFair

-------------------------------------------------------------------------------
(* Properties. *)

SectionLabels ==
  DOMAIN Following \cup { "checkMoving", "updateJoints", "count", "unlock", "setTarget", "refuse",
               "readState", "readJoints" }

InSection(thread) == pc[thread] \in SectionLabels

TypeOK ==
  /\ robot \in Robots
  /\ committed \in Robots
  /\ robotMutex \in Lockers \cup {None}
  /\ pc \in [Threads -> SectionLabels \cup
                        { "lock", "accept", "receive", "send", "poll", "trip", "check" }]
  /\ request \in Requests \cup {None}
  /\ response \in Replies \cup {None}
  /\ heartbeat \in BOOLEAN
  /\ age \in 0 .. TimeoutPolls
  /\ tripped \in BOOLEAN
  /\ alreadyTripped \in BOOLEAN

\* A thread between lock and unlock owns the mutex, so no two threads are
\* there together (main.cpp 115-117: one mutex guards the robot and the
\* controller, held for the whole critical section).
MutualExclusion == \A thread \in Lockers : InSection(thread) => robotMutex = thread

\* The state the control loop tested is still the state when it advances the
\* joints: no stop or emergency stop comes between the test and the motion
\* (control_loop.cpp 43-45).
TestedStateHolds == pc["control"] = "updateJoints" => robot.controller = "Moving"

\* ServoOn and Stopping exist only inside a handler: whoever takes the mutex,
\* and every status report, finds the controller in a settled state
\* (command_dispatcher.cpp 71-72, 115-116).
TransientStatesUnseen ==
  /\ robotMutex = None => robot.controller \notin {"ServoOn", "Stopping"}
  /\ committed.controller \notin {"ServoOn", "Stopping"}

\* The threads implement the service in which every command, cycle and
\* emergency stop is one indivisible operation; in particular a status report
\* shows one state of the robot, never half of one and half of the next
\* (server-integration.md 87-104).
Service == INSTANCE RobotService
             WITH robot <- committed,
                  reply <- IF pc["connection"] = "send" THEN response ELSE None
ImplementsService == Service!Spec

\* The control thread is never inside its critical section for good.
ControlLeavesSection == []<>~InSection("control")

\* A control thread that stops counting cycles is noticed (watchdog.cpp 83-95).
LockupDetected == []<><<CountCycle>>_vars \/ <>tripped

\* Whoever waits for the mutex is served, however often the control loop takes
\* it in between: a request that was received is executed and its answer handed
\* to the socket (main.cpp 175-191); a trip has the response thread trigger the
\* emergency stop, and is answered once that thread is back at its check
\* (main.cpp 145-156).
Answered == alreadyTripped /\ pc["response"] = "check"
WaitersServed ==
  ControlLeavesSection =>
    /\ pc["connection"] = "lock" ~> pc["connection"] = "send"
    /\ tripped ~> Answered

\* What server-integration.md 120 says: "If it trips, a small dedicated thread
\* calls estop.trigger() once", with no condition on where the control thread
\* locked up.
TripIsActedOn == tripped ~> Answered
===============================================================================
