------------------------- MODULE EmulatorServerProofs -------------------------
(***************************************************************************)
(* What the one mutex of the emulator guarantees, for any number of joints,*)
(* any targets, any commands and any watchdog timeout: what holds of the   *)
(* robot inside and outside the critical sections, and that whoever waits  *)
(* is served and a lock-up is noticed, if the threads keep running.        *)
(***************************************************************************)
EXTENDS EmulatorServer, RobotLemmas

\* The labels of the critical sections, one by one.
LEMMA SectionLabelsAre ==
  SectionLabels = { "enableJoints", "ServoEnable", "ControllerReady", "disableJoints",
                    "ServoDisable", "homeJoints", "startMotion", "CommandStop",
                    "StopComplete", "engageBrakes", "EStopTriggered", "checkMoving",
                    "updateJoints", "count", "unlock", "setTarget", "refuse",
                    "readState", "readJoints" }
BY DEF SectionLabels, Following

\* Wherever a section starts and wherever a step of it leads is in a section.
LEMMA SectionStartInSection ==
  ASSUME NEW thread \in Lockers
  PROVE  SectionStart(thread) \in SectionLabels
<1>1. \A l \in Implemented : Handler[l] \in SectionLabels
  BY SectionLabelsAre DEF Handler, Implemented
<1> QED
  BY <1>1, SectionLabelsAre DEF SectionStart

LEMMA FollowingInSection ==
  ASSUME NEW l \in DOMAIN Following
  PROVE  Following[l] \in SectionLabels
BY SectionLabelsAre DEF Following

\* The labels at which a thread is outside its critical section.
OutsideLabels == { "lock", "accept", "receive", "send", "poll", "trip", "check" }

LEMMA OutsideDisjoint == OutsideLabels \cap SectionLabels = {}
BY SectionLabelsAre DEF OutsideLabels

\* Every thread is inside its critical section or outside it.
PcType == pc \in [Threads -> SectionLabels \cup OutsideLabels]

-------------------------------------------------------------------------------
\* The part of the type the exclusion needs, and the exclusion.
LEMMA ExclusionCorrect == Spec => [](PcType /\ MutualExclusion)
<1> USE DEF Go
<1>1. Init => PcType /\ MutualExclusion
  BY SectionLabelsAre DEF Init, PcType, MutualExclusion, InSection, Threads, Lockers, OutsideLabels
<1>2. PcType /\ MutualExclusion /\ [Next]_vars => (PcType /\ MutualExclusion)'
  <2> SUFFICES ASSUME PcType, MutualExclusion, [Next]_vars
               PROVE  PcType' /\ MutualExclusion'
    OBVIOUS
  <2> USE DEF PcType, MutualExclusion, InSection
  <2>1. ASSUME NEW t \in Lockers, pc[t] \in SectionLabels, NEW l \in SectionLabels,
               pc' = [pc EXCEPT ![t] = l], robotMutex' = robotMutex
        PROVE  PcType' /\ MutualExclusion'
    BY <2>1 DEF Threads
  <2>2. ASSUME NEW t \in Threads, pc[t] \notin SectionLabels, NEW l \in OutsideLabels,
               pc' = [pc EXCEPT ![t] = l], robotMutex' = robotMutex
        PROVE  PcType' /\ MutualExclusion'
    BY <2>2, OutsideDisjoint DEF Threads
  <2>3. CASE \E t \in Lockers : Lock(t)
    <3>1. PICK t \in Lockers : Lock(t)
      BY <2>3
    <3>2. /\ robotMutex = None /\ robotMutex' = t
          /\ pc' = [pc EXCEPT ![t] = SectionStart(t)] /\ SectionStart(t) \in SectionLabels
      BY <3>1, SectionStartInSection DEF Lock
    <3>3. None \notin Lockers
      BY ServerAssumption
    <3> QED
      BY <3>2, <3>3 DEF Threads
  <2>4. CASE \E t \in Lockers : Unlock(t)
    <3>1. PICK t \in Lockers : Unlock(t)
      BY <2>4
    <3>2. /\ pc[t] = "unlock" /\ robotMutex' = None
          /\ pc' = [pc EXCEPT ![t] = AfterUnlock[t]]
          /\ AfterUnlock[t] \in OutsideLabels
      BY <3>1 DEF Unlock, AfterUnlock, Lockers, OutsideLabels
    <3>3. \A u \in Lockers : pc[u] \in SectionLabels => u = t
      BY <3>2, SectionLabelsAre
    <3> QED
      BY <3>2, <3>3, OutsideDisjoint DEF Threads
  <2>5. CASE \E t \in Lockers : HandlerStep(t)
    <3>1. PICK t \in Lockers : HandlerStep(t)
      BY <2>5
    <3>2. /\ pc' = [pc EXCEPT ![t] = Following[pc[t]]] /\ robotMutex' = robotMutex
          /\ pc[t] \in { "enableJoints", "disableJoints", "homeJoints", "engageBrakes",
                         "startMotion" } \cup ControllerEvent
      BY <3>1 DEF HandlerStep
    <3>3. pc[t] \in DOMAIN Following
      BY <3>2, SectionLabelsAre DEF Following, OutsideLabels, ControllerEvent, Threads
    <3>4. pc[t] \in SectionLabels /\ Following[pc[t]] \in SectionLabels
      BY <3>3, FollowingInSection DEF SectionLabels
    <3> QED
      BY <2>1, <3>2, <3>4
  <2>6. CASE CheckMoving \/ UpdateRobot \/ CountCycle
    <3>1. "control" \in Lockers
      BY DEF Lockers
    <3> QED
      BY <2>1, <2>6, <3>1, SectionLabelsAre DEF CheckMoving, UpdateRobot, CountCycle, shared
  <2>7. CASE AcceptTarget \/ RejectRequest \/ ReadState \/ ReadJoints
    <3>1. "connection" \in Lockers
      BY DEF Lockers
    <3> QED
      BY <2>1, <2>7, <3>1, SectionLabelsAre
         DEF AcceptTarget, RejectRequest, ReadState, ReadJoints, shared
  <2>8. CASE Accept \/ (\E q \in Requests : Receive(q)) \/ Disconnect \/ Send
    <3>1. "connection" \in Threads
      BY DEF Threads, Lockers
    <3> QED
      BY <2>2, <2>8, <3>1, SectionLabelsAre
         DEF Accept, Receive, Disconnect, Send, shared, OutsideLabels
  <2>9. CASE PollChanged \/ PollUnchanged \/ Trip \/ TakeTrip \/ UNCHANGED vars
    <3>1. "watchdog" \in Threads /\ "response" \in Threads
      BY DEF Threads, Lockers
    <3>2. CASE UNCHANGED << pc, robotMutex >>
      BY <3>2
    <3>3. CASE PollUnchanged /\ ~UNCHANGED pc
      <4>1. pc["watchdog"] = "poll" /\ pc' = [pc EXCEPT !["watchdog"] = "trip"]
            /\ robotMutex' = robotMutex
        BY <3>3 DEF PollUnchanged, shared
      <4> QED
        BY <2>2, <3>1, <4>1, SectionLabelsAre DEF OutsideLabels
    <3>4. CASE Trip
      BY <2>2, <3>1, <3>4, SectionLabelsAre DEF Trip, shared, OutsideLabels
    <3>5. CASE TakeTrip
      BY <2>2, <3>1, <3>5, SectionLabelsAre DEF TakeTrip, shared, OutsideLabels
    <3> QED
      BY <2>9, <3>2, <3>3, <3>4, <3>5 DEF PollChanged, PollUnchanged, vars, shared
  <2> QED
    BY <2>3, <2>4, <2>5, <2>6, <2>7, <2>8, <2>9 DEF Next, Control, Serve, Respond, Lockers
<1> QED
  BY <1>1, <1>2, PTL DEF Spec

-------------------------------------------------------------------------------
(* How far the thread that owns the mutex has got: at each label of its    *)
(* section, the robot as a function of the robot it found, committed.      *)

Untouched == robot = committed

ControlLabels == { "lock", "checkMoving", "updateJoints", "count", "unlock" }
ResponseLabels == { "check", "lock", "engageBrakes", "EStopTriggered", "unlock" }
ConnectionLabels == { "accept", "receive", "lock", "send" } \cup
                    (SectionLabels \ { "checkMoving", "updateJoints", "count" })

Cycled == committed.controller = "Moving" /\ robot = UpdateJoints(committed)

ControlLink ==
  /\ pc["control"] \in ControlLabels
  /\ pc["control"] = "checkMoving" => Untouched
  /\ pc["control"] = "updateJoints" => Untouched /\ committed.controller = "Moving"
  /\ pc["control"] \in { "count", "unlock" } => Untouched \/ Cycled

Triggered == robot = Fire(EngageBrakes(committed), "EStopTriggered")

ResponseLink ==
  /\ pc["response"] \in ResponseLabels
  /\ pc["response"] = "engageBrakes" => Untouched
  /\ pc["response"] = "EStopTriggered" => robot = EngageBrakes(committed)
  /\ pc["response"] = "unlock" => Triggered

(* What a handler has done, and answered, when it returns.                 *)
Served ==
  \/ /\ request.type = "GetStatus"
     /\ Untouched /\ response = Reply("GetStatus", "Ok", StatusOf(committed))
  \/ /\ request.type = "Enable"
     /\ robot = Fire(Fire(EnableJoints(committed), "ServoEnable"), "ControllerReady")
     /\ response = Reply("Enable", "Ok", None)
  \/ /\ request.type = "Disable"
     /\ robot = Fire(DisableJoints(committed), "ServoDisable")
     /\ response = Reply("Disable", "Ok", None)
  \/ /\ request.type = "Home"
     /\ robot = HomeJoints(committed) /\ response = Reply("Home", "Ok", None)
  \/ /\ request.type = "MoveJoint" /\ MoveAccepted(committed, request)
     /\ robot = StartMotion(SetTarget(committed, request))
     /\ response = Reply("MoveJoint", "Ok", None)
  \/ /\ request.type = "MoveJoint" /\ ~MoveAccepted(committed, request)
     /\ Untouched /\ response = Reply("MoveJoint", "Error", None)
  \/ /\ request.type = "Stop"
     /\ robot = Fire(Fire(committed, "CommandStop"), "StopComplete")
     /\ response = Reply("Stop", "Ok", None)
  \/ /\ request.type = "EmergencyStop"
     /\ Triggered /\ response = Reply("EmergencyStop", "Ok", None)
  \/ /\ request.type \notin Implemented
     /\ Untouched /\ response = Reply(request.type, "Error", None)

(* The request a label belongs to, and the robot the handler finds there.  *)
Found(type, r) == request.type = type /\ robot = r

HandlerLink ==
  /\ pc["connection"] = "readState"       => Found("GetStatus", committed)
  /\ pc["connection"] = "readJoints"      => Found("GetStatus", committed)
  /\ pc["connection"] = "enableJoints"    => Found("Enable", committed)
  /\ pc["connection"] = "ServoEnable"     => Found("Enable", EnableJoints(committed))
  /\ pc["connection"] = "ControllerReady" =>
       Found("Enable", Fire(EnableJoints(committed), "ServoEnable"))
  /\ pc["connection"] = "disableJoints"   => Found("Disable", committed)
  /\ pc["connection"] = "ServoDisable"    => Found("Disable", DisableJoints(committed))
  /\ pc["connection"] = "homeJoints"      => Found("Home", committed)
  /\ pc["connection"] = "setTarget"       => Found("MoveJoint", committed)
  /\ pc["connection"] = "startMotion"     =>
       Found("MoveJoint", SetTarget(committed, request)) /\ MoveAccepted(committed, request)
  /\ pc["connection"] = "CommandStop"     => Found("Stop", committed)
  /\ pc["connection"] = "StopComplete"    => Found("Stop", Fire(committed, "CommandStop"))
  /\ pc["connection"] = "engageBrakes"    => Found("EmergencyStop", committed)
  /\ pc["connection"] = "EStopTriggered"  => Found("EmergencyStop", EngageBrakes(committed))
  /\ pc["connection"] = "refuse"          => request.type \notin Implemented /\ Untouched
  /\ pc["connection"] = "unlock"          => Served

Building == ConnectionLabels \ { "accept", "receive", "send", "readJoints", "unlock" }

AnswerLink ==
  /\ pc["connection"] \in SectionLabels \cup {"lock"} => request \in Requests
  /\ pc["connection"] \in Building => response = Reply(request.type, "Ok", None)
  /\ pc["connection"] = "readJoints" =>
       response = Reply("GetStatus", "Ok", [controller |-> committed.controller, joints |-> None])
  /\ pc["connection"] = "send" => response \in Replies

ConnectionLink == pc["connection"] \in ConnectionLabels /\ HandlerLink /\ AnswerLink

Link ==
  /\ robotMutex = None => Untouched
  /\ ControlLink
  /\ ResponseLink
  /\ ConnectionLink

\* A thread whose state and whose view of the robot do not change keeps its
\* link; one that is outside its section has no view of the robot to keep.
LEMMA LinksKept ==
  /\ ControlLink /\ pc'["control"] = pc["control"]
       /\ (UNCHANGED << robot, committed >> \/ pc["control"] \notin SectionLabels)
     => ControlLink'
  /\ ResponseLink /\ pc'["response"] = pc["response"]
       /\ (UNCHANGED << robot, committed >> \/ pc["response"] \notin SectionLabels)
     => ResponseLink'
  /\ ConnectionLink /\ pc'["connection"] = pc["connection"] /\ UNCHANGED << request, response >>
       /\ (UNCHANGED << robot, committed >> \/ pc["connection"] \notin SectionLabels)
     => ConnectionLink'
<1>1. ControlLink /\ pc'["control"] = pc["control"]
        /\ (UNCHANGED << robot, committed >> \/ pc["control"] \notin SectionLabels)
      => ControlLink'
  BY SectionLabelsAre DEF ControlLink, Untouched, Cycled
<1>2. ResponseLink /\ pc'["response"] = pc["response"]
        /\ (UNCHANGED << robot, committed >> \/ pc["response"] \notin SectionLabels)
      => ResponseLink'
  BY SectionLabelsAre DEF ResponseLink, Untouched, Triggered
<1>3. ASSUME ConnectionLink, pc'["connection"] = pc["connection"], UNCHANGED << request, response >>,
             UNCHANGED << robot, committed >> \/ pc["connection"] \notin SectionLabels
      PROVE  ConnectionLink'
  <2>1. CASE UNCHANGED << robot, committed >>
    BY <1>3, <2>1 DEF ConnectionLink, HandlerLink, AnswerLink, Found, Served, Untouched, Triggered
  <2>2. CASE pc["connection"] \notin SectionLabels
    BY <1>3, <2>2, SectionLabelsAre DEF ConnectionLink, HandlerLink, AnswerLink
  <2> QED
    BY <1>3, <2>1, <2>2
<1> QED
  BY <1>1, <1>2, <1>3

\* Only the owner of the mutex is inside a section.
LEMMA OneInside ==
  ASSUME MutualExclusion, NEW t \in Lockers, pc[t] \in SectionLabels
  PROVE  /\ \A u \in Lockers \ {t} : pc[u] \notin SectionLabels
         /\ robotMutex # None
BY ServerAssumption DEF MutualExclusion, InSection

LEMMA LockersAre ==
  /\ "control" \in Lockers /\ "connection" \in Lockers /\ "response" \in Lockers
  /\ Lockers \ {"control"} = {"connection", "response"}
  /\ Lockers \ {"connection"} = {"control", "response"}
  /\ Lockers \ {"response"} = {"control", "connection"}
  /\ Threads = {"control", "connection", "response", "watchdog"}
BY DEF Lockers, Threads

\* The control thread's steps inside its section.
LEMMA ControlKeepsLink ==
  ASSUME PcType, MutualExclusion, Link, CheckMoving \/ UpdateRobot \/ CountCycle
  PROVE  Link'
<1>1. /\ pc["control"] \in { "checkMoving", "updateJoints", "count" }
      /\ pc'["connection"] = pc["connection"] /\ pc'["response"] = pc["response"]
      /\ UNCHANGED << request, response, committed, robotMutex >>
  BY LockersAre DEF CheckMoving, UpdateRobot, CountCycle, shared, connectionVars, Go, PcType
<1>2. /\ pc["connection"] \notin SectionLabels /\ pc["response"] \notin SectionLabels
      /\ robotMutex # None
  BY <1>1, OneInside, LockersAre, SectionLabelsAre
<1>3. ConnectionLink' /\ ResponseLink'
  BY <1>1, <1>2, LinksKept DEF Link
<1>4. ControlLink'
  BY LockersAre DEF Link, ControlLink, CheckMoving, UpdateRobot, CountCycle, shared, Go, PcType,
       ControlLabels, Untouched, Cycled
<1> QED
  BY <1>1, <1>2, <1>3, <1>4 DEF Link

\* The response thread's steps inside its section.
LEMMA ResponseKeepsLink ==
  ASSUME PcType, MutualExclusion, Link, HandlerStep("response")
  PROVE  Link'
<1>1. pc["response"] \in { "engageBrakes", "EStopTriggered" }
  BY DEF HandlerStep, Link, ResponseLink, ResponseLabels, ControllerEvent
<1>2. /\ pc'["connection"] = pc["connection"] /\ pc'["control"] = pc["control"]
      /\ pc'["response"] = Following[pc["response"]]
      /\ UNCHANGED << request, response, committed, robotMutex >>
  BY LockersAre DEF HandlerStep, connectionVars, Go, PcType
<1>3. /\ pc["connection"] \notin SectionLabels /\ pc["control"] \notin SectionLabels
      /\ robotMutex # None
  BY <1>1, OneInside, LockersAre, SectionLabelsAre
<1>4. ConnectionLink' /\ ControlLink'
  BY <1>2, <1>3, LinksKept DEF Link
<1>5. ResponseLink'
  <2>1. CASE pc["response"] = "engageBrakes"
    <3>1. pc'["response"] = "EStopTriggered" /\ robot' = EngageBrakes(robot)
      BY <1>2, <2>1 DEF HandlerStep, Following, ControllerEvent
    <3> QED
      BY <1>2, <2>1, <3>1 DEF Link, ResponseLink, ResponseLabels, Untouched
  <2>2. CASE pc["response"] = "EStopTriggered"
    <3>1. pc'["response"] = "unlock" /\ robot' = Fire(robot, "EStopTriggered")
      BY <1>2, <2>2 DEF HandlerStep, Following, ControllerEvent
    <3> QED
      BY <1>2, <2>2, <3>1 DEF Link, ResponseLink, ResponseLabels, Triggered
  <2> QED
    BY <1>1, <2>1, <2>2
<1> QED
  BY <1>2, <1>3, <1>4, <1>5 DEF Link

\* The connection thread's steps inside its section leave the other threads'
\* links alone: neither of them is inside.
LEMMA OthersKeepLink ==
  ASSUME PcType, MutualExclusion, Link, pc["connection"] \in SectionLabels,
         NEW l \in SectionLabels, pc' = [pc EXCEPT !["connection"] = l],
         robotMutex' = robotMutex, ConnectionLink'
  PROVE  Link'
<1>1. /\ pc["control"] \notin SectionLabels /\ pc["response"] \notin SectionLabels
      /\ robotMutex # None
  BY OneInside, LockersAre
<1>2. pc'["control"] = pc["control"] /\ pc'["response"] = pc["response"]
  BY DEF PcType
<1> QED
  BY <1>1, <1>2, LinksKept DEF Link

\* The handlers' steps that change the robot (command_dispatcher.cpp 67-123).
LEMMA HandlerKeepsLink ==
  ASSUME PcType, MutualExclusion, Link, HandlerStep("connection")
  PROVE  Link'
<1>1. pc["connection"] \in DOMAIN Following
  BY SectionLabelsAre DEF HandlerStep, Link, ConnectionLink, ConnectionLabels, ControllerEvent,
                          Following
<1>2. /\ pc' = [pc EXCEPT !["connection"] = Following[pc["connection"]]]
      /\ pc'["connection"] = Following[pc["connection"]]
      /\ UNCHANGED << request, response, committed, robotMutex >>
  BY LockersAre DEF HandlerStep, connectionVars, Go, PcType
<1>3. pc["connection"] \in SectionLabels /\ Following[pc["connection"]] \in SectionLabels
  BY <1>1, FollowingInSection DEF SectionLabels
<1>4. request \in Requests /\ response = Reply(request.type, "Ok", None)
  BY <1>1, <1>3, SectionLabelsAre DEF Link, ConnectionLink, AnswerLink, Building,
                                      ConnectionLabels, Following
<1>5. /\ Following[pc["connection"]] \in ConnectionLabels
      /\ Following[pc["connection"]] # "readJoints" /\ Following[pc["connection"]] # "send"
  BY <1>1, SectionLabelsAre DEF Following, ConnectionLabels
<1>6. AnswerLink'
  BY <1>2, <1>4, <1>5, <1>3, SectionLabelsAre DEF AnswerLink, Building
<1>7. HandlerLink'
  <2>1. CASE pc["connection"] = "enableJoints"
    <3>1. pc'["connection"] = "ServoEnable" /\ robot' = EnableJoints(robot)
      BY <1>2, <2>1 DEF HandlerStep, Following, ControllerEvent
    <3> QED
      BY <1>2, <1>4, <2>1, <3>1 DEF Link, ConnectionLink, HandlerLink, Found, Served, Untouched, Triggered
  <2>2. CASE pc["connection"] = "ServoEnable"
    <3>1. pc'["connection"] = "ControllerReady" /\ robot' = Fire(robot, "ServoEnable")
      BY <1>2, <2>2 DEF HandlerStep, Following, ControllerEvent
    <3> QED
      BY <1>2, <1>4, <2>2, <3>1 DEF Link, ConnectionLink, HandlerLink, Found, Served, Untouched, Triggered
  <2>3. CASE pc["connection"] = "ControllerReady"
    <3>1. pc'["connection"] = "unlock" /\ robot' = Fire(robot, "ControllerReady")
      BY <1>2, <2>3 DEF HandlerStep, Following, ControllerEvent
    <3> QED
      BY <1>2, <1>4, <2>3, <3>1 DEF Link, ConnectionLink, HandlerLink, Found, Served, Untouched, Triggered
  <2>4. CASE pc["connection"] = "disableJoints"
    <3>1. pc'["connection"] = "ServoDisable" /\ robot' = DisableJoints(robot)
      BY <1>2, <2>4 DEF HandlerStep, Following, ControllerEvent
    <3> QED
      BY <1>2, <1>4, <2>4, <3>1 DEF Link, ConnectionLink, HandlerLink, Found, Served, Untouched, Triggered
  <2>5. CASE pc["connection"] = "ServoDisable"
    <3>1. pc'["connection"] = "unlock" /\ robot' = Fire(robot, "ServoDisable")
      BY <1>2, <2>5 DEF HandlerStep, Following, ControllerEvent
    <3> QED
      BY <1>2, <1>4, <2>5, <3>1 DEF Link, ConnectionLink, HandlerLink, Found, Served, Untouched, Triggered
  <2>6. CASE pc["connection"] = "homeJoints"
    <3>1. pc'["connection"] = "unlock" /\ robot' = HomeJoints(robot)
      BY <1>2, <2>6 DEF HandlerStep, Following, ControllerEvent
    <3> QED
      BY <1>2, <1>4, <2>6, <3>1 DEF Link, ConnectionLink, HandlerLink, Found, Served, Untouched, Triggered
  <2>7. CASE pc["connection"] = "startMotion"
    <3>1. pc'["connection"] = "unlock" /\ robot' = StartMotion(robot)
      BY <1>2, <2>7 DEF HandlerStep, Following, ControllerEvent
    <3> QED
      BY <1>2, <1>4, <2>7, <3>1 DEF Link, ConnectionLink, HandlerLink, Found, Served, Untouched, Triggered
  <2>8. CASE pc["connection"] = "CommandStop"
    <3>1. pc'["connection"] = "StopComplete" /\ robot' = Fire(robot, "CommandStop")
      BY <1>2, <2>8 DEF HandlerStep, Following, ControllerEvent
    <3> QED
      BY <1>2, <1>4, <2>8, <3>1 DEF Link, ConnectionLink, HandlerLink, Found, Served, Untouched, Triggered
  <2>9. CASE pc["connection"] = "StopComplete"
    <3>1. pc'["connection"] = "unlock" /\ robot' = Fire(robot, "StopComplete")
      BY <1>2, <2>9 DEF HandlerStep, Following, ControllerEvent
    <3> QED
      BY <1>2, <1>4, <2>9, <3>1 DEF Link, ConnectionLink, HandlerLink, Found, Served, Untouched, Triggered
  <2>10. CASE pc["connection"] = "engageBrakes"
    <3>1. pc'["connection"] = "EStopTriggered" /\ robot' = EngageBrakes(robot)
      BY <1>2, <2>10 DEF HandlerStep, Following, ControllerEvent
    <3> QED
      BY <1>2, <1>4, <2>10, <3>1 DEF Link, ConnectionLink, HandlerLink, Found, Served, Untouched, Triggered
  <2>11. CASE pc["connection"] = "EStopTriggered"
    <3>1. pc'["connection"] = "unlock" /\ robot' = Fire(robot, "EStopTriggered")
      BY <1>2, <2>11 DEF HandlerStep, Following, ControllerEvent
    <3> QED
      BY <1>2, <1>4, <2>11, <3>1 DEF Link, ConnectionLink, HandlerLink, Found, Served, Untouched, Triggered
  <2> QED
    BY <1>1, <2>1, <2>2, <2>3, <2>4, <2>5, <2>6, <2>7, <2>8, <2>9, <2>10, <2>11 DEF Following
<1>8. ConnectionLink'
  BY <1>2, <1>5, <1>6, <1>7 DEF ConnectionLink
<1> QED
  BY <1>2, <1>3, <1>8, OthersKeepLink

\* The handlers' steps that only read the robot, or refuse
\* (command_dispatcher.cpp 39-65, 93-112).
LEMMA ReadersKeepLink ==
  ASSUME PcType, MutualExclusion, Link, AcceptTarget \/ RejectRequest \/ ReadState \/ ReadJoints
  PROVE  Link'
<1> USE LockersAre, SectionLabelsAre DEF Go, PcType, shared
<1>1. CASE AcceptTarget
  <2>1. /\ pc["connection"] = "setTarget" /\ pc'["connection"] = "startMotion"
        /\ pc' = [pc EXCEPT !["connection"] = "startMotion"]
        /\ MoveAccepted(robot, request) /\ robot' = SetTarget(robot, request)
        /\ UNCHANGED << request, response, committed, robotMutex >>
    BY <1>1 DEF AcceptTarget, connectionVars
  <2>2. /\ request \in Requests /\ response = Reply(request.type, "Ok", None)
        /\ request.type = "MoveJoint" /\ robot = committed
    BY <2>1 DEF Link, ConnectionLink, AnswerLink, HandlerLink, Found, Building, ConnectionLabels
  <2>3. ConnectionLink'
    BY <2>1, <2>2 DEF ConnectionLink, AnswerLink, HandlerLink, Found, Building, ConnectionLabels
  <2> QED
    BY <2>1, <2>3, OthersKeepLink
<1>2. CASE RejectRequest
  <2>1. /\ pc["connection"] \in {"setTarget", "refuse"} /\ pc'["connection"] = "unlock"
        /\ pc' = [pc EXCEPT !["connection"] = "unlock"]
        /\ pc["connection"] = "setTarget" => ~MoveAccepted(robot, request)
        /\ response' = [response EXCEPT !.status = "Error"]
        /\ UNCHANGED << robot, request, committed, robotMutex >>
    BY <1>2 DEF RejectRequest
  <2>2. /\ request \in Requests /\ response = Reply(request.type, "Ok", None) /\ robot = committed
        /\ pc["connection"] = "setTarget" => request.type = "MoveJoint"
        /\ pc["connection"] = "refuse" => request.type \notin Implemented
    BY <2>1 DEF Link, ConnectionLink, AnswerLink, HandlerLink, Found, Building, ConnectionLabels,
                Untouched
  <2>3. response' = Reply(request.type, "Error", None)
    BY <2>1, <2>2 DEF Reply
  <2>4. Served'
    BY <2>1, <2>2, <2>3 DEF Served, Untouched
  <2>5. ConnectionLink'
    BY <2>1, <2>2, <2>4 DEF ConnectionLink, AnswerLink, HandlerLink, Building, ConnectionLabels
  <2> QED
    BY <2>1, <2>5, OthersKeepLink
<1>3. CASE ReadState
  <2>1. /\ pc["connection"] = "readState" /\ pc'["connection"] = "readJoints"
        /\ pc' = [pc EXCEPT !["connection"] = "readJoints"]
        /\ response' = [response EXCEPT !.body = [controller |-> robot.controller, joints |-> None]]
        /\ UNCHANGED << robot, request, committed, robotMutex >>
    BY <1>3 DEF ReadState
  <2>2. /\ request \in Requests /\ response = Reply("GetStatus", "Ok", None)
        /\ robot = committed /\ request.type = "GetStatus"
    BY <2>1 DEF Link, ConnectionLink, AnswerLink, HandlerLink, Found, Building, ConnectionLabels
  <2>3. response' = Reply("GetStatus", "Ok", [controller |-> committed.controller, joints |-> None])
    BY <2>1, <2>2 DEF Reply
  <2>4. ConnectionLink'
    BY <2>1, <2>2, <2>3 DEF ConnectionLink, AnswerLink, HandlerLink, Found, Building, ConnectionLabels
  <2> QED
    BY <2>1, <2>4, OthersKeepLink
<1>4. CASE ReadJoints
  <2>1. /\ pc["connection"] = "readJoints" /\ pc'["connection"] = "unlock"
        /\ pc' = [pc EXCEPT !["connection"] = "unlock"]
        /\ response' = [response EXCEPT !.body.joints = StatusOf(robot).joints]
        /\ UNCHANGED << robot, request, committed, robotMutex >>
    BY <1>4 DEF ReadJoints
  <2>2. /\ request \in Requests /\ robot = committed /\ request.type = "GetStatus"
        /\ response = Reply("GetStatus", "Ok", [controller |-> committed.controller, joints |-> None])
    BY <2>1 DEF Link, ConnectionLink, AnswerLink, HandlerLink, Found
  <2>3. response' = Reply("GetStatus", "Ok", StatusOf(committed))
    BY <2>1, <2>2 DEF Reply, StatusOf
  <2>4. Served'
    BY <2>1, <2>2, <2>3 DEF Served, Untouched
  <2>5. ConnectionLink'
    BY <2>1, <2>2, <2>4 DEF ConnectionLink, AnswerLink, HandlerLink, Building, ConnectionLabels
  <2> QED
    BY <2>1, <2>5, OthersKeepLink
<1> QED
  BY <1>1, <1>2, <1>3, <1>4

\* Taking the mutex: the thread finds the robot as it was left.
LEMMA LockKeepsLink ==
  ASSUME PcType, MutualExclusion, Link, NEW t \in Lockers, Lock(t)
  PROVE  Link'
<1>1. /\ pc[t] = "lock" /\ robot = committed
      /\ pc' = [pc EXCEPT ![t] = SectionStart(t)]
      /\ robotMutex' = t
      /\ UNCHANGED << robot, committed, request, response >>
  BY DEF Lock, Go, connectionVars, Link, Untouched
<1>2. robotMutex' # None
  BY <1>1, ServerAssumption
<1>3. CASE t = "control"
  <2>1. /\ pc'["control"] = "checkMoving"
        /\ pc'["connection"] = pc["connection"] /\ pc'["response"] = pc["response"]
    BY <1>1, <1>3, LockersAre DEF PcType, SectionStart
  <2> QED
    BY <1>1, <1>2, <2>1, LinksKept DEF Link, ControlLink, ControlLabels, Untouched
<1>4. CASE t = "response"
  <2>1. /\ pc'["response"] = "engageBrakes"
        /\ pc'["connection"] = pc["connection"] /\ pc'["control"] = pc["control"]
    BY <1>1, <1>4, LockersAre DEF PcType, SectionStart
  <2> QED
    BY <1>1, <1>2, <2>1, LinksKept DEF Link, ResponseLink, ResponseLabels, Untouched
<1>5. CASE t = "connection"
  <2>1. /\ pc'["connection"] = SectionStart("connection")
        /\ pc'["control"] = pc["control"] /\ pc'["response"] = pc["response"]
    BY <1>1, <1>5, LockersAre DEF PcType
  <2>2. request \in Requests /\ response = Reply(request.type, "Ok", None)
    BY <1>1, <1>5, SectionLabelsAre DEF Link, ConnectionLink, AnswerLink, Building, ConnectionLabels
  <2>3. SectionStart("connection") =
          IF request.type \in Implemented THEN Handler[request.type] ELSE "refuse"
    BY DEF SectionStart
  <2>4. ConnectionLink'
    <3> USE DEF ConnectionLink, HandlerLink, AnswerLink, Found, Building, ConnectionLabels, Untouched
    <3>1. CASE request.type = "GetStatus"
      <4>1. pc'["connection"] = "readState"
        BY <2>1, <2>3, <3>1 DEF Implemented, Handler
      <4> QED
        BY <1>1, <2>2, <3>1, <4>1, SectionLabelsAre
    <3>2. CASE request.type = "Enable"
      <4>1. pc'["connection"] = "enableJoints"
        BY <2>1, <2>3, <3>2 DEF Implemented, Handler
      <4> QED
        BY <1>1, <2>2, <3>2, <4>1, SectionLabelsAre
    <3>3. CASE request.type = "Disable"
      <4>1. pc'["connection"] = "disableJoints"
        BY <2>1, <2>3, <3>3 DEF Implemented, Handler
      <4> QED
        BY <1>1, <2>2, <3>3, <4>1, SectionLabelsAre
    <3>4. CASE request.type = "Home"
      <4>1. pc'["connection"] = "homeJoints"
        BY <2>1, <2>3, <3>4 DEF Implemented, Handler
      <4> QED
        BY <1>1, <2>2, <3>4, <4>1, SectionLabelsAre
    <3>5. CASE request.type = "MoveJoint"
      <4>1. pc'["connection"] = "setTarget"
        BY <2>1, <2>3, <3>5 DEF Implemented, Handler
      <4> QED
        BY <1>1, <2>2, <3>5, <4>1, SectionLabelsAre
    <3>6. CASE request.type = "Stop"
      <4>1. pc'["connection"] = "CommandStop"
        BY <2>1, <2>3, <3>6 DEF Implemented, Handler
      <4> QED
        BY <1>1, <2>2, <3>6, <4>1, SectionLabelsAre
    <3>7. CASE request.type = "EmergencyStop"
      <4>1. pc'["connection"] = "engageBrakes"
        BY <2>1, <2>3, <3>7 DEF Implemented, Handler
      <4> QED
        BY <1>1, <2>2, <3>7, <4>1, SectionLabelsAre
    <3>8. CASE request.type \notin Implemented
      <4>1. pc'["connection"] = "refuse"
        BY <2>1, <2>3, <3>8
      <4> QED
        BY <1>1, <2>2, <3>8, <4>1, SectionLabelsAre
    <3> QED
      BY <3>1, <3>2, <3>3, <3>4, <3>5, <3>6, <3>7, <3>8 DEF Implemented
  <2> QED
    BY <1>1, <1>2, <2>1, <2>4, LinksKept DEF Link
<1> QED
  BY <1>3, <1>4, <1>5 DEF Lockers

-------------------------------------------------------------------------------
\* Every answer a handler can build is an answer.
LEMMA ServedIsReply ==
  ASSUME Served, request \in Requests, committed \in Robots
  PROVE  response \in Replies
<1>1. request.type \in RequestTypes
  BY DEF Requests
<1>2. StatusOf(committed) \in Status
  BY DEF StatusOf, Status, Robots, JointRecord
<1>3. \A s \in {"Ok", "Error"}, b \in {None} \cup Status : Reply(request.type, s, b) \in Replies
  BY <1>1 DEF Reply, Replies
<1>4. \E s \in {"Ok", "Error"}, b \in {None} \cup Status : response = Reply(request.type, s, b)
  BY <1>2 DEF Served
<1> QED
  BY <1>3, <1>4

\* Releasing the mutex: what the section did becomes what everybody finds.
LEMMA UnlockKeepsLink ==
  ASSUME PcType, MutualExclusion, Link, committed \in Robots, NEW t \in Lockers, Unlock(t)
  PROVE  Link'
<1>1. /\ pc[t] = "unlock" /\ robot' = robot /\ committed' = robot
      /\ pc' = [pc EXCEPT ![t] = AfterUnlock[t]]
      /\ robotMutex' = None /\ response' = response
      /\ t # "connection" => request' = request
  BY DEF Unlock, Go
<1>2. \A u \in Lockers \ {t} : pc[u] \notin SectionLabels
  BY <1>1, OneInside, SectionLabelsAre
<1>3. CASE t = "control"
  <2>1. /\ pc'["control"] = "lock"
        /\ pc'["connection"] = pc["connection"] /\ pc'["response"] = pc["response"]
    BY <1>1, <1>3, LockersAre DEF PcType, AfterUnlock
  <2>2. ControlLink'
    BY <1>1, <2>1 DEF ControlLink, ControlLabels
  <2>3. ConnectionLink' /\ ResponseLink'
    BY <1>1, <1>2, <1>3, <2>1, LinksKept, LockersAre DEF Link
  <2> QED
    BY <1>1, <2>2, <2>3 DEF Link, Untouched
<1>4. CASE t = "response"
  <2>1. /\ pc'["response"] = "check"
        /\ pc'["connection"] = pc["connection"] /\ pc'["control"] = pc["control"]
    BY <1>1, <1>4, LockersAre DEF PcType, AfterUnlock
  <2>2. ResponseLink'
    BY <1>1, <2>1 DEF ResponseLink, ResponseLabels
  <2>3. ConnectionLink' /\ ControlLink'
    BY <1>1, <1>2, <1>4, <2>1, LinksKept, LockersAre DEF Link
  <2> QED
    BY <1>1, <2>2, <2>3 DEF Link, Untouched
<1>5. CASE t = "connection"
  <2>1. /\ pc'["connection"] = "send"
        /\ pc'["control"] = pc["control"] /\ pc'["response"] = pc["response"]
    BY <1>1, <1>5, LockersAre DEF PcType, AfterUnlock
  <2>2. Served /\ request \in Requests
    BY <1>1, <1>5, SectionLabelsAre DEF Link, ConnectionLink, HandlerLink, AnswerLink
  <2>3. response \in Replies
    BY <2>2, ServedIsReply
  <2>4. ConnectionLink'
    BY <1>1, <2>1, <2>3, SectionLabelsAre
       DEF ConnectionLink, HandlerLink, AnswerLink, ConnectionLabels, Building
  <2>5. ControlLink' /\ ResponseLink'
    BY <1>1, <1>2, <1>5, <2>1, LinksKept, LockersAre DEF Link
  <2> QED
    BY <1>1, <2>4, <2>5 DEF Link, Untouched
<1> QED
  BY <1>3, <1>4, <1>5 DEF Lockers

\* The steps outside the sections touch neither the robot nor the mutex.
LEMMA OutsideKeepsLink ==
  ASSUME PcType, MutualExclusion, Link,
         \/ Accept \/ (\E q \in Requests : Receive(q)) \/ Disconnect \/ Send
         \/ PollChanged \/ PollUnchanged \/ Trip \/ TakeTrip \/ UNCHANGED vars
  PROVE  Link'
<1> USE LockersAre DEF Go, shared, connectionVars, vars, PcType
<1>1. CASE Accept \/ Disconnect \/ Send \/ \E q \in Requests : Receive(q)
  <2>1. /\ UNCHANGED << robot, committed, robotMutex >>
        /\ pc'["control"] = pc["control"] /\ pc'["response"] = pc["response"]
    BY <1>1 DEF Accept, Disconnect, Send, Receive
  <2>2. CASE Accept \/ Disconnect \/ Send
    <3>1. pc'["connection"] \in {"accept", "receive"}
      BY <2>2 DEF Accept, Disconnect, Send
    <3> QED
      BY <2>1, <3>1, LinksKept, SectionLabelsAre
         DEF Link, ConnectionLink, HandlerLink, AnswerLink, ConnectionLabels, Building, Untouched
  <2>3. CASE \E q \in Requests : Receive(q)
    <3>1. /\ pc'["connection"] = "lock" /\ request' \in Requests
          /\ response' = Reply(request'.type, "Ok", None)
      BY <2>3 DEF Receive
    <3> QED
      BY <2>1, <3>1, LinksKept, SectionLabelsAre
         DEF Link, ConnectionLink, HandlerLink, AnswerLink, ConnectionLabels, Building, Untouched
  <2> QED
    BY <1>1, <2>2, <2>3
<1>2. CASE PollChanged \/ PollUnchanged \/ Trip \/ UNCHANGED vars
  <2>1. /\ UNCHANGED << robot, committed, robotMutex, request, response >>
        /\ pc'["control"] = pc["control"] /\ pc'["response"] = pc["response"]
        /\ pc'["connection"] = pc["connection"]
    BY <1>2 DEF PollChanged, PollUnchanged, Trip
  <2> QED
    BY <2>1, LinksKept DEF Link, Untouched
<1>3. CASE TakeTrip
  <2>1. /\ UNCHANGED << robot, committed, robotMutex, request, response >>
        /\ pc'["control"] = pc["control"] /\ pc'["response"] = "lock"
        /\ pc'["connection"] = pc["connection"]
    BY <1>3 DEF TakeTrip
  <2> QED
    BY <2>1, LinksKept DEF Link, Untouched, ResponseLink, ResponseLabels
<1> QED
  BY <1>1, <1>2, <1>3

-------------------------------------------------------------------------------
\* Every step keeps the robot's type, finished or half done.
LEMMA RobotsStayRobots ==
  ASSUME PcType, Link, robot \in Robots, committed \in Robots, [Next]_vars
  PROVE  robot' \in Robots /\ committed' \in Robots
<1>1. CASE \E t \in Lockers : HandlerStep(t)
  <2>1. PICK t \in Lockers : HandlerStep(t)
    BY <1>1
  <2>2. committed' = committed
    BY <2>1 DEF HandlerStep
  <2>3. CASE pc[t] \in ControllerEvent /\ robot' = Fire(robot, pc[t])
    BY <2>2, <2>3, FireFacts
  <2>4. CASE robot' \in { EnableJoints(robot), DisableJoints(robot), HomeJoints(robot) }
    BY <2>2, <2>4, JointsFacts
  <2>5. CASE robot' = EngageBrakes(robot)
    BY <2>2, <2>5, BrakesFacts
  <2>6. CASE robot' = StartMotion(robot)
    BY <2>2, <2>6, StartMotionFacts
  <2> QED
    BY <2>1, <2>3, <2>4, <2>5, <2>6 DEF HandlerStep
<1>2. CASE AcceptTarget
  <2>1. /\ request \in Requests /\ request.type = "MoveJoint" /\ MoveAccepted(robot, request)
        /\ robot' = SetTarget(robot, request) /\ committed' = committed
    BY <1>2, SectionLabelsAre DEF AcceptTarget, Link, ConnectionLink, HandlerLink, AnswerLink, Found
  <2> QED
    BY <2>1, SetTargetFacts
<1>3. CASE UpdateRobot
  BY <1>3, JointsFacts DEF UpdateRobot
<1>4. CASE \E t \in Lockers : Unlock(t)
  BY <1>4 DEF Unlock
<1>5. CASE UNCHANGED << robot, committed >>
  BY <1>5
<1> QED
  BY <1>1, <1>2, <1>3, <1>4, <1>5
     DEF Next, Control, Serve, Respond, Lock, CheckMoving, CountCycle, Accept, Receive, Disconnect,
         Send, RejectRequest, ReadState, ReadJoints, PollChanged, PollUnchanged, Trip, TakeTrip,
         shared, vars, Lockers

\* The inductive invariant: each thread's link to what it found.
LinkInv == Link /\ robot \in Robots /\ committed \in Robots

LEMMA LinkCorrect == Spec => []LinkInv
<1>1. Init => LinkInv
  BY BootedFacts, SectionLabelsAre
     DEF Init, LinkInv, Link, Untouched, ControlLink, ControlLabels, ResponseLink, ResponseLabels,
         ConnectionLink, ConnectionLabels, HandlerLink, AnswerLink, Building
<1>2. PcType /\ MutualExclusion /\ LinkInv /\ [Next]_vars => LinkInv'
  <2> SUFFICES ASSUME PcType, MutualExclusion, Link, robot \in Robots, committed \in Robots,
                      [Next]_vars
               PROVE  Link'
    BY RobotsStayRobots DEF LinkInv
  <2> QED
    BY LockKeepsLink, UnlockKeepsLink, ControlKeepsLink, ResponseKeepsLink, HandlerKeepsLink,
       ReadersKeepLink, OutsideKeepsLink, LockersAre
       DEF Next, Control, Serve, Respond
<1> QED
  BY <1>1, <1>2, ExclusionCorrect, PTL DEF Spec

\* What the connection thread builds is an answer at every step of it.
LEMMA AnswersTyped ==
  ASSUME Link, committed \in Robots, robot \in Robots, response \in Replies \cup {None},
         [Next]_vars
  PROVE  response' \in Replies \cup {None}
<1> DEFINE body == [controller |-> committed.controller, joints |-> None]
<1>1. \A q \in Requests, s \in {"Ok", "Error"} : Reply(q.type, s, None) \in Replies
  BY DEF Reply, Replies, Requests
<1>2. CASE \E q \in Requests : Receive(q)
  BY <1>1, <1>2 DEF Receive
<1>3. CASE Send
  BY <1>3 DEF Send
<1>4. CASE RejectRequest
  <2>1. /\ request \in Requests /\ response = Reply(request.type, "Ok", None)
        /\ response' = [response EXCEPT !.status = "Error"]
    BY <1>4, SectionLabelsAre
       DEF RejectRequest, Link, ConnectionLink, AnswerLink, Building, ConnectionLabels
  <2>2. response' = Reply(request.type, "Error", None)
    BY <2>1 DEF Reply
  <2> QED
    BY <1>1, <2>1, <2>2
<1>5. CASE ReadState
  <2>1. /\ request \in Requests /\ response = Reply(request.type, "Ok", None) /\ robot = committed
        /\ response' = [response EXCEPT !.body = [controller |-> robot.controller, joints |-> None]]
    BY <1>5, SectionLabelsAre
       DEF ReadState, Link, ConnectionLink, AnswerLink, HandlerLink, Found, Building, ConnectionLabels
  <2>2. response' = Reply(request.type, "Ok", body)
    BY <2>1 DEF Reply
  <2>3. body \in Status /\ request.type \in RequestTypes
    BY <2>1 DEF Status, Robots, Requests
  <2> QED
    BY <2>2, <2>3 DEF Reply, Replies
<1>6. CASE ReadJoints
  <2>1. /\ request \in Requests /\ request.type = "GetStatus" /\ robot = committed
        /\ response = Reply("GetStatus", "Ok", body)
        /\ response' = [response EXCEPT !.body.joints = StatusOf(robot).joints]
    BY <1>6, SectionLabelsAre DEF ReadJoints, Link, ConnectionLink, AnswerLink, HandlerLink, Found
  <2>2. response' = Reply("GetStatus", "Ok", StatusOf(committed))
    BY <2>1 DEF Reply, StatusOf
  <2>3. StatusOf(committed) \in Status /\ "GetStatus" \in RequestTypes
    BY <2>1 DEF StatusOf, Status, Robots, JointRecord, Requests
  <2> QED
    BY <2>2, <2>3 DEF Reply, Replies
<1>7. CASE response' = response
  BY <1>7
<1> QED
  BY <1>2, <1>3, <1>4, <1>5, <1>6, <1>7
     DEF Next, Control, Serve, Respond, Lock, Unlock, HandlerStep, CheckMoving, UpdateRobot,
         CountCycle, Accept, Disconnect, AcceptTarget, PollChanged, PollUnchanged, Trip, TakeTrip,
         shared, connectionVars, vars

\* The watchdog's clock and flags keep their types.
LEMMA WatchdogTyped ==
  ASSUME heartbeat \in BOOLEAN, age \in 0 .. TimeoutPolls, tripped \in BOOLEAN,
         alreadyTripped \in BOOLEAN, [Next]_vars
  PROVE  /\ heartbeat' \in BOOLEAN /\ age' \in 0 .. TimeoutPolls
         /\ tripped' \in BOOLEAN /\ alreadyTripped' \in BOOLEAN
<1>1. CASE PollUnchanged
  BY <1>1, ServerAssumption DEF PollUnchanged
<1>2. CASE PollChanged
  <2>1. 0 \in 0 .. TimeoutPolls
    BY ServerAssumption
  <2> QED
    BY <1>2, <2>1 DEF PollChanged
<1>3. CASE Trip \/ TakeTrip \/ CountCycle
  BY <1>3 DEF Trip, TakeTrip, CountCycle, watchdogVars
<1>4. CASE UNCHANGED << heartbeat, age, tripped, alreadyTripped >>
  BY <1>4
<1> QED
  BY <1>1, <1>2, <1>3, <1>4
     DEF Next, Control, Serve, Respond, Lock, Unlock, HandlerStep, CheckMoving, UpdateRobot,
         Accept, Receive, Disconnect, Send, AcceptTarget, RejectRequest, ReadState, ReadJoints,
         watchdogVars, vars

\* Every variable of the emulator keeps its type, in the middle of a critical
\* section too (main.cpp 109-194).
THEOREM TypeCorrect == Spec => []TypeOK
<1> DEFINE Rest == /\ robotMutex \in Lockers \cup {None}
                   /\ request \in Requests \cup {None}
                   /\ response \in Replies \cup {None}
                   /\ heartbeat \in BOOLEAN /\ age \in 0 .. TimeoutPolls
                   /\ tripped \in BOOLEAN /\ alreadyTripped \in BOOLEAN
<1>1. Init => Rest
  <2>1. 0 \in 0 .. TimeoutPolls
    BY ServerAssumption
  <2> QED
    BY <2>1 DEF Init
<1>2. LinkInv /\ Rest /\ [Next]_vars => Rest'
  <2> SUFFICES ASSUME LinkInv, Rest, [Next]_vars PROVE Rest'
    OBVIOUS
  <2>1. response' \in Replies \cup {None}
    BY AnswersTyped DEF LinkInv
  <2>2. /\ heartbeat' \in BOOLEAN /\ age' \in 0 .. TimeoutPolls
        /\ tripped' \in BOOLEAN /\ alreadyTripped' \in BOOLEAN
    BY WatchdogTyped
  <2>3. robotMutex' \in Lockers \cup {None} /\ request' \in Requests \cup {None}
    BY DEF Next, Control, Serve, Respond, Lock, Unlock, HandlerStep, CheckMoving, UpdateRobot,
           CountCycle, Accept, Receive, Disconnect, Send, AcceptTarget, RejectRequest, ReadState,
           ReadJoints, PollChanged, PollUnchanged, Trip, TakeTrip, shared, connectionVars, vars
  <2> QED
    BY <2>1, <2>2, <2>3
<1>3. PcType /\ LinkInv /\ Rest => TypeOK
  BY DEF PcType, OutsideLabels, LinkInv, TypeOK
<1> QED
  BY <1>1, <1>2, <1>3, ExclusionCorrect, LinkCorrect, PTL DEF Spec

\* No two threads are between lock and unlock together (main.cpp 115-192).
THEOREM MutualExclusionCorrect == Spec => []MutualExclusion
BY ExclusionCorrect, PTL

\* The controller is still Moving when the control loop advances the joints it
\* found Moving: no stop, no emergency stop comes between (control_loop.cpp
\* 42-47).
THEOREM TestedStateCorrect == Spec => []TestedStateHolds
<1>1. LinkInv => TestedStateHolds
  BY DEF LinkInv, Link, ControlLink, Untouched, TestedStateHolds
<1> QED
  BY <1>1, LinkCorrect, PTL

-------------------------------------------------------------------------------
\* What a handler leaves behind is a settled controller, if it found one.
LEMMA ServedSettles ==
  ASSUME Served, request \in Requests, committed \in Robots,
         committed.controller \in SettledState
  PROVE  robot.controller \in SettledState
<1>1. /\ EnableJoints(committed) \in Robots /\ DisableJoints(committed) \in Robots
      /\ EngageBrakes(committed) \in Robots
      /\ EnableJoints(committed).controller \in SettledState
      /\ DisableJoints(committed).controller \in SettledState
      /\ HomeJoints(committed).controller \in SettledState
      /\ EngageBrakes(committed).controller \in SettledState
  BY JointsFacts, BrakesFacts
<1>2. request.type = "MoveJoint" /\ MoveAccepted(committed, request)
        => /\ SetTarget(committed, request) \in Robots
           /\ SetTarget(committed, request).controller \in SettledState
  BY SetTargetFacts
<1> QED
  BY <1>1, <1>2, OperationsSettle DEF Served, Untouched, Triggered

Settled == committed.controller \in SettledState

LEMMA SettledCorrect == Spec => []Settled
<1> USE DEF Settled
<1>1. Init => Settled
  BY BootedFacts DEF Init, SettledState
<1>2. LinkInv /\ Settled /\ [Next]_vars => Settled'
  <2> SUFFICES ASSUME LinkInv, Settled, [Next]_vars PROVE Settled'
    OBVIOUS
  <2>1. CASE Unlock("connection")
    <3>1. Served /\ request \in Requests /\ committed' = robot /\ committed \in Robots
      BY <2>1, SectionLabelsAre
         DEF Unlock, LinkInv, Link, ConnectionLink, HandlerLink, AnswerLink
    <3> QED
      BY <3>1, ServedSettles
  <2>2. CASE Unlock("response")
    <3>1. Triggered /\ committed' = robot /\ committed \in Robots
      BY <2>2 DEF Unlock, LinkInv, Link, ResponseLink
    <3>2. EngageBrakes(committed) \in Robots /\ EngageBrakes(committed).controller \in SettledState
      BY <3>1, BrakesFacts
    <3> QED
      BY <3>1, <3>2, OperationsSettle DEF Triggered
  <2>3. CASE Unlock("control")
    BY <2>3, JointsFacts DEF Unlock, LinkInv, Link, ControlLink, Untouched, Cycled
  <2>4. CASE committed' = committed
    BY <2>4
  <2> QED
    BY <2>1, <2>2, <2>3, <2>4
       DEF Next, Control, Serve, Respond, Lock, HandlerStep, CheckMoving, UpdateRobot, CountCycle,
           Accept, Receive, Disconnect, Send, AcceptTarget, RejectRequest, ReadState, ReadJoints,
           PollChanged, PollUnchanged, Trip, TakeTrip, shared, vars, Lockers
<1> QED
  BY <1>1, <1>2, LinkCorrect, PTL DEF Spec

\* ServoOn and Stopping exist only inside a handler (command_dispatcher.cpp
\* 67-74, 114-118): nobody who takes the mutex ever finds them.
THEOREM TransientStatesCorrect == Spec => []TransientStatesUnseen
<1>1. LinkInv /\ Settled => TransientStatesUnseen
  BY DEF LinkInv, Link, Untouched, Settled, SettledState, TransientStatesUnseen
<1> QED
  BY <1>1, LinkCorrect, SettledCorrect, PTL

-------------------------------------------------------------------------------
\* The service's operators are this module's: an instance makes copies of
\* them, with the same bodies.
LEMMA ServiceOperators ==
  /\ Service!BootedRobot = BootedRobot
  /\ Service!Joints = Joints
  /\ Service!Requests = Requests
  /\ Service!Implemented = Implemented
  /\ \A r, e : Service!Fire(r, e) = Fire(r, e)
  /\ \A r : Service!EnableJoints(r) = EnableJoints(r)
  /\ \A r : Service!DisableJoints(r) = DisableJoints(r)
  /\ \A r : Service!HomeJoints(r) = HomeJoints(r)
  /\ \A r : Service!EngageBrakes(r) = EngageBrakes(r)
  /\ \A r : Service!UpdateJoints(r) = UpdateJoints(r)
  /\ \A r : Service!StartMotion(r) = StartMotion(r)
  /\ \A r : Service!StatusOf(r) = StatusOf(r)
  /\ \A r, q : Service!MoveAccepted(r, q) <=> MoveAccepted(r, q)
  /\ \A r, q : Service!SetTarget(r, q) = SetTarget(r, q)
  /\ \A t, s, b : Service!Reply(t, s, b) = Reply(t, s, b)
<1>1. /\ Service!Joints = Joints
      /\ Service!Implemented = Implemented
      /\ \A t, s, b : Service!Reply(t, s, b) = Reply(t, s, b)
  BY DEF Service!Joints, Joints, Service!Implemented, Implemented, Service!Reply, Reply
<1>2. Service!Requests = Requests
  BY DEF Service!Requests, Requests
<1>3. \A s, e : Service!HandleEvent(s, e) = HandleEvent(s, e)
  BY DEF Service!HandleEvent, HandleEvent, Service!CanHandle, CanHandle,
         Service!AcceptedFrom, AcceptedFrom, Service!LeadsTo, LeadsTo
<1>4. \A r, e : Service!Fire(r, e) = Fire(r, e)
  BY <1>3 DEF Service!Fire, Fire
<1>5. Service!NewJoint = NewJoint
  BY DEF Service!NewJoint, NewJoint
<1>6. Service!BootedRobot = BootedRobot
  BY <1>1, <1>4, <1>5 DEF Service!BootedRobot, BootedRobot
<1>7. /\ \A r : Service!EnableJoints(r) = EnableJoints(r)
      /\ \A r : Service!DisableJoints(r) = DisableJoints(r)
      /\ \A r : Service!HomeJoints(r) = HomeJoints(r)
      /\ \A r : Service!EngageBrakes(r) = EngageBrakes(r)
  BY <1>1 DEF Service!EnableJoints, EnableJoints, Service!DisableJoints, DisableJoints,
              Service!HomeJoints, HomeJoints, Service!EngageBrakes, EngageBrakes,
              Service!JointEnable, JointEnable, Service!JointDisable, JointDisable,
              Service!JointHome, JointHome
<1>8. \A j, dt : Service!JointUpdate(j, dt) = JointUpdate(j, dt)
  <2>1. \A x, lo, hi : Service!Clamp(x, lo, hi) = Clamp(x, lo, hi)
    BY DEF Service!Clamp, Clamp
  <2>2. \A j : Service!ClampToLimits(j) = ClampToLimits(j)
    BY DEF Service!ClampToLimits, ClampToLimits
  <2>3. \A j, dt : Service!Advance(j, dt) = Advance(j, dt)
    BY <2>1, <2>2 DEF Service!Advance, Advance
  <2> QED
    BY <2>3 DEF Service!JointUpdate, JointUpdate, Service!Poisoned, Poisoned
<1>9. \A r : Service!UpdateJoints(r) = UpdateJoints(r)
  BY <1>1, <1>8 DEF Service!UpdateJoints, UpdateJoints
<1>10. \A r : Service!StartMotion(r) = StartMotion(r)
  BY <1>4 DEF Service!StartMotion, StartMotion
<1>11. \A r : Service!StatusOf(r) = StatusOf(r)
  BY <1>1 DEF Service!StatusOf, StatusOf
<1>12. /\ \A j, x : Service!TargetAccepted(j, x) <=> TargetAccepted(j, x)
       /\ \A j, x : Service!JointSetTarget(j, x) = JointSetTarget(j, x)
  BY DEF Service!TargetAccepted, TargetAccepted, Service!Within, Within,
         Service!JointSetTarget, JointSetTarget
<1>13. /\ \A r, q : Service!MoveAccepted(r, q) <=> MoveAccepted(r, q)
       /\ \A r, q : Service!SetTarget(r, q) = SetTarget(r, q)
  BY <1>12 DEF Service!MoveAccepted, MoveAccepted, Service!SetTarget, SetTarget
<1> QED
  BY <1>1, <1>2, <1>4, <1>6, <1>7, <1>9, <1>10, <1>11, <1>13

\* Every step of a thread is an operation of the service or changes nothing a
\* client can see: the unlock of a section is where its operation happens, and
\* the send of an answer its delivery.  A command, a control cycle or an
\* emergency stop is never seen half done, for any number of joints and any
\* commands (main.cpp 115-192, server-integration.md 87-104).
THEOREM ServiceImplemented == Spec => ImplementsService
<1> DEFINE answer == IF pc["connection"] = "send" THEN response ELSE None
<1>1. Init => Service!Init
  BY ServiceOperators DEF Init, Service!Init
<1>2. PcType /\ LinkInv /\ [Next]_vars => [Service!Next]_(Service!vars)
  <2> SUFFICES ASSUME PcType, Link, robot \in Robots, committed \in Robots, [Next]_vars
               PROVE  [Service!Next]_(Service!vars)
    BY DEF LinkInv
  <2> USE LockersAre, SectionLabelsAre DEF PcType, Go
  <2>1. CASE Unlock("control")
    <3>1. /\ Untouched \/ Cycled
          /\ committed' = robot /\ answer' = answer
      BY <2>1 DEF Unlock, AfterUnlock, Link, ControlLink
    <3>2. CASE Untouched
      BY <3>1, <3>2 DEF Untouched, Service!vars
    <3>3. CASE Cycled
      <4>1. Service!ControlCycle
        BY <3>1, <3>3, ServiceOperators DEF Cycled, Service!ControlCycle
      <4> QED
        BY <4>1 DEF Service!Next
    <3> QED
      BY <3>1, <3>2, <3>3
  <2>2. CASE Send
    <3>1. answer \in Replies /\ answer' = None /\ committed' = committed
      BY <2>2 DEF Send, Link, ConnectionLink, AnswerLink, shared
    <3>2. Service!Deliver
      BY <3>1, ServerAssumption DEF Service!Deliver
    <3> QED
      BY <3>2 DEF Service!Next
  <2>3. ASSUME committed' = committed,
               \/ UNCHANGED << pc, response >>
               \/ pc["connection"] # "send" /\ pc'["connection"] # "send"
        PROVE  UNCHANGED Service!vars
    BY <2>3 DEF Service!vars
  <2>4. CASE Unlock("response")
    <3>1. Triggered /\ committed' = robot /\ answer' = answer
      BY <2>4 DEF Unlock, AfterUnlock, Link, ResponseLink
    <3>2. Service!WatchdogStop
      BY <3>1, ServiceOperators DEF Triggered, Service!WatchdogStop, Service!TriggerEStop
    <3> QED
      BY <3>2 DEF Service!Next
  <2>5. CASE Unlock("connection")
    <3>1. /\ Served /\ request \in Requests
          /\ committed' = robot /\ answer = None /\ answer' = response
      BY <2>5 DEF Unlock, AfterUnlock, Link, ConnectionLink, HandlerLink, AnswerLink
    <3>2. Service!Dispatch(request)
      BY <3>1, ServiceOperators
         DEF Served, Untouched, Triggered, Service!Dispatch, Service!GetStatus, Service!Enable,
             Service!Disable, Service!Home, Service!MoveJoint, Service!RejectMove, Service!Stop,
             Service!EmergencyStop, Service!TriggerEStop, Service!Refuse
    <3> QED
      BY <3>1, <3>2, ServiceOperators DEF Service!Next
  <2>6. CASE \E t \in Lockers : Lock(t)
    <3>1. PICK t \in Lockers : Lock(t)
      BY <2>6
    <3>2. pc[t] = "lock" /\ pc' = [pc EXCEPT ![t] = SectionStart(t)] /\ committed' = committed
          /\ response' = response
      BY <3>1 DEF Lock, connectionVars
    <3>3. SectionStart(t) # "send"
      BY SectionStartInSection
    <3>4. answer' = answer
      BY <3>2, <3>3
    <3> QED
      BY <3>2, <3>4 DEF Service!vars
  <2>7. CASE \E t \in Lockers : HandlerStep(t)
    <3>1. PICK t \in Lockers : HandlerStep(t)
      BY <2>7
    <3>2. committed' = committed /\ response' = response
          /\ pc' = [pc EXCEPT ![t] = Following[pc[t]]]
      BY <3>1 DEF HandlerStep, connectionVars
    <3>3. pc[t] \in DOMAIN Following
      BY <3>1 DEF HandlerStep, Following, OutsideLabels, ControllerEvent
    <3>4. pc[t] # "send" /\ Following[pc[t]] # "send"
      BY <3>3, FollowingInSection DEF SectionLabels
    <3> QED
      BY <2>3, <3>2, <3>4 DEF Service!vars
  <2>8. CASE CheckMoving \/ UpdateRobot \/ CountCycle
    BY <2>8 DEF CheckMoving, UpdateRobot, CountCycle, shared, connectionVars, Service!vars
  <2>9. CASE \/ AcceptTarget \/ RejectRequest \/ ReadState \/ ReadJoints
             \/ Accept \/ (\E q \in Requests : Receive(q)) \/ Disconnect
    BY <2>3, <2>9 DEF AcceptTarget, RejectRequest, ReadState, ReadJoints, Accept, Receive,
                      Disconnect, shared
  <2>10. CASE PollChanged \/ PollUnchanged \/ Trip \/ TakeTrip \/ UNCHANGED vars
    BY <2>10 DEF PollChanged, PollUnchanged, Trip, TakeTrip, shared, connectionVars, vars,
                 Service!vars
  <2> QED
    BY <2>1, <2>2, <2>4, <2>5, <2>6, <2>7, <2>8, <2>9, <2>10
       DEF Next, Control, Serve, Respond, Lockers
<1> QED
  BY <1>1, <1>2, ExclusionCorrect, LinkCorrect, PTL DEF Spec, ImplementsService, Service!Spec

-------------------------------------------------------------------------------
(* Whoever waits for the mutex gets it.                                    *)
(*                                                                         *)
(* The fairness of FairSpec with the guards written out in place of        *)
(* ENABLED: a connection or response thread inside its section goes on, the*)
(* response thread takes a trip it finds, and a thread that waits for a    *)
(* mutex that is free again and again gets it.                             *)

Waiters == { "connection", "response" }

Work(x) == IF x = "connection" THEN Serve ELSE Respond

CanLock(x) == pc[x] = "lock" /\ robotMutex = None

CanTakeTrip == pc["response"] = "check" /\ tripped /\ ~alreadyTripped

OthersKeepRunning ==
  /\ \A x \in Waiters : []([]<>CanLock(x) => <><< Lock(x) >>_vars)
  /\ \A x \in Waiters : []([]InSection(x) => <><< Work(x) >>_vars)
  /\ []([]CanTakeTrip => <><< TakeTrip >>_vars)

\* The labels of a handler, by the most steps that are left to its end.
StepsLeft ==
  << { "unlock" },
     { "ControllerReady", "ServoDisable", "homeJoints", "startMotion", "StopComplete",
       "EStopTriggered", "refuse", "readJoints" },
     { "ServoEnable", "disableJoints", "CommandStop", "engageBrakes", "setTarget",
       "readState" },
     { "enableJoints" } >>

\* The mutex belongs to a thread that is inside its section.
HolderInside == robotMutex # None => robotMutex \in Lockers /\ InSection(robotMutex)

\* A thread inside its section stays inside, and keeps the mutex, until it
\* unlocks.
LEMMA SectionSteps ==
  ASSUME PcType, MutualExclusion, [Next]_vars, NEW t \in Lockers, InSection(t)
  PROVE  \/ InSection(t)' /\ robotMutex' = robotMutex
         \/ Unlock(t) /\ robotMutex' = None
<1> USE DEF PcType, InSection, Go
<1>1. \A u \in Lockers \ {t} : pc[u] \notin SectionLabels
  BY OneInside
<1>2. robotMutex # None
  BY OneInside
<1>3. ASSUME pc'[t] = pc[t], robotMutex' = robotMutex
      PROVE  InSection(t)' /\ robotMutex' = robotMutex
  BY <1>3
<1>4. CASE \E u \in Lockers : Lock(u)
  BY <1>2, <1>4 DEF Lock
<1>5. CASE \E u \in Lockers : Unlock(u)
  <2>1. PICK u \in Lockers : Unlock(u)
    BY <1>5
  <2>2. u = t
    BY <1>1, <2>1, SectionLabelsAre DEF Unlock
  <2> QED
    BY <2>1, <2>2 DEF Unlock
<1>6. CASE \E u \in Lockers : HandlerStep(u)
  <2>1. PICK u \in Lockers : HandlerStep(u)
    BY <1>6
  <2>2. pc[u] \in DOMAIN Following
    BY <2>1, SectionLabelsAre DEF HandlerStep, Following, OutsideLabels, ControllerEvent, Threads
  <2>3. Following[pc[u]] \in SectionLabels
    BY <2>2, FollowingInSection
  <2> QED
    BY <2>1, <2>3 DEF HandlerStep, Threads
<1>7. CASE CheckMoving \/ UpdateRobot \/ CountCycle
  BY <1>7, LockersAre, SectionLabelsAre DEF CheckMoving, UpdateRobot, CountCycle, shared
<1>8. CASE AcceptTarget \/ RejectRequest \/ ReadState \/ ReadJoints
  BY <1>8, LockersAre, SectionLabelsAre DEF AcceptTarget, RejectRequest, ReadState, ReadJoints, shared
<1>9. CASE \/ Accept \/ (\E q \in Requests : Receive(q)) \/ Disconnect \/ Send
           \/ PollChanged \/ PollUnchanged \/ Trip \/ TakeTrip \/ UNCHANGED vars
  BY <1>3, <1>9, LockersAre, SectionLabelsAre
     DEF Accept, Receive, Disconnect, Send, PollChanged, PollUnchanged, Trip, TakeTrip, shared, vars
<1> QED
  BY <1>4, <1>5, <1>6, <1>7, <1>8, <1>9 DEF Next, Control, Serve, Respond, Lockers

LEMMA HolderCorrect == Spec => []HolderInside
<1>1. Init => HolderInside
  BY DEF Init, HolderInside
<1>2. PcType /\ MutualExclusion /\ HolderInside /\ [Next]_vars => HolderInside'
  <2> SUFFICES ASSUME PcType, MutualExclusion, HolderInside, [Next]_vars
               PROVE  HolderInside'
    OBVIOUS
  <2>1. CASE robotMutex # None
    <3> PICK t \in Lockers : t = robotMutex
      BY <2>1 DEF HolderInside
    <3>1. InSection(t)
      BY <2>1 DEF HolderInside
    <3>2. \/ InSection(t)' /\ robotMutex' = t
          \/ robotMutex' = None
      BY <3>1, SectionSteps
    <3> QED
      BY <3>2 DEF HolderInside, InSection
  <2>2. CASE \E t \in Lockers : Lock(t)
    <3>1. PICK t \in Lockers : Lock(t)
      BY <2>2
    <3>2. robotMutex' = t /\ pc'[t] \in SectionLabels
      BY <3>1, SectionStartInSection DEF Lock, Go, PcType, Threads
    <3> QED
      BY <3>2 DEF HolderInside, InSection
  <2>3. CASE robotMutex = None /\ ~\E t \in Lockers : Lock(t)
    <3>1. robotMutex' = None
      BY <2>3 DEF Next, Control, Serve, Respond, Unlock, HandlerStep, CheckMoving, UpdateRobot,
           CountCycle, Accept, Receive, Disconnect, Send, AcceptTarget, RejectRequest, ReadState,
           ReadJoints, PollChanged, PollUnchanged, Trip, TakeTrip, shared, vars
    <3> QED
      BY <3>1 DEF HolderInside
  <2> QED
    BY <2>1, <2>2, <2>3
<1> QED
  BY <1>1, <1>2, ExclusionCorrect, PTL DEF Spec

\* What the steps of the emulator are for a thread that waits or serves.
ServingInv == PcType /\ MutualExclusion /\ Link

LEMMA WaiterMoves ==
  ASSUME ServingInv, [Next]_vars, NEW x \in Waiters
  PROVE  /\ pc[x] = "lock" => pc'[x] = pc[x] \/ << Lock(x) >>_vars
         /\ InSection(x)   => pc'[x] = pc[x] \/ << Work(x) >>_vars
<1> USE DEF ServingInv, PcType, InSection, Go, Waiters
<1>1. ASSUME pc'[x] # pc[x]
      PROVE  UNCHANGED vars => FALSE
  BY <1>1 DEF vars
<1>2. CASE \E t \in Lockers : Lock(t)
  <2>1. PICK t \in Lockers : Lock(t)
    BY <1>2
  <2>2. pc[t] = "lock" /\ pc' = [pc EXCEPT ![t] = SectionStart(t)]
    BY <2>1 DEF Lock
  <2>3. CASE t = x
    BY <1>1, <2>1, <2>2, <2>3, SectionLabelsAre
  <2>4. CASE t # x
    BY <2>2, <2>4
  <2> QED
    BY <2>3, <2>4
<1>3. CASE Control
  BY <1>3, LockersAre DEF Control, CheckMoving, UpdateRobot, CountCycle, Unlock
<1>4. CASE Serve
  <2>1. x = "connection" => Work(x)
    BY <1>4 DEF Work
  <2>2. x = "connection" => pc[x] # "lock"
    BY <1>4, SectionLabelsAre DEF Serve, AcceptTarget, RejectRequest, ReadState, ReadJoints,
         HandlerStep, ControllerEvent, Unlock
  <2>3. x = "response" => pc'[x] = pc[x]
    BY <1>4, LockersAre DEF Serve, AcceptTarget, RejectRequest, ReadState, ReadJoints,
         HandlerStep, Unlock
  <2> QED
    BY <1>1, <2>1, <2>2, <2>3
<1>5. CASE Respond
  <2>1. x = "response" => Work(x)
    BY <1>5 DEF Work
  <2>2. x = "response" => pc[x] # "lock"
    BY <1>5, SectionLabelsAre DEF Respond, HandlerStep, ControllerEvent, Unlock
  <2>3. x = "connection" => pc'[x] = pc[x]
    BY <1>5, LockersAre DEF Respond, HandlerStep, Unlock
  <2> QED
    BY <1>1, <2>1, <2>2, <2>3
<1>6. CASE \/ Accept \/ (\E q \in Requests : Receive(q)) \/ Disconnect \/ Send
           \/ PollChanged \/ PollUnchanged \/ Trip \/ TakeTrip \/ UNCHANGED vars
  BY <1>6, LockersAre, SectionLabelsAre
     DEF Accept, Receive, Disconnect, Send, PollChanged, PollUnchanged, Trip, TakeTrip, vars
<1> QED
  BY <1>2, <1>3, <1>4, <1>5, <1>6 DEF Next

\* A step of a handler leaves fewer to its end; the last frees the mutex.
LEMMA WorkAdvances ==
  ASSUME ServingInv, NEW x \in Waiters
  PROVE  /\ InSection(x) => \E n \in 1 .. 4 : pc[x] \in StepsLeft[n]
         /\ \A n \in 1 .. 4 : pc[x] \in StepsLeft[n] => InSection(x)
         /\ pc[x] \in StepsLeft[1] /\ Work(x) =>
              pc'[x] = AfterUnlock[x] /\ robotMutex' = None
         /\ \A n \in 2 .. 4 :
              pc[x] \in StepsLeft[n] /\ Work(x) => \E m \in 1 .. n - 1 : pc'[x] \in StepsLeft[m]
<1> USE DEF PcType, InSection, Go, Waiters
<1>1. InSection(x) => \E n \in 1 .. 4 : pc[x] \in StepsLeft[n]
  BY SectionLabelsAre DEF StepsLeft, ServingInv, Link, ConnectionLink, ConnectionLabels,
       ResponseLink, ResponseLabels
<1>2. \A n \in 1 .. 4 : pc[x] \in StepsLeft[n] => InSection(x)
  BY SectionLabelsAre DEF StepsLeft
<1>3. ASSUME pc[x] = "unlock", Work(x)
      PROVE  Unlock(x)
  BY <1>3 DEF Work, Serve, Respond, AcceptTarget, RejectRequest, ReadState, ReadJoints, HandlerStep,
              ControllerEvent
<1>4. ASSUME NEW n \in 2 .. 4, pc[x] \in StepsLeft[n], Work(x)
      PROVE  \E m \in 1 .. n - 1 : pc'[x] \in StepsLeft[m]
  <2>1. CASE HandlerStep(x)
    <3>1. pc'[x] = Following[pc[x]] /\ pc[x] \in DOMAIN Following
      BY <1>4, <2>1, LockersAre DEF HandlerStep, StepsLeft, ServingInv, Following, ControllerEvent
    <3> QED
      BY <1>4, <3>1 DEF StepsLeft, Following
  <2>2. CASE x = "connection" /\ (AcceptTarget \/ RejectRequest \/ ReadState \/ ReadJoints)
    BY <1>4, <2>2, LockersAre
       DEF AcceptTarget, RejectRequest, ReadState, ReadJoints, StepsLeft, ServingInv
  <2> QED
    BY <1>4, <2>1, <2>2 DEF Work, Serve, Respond, Unlock, StepsLeft
<1> QED
  BY <1>1, <1>2, <1>3, <1>4, LockersAre DEF Unlock, StepsLeft, ServingInv

\* Once inside, a thread other than the control thread comes to its unlock.
LEMMA SectionEnds ==
  ASSUME NEW x \in Waiters
  PROVE  Spec /\ OthersKeepRunning =>
           (InSection(x) ~> pc[x] = AfterUnlock[x] /\ robotMutex = None)
<1> DEFINE At(n) == pc[x] \in StepsLeft[n]
           Out   == pc[x] = AfterUnlock[x] /\ robotMutex = None
<1>1. OthersKeepRunning => []([]InSection(x) => <><< Work(x) >>_vars)
  BY DEF OthersKeepRunning
<1>2. Spec => []ServingInv
  BY ExclusionCorrect, LinkCorrect, PTL DEF ServingInv, LinkInv
<1>3. \A n \in 1 .. 4 : ServingInv /\ At(n) => InSection(x)
  BY WorkAdvances
<1>4. ASSUME NEW n \in 1 .. 4
      PROVE  ServingInv /\ At(n) /\ [Next]_vars => At(n)' \/ << Work(x) >>_vars
  BY <1>3, WaiterMoves
<1>5. /\ ServingInv /\ At(1) /\ << Work(x) >>_vars => Out'
      /\ ServingInv /\ At(2) /\ << Work(x) >>_vars => At(1)'
      /\ ServingInv /\ At(3) /\ << Work(x) >>_vars => At(1)' \/ At(2)'
      /\ ServingInv /\ At(4) /\ << Work(x) >>_vars => At(1)' \/ At(2)' \/ At(3)'
  <2>1. /\ 1 .. 2 - 1 = {1} /\ 1 .. 3 - 1 = {1, 2} /\ 1 .. 4 - 1 = {1, 2, 3}
        /\ 2 \in 2 .. 4 /\ 3 \in 2 .. 4 /\ 4 \in 2 .. 4
    OBVIOUS
  <2> QED
    BY <2>1, WorkAdvances
<1>6. ServingInv /\ InSection(x) => At(1) \/ At(2) \/ At(3) \/ At(4)
  <2>1. 1 .. 4 = {1, 2, 3, 4}
    OBVIOUS
  <2> QED
    BY <2>1, WorkAdvances
<1>7. /\ ServingInv /\ At(1) => InSection(x)
      /\ ServingInv /\ At(2) => InSection(x)
      /\ ServingInv /\ At(3) => InSection(x)
      /\ ServingInv /\ At(4) => InSection(x)
  BY <1>3
<1>8. /\ ServingInv /\ At(1) /\ [Next]_vars => At(1)' \/ << Work(x) >>_vars
      /\ ServingInv /\ At(2) /\ [Next]_vars => At(2)' \/ << Work(x) >>_vars
      /\ ServingInv /\ At(3) /\ [Next]_vars => At(3)' \/ << Work(x) >>_vars
      /\ ServingInv /\ At(4) /\ [Next]_vars => At(4)' \/ << Work(x) >>_vars
  BY <1>4
<1> HIDE DEF At, Out
<1>9. Spec /\ OthersKeepRunning => (At(1) ~> Out)
  BY <1>1, <1>2, <1>5, <1>7, <1>8, PTL DEF Spec
<1>10. Spec /\ OthersKeepRunning => (At(2) ~> At(1))
  BY <1>1, <1>2, <1>5, <1>7, <1>8, PTL DEF Spec
<1>11. Spec /\ OthersKeepRunning => (At(3) ~> At(1) \/ At(2))
  BY <1>1, <1>2, <1>5, <1>7, <1>8, PTL DEF Spec
<1>12. Spec /\ OthersKeepRunning => (At(4) ~> At(1) \/ At(2) \/ At(3))
  BY <1>1, <1>2, <1>5, <1>7, <1>8, PTL DEF Spec
<1>13. Spec /\ OthersKeepRunning => (InSection(x) ~> Out)
  BY <1>2, <1>6, <1>9, <1>10, <1>11, <1>12, PTL
<1> QED
  BY <1>13 DEF Out

\* The mutex is free again and again.
LEMMA MutexFreed ==
  Spec /\ OthersKeepRunning /\ ControlLeavesSection => []<>(robotMutex = None)
<1> DEFINE Free == robotMutex = None
<1>1. Spec => [](ServingInv /\ HolderInside)
  BY ExclusionCorrect, LinkCorrect, HolderCorrect, PTL DEF ServingInv, LinkInv
<1>2. ServingInv /\ InSection("control") /\ [Next]_vars => InSection("control")' \/ Free'
  BY SectionSteps, LockersAre DEF ServingInv
<1>3. Spec /\ ControlLeavesSection => (InSection("control") ~> Free)
  BY <1>1, <1>2, PTL DEF Spec, ControlLeavesSection
<1>4. Spec /\ OthersKeepRunning => (InSection("connection") ~> Free)
  <2> PICK x \in Waiters : x = "connection"
    BY DEF Waiters
  <2>1. Spec /\ OthersKeepRunning => (InSection(x) ~> pc[x] = AfterUnlock[x] /\ robotMutex = None)
    BY SectionEnds
  <2>2. InSection("connection") => InSection(x)
    OBVIOUS
  <2> QED
    BY <2>1, <2>2, PTL
<1>5. Spec /\ OthersKeepRunning => (InSection("response") ~> Free)
  <2> PICK x \in Waiters : x = "response"
    BY DEF Waiters
  <2>1. Spec /\ OthersKeepRunning => (InSection(x) ~> pc[x] = AfterUnlock[x] /\ robotMutex = None)
    BY SectionEnds
  <2>2. InSection("response") => InSection(x)
    OBVIOUS
  <2> QED
    BY <2>1, <2>2, PTL
<1>6. HolderInside => Free \/ InSection("control") \/ InSection("connection") \/ InSection("response")
  BY DEF HolderInside, Lockers
<1> QED
  BY <1>1, <1>3, <1>4, <1>5, <1>6, PTL

\* Who waits gets in, and comes out again.
LEMMA WaiterServed ==
  ASSUME NEW x \in Waiters
  PROVE  Spec /\ OthersKeepRunning /\ ControlLeavesSection =>
           /\ pc[x] = "lock" ~> pc[x] = AfterUnlock[x]
           /\ InSection(x) ~> pc[x] = AfterUnlock[x]
<1>1. OthersKeepRunning => []([]<>CanLock(x) => <><< Lock(x) >>_vars)
  BY DEF OthersKeepRunning
<1>2. Spec => []ServingInv
  BY ExclusionCorrect, LinkCorrect, PTL DEF ServingInv, LinkInv
<1>3. ServingInv /\ pc[x] = "lock" /\ [Next]_vars => (pc[x] = "lock")' \/ << Lock(x) >>_vars
  BY WaiterMoves
<1>4. ServingInv /\ pc[x] = "lock" /\ << Lock(x) >>_vars => InSection(x)'
  BY SectionStartInSection DEF ServingInv, Lock, Go, PcType, InSection, Threads, Lockers, Waiters
<1>5. pc[x] = "lock" /\ robotMutex = None => CanLock(x)
  BY DEF CanLock
<1>6. Spec /\ OthersKeepRunning /\ ControlLeavesSection => (pc[x] = "lock" ~> InSection(x))
  BY <1>1, <1>2, <1>3, <1>4, <1>5, MutexFreed, PTL DEF Spec
<1>7. Spec /\ OthersKeepRunning => (InSection(x) ~> pc[x] = AfterUnlock[x] /\ robotMutex = None)
  BY SectionEnds
<1> QED
  BY <1>6, <1>7, PTL

\* A taken trip stays taken, a trip stays a trip, and the response thread
\* leaves its check for nothing else.
LEMMA TripStays ==
  ASSUME [Next]_vars
  PROVE  (alreadyTripped => alreadyTripped') /\ (tripped => tripped')
BY DEF Next, Control, Serve, Respond, Lock, Unlock, HandlerStep, CheckMoving, UpdateRobot,
       CountCycle, Accept, Receive, Disconnect, Send, AcceptTarget, RejectRequest, ReadState,
       ReadJoints, PollChanged, PollUnchanged, Trip, TakeTrip, watchdogVars, vars

LEMMA CheckLeft ==
  ASSUME ServingInv, [Next]_vars, pc["response"] = "check"
  PROVE  pc'["response"] = "check" \/ TakeTrip
<1> USE DEF ServingInv, PcType, Go
<1>1. CASE \E t \in Lockers : Lock(t) \/ HandlerStep(t) \/ Unlock(t)
  BY <1>1, LockersAre DEF Lock, HandlerStep, Unlock, ControllerEvent
<1>2. CASE CheckMoving \/ UpdateRobot \/ CountCycle
  BY <1>2, LockersAre DEF CheckMoving, UpdateRobot, CountCycle
<1>3. CASE AcceptTarget \/ RejectRequest \/ ReadState \/ ReadJoints
  BY <1>3, LockersAre DEF AcceptTarget, RejectRequest, ReadState, ReadJoints
<1>4. CASE \/ Accept \/ (\E q \in Requests : Receive(q)) \/ Disconnect \/ Send
           \/ PollChanged \/ PollUnchanged \/ Trip \/ UNCHANGED vars
  BY <1>4, LockersAre DEF Accept, Receive, Disconnect, Send, PollChanged, PollUnchanged, Trip, vars
<1> QED
  BY <1>1, <1>2, <1>3, <1>4 DEF Next, Control, Serve, Respond, Lockers

\* The response thread leaves its check with the first trip, and a trip stays
\* taken.
TripTaken == pc["response"] # "check" => alreadyTripped

LEMMA TripTakenCorrect == Spec => []TripTaken
<1>1. Init => TripTaken
  BY DEF Init, TripTaken
<1>2. ServingInv /\ TripTaken /\ [Next]_vars => TripTaken'
  <2> SUFFICES ASSUME ServingInv, TripTaken, [Next]_vars PROVE TripTaken'
    OBVIOUS
  <2> USE DEF TripTaken
  <2>1. CASE TakeTrip
    BY <2>1 DEF TakeTrip
  <2>2. CASE pc["response"] # "check" /\ ~TakeTrip
    BY <2>2, TripStays
  <2>3. CASE pc["response"] = "check" /\ ~TakeTrip
    BY <2>3, CheckLeft
  <2> QED
    BY <2>1, <2>2, <2>3
<1>3. Spec => []ServingInv
  BY ExclusionCorrect, LinkCorrect, PTL DEF ServingInv, LinkInv
<1> QED
  BY <1>1, <1>2, <1>3, PTL DEF Spec

\* Whoever waits for the mutex is served, if the control thread does not stay
\* in its section and the others keep running: for any number of joints and
\* any commands, however often the control loop takes the mutex in between
\* (main.cpp 109-118, 145-156, 175-191).
THEOREM WaitersServedCorrect == Spec /\ OthersKeepRunning => WaitersServed
<1> DEFINE Waiting == Spec /\ OthersKeepRunning /\ ControlLeavesSection
           Check   == pc["response"] = "check"
           Untaken == tripped /\ ~alreadyTripped
<1>1. Waiting => (pc["connection"] = "lock" ~> pc["connection"] = "send")
  <2> PICK x \in Waiters : x = "connection"
    BY DEF Waiters
  <2>1. Waiting => (pc[x] = "lock" ~> pc[x] = AfterUnlock[x])
    BY WaiterServed
  <2>2. /\ pc["connection"] = "lock" => pc[x] = "lock"
        /\ pc[x] = AfterUnlock[x] => pc["connection"] = "send"
    BY DEF AfterUnlock
  <2> QED
    BY <2>1, <2>2, PTL
<1>2. Waiting => (pc["response"] \in {"lock"} \cup SectionLabels ~> Check)
  <2> PICK x \in Waiters : x = "response"
    BY DEF Waiters
  <2>1. Waiting => (pc[x] = "lock" ~> pc[x] = AfterUnlock[x])
    BY WaiterServed
  <2>2. Waiting => (InSection(x) ~> pc[x] = AfterUnlock[x])
    BY WaiterServed
  <2>3. /\ pc["response"] \in {"lock"} \cup SectionLabels => pc[x] = "lock" \/ InSection(x)
        /\ pc[x] = AfterUnlock[x] => Check
    BY DEF AfterUnlock, InSection
  <2> QED
    BY <2>1, <2>2, <2>3, PTL
<1>3. ServingInv /\ ~Check => pc["response"] \in {"lock"} \cup SectionLabels
  BY SectionLabelsAre DEF ServingInv, Link, ResponseLink, ResponseLabels
<1>4. Spec => [](ServingInv /\ TripTaken)
  BY ExclusionCorrect, LinkCorrect, TripTakenCorrect, PTL DEF ServingInv, LinkInv
<1>5. /\ [Next]_vars /\ alreadyTripped => alreadyTripped'
      /\ [Next]_vars /\ tripped => tripped'
  BY TripStays
<1>6. Waiting => (Check /\ Untaken ~> alreadyTripped)
  <2>1. OthersKeepRunning => []([]CanTakeTrip => <><< TakeTrip >>_vars)
    BY DEF OthersKeepRunning
  <2>2. ServingInv /\ CanTakeTrip /\ [Next]_vars => CanTakeTrip' \/ alreadyTripped'
    BY CheckLeft, TripStays DEF CanTakeTrip, TakeTrip
  <2>3. << TakeTrip >>_vars => alreadyTripped'
    BY DEF TakeTrip
  <2>4. Check /\ Untaken => CanTakeTrip
    BY DEF CanTakeTrip
  <2> QED
    BY <1>4, <2>1, <2>2, <2>3, <2>4, PTL DEF Spec
<1>7. Waiting => (tripped ~> Answered)
  <2>1. TripTaken /\ ~alreadyTripped => Check
    BY DEF TripTaken
  <2>2. alreadyTripped /\ Check => Answered
    BY DEF Answered
  <2> QED
    BY <1>2, <1>3, <1>4, <1>5, <1>6, <2>1, <2>2, PTL DEF Spec
<1> QED
  BY <1>1, <1>7 DEF WaitersServed

-------------------------------------------------------------------------------
(* A control thread that stops counting is noticed.                        *)

Polling == PollChanged \/ PollUnchanged \/ Trip

CanPoll == pc["watchdog"] \in { "poll", "trip" }

WatchdogKeepsPolling == []([]CanPoll => <><< Polling >>_vars)

\* Not a cycle counted from here on.
Stalled == [][~CountCycle]_vars

\* The watchdog has seen the counter unchanged for n polls, or more than enough.
Late(n) == ~heartbeat /\ (pc["watchdog"] = "poll" => age >= n)

\* A watchdog that is n polls into a stall trips or comes to be m.
Goes(n, m) == [](Stalled /\ Late(n) => <>(tripped \/ Late(m)))

\* The watchdog is at its poll or at its trip, nobody else moves it, and only a
\* counted cycle sets the heartbeat.
LEMMA WatchdogSteps ==
  ASSUME PcType, CanPoll, [Next]_vars
  PROVE  /\ CanPoll'
         /\ << Polling >>_vars \/ (pc'["watchdog"] = pc["watchdog"] /\ age' = age)
         /\ << Polling >>_vars \/ CountCycle \/ heartbeat' = heartbeat
<1> USE LockersAre DEF PcType, CanPoll, Go
<1>1. CASE \E t \in Lockers : Lock(t) \/ HandlerStep(t) \/ Unlock(t)
  BY <1>1 DEF Lock, HandlerStep, Unlock, watchdogVars
<1>2. CASE CheckMoving \/ UpdateRobot \/ CountCycle
  BY <1>2 DEF CheckMoving, UpdateRobot, CountCycle, watchdogVars
<1>3. CASE AcceptTarget \/ RejectRequest \/ ReadState \/ ReadJoints
  BY <1>3 DEF AcceptTarget, RejectRequest, ReadState, ReadJoints, watchdogVars
<1>4. CASE Accept \/ (\E q \in Requests : Receive(q)) \/ Disconnect \/ Send \/ TakeTrip
  BY <1>4 DEF Accept, Receive, Disconnect, Send, TakeTrip, watchdogVars
<1>5. CASE Polling
  BY <1>5 DEF Polling, PollChanged, PollUnchanged, Trip, vars, watchdogVars
<1>6. CASE UNCHANGED vars
  BY <1>6 DEF vars, watchdogVars
<1> QED
  BY <1>1, <1>2, <1>3, <1>4, <1>5, <1>6 DEF Next, Control, Serve, Respond, Lockers, Polling

LEMMA CanPollCorrect == Spec => []CanPoll
<1>1. Init => CanPoll
  BY DEF Init, CanPoll
<1>2. PcType /\ CanPoll /\ [Next]_vars => CanPoll'
  BY WatchdogSteps
<1> QED
  BY <1>1, <1>2, ExclusionCorrect, PTL DEF Spec

\* A poll of a stalled loop is one more, the last trips.
LEMMA PollSteps ==
  ASSUME TypeOK, CanPoll, Polling
  PROVE  /\ heartbeat => tripped' \/ Late(0)'
         /\ \A n \in Nat : Late(n) => tripped' \/ Late(n + 1)'
<1> USE LockersAre DEF TypeOK, CanPoll, Go, Late
<1>1. CASE PollChanged
  BY <1>1 DEF PollChanged
<1>2. CASE PollUnchanged
  <2>1. PICK later \in (age + 1) .. (age + TimeoutPolls) :
          /\ age' = IF later < TimeoutPolls THEN later ELSE TimeoutPolls
          /\ IF later < TimeoutPolls THEN UNCHANGED pc ELSE Go("watchdog", "trip")
    BY <1>2 DEF PollUnchanged
  <2>2. /\ ~heartbeat /\ ~heartbeat' /\ pc["watchdog"] = "poll"
        /\ age \in Nat /\ later \in Nat /\ later >= age + 1
    BY <1>2, <2>1, ServerAssumption DEF PollUnchanged
  <2>3. ~(later < TimeoutPolls) => pc'["watchdog"] = "trip"
    BY <2>1
  <2>4. ASSUME NEW n \in Nat, Late(n)
        PROVE  Late(n + 1)'
    <3>1. age >= n
      BY <2>2, <2>4
    <3>2. later < TimeoutPolls => age' >= n + 1
      BY <2>1, <2>2, <3>1
    <3> QED
      BY <2>2, <2>3, <3>2
  <2> QED
    BY <2>2, <2>4
<1>3. CASE Trip
  BY <1>3 DEF Trip
<1> QED
  BY <1>1, <1>2, <1>3 DEF Polling

\* One poll further.
LEMMA NextPoll ==
  ASSUME NEW n \in Nat
  PROVE  Spec /\ WatchdogKeepsPolling => Goes(n, n + 1)
<1> DEFINE Here  == Late(n)
           There == Late(n + 1)
           Inv   == TypeOK /\ PcType /\ CanPoll
<1>1. Spec => []Inv
  BY TypeCorrect, ExclusionCorrect, CanPollCorrect, PTL
<1>2. Inv /\ Here /\ [Next]_vars /\ ~CountCycle => Here' \/ << Polling >>_vars
  BY WatchdogSteps DEF Late
<1>3. Inv /\ Here /\ << Polling >>_vars => tripped' \/ There'
  BY PollSteps
<1>4. Inv /\ Here /\ UNCHANGED vars => Here'
  BY DEF Late, vars, watchdogVars
<1>5. Inv => CanPoll
  OBVIOUS
<1> HIDE DEF Here, There, Inv
<1>6. Spec /\ WatchdogKeepsPolling => [](Stalled /\ Here => <>(tripped \/ There))
  BY <1>1, <1>2, <1>3, <1>4, <1>5, PTL DEF Spec, WatchdogKeepsPolling, Stalled
<1> QED
  BY <1>6 DEF Goes, Here, There

\* A way and another one.
LEMMA GoesOn ==
  ASSUME NEW n \in Nat, NEW k \in Nat, NEW m \in Nat
  PROVE  Goes(n, k) /\ Goes(k, m) => Goes(n, m)
BY PTL DEF Goes, Stalled

\* A control thread that stops counting cycles is noticed, wherever it stops and
\* whatever the others do, if the watchdog keeps polling: for every timeout of
\* fewer than 2^10 polls.  The emulator's is 10; the proof doubles the number of
\* polls ten times (watchdog.cpp 83-95).
THEOREM LockupDetectedCorrect ==
  ASSUME TimeoutPolls < 1024
  PROVE  Spec /\ WatchdogKeepsPolling => LockupDetected
<1> DEFINE Far(k) == \A n \in Nat : Spec /\ WatchdogKeepsPolling => Goes(n, n + k)
<1>1. Far(1)
  BY NextPoll
<1>2. ASSUME NEW k \in Nat, Far(k)
      PROVE  Far(2 * k)
  <2> SUFFICES ASSUME NEW n \in Nat
               PROVE  Spec /\ WatchdogKeepsPolling => Goes(n, n + 2 * k)
    OBVIOUS
  <2>1. n + k \in Nat /\ n + 2 * k \in Nat /\ (n + k) + k = n + 2 * k
    OBVIOUS
  <2>2. Spec /\ WatchdogKeepsPolling => Goes(n, n + k) /\ Goes(n + k, (n + k) + k)
    BY <1>2, <2>1
  <2> QED
    BY <2>1, <2>2, GoesOn
<1> HIDE DEF Far
<1>3. Far(1024)
  <2>1. Far(2) /\ Far(4) /\ Far(8) /\ Far(16)
    BY <1>1, <1>2
  <2>2. Far(32) /\ Far(64) /\ Far(128) /\ Far(256)
    BY <2>1, <1>2
  <2> QED
    BY <2>2, <1>2
<1>4. Spec /\ WatchdogKeepsPolling => Goes(0, 1024)
  <2>1. 0 \in Nat /\ 0 + 1024 = 1024
    OBVIOUS
  <2> QED
    BY <1>3, <2>1 DEF Far
<1> DEFINE Inv   == TypeOK /\ PcType /\ CanPoll
           Begun == Late(0)
           Over  == Late(1024)
<1>5. Spec => []Inv
  BY TypeCorrect, ExclusionCorrect, CanPollCorrect, PTL
<1>6. Inv => CanPoll
  OBVIOUS
<1>7. Inv /\ ~heartbeat => Begun
  BY DEF TypeOK, Late
<1>8. Inv /\ heartbeat /\ [Next]_vars => heartbeat' \/ << Polling >>_vars
  BY WatchdogSteps DEF CountCycle
<1>9. Inv /\ heartbeat /\ << Polling >>_vars => tripped' \/ Begun'
  BY PollSteps
<1>10. Inv /\ Over /\ [Next]_vars /\ ~CountCycle => Over' \/ << Polling >>_vars
  BY WatchdogSteps DEF Late
<1>11. Inv /\ Over /\ UNCHANGED vars => Over'
  BY DEF Late, vars, watchdogVars
<1>12. Inv /\ Over /\ << Polling >>_vars => tripped'
  <2> SUFFICES ASSUME Inv, Over, Polling PROVE tripped'
    OBVIOUS
  <2>1. pc["watchdog"] = "trip"
    <3>1. age \in Nat /\ age < 1024
      BY ServerAssumption DEF TypeOK
    <3> QED
      BY <3>1 DEF CanPoll, Late
  <2> QED
    BY <2>1 DEF Polling, PollChanged, PollUnchanged, Trip
<1> HIDE DEF Inv
<1>13. Spec /\ WatchdogKeepsPolling => []<>(tripped \/ Begun)
  BY <1>5, <1>6, <1>7, <1>8, <1>9, PTL DEF Spec, WatchdogKeepsPolling
<1>14. Spec /\ WatchdogKeepsPolling => [](Stalled /\ Over => <>tripped)
  BY <1>5, <1>6, <1>10, <1>11, <1>12, PTL DEF Spec, WatchdogKeepsPolling, Stalled
<1>15. Spec /\ WatchdogKeepsPolling => [](Stalled /\ Begun => <>(tripped \/ Over))
  BY <1>4 DEF Goes
<1> QED
  BY <1>13, <1>14, <1>15, PTL DEF LockupDetected, Stalled
===============================================================================
