# Robot emulator: models, model checking and proofs

This directory holds the TLA+ development for the C++ robot emulator of this
repository: a simulated six-joint robot, its controller state machine, the
safety classes around them, and the server through which clients command it.
Paths below are relative to the repository's root.

To check a module with TLC, run it with one of its configurations, for example
`tlc -config MCRobotService.cfg MCRobotService`; to check the proofs of a
module, `tlapm RobotServiceProofs.tla`. `PROJECT.json` lists every run, the
lines each definition models, the hazards of the code and the properties that
watch them, and for every property a mutant of the code that breaks it.

## 1. The system

| Part | State | Operations | Called by |
|---|---|---|---|
| `ControllerStateMachine` (src/controller) | one of 14 states | `handleEvent`, `canHandle`: two constant tables, 36 rows; an event without a row changes nothing | dispatcher, E-stop, `main` |
| `Joint`, `JointLimits` (src/core) | position, velocity, acceleration, two targets, enabled, homed | `enable`, `disable`, `home`, `setTargetPosition`, `setTargetVelocity`, `update(dt)` | dispatcher, `Robot` |
| `Robot`, `RobotConfig` (src/core) | the joints | `create` (validates), `update` | control loop, `main` |
| `VirtualBrake` (src/hardware) | engaged or released | `engage`, `release` | E-stop |
| `EmergencyStopController` (src/safety) | none of its own | `trigger`: all brakes, then the event; `reset`: the event | dispatcher, response thread |
| `CommandDispatcher` (src/server) | none of its own | seven commands; anything else is an error | connection loop |
| `ControlLoop` (src/runtime) | running flag, thread, five counters | `step`, `start`, `stop`, `metrics`, the pacing loop | control thread (only `step`) |
| `Watchdog` (src/safety) | running, tripped, last counter, time of last change | `start`, `stop`, `reset`, `tripped`, the polling loop | `main`, its own thread |
| robot-emulator (apps) | the mutex; one connection; the receive buffer | four threads: control, connection, watchdog, response | |
| `FrameCodec`, payloads, TCP (src/protocol, src/cli) | byte buffers | encode, decode, send, receive | emulator, client |
| `Client`, robotctl, robot-viewer | a connection | one request and its answer at a time | users |
| ROS 2 bridge | a client; command and state arrays | activate, deactivate, `read`, `write` | the controller manager |
| `FaultInjector` (src/fault) | list of handlers, active faults | `onFault`, `inject`, `clear`, `clearAll` | tests, applications |
| `LimitMonitor`, sensors, virtual motor, encoder and I/O | small value objects | reads, writes, checks | applications |
| `TrapezoidalTrajectory` (src/motion) | constants of one profile | `create`, `duration`, `sample` | applications |
| `WebSocketConnection` (src/websocket) | receive buffer, open or closed | handshake, frames, close | robot-viewer |

How they meet. The emulator's `main` owns one `Robot`, one
`ControllerStateMachine` and six brakes. Three of its threads change them, each
inside `robotMutex`: the control thread runs `ControlLoop::step`, the
connection thread runs `CommandDispatcher::dispatch`, and the response thread
runs `EmergencyStopController::trigger` once, at the watchdog's first trip. The
watchdog itself reads an atomic counter and takes no lock. None of the classes
synchronises anything itself.

What is hard in it:

* interleaving: `step` tests the controller's state and then moves the joints;
  handlers write joints and controller one after another; a status report reads
  them one after another;
* drift: the results of `handleEvent` are discarded, so the joints and the
  controller change on different conditions;
* failure of a thread: what the watchdog is there to answer;
* numbers: limits that meet, NaN, time steps of any sign, and a controller that
  must come to rest on its target although its acceleration is limited;
* long legal sequences: faults and emergency stops that overlap, commands in
  every state.

The full list, with its lines, is under `hazards` in `PROJECT.json`.

What makes each part correct: the controller's states mean what their comments
say; a stop or a fault lasts until it is cleared; joints stay within limits and
move by bounded steps; nothing moves unless the controller is Moving and the
joint enabled; an answer to a client is true of the robot; commands take effect
one at a time; each received request is answered; a stalled control loop is
noticed and answered; a profile is a motion an axis can make, and the fastest
one; a monitor warns before a limit is reached; the faults reported are those
injected; bytes are read as they were sent, however they arrive; a `write` of
the bridge tells what it did.

## 2. The modules

Indented below a module are those that extend it; where a module extends more
than one, the others are named behind it.

```
Numbers
  Joint
    JointMotion                     one joint, any calls
      LimitMonitor
        JointPrograms               + TrapezoidalTrajectory, Devices
    TrapezoidalTrajectory
    RobotOperations                 + ControllerStateMachine
      RobotService                  <== EmulatorServer (implements it)
        RosBridge
      EmulatorServer
  Devices
ControllerStateMachine
  EmergencyStopController
    FaultInjector                   + Devices
Streams
  FrameCodec
    StatusPayload
      CommandLine
        Session
          Viewer                    + WebSocketConnection
  WebSocketConnection
ControlLoop
  ThreadedLoop                      + LoopPacing
Watchdog
```

* **Numbers** - whole numbers for doubles, and `NaN`, a value of its own whose
  comparisons are all false.
* **ControllerStateMachine** - the tables as `AcceptedFrom` and `LeadsTo` (in
  the code every event leads to one state), `HandleEvent` as an operator on a
  state. A rejected event leaves the state alone.
* **EmergencyStopController** - the class over a controller and a set of
  brakes, with every public call of the three classes as an action. History
  variables record what accepted events have said of the servos, which stop is
  pending, and whether a trigger came after the last release.
* **FaultInjector** - the class, with handlers that call `trigger`, report a
  fault, switch the encoder's failure mode, inject other faults or clear
  them. `inject` calls its handler on its own stack, so what is left to do is a
  stack of calls (`todo`). The repository wires no handlers; the ones a run
  registers are the constant `Scripts`.
* **Devices** - virtual motor, encoder, analog channels and sensors: one
  operator per method, the set of possible results where the code has noise or
  an exponential.
* **Joint** - one operator per method on a joint record. Units are chosen so
  that the arithmetic is exact on whole numbers (see the module).
* **JointMotion**, **LimitMonitor** - one joint under any sequence of calls, and
  a monitor asked after each.
* **TrapezoidalTrajectory** - `create`, `duration` and `sample` as operators, for
  the moves whose phases end on ticks (`OnGrid`), where the doubles of the code
  are exact.
* **JointPrograms** - the programs that use one axis: any caller, the loops of
  robot-benchmark, a profile being played, the devices.
* **RobotOperations** - the shared objects as one record, and the elementary
  operations the handlers, the loop and the emergency stop are made of.
* **RobotService** - the abstract specification: every command, control cycle
  and watchdog stop is one step on a robot nobody else is changing. One action
  per handler of `CommandDispatcher`.
* **RosBridge** - the ros2_control interface as a client of that service. Its
  connection waits in the backlog, is served, breaks, and is made anew on
  activation; `write` asks for one joint after the other. While the bridge is
  served no other client is answered.
* **EmulatorServer** - the threads of `apps/robot-emulator/main.cpp`. Each
  critical section is a sequence of steps, one per shared object it touches, so
  that what the mutex guarantees is a result. `committed` records the robot at
  the last moment the mutex was free; `ImplementsService` maps `RobotService`'s
  robot to it, and its reply to the answer about to be sent.
* **ControlLoop** - the life of the background thread: `start`, `stop`, the
  destructor and the loop, with one step per access to `running_` or `thread_`.
* **LoopPacing** - when cycles begin, for `ControlLoop::runLoop` and for the
  control thread of the emulator, which has a loop of its own; the metrics.
* **ThreadedLoop** - the class from its two sides: a behaviour is one of
  `ControlLoop`'s, whose cycles take any time, or one of `LoopPacing`'s, where
  nobody calls. The two share no state: `runLoop` reads nothing that `start` and
  `stop` write but its stop request, and they read nothing of its clock.
* **Watchdog** - all operations of the class, one step per access to its
  atomics, on a clock that may go on before any of them. Three histories tell
  what a trip is worth: whether a reset came into the poll (`undisturbed`),
  whether the time the poll measures from was stored by such a poll (`torn`),
  and whether a thread was ever held up between two of its steps (`heldUp`).
  `EmulatorServer` has the polling loop among the other
  threads of the emulator, where it needs no clock but counts polls.
* **Streams**, **FrameCodec**, **StatusPayload** - what a connection carries, and
  the encodings, over cells: a header field, a length, a double or a character
  is one cell whatever its width.
* **CommandLine** - `parseArgs` on words, and the request made of a command.
* **Session** - clients, the two byte streams of each connection, the
  listener's backlog and the serving loop with its buffer. It is the other half
  of `EmulatorServer`'s connection thread: that module has what a handler does
  once a frame is there, this one how frames come and answers go. A client is
  `robotctl` (one call, then it exits), a viewer (it polls until a call fails)
  or a peer that sends something else; each may die at any moment.
* **WebSocketConnection** - the handshake, the frames of the browser, and text
  sent to it, for one tab after another.
* **Viewer** - robot-viewer between a browser tab and its connection to the
  emulator: `Session`'s poller, whose life depends on the tab. `pollForClose`,
  which the viewer never calls, has a program of its own ("reader").

State and actions against the code:

| In the models | In the code |
|---|---|
| `robot.controller`, `.joints`, `.brakes` | `controller`, `robot`, `brakes` in `main` |
| `pc[thread]` | where the thread is in its loop; the labels are the statements of the handlers |
| `robotMutex` | the mutex: its owner or `None` |
| `request`, `response` | `decoded.frame` and `response` of the serving loop |
| `heartbeat` | `cyclesExecuted` differs from `lastSeenCounter_` (they are only compared) |
| `age` | `now - lastChangeTimeNs_`, in poll intervals, up to the timeout |
| `tripped`, `alreadyTripped` | the same |
| `Lock`, `Unlock` | construction and destruction of the `lock_guard` |
| `CheckMoving`, `UpdateRobot`, `CountCycle` | the three statements of `ControlLoop::step` |
| `HandlerStep`, `AcceptTarget`, `RejectRequest`, `ReadState`, `ReadJoints` | the statements of the handlers |
| `PollChanged`, `PollUnchanged`, `Trip`, `TakeTrip` | the watchdog's loop and the response thread |
| `link[n].up`, `.down` | bytes sent and not yet received, per direction |
| `received`, `client[c].got` | the vector `received` of the serving loop and of `Client::execute` |
| `backlog`, `serving` | connections not yet accepted; `connection` |
| `TakeFrame`, `ReceiveMore`, `Reject`, `PeerGone` | the ways out of one turn of `receiveOneFrame` |
| `bridge.link`, `.call`, `.next`, `.commands` | `client_`; which of `read` and `write` is under way and its loop index; `hwCommandsPosition_` |
| `active`, `handlers`, `todo` | `active_`, `handlers_`, the call stack of `inject` |
| `tab[t]`, `at`, `stage`, `buffer` | a browser's connection; `ws`; where the viewer is with it; `requestBuffer`, later `residual_` |
| `unsent` | between `execute` and `sendText` in the viewer's inner loop |
| `profile`, `t` | the constants of a trajectory; the argument of `sample` |

## 3. The runs

Runs that pass:

| Run | Checks | Shows |
|---|---|---|
| `emergency_stop` | `ServoHistoryMatchesState`, `StoppedUntilCleared`, `TriggerHoldsBrakes`, `FaultsAsInjected`, `InjectionStopsRobot`, `EncoderTells` | over every order of events, brake calls, injections and readings, with handlers that inject and clear in turn: what the 14 states say of the servos; that a stop or fault lasts until the event that clears it; that brakes hold after a trigger even where the transition is rejected; that active faults are those injected and not cleared; that a handler that stops the robot has done so when `inject` returns; that a stuck encoder repeats what it last told in normal operation |
| `joint_motion` | `WithinLimits`, `MotionIsBounded`, `SettlesOnTarget`, `WarnedBeforeLimit`, `PhasesMeet`, `NoTimeWasted` | limits and bounded steps under every order of calls and any time step; a joint that is only updated, as in the benchmark, comes to rest on its target; a monitor warns in time; every profile is a continuous motion from rest to rest and none is shorter |
| `robot_service` | `ServosOffMeansDisabled`, `StopRepliesHold`, `EStopIsFinal`, `MotionOnlyWhileMoving`, `ErrorMeansNoEffect`, `WritesInOrder`, `BridgeCallsReturn` | what joints, controller and answers say of one another when commands are indivisible, with an operator and a bridge that come and go; what a `write` that fails half-way has done |
| `emulator_server` | `TestedStateHolds`, `TransientStatesUnseen`, `ImplementsService`, `WaitersServed`, `LockupDetected` | the four threads, interleaved at each access, do what `RobotService` does; a control thread that stops anywhere is noticed; unless it stops inside its critical section each received request is answered and each trip is followed by the emergency stop |
| `threaded_loop` | `OneLoopAtATime`, `StopHalts`, `CallsReturn`, `CyclesSpaced`, `MetricsTellTheSchedule` | with calls in turn, never two background threads, none after `stop`, and `start`, `stop` and the destructor return, whichever thread they wait for; `ControlLoop` never makes up for lost time and its metrics agree with the cycles that happened |
| `watchdog` | `TripMeansSilence`, `ResetRearms`, `SilenceNoticed`, `StopHalts` | however threads are held up, a trip means that the counter stood still for the timeout before the poll read it, and that the timeout has passed since the last reset, for every poll that no reset came into; trips come in time if no thread is held up |
| `session` | `DispatchedOnceAsAsked`, `OutcomeIsTheAnswer`, `EmulatorSurvives`, `ServedInTurn`, `FramesReadWhole`, `ClosedTabFreesEmulator` | however the bytes are cut up and whoever dies when, a request is dispatched once and whole, an outcome is the answer to its own request with the status it carried, no client takes the emulator down, who waits is served once the connections before it end, a tab's frames are read as sent, and a viewer whose tab closed gives the emulator back |

Runs that end in a counterexample, each against a sentence of the repository
(quoted under `findings` in `PROJECT.json`):

| Run | Property | What happens |
|---|---|---|
| `joint_nan` | `StateWithinLimits` | NaN passes the range check and poisons the joint |
| `emulator_server_stuck` | `TripIsActedOn` | the response thread waits for a mutex the stalled control thread holds |
| `control_loop_race` | `StopHalts` | `stop` inside `start` finds no thread; the thread then runs after `stop` returned |
| `loop_pacing_emulator` | `EmulatorCyclesSpaced` | after one cycle of more than a period the emulator's control thread runs the missed cycles back to back, where `ControlLoop`'s own loop, which it is said to reimplement, takes care not to |
| `session_viewer` | `CommandsGetThrough` | a viewer keeps its connection, the server serves one at a time, and `robotctl` waits for ever |

Seen while modelling, and without a run of their own:

* A fault in Idle or ServoOff and its recovery lead to Ready, although the
  servos were never enabled (controller_state_machine.cpp:59).
* Enable, MoveJoint, Disable, Stop leads to Ready over disabled joints: the
  result of the rejected event is discarded (command_dispatcher.cpp:80).
* MoveJoint in EmergencyStop or Idle sets a target, starts nothing, and is
  answered Ok (command_dispatcher.cpp:107).
* Limits that exclude zero are accepted (joint_limits.cpp:15), and the joint
  starts, and is homed, outside them.
* `CallsReturn` fails when calls overlap: a `start` that gets between may
  replace `thread_` while `stop` waits for it.
* A poll that compared against the old baseline, or falls between the stores of
  `reset`, trips the watchdog right after it (watchdog.cpp:71), where
  watchdog.hpp:69-71 has `reset` re-baseline so that it does not. It may also
  store the older time it has read over that of the reset, and a later poll
  then trips too early. `ResetRearms` and `TripMeansSilence` leave out exactly
  these polls (`Untouched`): without `poll.undisturbed`, or without `~torn`, TLC
  finds the trip.
* A poller held up between counter and clock trips although the counter has
  moved since (watchdog.cpp:85). `TripMeansSilence` says of every trip what the
  poll can know, that the counter had stood still when it was read; without
  `heldUp` in its last conjunct, which speaks of the time up to the clock
  reading, TLC finds the trip.
* `robotctl` reads "nan" as a number (command.cpp, `parseDouble`), which is one
  way to the counterexample of `joint_nan`. `VirtualMotor` and `AnalogIO` let
  NaN through as well, and `LimitMonitor` never flags a joint at NaN.
* The bridge calls `execute` without a timeout: while the emulator serves
  somebody else, the controller manager's thread waits. While the bridge is
  served, `robotctl estop` waits in the backlog.
* The bridge writes every cycle, so a Stop from elsewhere is followed by
  MoveJoint at the next one; a bridge with more joints than the emulator has
  fails in every `write`, after moving the joints that exist.
* When a tab closes, the viewer's first `sendText` seems to succeed and the
  second raises SIGPIPE, which ends the process, where the code means to go on
  with the next tab (apps/robot-viewer/main.cpp:91-94).
  `ClosedTabFreesEmulator` holds either way. A tab that connects and sends
  nothing holds the viewer up for ever.
* The handshake takes a key header found anywhere in what has been read, also
  after the empty line; `pollForClose` reports a failed receive as
  `ConnectionClosed` and never as the `TransportFailure` its comment names.
* `clear` only removes the record of a fault: a stuck encoder stays stuck.
* The benchmark's joints have settled long before its cycles end, so most of
  the cycles it measures move nothing.

### Bounds

* `emergency_stop`: two brakes tell "all" from "one"; three faults of two
  types, one of them with and without a joint; each type has an empty handler
  and others that stop, report, clear, or inject the other type, so handlers
  nest. The encoder sees two positions, with an offset of half a count. The
  controller is finite and no bound is needed.
* `joint_motion`: limits -28..28, speed 8, acceleration 2 and the gain of one
  per tick (a tick of 125 ms): each of the ramp, the speed limit and the two
  position limits is the one that acts in some state, and joints overshoot.
  Commands lie on, inside and one beyond the limits; time steps are -1, 0, 1
  and 2 ticks; the monitor's margin is exactly the longest step. The positions
  give triangular profiles of three lengths, the one that just reaches full
  speed, and three with a cruise, in both directions. `joint_nan` uses smaller
  limits (-8..8).
* `robot_service`: two joints, so that one can be moving when a command is for
  the other; limits 0..1, and targets on both limits and beyond. The requests
  include a truncated payload, a joint that does not exist and a command nobody
  implements. The bridge has an axis per joint, so a write can fail at the
  first and at the second.
* `emulator_server`: one joint and limits 0..1. What one joint does next to
  another is in `robot_service`; here it is the threads that are many.
  `emulator_server_stuck` needs only the commands that lead to Moving and
  EmergencyStop. The watchdog's timeout is two polls.
* The watchdog in `EmulatorServer` counts polls up to the timeout (`age`), and
  the heartbeat is whether the counter differs from the one last seen, which is
  all the code asks of it: nothing there is cut short.
* `threaded_loop`: four threads in turn are three restarts. The bound limits
  `start`, never `stop`. Two callers, because every race is between two
  (`control_loop_race`: three threads). On the clock, a period of two ticks and
  cycles of zero to five cover a cycle that just meets its deadline, just misses
  it and misses two and a half periods; four cycles see the one after the stall
  and the one after that. `loop_pacing_emulator` is the same with sleeps that
  end on time.
* `watchdog`: a timeout of three polls of one tick and a clock up to eight
  leave room to trip, reset and trip again; the counter changes twice. Any
  number of ticks may pass between any two steps.
* `session`: two clients, one of each kind, and two connections, so that one is
  waiting, or left behind by a dead client, while another is served. A client
  whose connection is gone may come back, so the behaviours are unbounded. One
  request of `robotctl`, with a payload that looks like the start of a header,
  out of nine command lines of which the other eight are refused, each for its
  own reason; a status with one joint; malformed input for two complaints of
  `decode`. A header is four cells and may arrive in any pieces. One tab, whose
  request may be good, without a key, too long or missing, and whose frames
  have both kinds of length, with and without a mask. `times` is cut off at
  two, where every property has failed.

### Fairness

* `EmulatorServer`: each thread that can take a step takes one (weak fairness
  of each loop): they are threads of one process on a preemptive system. The
  mutex needs more: it is free infinitely often but not from some moment on, so
  taking it is strongly fair. `std::mutex` promises no order; what carries this
  is that each holder sleeps or waits for the network between two sections,
  while a waiter is blocked in the lock and is woken by the release. Clients
  are not assumed to do anything: `WaitersServed` begins with a request that
  was received, and nobody has to connect. The control thread has no fairness
  at all, since its lock-up is what the watchdog is there for; where an answer
  does depend on it, the property says so (`ControlLeavesSection`).
* `RosBridge`: a bridge that is being served is answered. Nothing has to be
  asked, accepted or broken.
* `JointPrograms`: `update` keeps being called, and the benchmark's loop runs.
* `ControlLoop` and `ThreadedLoop`: every thread runs; nobody has to call
  `start` or `stop`.
* `Session` and `Viewer`: the serving loop runs, a client reads what has
  arrived and exits when it is done, the viewer's thread runs when it is not
  waiting. Nobody has to connect, to ask, to open or to close anything;
  `ServedInTurn` has that as its premise, and `session_viewer` is what happens
  without it.
* `FaultInjector`, `LoopPacing` and `Watchdog` need none: their properties
  speak of states or of a bounded time. In `Watchdog` the clock ticks at any
  moment; `SilenceNoticed` is about behaviours in which it has not ticked while
  a thread had a step to take, since a thread that may be held up for any time
  may be late by any time.

`CHECK_DEADLOCK FALSE` stands only in the runs of `ThreadedLoop`, `ControlLoop`,
`LoopPacing` and `Watchdog`, where a bound ends the behaviour (threads, cycles,
the clock)
or the destructor does, of `JointPrograms`, where a profile ends, and of
`Session` and `Viewer`, where a process may be killed by a signal. Everything
else is checked never to stop.

## 4. The proofs

Proved by TLAPS, for every value of the constants that meets the assumptions:

| Module | Theorems | By |
|---|---|---|
| `FaultInjectorProofs` | `TypeCorrect`, `ServoHistoryCorrect`, `StoppedCorrect`, `TriggerCorrect`; `InjectorUsesStop`, `InjectionStopsCorrect`, `FaultsAsInjectedCorrect`; `EncoderTellsCorrect` | `HistoryInv`: what the state says of the servos and of the pending stop are kept together, since each table row depends on both. Every step of the injector is a step of the emergency stop or a stutter, so the first four hold under any handlers; `InjectionStopsCorrect` rests on where `trigger` stands in the stack of calls. `ActiveInv` types the record of faults; what `clear` leaves of it is `WithoutProperties`, by induction over the record. `SensorInv` keeps what a stuck encoder last told |
| `JointMotionProofs` | `TypeCorrect`, `WithinLimitsCorrect`, `MotionIsBoundedCorrect`, `WarnedBeforeLimitCorrect`; `ProgramsMoveCorrect`; `PhasesMeetCorrect`, `NoTimeWastedCorrect` | clamping, the ramp and one `update` keep a joint sound, and a joint that reaches a limit was no further from it than one step. The programs only take such steps. A profile is `Shaped`: two ramps of the same length and a cruise that together make up its distance (`CreateShaped` follows `create` through its branches and its square root); from the shape follow both the motion at every tick and that no motion is shorter |
| `RobotServiceProofs` | `TypeCorrect`, `JointsInLimitsCorrect`, `ServosOffCorrect`, `StopRepliesCorrect`, `EStopIsFinalCorrect`, `MotionOnlyWhileMovingCorrect`, `ErrorMeansNoEffectCorrect`; `BridgeUsesService`, `WritesInOrderCorrect`, `BridgeCallsCorrect` | `SoundInv` (every joint sound), and `Settled`: between commands the controller is in none of the states that handlers pass through, without which Stop could be answered in a state no command leaves. The bridge's steps are the service's, so the rest holds with it; `WriteInv` says which targets a write under way has set; a call that is served comes to the next axis or returns |
| `EmulatorServerProofs` | `TypeCorrect`, `MutualExclusionCorrect`, `TestedStateCorrect`, `TransientStatesCorrect`, `ServiceImplemented`; `WaitersServedCorrect`, `LockupDetectedCorrect` | mutual exclusion first; then `LinkInv`, which says for every label what the robot is relative to `committed`: how much of the handler has been done. A handler in the section has fewer steps left with each it takes (`StepsLeft`); a stalled counter is one poll older with each poll |
| `SessionProofs` | `DecodeEncode`, `PrefixIncomplete`, `StatusDecodeEncode`, `BufferBoundedCorrect` | lemmas about the header of an encoded frame and the places of a status's fields; `StreamInv`: streams and buffer are sequences of cells, whatever peers send |
| | `SessionInvariance`, `EmulatorSurvivesCorrect`, `OutcomeIsTheAnswerCorrect`, `DispatchedOnceCorrect` | `SessionInv`: every connection is somewhere in one conversation - at rest, its request on the way, in the buffer or in hand, its answer in hand or on the way, or cells nobody can read - and the state of its client, the two streams and the server's buffer say the same of where |
| | `ViewerImplementsSession`, `FramesReadWholeCorrect` | the viewer's steps are its client's, so the theorems before hold with tabs attached; `TabInv`: what is in the buffer and under way is what the tab's remaining frames look like on the wire, beginning with a whole frame |
| | `ServedInTurnCorrect`, `ClosedTabFreesEmulatorCorrect` | a waiting client is at a place of the backlog, being served or closed on, and its place only falls (`OpenIsListed`); between a served viewer and the emulator less and less of the request, then of the answer, is on the way, and the second status relayed to a closed tab is the last |
| `ControlLoopProofs` | `OneLoopAtATimeCorrect`, `StopHaltsCorrect`, `RunningMeansActiveCorrect`, `CallsReturnCorrect` | `LoopInv`: what each label of a caller has made of `running_` and `thread_`, and that every live thread is owned by `thread_` or awaited by the destructor; a thread that is waited for has been asked to end and is at most one cycle from it |
| | `CyclesSpacedCorrect`, `MetricsCorrect` | of `LoopPacing`: where the deadline is relative to the beginning of the cycle under way; and what each of the metrics is a sum, a count or a largest of |
| `WatchdogProofs` | `StopHaltsCorrect`, `SilenceNoticedCorrect`, `TripMeansSilenceCorrect`, `ResetRearmsCorrect` | `Sound`, which holds however threads are held up: who has a thread when (`Life`), that a poll no reset came into read counter and clock after the last reset and finds the baseline as it was (`Reads`), and that no beat the baseline counts came after its time (`OfOnePiece`). For `SilenceNoticed` also `Prompted`, as long as no thread was held up: what the poller has read of the counter is the counter unless it changed at this very instant (`Readings`), and a beat or a silence is seen at most one interval late (`Delays`) |

`RobotLemmas` holds what the tables and the operators on joints and robots do,
stated once and cited by name.

Assumptions:

* zero lies within every joint's limits (`ZeroIsLegal`): the emulator's own
  configuration meets it, `JointLimits::validate` does not ask for it;
* NaN is not among the commands and targets, in the theorems about where joints
  are (`joint_nan` shows what it does);
* calls of `start`, `stop` and the destructor do not overlap (`TakeTurns`), in
  the theorems about `ControlLoop` (`control_loop_race` shows that they must not);
* one tick is among the time steps a caller may pass (`1 \in Steps`), in
  `ProgramsMoveCorrect`: the programs step the axis by one tick, their period;
* a profile's ramps end on ticks (`OnGrid`, part of what the moves of
  `JointPrograms` are), where the model's arithmetic is the code's;
* every status and answer fits a frame (`FitsAssumption`) and what a broken peer
  sends is no frame (`MalformedAssumption`): a status of six joints has less
  than two hundred bytes where a frame takes one MiB;
* only the end of a browser's request looks like one (`BrowserAssumption`), in
  `FramesReadWholeCorrect`: `readUntil` takes the first empty line it finds.
* the emulator has at least one status to answer with (`Snapshots # {}`), in
  `ClosedTabFreesEmulatorCorrect`: `dispatch` always finds one.

The rest is typing of constants (`SensorAssumption`, `ReplyAssumption` and the
like).

Some definitions of the models are recursive functions. What `std::erase` leaves
of a sequence and what frames put together to a stream are is proved by
induction in the form the provers can do: the set of the numbers up to which the
claim holds contains zero and with each number the next (`NaturalsInSet`). The
sum of the cycles' lengths grows by one cycle per step of `LoopPacing`, so
there the induction is that along the behaviour.

`ServiceImplemented` is a refinement in the usual way. `RobotService`'s variables
are given by what the server has committed and by the answer it is about to
send. A step inside a critical section is a stutter; the unlock is the
service's step, and `LinkInv` says that what has been done since the lock is
what that step does. That nothing else changes in between is mutual exclusion.

`DecodeEncode` is for frames up to the largest payload, and `StatusDecodeEncode`
for lengths that fit 16 bits, which is what the encoders do not check:
everything the code sends is far below either.

### Liveness

The prover has no `ENABLED`, so none of `WF_` and `SF_` either. The theorems
about liveness therefore state fairness with the guard written out: an action A
with guard G is weakly fair when `[]([]G => <><<A>>_v)`, strongly fair with
`[]<>G`. These are `KeepRunning`, `OthersKeepRunning`, `WatchdogKeepsPolling`,
`ServesOn`, `KeepsServing`, `KeepsAnswering` and `KeepsRelaying`, next to the theorems that assume them. Each G implies that A is
enabled, so each follows from the fairness of the specification that the run
checks; that implication itself is about `ENABLED` and was checked with TLC on
the states of the runs, not proved.

The arguments are all of one kind. A step of anybody leaves the state where it
is or brings it on, the fair step brings it on, and temporal logic makes that
an eventually. Where what is to be gone through has a length (places in the
backlog, cells on the way, polls, axes), induction over the
length is not to be had, since its hypothesis would be a temporal formula. So
"from n + k one comes to n" is a defined operator, it holds for k = 1, and with k
it holds for 2k. As many doublings as the proof writes down reach a bound:

| Theorem | Hypothesis | In the code |
|---|---|---|
| `LockupDetectedCorrect` | `TimeoutPolls < 1024` | 10 |
| `BridgeCallsCorrect` | fewer than 256 axes (`BridgeAssumption`) | a joint's index is one byte |
| `ServedInTurnCorrect` | at most 65536 connections | a backlog of 16 and the one being served |
| `ClosedTabFreesEmulatorCorrect` | `MaxPayload <= 1048576` | `maxPayloadSize`, which is that |

`CallsReturnCorrect` and `WaitersServedCorrect` need no bound.

Every property a passing run checks is stated by a theorem, with one exception:
`SettlesOnTarget` is model-checked only. That a joint comes to rest exactly on
its target is a fact about the scale of the run, where the gain of 8 per second
is one per tick of 125 ms. At the periods of this code (100 us to 2 ms,
control_loop_frequency.hpp:21-25) an update goes at most 0.016 of the way that
is left once the joint is near: it comes as near as one likes, which takes the
reals to say, and a theorem about whole numbers with a gain of one would say
nothing of those periods. The run shows, at its own scale, that the ramp, the
speed limit and the position limits, applied one after the other, neither keep
a joint from its target for ever nor leave it swinging about it.

Model-checked only are, further, that the fairness the theorems assume follows
from the `WF_` and `SF_` of the specifications, as said under Liveness, and the
five runs that expect a violation, which are counterexamples.

## 5. What the models leave out

* Numbers are whole numbers in units in which the arithmetic of `update` is
  exact; rounding is not modelled and infinity is left out. `NaN` is a value.
  Degrees and radians convert into one another exactly.
* `Robot::update` steps all joints in one step. Nothing reads between two
  joints but a report, which the mutex excludes (`ImplementsService`).
* Whether a mutex acquisition is fair, and what a data race does beyond the
  order of accesses (`control_loop_race`), are stated as assumptions above.
* `metrics()` reads its counters one after another and the header says so; the
  models look at them between cycles.
* In `EmulatorServer` sockets are frames received, answers sent and connections
  that end; `Session` has the streams. There, a peer's host going away without
  a word, which TCP notices late or never, is left out, and so is a peer that
  sends its next request before it has the answer to the last: `EmulatorSurvives`
  rests on clients that wait, as `Client::execute` does.
* TCP: the failures of `socket`, `bind`, `listen` and `accept`, which end the
  program or the attempt before anything else has happened.
* robotctl with arguments it refuses exits before it connects, which is no step
  of `Session`; what it prints is left out.
* The byte order of fields, the header's unused flags, the widths of lengths.
* **SHA-1 and Base64**: pure functions on bytes, called once per handshake and
  tested against published vectors. In `WebSocketConnection` the key is there or
  it is not.
* **Clock**: an interface over `now()` that no program of the repository uses.
* `DigitalIO` and the proximity sensor: an array of switches behind a range
  check, and one comparison.
* The state arrays of the bridge, which `read` writes and only ros2_control
  reads; and what ros2_control makes of a return value.
* Logging, formatting of tables and JSON, the viewer's page.

## 6. Plan

Done: every component but the two in bold above, the TCP set-up and the two
small devices.

What could follow. A model of `Watchdog` together with `ControlLoop` on one clock
would show the watchdog's timeout against the pacing of the loop it watches.
That a joint comes near its target at the periods of the code would need
fractions in the model and a prover that has the reals.
