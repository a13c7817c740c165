------------------------------ MODULE ControlLoop ------------------------------
(***************************************************************************)
(* robot::runtime::ControlLoop: the life of its background thread.         *)
(*                                                                         *)
(* start and stop are atomic only in their exchange of running_; thread_,  *)
(* a std::jthread, is then read and written by whoever won the exchange.   *)
(* Each access to running_ or thread_ is a step here.  Assigning a jthread *)
(* hands the old thread to a temporary, whose destructor asks it to stop   *)
(* and joins it.  Two callers that reach thread_ at once race, which C++    *)
(* leaves undefined; the order of their accesses is what is left open here, *)
(* and no more.                                                            *)
(*                                                                         *)
(* What a cycle does is in RobotOperations, when it is due in LoopPacing.  *)
(***************************************************************************)
EXTENDS Naturals, FiniteSets

CONSTANTS
  Callers,                      \* the threads that call start and stop
  MaxStarts,                    \* bound: background threads created
  TakeTurns,                    \* no call begins while another is under way
  None

Loops == 1 .. MaxStarts         \* the background threads, in order of creation

ASSUME LoopAssumption ==
  /\ MaxStarts \in Nat
  /\ TakeTurns \in BOOLEAN
  /\ None \notin Loops

VARIABLES
  running,                      \* running_
  handle,                       \* thread_: the thread it owns, or None
  spawned,                      \* how many threads were created
  stopRequested,                \* the stop_token of each thread
  loop,                         \* where each background thread is
  call,                         \* where each caller is
  joined,                       \* the thread the caller waits for, or None
  destroyed                     \* the destructor has begun

vars == << running, handle, spawned, stopRequested, loop, call, joined, destroyed >>
threadVars == << spawned, stopRequested, loop >>

Init ==
  /\ running = FALSE
  /\ handle = None
  /\ spawned = 0
  /\ stopRequested = [t \in Loops |-> FALSE]
  /\ loop = [t \in Loops |-> "unborn"]
  /\ call = [c \in Callers |-> "idle"]
  /\ joined = [c \in Callers |-> None]
  /\ destroyed = FALSE

Quiet == \A c \in Callers : call[c] = "idle"

MayCall(c) ==
  /\ ~destroyed
  /\ call[c] = "idle"
  /\ TakeTurns => Quiet

Go(c, label) == call' = [call EXCEPT ![c] = label]
Return(c) == Go(c, "idle")

-------------------------------------------------------------------------------
(* start.  AlreadyRunning changes nothing.                                 *)

(* The bound on the threads, counting the starts under way.                *)
RoomForThread == spawned + Cardinality({c \in Callers : call[c] = "spawn"}) < MaxStarts

(* Mutated form: whether it already runs is not looked at.                 *)
StartUnchecked(c) ==
  /\ MayCall(c)
  /\ RoomForThread
  /\ running' = TRUE
  /\ Go(c, "spawn")
  /\ UNCHANGED << handle, threadVars, joined, destroyed >>

Start(c) ==
  /\ MayCall(c)
  /\ RoomForThread
  /\ ~running
  /\ running' = TRUE
  /\ Go(c, "spawn")
  /\ UNCHANGED << handle, threadVars, joined, destroyed >>

(* thread_ = std::jthread(...): the new thread runs from here on, the old  *)
(* one, if thread_ still owned one, is stopped and waited for.             *)
Spawn(c) ==
  /\ call[c] = "spawn"
  /\ spawned' = spawned + 1
  /\ loop' = [loop EXCEPT ![spawned + 1] = "check"]
  /\ handle' = spawned + 1
  /\ IF handle = None
     THEN Return(c) /\ UNCHANGED << stopRequested, joined >>
     ELSE /\ stopRequested' = [stopRequested EXCEPT ![handle] = TRUE]
          /\ joined' = [joined EXCEPT ![c] = handle]
          /\ Go(c, "joinOld")
  /\ UNCHANGED << running, destroyed >>

JoinOld(c) ==
  /\ call[c] = "joinOld"
  /\ loop[joined[c]] = "exited"
  /\ joined' = [joined EXCEPT ![c] = None]
  /\ Return(c)
  /\ UNCHANGED << running, handle, threadVars, destroyed >>

-------------------------------------------------------------------------------
(* stop.  NotRunning changes nothing.                                      *)

Stop(c) ==
  /\ MayCall(c)
  /\ running
  /\ running' = FALSE
  /\ Go(c, "requestStop")
  /\ UNCHANGED << handle, threadVars, joined, destroyed >>

RequestStop(c) ==
  /\ call[c] = "requestStop"
  /\ stopRequested' = IF handle = None THEN stopRequested
                      ELSE [stopRequested EXCEPT ![handle] = TRUE]
  /\ Go(c, "join")
  /\ UNCHANGED << running, handle, spawned, loop, joined, destroyed >>

(* Mutated form: the thread is asked to stop and not waited for.           *)
JoinableWithoutJoin(c) ==
  /\ call[c] = "join"
  /\ handle' = None
  /\ Return(c)
  /\ UNCHANGED << running, threadVars, joined, destroyed >>

(* if (thread_.joinable()) thread_.join(), up to the wait.                 *)
Joinable(c) ==
  /\ call[c] = "join"
  /\ IF handle = None
     THEN Return(c) /\ UNCHANGED joined
     ELSE joined' = [joined EXCEPT ![c] = handle] /\ Go(c, "joining")
  /\ UNCHANGED << running, handle, threadVars, destroyed >>

(* The wait is over: join leaves thread_ without a thread.                 *)
Joined(c) ==
  /\ call[c] = "joining"
  /\ loop[joined[c]] = "exited"
  /\ handle' = None
  /\ joined' = [joined EXCEPT ![c] = None]
  /\ Return(c)
  /\ UNCHANGED << running, threadVars, destroyed >>

(* The destructor, when no call is under way: the thread is asked to stop  *)
(* and, as thread_ is destroyed, waited for.                               *)
Destroy(c) ==
  /\ ~destroyed /\ Quiet
  /\ destroyed' = TRUE
  /\ running' = FALSE
  /\ IF handle = None
     THEN UNCHANGED << call, joined, stopRequested >>
     ELSE /\ stopRequested' = [stopRequested EXCEPT ![handle] = TRUE]
          /\ joined' = [joined EXCEPT ![c] = handle]
          /\ Go(c, "joinOld")
  /\ handle' = None
  /\ UNCHANGED << spawned, loop >>

-------------------------------------------------------------------------------
(* runLoop.  The stop request is looked at once per cycle; a cycle that    *)
(* missed its deadline goes on without sleeping.                           *)

(* Mutated form: the stop request is never looked at.                      *)
CheckWithoutToken(t) ==
  /\ loop[t] = "check"
  /\ loop' = [loop EXCEPT ![t] = "step"]
  /\ UNCHANGED << running, handle, spawned, stopRequested, call, joined, destroyed >>

Check(t) ==
  /\ loop[t] = "check"
  /\ loop' = [loop EXCEPT ![t] = IF stopRequested[t] THEN "exited" ELSE "step"]
  /\ UNCHANGED << running, handle, spawned, stopRequested, call, joined, destroyed >>

Step(t) ==
  /\ loop[t] = "step"
  /\ \E next \in {"sleep", "check"} : loop' = [loop EXCEPT ![t] = next]
  /\ UNCHANGED << running, handle, spawned, stopRequested, call, joined, destroyed >>

Wake(t) ==
  /\ loop[t] = "sleep"
  /\ loop' = [loop EXCEPT ![t] = "check"]
  /\ UNCHANGED << running, handle, spawned, stopRequested, call, joined, destroyed >>

Call(c) ==
  \/ Spawn(c) \/ JoinOld(c)
  \/ RequestStop(c) \/ Joinable(c) \/ Joined(c)

RunLoop(t) == Check(t) \/ Step(t) \/ Wake(t)

Next ==
  \/ \E c \in Callers : Start(c) \/ Stop(c) \/ Destroy(c) \/ Call(c)
  \/ \E t \in Loops : RunLoop(t)

Spec == Init /\ [][Next]_vars

(* Every thread keeps running; nobody has to call anything.                *)
FairSpec ==
  /\ Spec
  /\ \A c \in Callers : WF_vars(Call(c))
  /\ \A t \in Loops : WF_vars(RunLoop(t))

-------------------------------------------------------------------------------
(* Properties. *)

Alive(t) == loop[t] \notin {"unborn", "exited"}

TypeOK ==
  /\ running \in BOOLEAN
  /\ handle \in Loops \cup {None}
  /\ spawned \in 0 .. MaxStarts
  /\ stopRequested \in [Loops -> BOOLEAN]
  /\ loop \in [Loops -> {"unborn", "check", "step", "sleep", "exited"}]
  /\ call \in [Callers -> {"idle", "spawn", "joinOld", "requestStop", "join", "joining"}]
  /\ joined \in [Callers -> Loops \cup {None}]
  /\ destroyed \in BOOLEAN

\* Two background threads never step the robot at the same time, even across a
\* stop and a new start (control_loop.hpp 26-30; Robot and Joint have a single
\* owner thread).
OneLoopAtATime == Cardinality({t \in Loops : Alive(t)}) <= 1

\* Between calls, isRunning() is true exactly when a background thread is there
\* to run cycles (control_loop.hpp 89 "Whether a background thread started by
\* start() is currently active").
RunningMeansActive ==
  Quiet => (running <=> \E t \in Loops : Alive(t) /\ ~stopRequested[t] /\ handle = t)

\* Once stop has returned, or the destructor, no background thread runs another
\* cycle until the next start (control_loop.hpp 60, 83-86 "blocks until it has
\* exited").
StopHalts == Quiet /\ ~running => \A t \in Loops : ~Alive(t)

\* Every call returns: stop, start and the destructor, which all may wait for a
\* background thread.  The loop looks at its stop request every cycle, and no
\* caller waits for a thread that nobody asked to end (control_loop.hpp 41-47).
CallsReturn == \A c \in Callers : call[c] # "idle" ~> call[c] = "idle"
===============================================================================
