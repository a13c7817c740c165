--------------------------- MODULE ControlLoopProofs ---------------------------
(***************************************************************************)
(* The life of the control loop's thread, for any number of callers and of *)
(* starts, when no call begins while another is under way.  (When calls    *)
(* overlap the same statements are false: see the run control_loop_race.)  *)
(* Every call returns, if every thread runs.                               *)
(* Then when that thread begins its cycles, and what the metrics tell of   *)
(* them, for any period and any lateness.                                  *)
(***************************************************************************)
EXTENDS ControlLoop, LoopPacing, FiniteSetTheorems, TLAPS

Stops == {"requestStop", "join", "joining"}

\* One call at a time.
Turns == \A c, d \in Callers : call[c] # "idle" /\ call[d] # "idle" => c = d

\* Threads are numbered as they are created, and a number not yet used is fresh.
Numbered ==
  /\ \A c \in Callers : call[c] = "spawn" => spawned < MaxStarts
  /\ handle # None => handle <= spawned
  /\ \A t \in Loops : t > spawned => ~stopRequested[t]

\* What each point of a call has made of running_ and thread_.
Calls ==
  /\ \A c \in Callers :
       /\ call[c] = "spawn" => running /\ handle = None
       /\ call[c] \in Stops => ~running
       /\ call[c] = "joining" => joined[c] = handle
       /\ call[c] = "joinOld" => handle = None /\ ~running /\ joined[c] # None
  /\ handle # None => running \/ \E c \in Callers : call[c] \in Stops
  /\ running /\ handle = None => \E c \in Callers : call[c] = "spawn"

\* Every thread that is alive is owned by thread_, or waited for by the
\* destructor; the one that runs was not asked to stop.
Owned ==
  /\ \A t \in Loops : Alive(t) =>
       \/ t = handle
       \/ \E c \in Callers : call[c] = "joinOld" /\ joined[c] = t
  /\ running /\ handle # None => Alive(handle) /\ ~stopRequested[handle]

LoopInv == TypeOK /\ Turns /\ Numbered /\ Calls /\ Owned

-------------------------------------------------------------------------------
LEMMA LoopInit == Init => LoopInv
<1> SUFFICES ASSUME Init PROVE LoopInv
  OBVIOUS
<1>1. TypeOK
  <2>1. 0 \in 0 .. MaxStarts /\ None \in Loops \cup {None}
    BY LoopAssumption
  <2>2. [t \in Loops |-> FALSE] \in [Loops -> BOOLEAN]
    OBVIOUS
  <2>3. [t \in Loops |-> "unborn"] \in [Loops -> {"unborn", "check", "step", "sleep", "exited"}]
    OBVIOUS
  <2>4. [c \in Callers |-> None] \in [Callers -> Loops \cup {None}]
    OBVIOUS
  <2> QED
    BY <2>1, <2>2, <2>3, <2>4 DEF Init, TypeOK
<1>2. Turns /\ Numbered /\ Calls
  BY DEF Init, Turns, Numbered, Calls, Stops
<1>3. Owned
  BY DEF Init, Owned, Alive
<1> QED
  BY <1>1, <1>2, <1>3 DEF LoopInv

LEMMA SpawnKeeps ==
  ASSUME TakeTurns = TRUE, LoopInv, NEW c \in Callers, Spawn(c)
  PROVE  LoopInv'
<1> USE LoopAssumption DEF Spawn, Go, Return, LoopInv
<1>1. handle = None /\ running /\ spawned < MaxStarts
  BY DEF Calls, Numbered
<1>2. spawned + 1 \in Loops /\ spawned + 1 # None
  BY <1>1 DEF TypeOK, Loops
<1>3. /\ call' = [call EXCEPT ![c] = "idle"]
      /\ stopRequested' = stopRequested /\ joined' = joined
      /\ loop' = [loop EXCEPT ![spawned + 1] = "check"]
  BY <1>1
<1>4. TypeOK'
  BY <1>1, <1>2, <1>3 DEF TypeOK, Loops
<1>5. Turns' /\ \A d \in Callers : call'[d] = "idle"
  BY <1>3 DEF TypeOK, Turns
<1>6. Numbered'
  BY <1>1, <1>2, <1>3, <1>5 DEF TypeOK, Numbered, Loops
<1>7. Calls'
  BY <1>1, <1>2, <1>5 DEF Calls, Stops
<1>8. Owned'
  BY <1>1, <1>2, <1>3, <1>5 DEF TypeOK, Owned, Alive, Turns, Numbered, Loops
<1> QED
  BY <1>4, <1>5, <1>6, <1>7, <1>8

LEMMA LoopKept ==
  ASSUME TakeTurns = TRUE, LoopInv, [Next]_vars
  PROVE  LoopInv'
<1> USE LoopAssumption DEF LoopInv, TypeOK, Go, Return
<1>1. CASE \E c \in Callers : Start(c)
  <2> PICK c \in Callers : Start(c)
    BY <1>1
  <2>1. Quiet /\ ~running /\ handle = None /\ spawned < MaxStarts
    <3>1. Quiet /\ ~running
      BY DEF Start, MayCall
    <3>2. {d \in Callers : call[d] = "spawn"} = {}
      BY <3>1 DEF Quiet
    <3>3. Cardinality({d \in Callers : call[d] = "spawn"}) = 0
      BY <3>2, FS_EmptySet
    <3> QED
      BY <3>1, <3>3 DEF Start, RoomForThread, Calls, Quiet, Stops
  <2> QED
    BY <2>1 DEF Start, threadVars, Quiet, Turns, Numbered, Calls, Owned, Alive, Stops
<1>2. CASE \E c \in Callers : Spawn(c)
  BY <1>2, SpawnKeeps
<1>3. CASE \E c \in Callers : JoinOld(c)
  <2> PICK c \in Callers : JoinOld(c)
    BY <1>3
  <2>1. handle = None /\ ~running /\ joined[c] \in Loops /\ loop[joined[c]] = "exited"
    BY DEF JoinOld, Calls
  <2>2. \A d \in Callers : call'[d] = "idle"
    BY DEF JoinOld, Turns
  <2>3. \A t \in Loops : ~Alive(t)'
    BY <2>1 DEF JoinOld, threadVars, Turns, Owned, Alive
  <2> QED
    <3>1. TypeOK'
      BY DEF JoinOld, threadVars
    <3>2. Turns' /\ Numbered' /\ Calls'
      BY <2>1, <2>2 DEF JoinOld, threadVars, Turns, Numbered, Calls, Stops
    <3>3. Owned'
      BY <2>1, <2>3 DEF JoinOld, Owned
    <3> QED
      BY <3>1, <3>2, <3>3
<1>4. CASE \E c \in Callers : Stop(c)
  <2> PICK c \in Callers : Stop(c)
    BY <1>4
  <2>1. /\ Quiet /\ running /\ running' = FALSE
        /\ call' = [call EXCEPT ![c] = "requestStop"]
        /\ UNCHANGED << handle, spawned, stopRequested, loop, joined, destroyed >>
    BY DEF Stop, MayCall, threadVars
  <2>2. TypeOK'
    BY <2>1
  <2>3. Turns' /\ Numbered'
    BY <2>1 DEF Quiet, Turns, Numbered
  <2>4. Calls'
    BY <2>1 DEF Quiet, Calls, Stops
  <2>5. Owned'
    BY <2>1 DEF Quiet, Owned, Alive
  <2> QED
    BY <2>2, <2>3, <2>4, <2>5
<1>5. CASE \E c \in Callers : RequestStop(c)
  BY <1>5 DEF RequestStop, Turns, Numbered, Calls, Owned, Alive, Stops, Loops
<1>6. CASE \E c \in Callers : Joinable(c)
  BY <1>6 DEF Joinable, threadVars, Turns, Numbered, Calls, Owned, Alive, Stops
<1>7. CASE \E c \in Callers : Joined(c)
  BY <1>7 DEF Joined, threadVars, Turns, Numbered, Calls, Owned, Alive, Stops
<1>8. CASE \E c \in Callers : Destroy(c)
  <2> PICK c \in Callers : Destroy(c)
    BY <1>8
  <2>1. Quiet /\ ~running' /\ handle' = None /\ spawned' = spawned /\ loop' = loop
    BY DEF Destroy
  <2>2. CASE handle = None
    BY <2>1, <2>2 DEF Destroy, Quiet, Turns, Numbered, Calls, Owned, Alive, Stops
  <2>3. CASE handle # None
    <3>1. /\ stopRequested' = [stopRequested EXCEPT ![handle] = TRUE]
          /\ joined' = [joined EXCEPT ![c] = handle]
          /\ call' = [call EXCEPT ![c] = "joinOld"]
      BY <2>3 DEF Destroy
    <3>2. TypeOK'
      BY <2>1, <2>3, <3>1 DEF Destroy
    <3>3. Turns' /\ Numbered' /\ Calls'
      BY <2>1, <2>3, <3>1 DEF Quiet, Turns, Numbered, Calls, Stops, Loops
    <3>4. Owned'
      BY <2>1, <2>3, <3>1 DEF Quiet, Owned, Alive
    <3> QED
      BY <3>2, <3>3, <3>4
  <2> QED
    BY <2>2, <2>3
<1>9. CASE \E t \in Loops : RunLoop(t)
  BY <1>9 DEF RunLoop, Check, Step, Wake, Turns, Numbered, Calls, Owned, Alive
<1>10. CASE UNCHANGED vars
  BY <1>10 DEF vars, Turns, Numbered, Calls, Owned, Alive
<1> QED
  BY <1>1, <1>2, <1>3, <1>4, <1>5, <1>6, <1>7, <1>8, <1>9, <1>10 DEF Next, Call

LEMMA LoopInvCorrect ==
  ASSUME TakeTurns = TRUE
  PROVE  Spec => []LoopInv
<1>1. LoopInv /\ [Next]_vars => LoopInv'
  BY LoopKept
<1> QED
  BY <1>1, LoopInit, PTL DEF Spec

-------------------------------------------------------------------------------
\* Two background threads are never alive together (control_loop.hpp 26-30).
THEOREM OneLoopAtATimeCorrect ==
  ASSUME TakeTurns = TRUE
  PROVE  Spec => []OneLoopAtATime
<1>1. LoopInv => OneLoopAtATime
  <2> SUFFICES ASSUME LoopInv PROVE OneLoopAtATime
    OBVIOUS
  <2>1. PICK x : {t \in Loops : Alive(t)} \subseteq {x}
    <3>1. CASE \E c \in Callers : call[c] = "joinOld"
      <4> PICK c \in Callers : call[c] = "joinOld"
        BY <3>1
      <4>1. {t \in Loops : Alive(t)} \subseteq {joined[c]}
        BY LoopAssumption DEF LoopInv, Turns, Calls, Owned
      <4> QED
        BY <4>1
    <3>2. CASE \A c \in Callers : call[c] # "joinOld"
      <4>1. {t \in Loops : Alive(t)} \subseteq {handle}
        BY <3>2 DEF LoopInv, Owned
      <4> QED
        BY <4>1
    <3> QED
      BY <3>1, <3>2
  <2>2. IsFiniteSet({x}) /\ Cardinality({x}) = 1
    BY FS_Singleton
  <2>3. Cardinality({t \in Loops : Alive(t)}) <= Cardinality({x})
    BY <2>1, <2>2, FS_Subset
  <2> QED
    BY <2>2, <2>3 DEF OneLoopAtATime
<1> QED
  BY <1>1, LoopInvCorrect, PTL

\* After stop or the destructor no background thread is left (control_loop.hpp
\* 83-86).
THEOREM StopHaltsCorrect ==
  ASSUME TakeTurns = TRUE
  PROVE  Spec => []StopHalts
<1>1. LoopInv => StopHalts
  BY LoopAssumption DEF LoopInv, StopHalts, Quiet, Calls, Owned, Stops
<1> QED
  BY <1>1, LoopInvCorrect, PTL

\* Between calls, isRunning() is true exactly when thread_ owns a thread that
\* runs cycles and that nobody asked to end (control_loop.hpp 89).
THEOREM RunningMeansActiveCorrect ==
  ASSUME TakeTurns = TRUE
  PROVE  Spec => []RunningMeansActive
<1>1. LoopInv => RunningMeansActive
  <2> SUFFICES ASSUME LoopInv, Quiet
               PROVE  running <=> \E t \in Loops : Alive(t) /\ ~stopRequested[t] /\ handle = t
    BY DEF RunningMeansActive
  <2>1. running => handle \in Loops /\ Alive(handle) /\ ~stopRequested[handle]
    BY DEF LoopInv, TypeOK, Quiet, Calls, Owned
  <2>2. ~running => handle = None
    BY DEF LoopInv, Quiet, Calls, Stops
  <2> QED
    BY <2>1, <2>2, LoopAssumption
<1> QED
  BY <1>1, LoopInvCorrect, PTL

-------------------------------------------------------------------------------
(* Every call returns.  The fairness of FairSpec, with the condition under *)
(* which each step is possible written out: the guards of Call and of      *)
(* RunLoop.                                                                *)

CanCall(c) ==
  \/ call[c] \in {"spawn", "requestStop", "join"}
  \/ call[c] \in {"joinOld", "joining"} /\ loop[joined[c]] = "exited"

CanRun(t) == loop[t] \in {"check", "step", "sleep"}

KeepRunning ==
  /\ \A c \in Callers : []([]CanCall(c) => <><< Call(c) >>_vars)
  /\ \A t \in Loops : []([]CanRun(t) => <><< RunLoop(t) >>_vars)

\* Every thread created was started.
Born == \A t \in Loops : t <= spawned => loop[t] # "unborn"

\* Who waits for a thread, in stop or in the destructor, waits for one that was
\* created and was asked to end.
Asked ==
  \A c \in Callers :
    /\ call[c] = "join" /\ handle # None => stopRequested[handle]
    /\ call[c] \in {"joinOld", "joining"} =>
         joined[c] \in Loops /\ joined[c] <= spawned /\ stopRequested[joined[c]]

LEMMA BornCorrect ==
  ASSUME TakeTurns = TRUE
  PROVE  Spec => []Born
<1>1. Init => Born
  BY DEF Init, Born, Loops
<1>2. LoopInv /\ Born /\ [Next]_vars => Born'
  <2> SUFFICES ASSUME LoopInv, Born, [Next]_vars PROVE Born'
    OBVIOUS
  <2> USE DEF Born
  <2>1. ASSUME NEW c \in Callers, Spawn(c) PROVE Born'
    BY <2>1 DEF Spawn, LoopInv, TypeOK, Loops
  <2>2. ASSUME NEW c \in Callers, Call(c), ~Spawn(c) PROVE Born'
    BY <2>2 DEF Call, JoinOld, RequestStop, Joinable, Joined, threadVars
  <2>3. ASSUME NEW c \in Callers, Start(c) \/ Stop(c) \/ Destroy(c) PROVE Born'
    BY <2>3 DEF Start, Stop, Destroy, threadVars
  <2>4. ASSUME NEW t \in Loops, RunLoop(t) PROVE Born'
    BY <2>4 DEF RunLoop, Check, Step, Wake, LoopInv, TypeOK
  <2>5. CASE UNCHANGED vars
    BY <2>5 DEF vars
  <2> QED
    BY <2>1, <2>2, <2>3, <2>4, <2>5 DEF Next
<1> QED
  BY <1>1, <1>2, LoopInvCorrect, PTL DEF Spec

LEMMA AskedCorrect ==
  ASSUME TakeTurns = TRUE
  PROVE  Spec => []Asked
<1>1. Init => Asked
  BY DEF Init, Asked
<1>2. LoopInv /\ Asked /\ [Next]_vars => Asked'
  <2> SUFFICES ASSUME LoopInv, Asked, [Next]_vars PROVE Asked'
    OBVIOUS
  <2> USE DEF Asked, LoopInv, TypeOK, Go, Return
  <2>1. ASSUME NEW c \in Callers, Start(c) \/ Stop(c) PROVE Asked'
    BY <2>1 DEF Start, Stop, MayCall, Quiet, threadVars
  <2>2. ASSUME NEW c \in Callers, Destroy(c) PROVE Asked'
    BY <2>2 DEF Destroy, Quiet, Numbered
  <2>3. ASSUME NEW c \in Callers, Spawn(c) PROVE Asked'
    <3>1. \A d \in Callers : d # c => call[d] = "idle"
      BY <2>3 DEF Spawn, Turns
    <3> QED
      BY <2>3, <3>1 DEF Spawn, Calls
  <2>4. ASSUME NEW c \in Callers, JoinOld(c) \/ Joined(c) PROVE Asked'
    <3>1. \A d \in Callers : d # c => call[d] = "idle"
      BY <2>4 DEF JoinOld, Joined, Turns
    <3> QED
      BY <2>4, <3>1 DEF JoinOld, Joined, threadVars
  <2>5. ASSUME NEW c \in Callers, RequestStop(c) PROVE Asked'
    <3>1. \A d \in Callers : d # c => call[d] = "idle"
      BY <2>5 DEF RequestStop, Turns
    <3> QED
      BY <2>5, <3>1 DEF RequestStop
  <2>6. ASSUME NEW c \in Callers, Joinable(c) PROVE Asked'
    <3>1. \A d \in Callers : d # c => call[d] = "idle"
      BY <2>6 DEF Joinable, Turns
    <3> QED
      BY <2>6, <3>1 DEF Joinable, Numbered, threadVars
  <2>7. ASSUME NEW t \in Loops, RunLoop(t) PROVE Asked'
    BY <2>7 DEF RunLoop, Check, Step, Wake
  <2>8. CASE UNCHANGED vars
    BY <2>8 DEF vars
  <2> QED
    BY <2>1, <2>2, <2>3, <2>4, <2>5, <2>6, <2>7, <2>8 DEF Next, Call
<1> QED
  BY <1>1, <1>2, LoopInvCorrect, PTL DEF Spec

CallInv == LoopInv /\ Born /\ Asked

Awaits(c, t) == call[c] \in {"joinOld", "joining"} /\ joined[c] = t

AwaitsAt(c, t, label) == Awaits(c, t) /\ loop[t] = label

\* What other steps leave of a call under way.
LEMMA CallUndisturbed ==
  ASSUME TakeTurns = TRUE, CallInv, [Next]_vars,
         NEW c \in Callers, call[c] # "idle", ~Call(c)
  PROVE  /\ call'[c] = call[c] /\ joined'[c] = joined[c]
         /\ \/ UNCHANGED vars
            \/ \E t \in Loops : RunLoop(t)
<1>1. ~Quiet /\ \A d \in Callers : call[d] # "idle" => d = c
  BY DEF CallInv, LoopInv, Turns, Quiet
<1>2. ASSUME NEW d \in Callers, Start(d) \/ Stop(d) \/ Destroy(d)
      PROVE  FALSE
  BY <1>1, <1>2 DEF Start, Stop, Destroy, MayCall
<1>3. ASSUME NEW d \in Callers, Call(d)
      PROVE  d = c
  BY <1>1, <1>3 DEF Call, Spawn, JoinOld, RequestStop, Joinable, Joined
<1>4. CASE \E t \in Loops : RunLoop(t)
  BY <1>4 DEF RunLoop, Check, Step, Wake
<1>5. CASE UNCHANGED vars
  BY <1>5 DEF vars
<1> QED
  BY <1>2, <1>3, <1>4, <1>5 DEF Next

\* A call, step by step.
LEMMA CallSteps ==
  ASSUME TakeTurns = TRUE, CallInv, NEW c \in Callers
  PROVE  /\ call[c] = "spawn" /\ << Call(c) >>_vars => call'[c] = "idle"
         /\ call[c] = "requestStop" /\ << Call(c) >>_vars => call'[c] = "join"
         /\ call[c] = "join" /\ << Call(c) >>_vars =>
              call'[c] = "idle" \/ \E t \in Loops : Awaits(c, t)'
         /\ \A t \in Loops :
              AwaitsAt(c, t, "exited") /\ << Call(c) >>_vars => call'[c] = "idle"
<1> USE DEF CallInv, LoopInv, TypeOK, Call, Spawn, JoinOld, RequestStop, Joinable, Joined, Go, Return
<1>1. call[c] = "spawn" /\ << Call(c) >>_vars => call'[c] = "idle"
  BY DEF Calls
<1>2. call[c] = "requestStop" /\ << Call(c) >>_vars => call'[c] = "join"
  OBVIOUS
<1>3. ASSUME call[c] = "join", << Call(c) >>_vars
      PROVE  call'[c] = "idle" \/ \E t \in Loops : Awaits(c, t)'
  <2>1. CASE handle = None
    BY <1>3, <2>1
  <2>2. CASE handle # None
    <3> PICK t \in Loops : t = handle
      BY <2>2
    <3>1. Awaits(c, t)'
      BY <1>3, <2>2 DEF Awaits
    <3> QED
      BY <3>1
  <2> QED
    BY <2>1, <2>2
<1>4. ASSUME NEW t \in Loops, AwaitsAt(c, t, "exited"), << Call(c) >>_vars
      PROVE  call'[c] = "idle"
  BY <1>4 DEF AwaitsAt, Awaits
<1> QED
  BY <1>1, <1>2, <1>3, <1>4

\* A call that has a step to take stays where it is until it takes it.
LEMMA CallWaits ==
  ASSUME TakeTurns = TRUE, CallInv, [Next]_vars,
         NEW c \in Callers, NEW at \in {"spawn", "requestStop", "join"}, call[c] = at
  PROVE  call'[c] = at \/ << Call(c) >>_vars
<1>1. CASE Call(c)
  <2>1. call' # call
    BY <1>1 DEF Call, Spawn, JoinOld, RequestStop, Joinable, Joined, Go, Return,
                CallInv, LoopInv, TypeOK
  <2> QED
    BY <1>1, <2>1 DEF vars
<1>2. CASE ~Call(c)
  BY <1>2, CallUndisturbed
<1> QED
  BY <1>1, <1>2

\* The thread a call waits for: what its own step makes of it, and that nobody
\* else's step touches it.
LEMMA AwaitedSteps ==
  ASSUME TakeTurns = TRUE, CallInv, NEW c \in Callers, NEW t \in Loops
  PROVE  /\ AwaitsAt(c, t, "step") /\ << RunLoop(t) >>_vars =>
              AwaitsAt(c, t, "sleep")' \/ AwaitsAt(c, t, "check")'
         /\ AwaitsAt(c, t, "sleep") /\ << RunLoop(t) >>_vars => AwaitsAt(c, t, "check")'
         /\ AwaitsAt(c, t, "check") /\ << RunLoop(t) >>_vars => AwaitsAt(c, t, "exited")'
         /\ \A at \in {"step", "sleep", "check", "exited"} :
              AwaitsAt(c, t, at) /\ [Next]_vars /\ ~Call(c) /\ ~RunLoop(t) =>
                AwaitsAt(c, t, at)'
         /\ \A at \in {"step", "sleep", "check"} :
              AwaitsAt(c, t, at) /\ [Next]_vars => ~Call(c)
         /\ Awaits(c, t) => \/ AwaitsAt(c, t, "step") \/ AwaitsAt(c, t, "sleep")
                            \/ AwaitsAt(c, t, "check") \/ AwaitsAt(c, t, "exited")
<1> USE DEF AwaitsAt, Awaits
<1>1. /\ AwaitsAt(c, t, "step") /\ << RunLoop(t) >>_vars =>
           AwaitsAt(c, t, "sleep")' \/ AwaitsAt(c, t, "check")'
      /\ AwaitsAt(c, t, "sleep") /\ << RunLoop(t) >>_vars => AwaitsAt(c, t, "check")'
      /\ AwaitsAt(c, t, "check") /\ << RunLoop(t) >>_vars => AwaitsAt(c, t, "exited")'
  BY DEF RunLoop, Check, Step, Wake, CallInv, Asked, LoopInv, TypeOK
<1>2. ASSUME NEW at \in {"step", "sleep", "check", "exited"}, AwaitsAt(c, t, at),
             [Next]_vars, ~Call(c), ~RunLoop(t)
      PROVE  AwaitsAt(c, t, at)'
  <2>1. /\ call'[c] = call[c] /\ joined'[c] = joined[c]
        /\ \/ UNCHANGED vars
           \/ \E d \in Loops : RunLoop(d)
    BY <1>2, CallUndisturbed
  <2>2. ASSUME NEW d \in Loops, RunLoop(d)
        PROVE  loop'[t] = loop[t]
    BY <1>2, <2>2 DEF RunLoop, Check, Step, Wake, CallInv, LoopInv, TypeOK
  <2>3. loop'[t] = loop[t]
    BY <2>1, <2>2 DEF vars
  <2> QED
    BY <1>2, <2>1, <2>3
<1>3. ASSUME NEW at \in {"step", "sleep", "check"}, AwaitsAt(c, t, at), Call(c)
      PROVE  FALSE
  BY <1>3 DEF Call, Spawn, JoinOld, RequestStop, Joinable, Joined
<1>4. ASSUME Awaits(c, t)
      PROVE  loop[t] \in {"step", "sleep", "check", "exited"}
  <2>1. t <= spawned
    BY <1>4 DEF CallInv, Asked
  <2> QED
    BY <2>1 DEF CallInv, Born, LoopInv, TypeOK
<1> QED
  BY <1>1, <1>2, <1>3, <1>4

\* The thread that a call waits for ends, and the wait with it.
LEMMA AwaitedEnds ==
  ASSUME TakeTurns = TRUE, NEW c \in Callers, NEW t \in Loops
  PROVE  Spec /\ KeepRunning => (Awaits(c, t) ~> call[c] = "idle")
<1> DEFINE At(label) == AwaitsAt(c, t, label)
<1>1. /\ KeepRunning => []([]CanCall(c) => <><< Call(c) >>_vars)
      /\ KeepRunning => []([]CanRun(t) => <><< RunLoop(t) >>_vars)
  BY DEF KeepRunning
<1>2. Spec => []CallInv
  BY LoopInvCorrect, BornCorrect, AskedCorrect, PTL DEF CallInv
<1>3. ASSUME NEW label \in {"step", "sleep", "check"}, CallInv, At(label), [Next]_vars
      PROVE  At(label)' \/ << RunLoop(t) >>_vars
  <2>1. CASE RunLoop(t)
    <3>1. loop' # loop
      BY <1>3, <2>1 DEF RunLoop, Check, Step, Wake, CallInv, LoopInv, TypeOK
    <3> QED
      BY <2>1, <3>1 DEF vars
  <2>2. CASE ~RunLoop(t)
    <3>1. ~Call(c)
      BY <1>3, AwaitedSteps
    <3> QED
      BY <1>3, <2>2, <3>1, AwaitedSteps
  <2> QED
    BY <2>1, <2>2
<1>4. At("step") \/ At("sleep") \/ At("check") => CanRun(t)
  BY DEF AwaitsAt, CanRun
<1>5. Spec /\ KeepRunning => (At("step") ~> At("sleep") \/ At("check"))
  <2>1. CallInv /\ At("step") /\ [Next]_vars => At("step")' \/ << RunLoop(t) >>_vars
    BY <1>3
  <2>2. CallInv /\ At("step") /\ << RunLoop(t) >>_vars => At("sleep")' \/ At("check")'
    BY AwaitedSteps
  <2> QED
    BY <1>1, <1>2, <1>4, <2>1, <2>2, PTL DEF Spec
<1>6. Spec /\ KeepRunning => (At("sleep") ~> At("check"))
  <2>1. CallInv /\ At("sleep") /\ [Next]_vars => At("sleep")' \/ << RunLoop(t) >>_vars
    BY <1>3
  <2>2. CallInv /\ At("sleep") /\ << RunLoop(t) >>_vars => At("check")'
    BY AwaitedSteps
  <2> QED
    BY <1>1, <1>2, <1>4, <2>1, <2>2, PTL DEF Spec
<1>7. Spec /\ KeepRunning => (At("check") ~> At("exited"))
  <2>1. CallInv /\ At("check") /\ [Next]_vars => At("check")' \/ << RunLoop(t) >>_vars
    BY <1>3
  <2>2. CallInv /\ At("check") /\ << RunLoop(t) >>_vars => At("exited")'
    BY AwaitedSteps
  <2> QED
    BY <1>1, <1>2, <1>4, <2>1, <2>2, PTL DEF Spec
<1>8. Spec /\ KeepRunning => (At("exited") ~> call[c] = "idle")
  <2>1. CallInv /\ At("exited") /\ [Next]_vars => At("exited")' \/ << Call(c) >>_vars
    BY AwaitedSteps DEF AwaitsAt, Awaits, vars, RunLoop, Check, Step, Wake,
                        Call, Spawn, JoinOld, RequestStop, Joinable, Joined, Return, Go,
                        CallInv, LoopInv, TypeOK
  <2>2. CallInv /\ At("exited") /\ << Call(c) >>_vars => (call[c] = "idle")'
    BY CallSteps
  <2>3. At("exited") => CanCall(c)
    BY DEF AwaitsAt, Awaits, CanCall
  <2> QED
    BY <1>1, <1>2, <2>1, <2>2, <2>3, PTL DEF Spec
<1>9. CallInv /\ Awaits(c, t) => At("step") \/ At("sleep") \/ At("check") \/ At("exited")
  BY AwaitedSteps
<1> QED
  BY <1>2, <1>5, <1>6, <1>7, <1>8, <1>9, PTL

\* Every call of stop, start and the destructor returns, for any number of
\* callers and of starts, when calls do not overlap and every thread that can go
\* on does: the loop looks at its stop request once per cycle, and neither stop
\* nor the destructor waits for a thread that nobody asked to end
\* (control_loop.cpp 31-68).
THEOREM CallsReturnCorrect ==
  ASSUME TakeTurns = TRUE
  PROVE  Spec /\ KeepRunning => CallsReturn
<1> SUFFICES ASSUME NEW c \in Callers
             PROVE  Spec /\ KeepRunning => (call[c] # "idle" ~> call[c] = "idle")
  BY DEF CallsReturn
<1> DEFINE At(label) == call[c] = label
           Waits     == \E t \in Loops : Awaits(c, t)
<1>1. KeepRunning => []([]CanCall(c) => <><< Call(c) >>_vars)
  BY DEF KeepRunning
<1>2. Spec => []CallInv
  BY LoopInvCorrect, BornCorrect, AskedCorrect, PTL DEF CallInv
<1>3. At("spawn") \/ At("requestStop") \/ At("join") => CanCall(c)
  BY DEF CanCall
<1>4. Spec /\ KeepRunning => (At("spawn") ~> At("idle"))
  <2>1. CallInv /\ At("spawn") /\ [Next]_vars => At("spawn")' \/ << Call(c) >>_vars
    BY CallWaits
  <2>2. CallInv /\ At("spawn") /\ << Call(c) >>_vars => At("idle")'
    BY CallSteps
  <2> QED
    BY <1>1, <1>2, <1>3, <2>1, <2>2, PTL DEF Spec
<1>5. Spec /\ KeepRunning => (At("requestStop") ~> At("join"))
  <2>1. CallInv /\ At("requestStop") /\ [Next]_vars => At("requestStop")' \/ << Call(c) >>_vars
    BY CallWaits
  <2>2. CallInv /\ At("requestStop") /\ << Call(c) >>_vars => At("join")'
    BY CallSteps
  <2> QED
    BY <1>1, <1>2, <1>3, <2>1, <2>2, PTL DEF Spec
<1>6. Spec /\ KeepRunning => (At("join") ~> At("idle") \/ Waits)
  <2>1. CallInv /\ At("join") /\ [Next]_vars => At("join")' \/ << Call(c) >>_vars
    BY CallWaits
  <2>2. CallInv /\ At("join") /\ << Call(c) >>_vars => At("idle")' \/ Waits'
    BY CallSteps
  <2> QED
    BY <1>1, <1>2, <1>3, <2>1, <2>2, PTL DEF Spec
<1>7. Spec /\ KeepRunning => (Waits ~> At("idle"))
  <2> DEFINE Finishes(t) == Awaits(c, t) => <>(call[c] = "idle")
  <2>1. ASSUME NEW t \in Loops
        PROVE  Spec /\ KeepRunning => []Finishes(t)
    BY AwaitedEnds, PTL
  <2>2. Spec /\ KeepRunning => [](\A t \in Loops : Finishes(t))
    BY <2>1
  <2>3. (\A t \in Loops : Finishes(t)) => (Waits => <>(call[c] = "idle"))
    OBVIOUS
  <2> QED
    BY <2>2, <2>3, PTL
<1>8. CallInv /\ call[c] # "idle" => At("spawn") \/ At("requestStop") \/ At("join") \/ Waits
  BY DEF CallInv, LoopInv, TypeOK, Asked, Awaits
<1> QED
  BY <1>2, <1>4, <1>5, <1>6, <1>7, <1>8, PTL

-------------------------------------------------------------------------------
(* The pacing of cycles, for any period and any lateness of the machine.   *)

\* Where a loop is between two steps: what the histories, the clock and the
\* deadline are to one another.
PacingInv ==
  /\ pacer \in {"ControlLoop", "emulator"}
  /\ now \in Nat /\ due \in Int
  /\ begun \in Seq(Nat) /\ ended \in Seq(Nat)
  /\ \/ phase \in {"begin", "sleep"} /\ Len(begun) = Len(ended)
     \/ phase = "work" /\ Len(begun) = Len(ended) + 1

\* ControlLoop: a cycle begins when the one before it is a period old.
SpacedInv ==
  pacer = "ControlLoop" =>
    /\ begun # << >> => due = begun[Len(begun)] + Period
    /\ begun # << >> /\ phase = "begin" => now >= due
    /\ phase = "work" => now = begun[Len(begun)]
    /\ CyclesSpaced

\* A sequence of instants and the next one.
LEMMA NextInstant ==
  ASSUME NEW s \in Seq(Nat), NEW t \in Nat
  PROVE  /\ Append(s, t) \in Seq(Nat) /\ Len(Append(s, t)) = Len(s) + 1 /\ Len(s) \in Nat
         /\ Append(s, t) # << >>
         /\ Append(s, t)[Len(s) + 1] = t
         /\ \A n \in 1 .. Len(s) : Append(s, t)[n] = s[n] /\ s[n] \in Nat
         /\ s # << >> <=> Len(s) > 0
OBVIOUS

\* The histories, the clock and the phase keep their types.
LEMMA PacingStep ==
  ASSUME PacingInv, [PacingNext]_pacingVars
  PROVE  PacingInv'
<1> USE PacingAssumption DEF PacingInv
<1>1. CASE BeginCycle
  BY <1>1, NextInstant DEF BeginCycle, metrics
<1>2. CASE FinishCycle
  <2>1. PICK work \in 0 .. MaxWork :
          now' = now + work /\ ended' = Append(ended, now + work)
          /\ phase' \in {"begin", "sleep"}
    BY <1>2 DEF FinishCycle
  <2>2. now + work \in Nat
    BY <2>1
  <2> QED BY <1>2, <2>1, <2>2, NextInstant DEF FinishCycle
<1>3. CASE SleepUntilDue
  BY <1>3 DEF SleepUntilDue, Larger, metrics
<1>4. CASE EmulatorCycle
  <2>1. PICK work \in 0 .. MaxWork :
          now' = now + work /\ ended' = Append(ended, now + work)
    BY <1>4 DEF EmulatorCycle
  <2>2. now + work \in Nat
    BY <2>1
  <2> QED BY <1>4, <2>1, <2>2, NextInstant DEF EmulatorCycle, metrics
<1>5. CASE UNCHANGED pacingVars
  BY <1>5 DEF pacingVars
<1> QED
  BY <1>1, <1>2, <1>3, <1>4, <1>5 DEF PacingNext

\* A cycle of ControlLoop begins a period after the last, or later.
LEMMA SpacedStep ==
  ASSUME PacingInv, SpacedInv, [PacingNext]_pacingVars
  PROVE  SpacedInv'
<1> USE PacingAssumption
<1> SUFFICES ASSUME pacer' = "ControlLoop"
             PROVE  /\ begun' # << >> => due' = begun'[Len(begun')] + Period
                    /\ begun' # << >> /\ phase' = "begin" => now' >= due'
                    /\ phase' = "work" => now' = begun'[Len(begun')]
                    /\ CyclesSpaced'
  BY DEF SpacedInv
<1>1. pacer = "ControlLoop"
  BY DEF PacingNext, BeginCycle, FinishCycle, SleepUntilDue, EmulatorCycle, pacingVars
<1>2. CASE BeginCycle
  <2>1. /\ now \in Nat /\ begun \in Seq(Nat)
        /\ now' = now /\ begun' = Append(begun, now) /\ due' = now + Period /\ phase' = "work"
    BY <1>2 DEF BeginCycle, PacingInv
  <2>2. /\ Len(begun') = Len(begun) + 1 /\ Len(begun) \in Nat
        /\ begun'[Len(begun) + 1] = now
        /\ \A n \in 1 .. Len(begun) : begun'[n] = begun[n] /\ begun[n] \in Nat
        /\ begun # << >> <=> Len(begun) > 0
    BY <2>1, NextInstant
  <2>3. CyclesSpaced'
    <3> SUFFICES ASSUME NEW n \in 1 .. Len(begun) + 1, n # 1
                 PROVE  begun'[n] - begun'[n - 1] >= Period
      BY <2>2 DEF CyclesSpaced, Spaced, Cycles
    <3>1. CASE n = Len(begun) + 1
      <4>1. n - 1 = Len(begun) /\ Len(begun) \in 1 .. Len(begun) /\ begun # << >>
        BY <2>2, <3>1
      <4>2. due = begun[Len(begun)] + Period /\ now >= due
        BY <1>1, <1>2, <4>1 DEF SpacedInv, BeginCycle
      <4> QED BY <2>1, <2>2, <3>1, <4>1, <4>2
    <3>2. CASE n # Len(begun) + 1
      <4>1. n \in 1 .. Len(begun) /\ n - 1 \in 1 .. Len(begun)
        BY <2>2, <3>2
      <4>2. begun[n] - begun[n - 1] >= Period
        BY <1>1, <4>1 DEF SpacedInv, CyclesSpaced, Spaced, Cycles
      <4> QED BY <2>2, <4>1, <4>2
    <3> QED BY <3>1, <3>2
  <2> QED BY <2>1, <2>2, <2>3
<1>3. CASE FinishCycle
  <2>1. PICK work \in 0 .. MaxWork :
          /\ now' = now + work
          /\ IF now + work >= due THEN phase' = "begin" ELSE phase' = "sleep"
    BY <1>3 DEF FinishCycle
  <2>2. UNCHANGED << pacer, due, begun >>
    BY <1>3 DEF FinishCycle
  <2>3. CyclesSpaced'
    BY <1>1, <2>2 DEF SpacedInv, CyclesSpaced, Spaced, Cycles
  <2> QED BY <1>1, <2>1, <2>2, <2>3 DEF SpacedInv
<1>4. CASE SleepUntilDue
  <2>1. PICK late \in 0 .. MaxOversleep : now' = Larger(now, due + late)
    BY <1>4 DEF SleepUntilDue
  <2>2. UNCHANGED << pacer, due, begun >> /\ phase' = "begin"
    BY <1>4 DEF SleepUntilDue
  <2>3. CyclesSpaced'
    BY <1>1, <2>2 DEF SpacedInv, CyclesSpaced, Spaced, Cycles
  <2>4. now' >= due'
    BY <2>1, <2>2 DEF Larger, PacingInv
  <2> QED BY <1>1, <2>2, <2>3, <2>4 DEF SpacedInv
<1>5. CASE EmulatorCycle
  BY <1>1, <1>5 DEF EmulatorCycle
<1>6. CASE UNCHANGED pacingVars
  BY <1>1, <1>6 DEF pacingVars, SpacedInv, CyclesSpaced, Spaced, Cycles
<1> QED
  BY <1>2, <1>3, <1>4, <1>5, <1>6 DEF PacingNext

\* Both hold before the first cycle.
LEMMA PacingStart == PacingInit => PacingInv /\ SpacedInv
<1> SUFFICES ASSUME PacingInit PROVE PacingInv /\ SpacedInv
  OBVIOUS
<1>1. << >> \in Seq(Nat) /\ Len(<< >>) = 0 /\ 0 * Period = 0
  BY PacingAssumption
<1>2. CyclesSpaced
  BY <1>1 DEF PacingInit, CyclesSpaced, Spaced, Cycles
<1> QED
  BY <1>1, <1>2 DEF PacingInit, PacingInv, SpacedInv

\* However long cycles take and sleeps last, ControlLoop never begins one less
\* than a period after the last (control_loop.cpp 129-136).
THEOREM CyclesSpacedCorrect == PacingSpec => []CyclesSpaced
<1>1. PacingInv /\ SpacedInv /\ [PacingNext]_pacingVars => PacingInv' /\ SpacedInv'
  BY PacingStep, SpacedStep
<1>2. SpacedInv => CyclesSpaced
  BY DEF SpacedInv, CyclesSpaced
<1> QED
  BY <1>1, <1>2, PacingStart, PTL DEF PacingSpec

\* The cycles that left no time to sleep, and how the first finished cycles but
\* one deviated from the period.
Missed == {n \in Finished : ended[n] - begun[n] >= Period}
Deviated == {Distance(begun[n] - begun[n - 1], Period) : n \in Finished \ {1}}

\* What has been worked up to each finished cycle: there are such sums, and the
\* last of them is the total.
Sums(worked) ==
  worked = [n \in 0 .. Len(ended) |->
              IF n = 0 THEN 0 ELSE worked[n - 1] + (ended[n] - begun[n])]

\* The metrics after the cycles that have finished; the one under way has begun
\* after the last of these.
MetricsInv ==
  pacer = "ControlLoop" =>
    /\ ended # << >> => previousCycleStart = begun[Len(ended)]
    /\ begun # << >> => due = begun[Len(begun)] + Period
    /\ phase = "work" => now = begun[Len(begun)]
    /\ misses = Cardinality(Missed)
    /\ maxJitter \in Nat /\ maxJitter \in Deviated \cup {0}
    /\ \A d \in Deviated : d <= maxJitter
    /\ \E worked : Sums(worked)
    /\ \A worked : Sums(worked) => worked[Len(ended)] = totalTime

\* These are the metrics the histories tell.
LEMMA MetricsTell ==
  ASSUME PacingInv, MetricsInv
  PROVE  MetricsTellTheSchedule
<1> SUFFICES ASSUME pacer = "ControlLoop" PROVE MetricsTellTheSchedule
  BY DEF MetricsTellTheSchedule
<1> DEFINE total == CHOOSE worked : Sums(worked)
<1>1. Sums(total)
  BY DEF MetricsInv
<1>2. total[Len(ended)] = totalTime
  BY <1>1 DEF MetricsInv
<1>3. total = CHOOSE worked : worked = [n \in 0 .. Len(ended) |->
              IF n = 0 THEN 0 ELSE worked[n - 1] + (ended[n] - begun[n])]
  BY Zenon DEF Sums
<1> HIDE DEF total
<1> QED
  BY <1>2, <1>3 DEF MetricsInv, MetricsTellTheSchedule, Missed, Deviated

\* What has been recorded depends on the cycles that have finished only.
LEMMA RecordKept ==
  ASSUME PacingInv, ended' = ended, Len(begun') >= Len(ended),
         \A n \in 1 .. Len(ended) : begun'[n] = begun[n]
  PROVE  /\ Missed' = Missed /\ Deviated' = Deviated
         /\ \A worked : Sums(worked)' <=> Sums(worked)
<1>1. Len(ended) \in Nat /\ \A n \in Finished \ {1} : n \in 1 .. Len(ended) /\ n - 1 \in 1 .. Len(ended)
  BY DEF PacingInv, Finished
<1>2. Missed' = Missed
  BY DEF Missed, Finished
<1>3. Deviated' = Deviated
  BY <1>1 DEF Deviated, Finished
<1>4. ASSUME NEW worked
      PROVE  Sums(worked)' <=> Sums(worked)
  <2> DEFINE before == [n \in 0 .. Len(ended) |->
                         IF n = 0 THEN 0 ELSE worked[n - 1] + (ended[n] - begun[n])]
             after == [n \in 0 .. Len(ended) |->
                         IF n = 0 THEN 0 ELSE worked[n - 1] + (ended[n] - begun'[n])]
  <2>1. \A n \in 0 .. Len(ended) : n # 0 => n \in 1 .. Len(ended)
    BY <1>1
  <2>2. before = after
    BY <2>1
  <2>3. (Sums(worked) <=> worked = before) /\ (Sums(worked)' <=> worked = after)
    BY DEF Sums
  <2> QED BY <2>2, <2>3
<1> QED
  BY <1>2, <1>3, <1>4

\* Sums up to one more cycle.
LEMMA SumsGrow ==
  ASSUME PacingInv, begun' = begun, NEW t \in Nat, ended' = Append(ended, t),
         NEW work, work = t - begun[Len(ended) + 1],
         \E worked : Sums(worked),
         \A worked : Sums(worked) => worked[Len(ended)] = totalTime
  PROVE  /\ \E worked : Sums(worked)'
         /\ \A worked : Sums(worked)' => worked[Len(ended')] = totalTime + work
<1> DEFINE N == Len(ended)
<1>1. /\ N \in Nat /\ Len(ended') = N + 1 /\ ended'[N + 1] = t
      /\ \A n \in 1 .. N : ended'[n] = ended[n]
  BY NextInstant DEF PacingInv
<1>2. ASSUME NEW worked
      PROVE  /\ Sums(worked) <=>
                  worked = [n \in 0 .. N |->
                              IF n = 0 THEN 0 ELSE worked[n - 1] + (ended[n] - begun[n])]
             /\ Sums(worked)' <=>
                  worked = [n \in 0 .. N + 1 |->
                              IF n = 0 THEN 0 ELSE worked[n - 1] + (ended'[n] - begun[n])]
  BY <1>1 DEF Sums
<1> HIDE DEF N
<1>3. \E worked : Sums(worked)'
  <2> PICK worked : Sums(worked)
    OBVIOUS
  <2> DEFINE more == [n \in 0 .. N + 1 |->
                        IF n = N + 1 THEN worked[N] + work ELSE worked[n]]
             next == [n \in 0 .. N + 1 |->
                        IF n = 0 THEN 0 ELSE more[n - 1] + (ended'[n] - begun[n])]
  <2>1. \A n \in 0 .. N :
          worked[n] = IF n = 0 THEN 0 ELSE worked[n - 1] + (ended[n] - begun[n])
    BY <1>2
  <2>2. ASSUME NEW n \in 0 .. N + 1
        PROVE  more[n] = next[n]
    <3>1. CASE n = 0
      BY <1>1, <2>1, <3>1
    <3>2. CASE n \in 1 .. N
      <4>1. n \in 0 .. N /\ n - 1 \in 0 .. N + 1 /\ n - 1 # N + 1 /\ n # N + 1 /\ n # 0
        BY <1>1, <3>2
      <4>2. more[n] = worked[n] /\ more[n - 1] = worked[n - 1]
        BY <4>1
      <4>3. next[n] = more[n - 1] + (ended'[n] - begun[n])
        BY <4>1
      <4>4. ended'[n] = ended[n]
        BY <1>1, <3>2
      <4> HIDE DEF more, next
      <4> QED BY <2>1, <4>1, <4>2, <4>3, <4>4
    <3>3. CASE n = N + 1
      <4>1. n - 1 = N /\ n # 0 /\ N \in 0 .. N + 1 /\ N # N + 1
        BY <1>1, <3>3
      <4>2. more[n] = worked[N] + work /\ more[n - 1] = worked[N]
        BY <3>3, <4>1
      <4>3. next[n] = more[n - 1] + (ended'[n] - begun[n])
        BY <4>1
      <4>4. work = ended'[n] - begun[n]
        BY <1>1, <3>3 DEF N
      <4> HIDE DEF more, next
      <4> QED BY <4>2, <4>3, <4>4
    <3> QED BY <1>1, <3>1, <3>2, <3>3
  <2>3. more = next
    BY <2>2
  <2>4. PICK sums : sums = more
    OBVIOUS
  <2>5. Sums(sums)'
    <3> HIDE DEF more
    <3>1. sums = [n \in 0 .. N + 1 |->
                    IF n = 0 THEN 0 ELSE sums[n - 1] + (ended'[n] - begun[n])]
      BY <2>3, <2>4
    <3> QED BY <1>2, <3>1
  <2> QED BY <2>5
<1>4. ASSUME NEW worked, Sums(worked)'
      PROVE  worked[N + 1] = totalTime + work
  <2> DEFINE less == [n \in 0 .. N |-> worked[n]]
             last == [n \in 0 .. N |->
                        IF n = 0 THEN 0 ELSE less[n - 1] + (ended[n] - begun[n])]
  <2>1. worked = [n \in 0 .. N + 1 |->
                    IF n = 0 THEN 0 ELSE worked[n - 1] + (ended'[n] - begun[n])]
    BY <1>2, <1>4
  <2>2. ASSUME NEW n \in 0 .. N + 1
        PROVE  worked[n] = IF n = 0 THEN 0 ELSE worked[n - 1] + (ended'[n] - begun[n])
    BY <2>1
  <2>3. ASSUME NEW n \in 0 .. N
        PROVE  less[n] = last[n]
    <3>1. n \in 0 .. N + 1 /\ (n # 0 => n \in 1 .. N /\ n - 1 \in 0 .. N)
      BY <1>1
    <3>2. less[n] = worked[n] /\ (n # 0 => less[n - 1] = worked[n - 1] /\ ended'[n] = ended[n])
      BY <1>1, <3>1
    <3>3. last[n] = IF n = 0 THEN 0 ELSE less[n - 1] + (ended[n] - begun[n])
      OBVIOUS
    <3> HIDE DEF less, last
    <3> QED BY <2>2, <3>1, <3>2, <3>3
  <2>4. less = last
    BY <2>3
  <2>5. Sums(less)
    BY <1>2, <2>4
  <2>6. less[N] = totalTime
    BY <2>5 DEF N
  <2>7. less[N] = worked[N]
    BY <1>1
  <2>8. N + 1 \in 0 .. N + 1 /\ N + 1 # 0 /\ (N + 1) - 1 = N
    BY <1>1
  <2>9. worked[N + 1] = worked[N] + (ended'[N + 1] - begun[N + 1])
    BY <2>2, <2>8
  <2> HIDE DEF less
  <2> QED BY <1>1, <2>6, <2>7, <2>9 DEF N
<1> QED
  BY <1>1, <1>3, <1>4

\* A cycle that has finished is counted once, its deviation is in the maximum,
\* and its time in the total.
LEMMA MetricsStep ==
  ASSUME PacingInv, MetricsInv, [PacingNext]_pacingVars
  PROVE  MetricsInv'
<1> USE PacingAssumption
<1> SUFFICES ASSUME pacer' = "ControlLoop"
             PROVE  /\ ended' # << >> => previousCycleStart' = begun'[Len(ended')]
                    /\ begun' # << >> => due' = begun'[Len(begun')] + Period
                    /\ phase' = "work" => now' = begun'[Len(begun')]
                    /\ misses' = Cardinality(Missed')
                    /\ maxJitter' \in Nat /\ maxJitter' \in Deviated' \cup {0}
                    /\ \A d \in Deviated' : d <= maxJitter'
                    /\ \E worked : Sums(worked)'
                    /\ \A worked : Sums(worked)' => worked[Len(ended')] = totalTime'
  BY DEF MetricsInv
<1>1. /\ pacer = "ControlLoop"
      /\ now \in Nat /\ begun \in Seq(Nat) /\ ended \in Seq(Nat)
      /\ Len(begun) \in Nat /\ Len(ended) \in Nat
  BY DEF PacingInv, PacingNext, BeginCycle, FinishCycle, SleepUntilDue, EmulatorCycle, pacingVars
<1>2. /\ ended # << >> => previousCycleStart = begun[Len(ended)]
      /\ begun # << >> => due = begun[Len(begun)] + Period
      /\ phase = "work" => now = begun[Len(begun)]
      /\ misses = Cardinality(Missed)
      /\ maxJitter \in Nat /\ maxJitter \in Deviated \cup {0}
      /\ \A d \in Deviated : d <= maxJitter
      /\ \E worked : Sums(worked)
      /\ \A worked : Sums(worked) => worked[Len(ended)] = totalTime
  BY <1>1 DEF MetricsInv
<1>3. CASE BeginCycle
  <2>1. /\ begun' = Append(begun, now) /\ due' = now + Period /\ Len(begun) = Len(ended)
        /\ UNCHANGED << now, ended, previousCycleStart, misses, maxJitter, totalTime >>
    BY <1>3 DEF BeginCycle, metrics, PacingInv
  <2>2. /\ Len(begun') = Len(begun) + 1 /\ begun'[Len(begun) + 1] = now
        /\ \A n \in 1 .. Len(ended) : begun'[n] = begun[n]
    BY <1>1, <2>1, NextInstant
  <2>3. /\ Missed' = Missed /\ Deviated' = Deviated
        /\ \A worked : Sums(worked)' <=> Sums(worked)
    <3>1. Len(begun') >= Len(ended)
      BY <1>1, <2>1, <2>2
    <3> QED BY <2>1, <2>2, <3>1, RecordKept
  <2>4. ended # << >> => Len(ended) \in 1 .. Len(ended)
    BY <1>1, NextInstant
  <2> QED BY <1>2, <2>1, <2>2, <2>3, <2>4
<1>4. CASE SleepUntilDue \/ UNCHANGED pacingVars
  <2>1. UNCHANGED << due, begun, ended, previousCycleStart, misses, maxJitter, totalTime >>
        /\ (phase' = "work" => phase = "work" /\ now' = now)
    BY <1>4 DEF SleepUntilDue, metrics, pacingVars
  <2>2. /\ Missed' = Missed /\ Deviated' = Deviated
        /\ \A worked : Sums(worked)' <=> Sums(worked)
    <3>1. Len(begun') >= Len(ended)
      BY <1>1, <2>1 DEF PacingInv
    <3> QED BY <2>1, <3>1, RecordKept
  <2> QED BY <1>2, <2>1, <2>2
<1>5. CASE FinishCycle
  <2> DEFINE N == Len(ended)
             deviation == Distance(begun[N + 1] - begun[N], Period)
  <2>1. PICK work \in 0 .. MaxWork :
          /\ now' = now + work /\ totalTime' = totalTime + work
          /\ maxJitter' = IF Len(begun) = 1 THEN maxJitter
                          ELSE Larger(maxJitter, Distance(Last(begun) - previousCycleStart, Period))
          /\ IF now + work >= due THEN misses' = misses + 1 /\ phase' = "begin"
             ELSE phase' = "sleep" /\ UNCHANGED misses
          /\ ended' = Append(ended, now + work)
    BY <1>5 DEF FinishCycle
  <2>2. /\ UNCHANGED << due, begun >> /\ phase = "work" /\ Len(begun) = N + 1
        /\ previousCycleStart' = begun[N + 1]
    BY <1>5 DEF FinishCycle, PacingInv, Last
  <2>3. now + work \in Nat /\ work = (now + work) - now /\ work \in Nat
    BY <1>1, <2>1
  <2>4. /\ Len(ended') = N + 1 /\ ended'[N + 1] = now + work
        /\ \A n \in 1 .. N : ended'[n] = ended[n] /\ ended[n] \in Nat
        /\ ended # << >> <=> N > 0
    BY <1>1, <2>1, <2>3, NextInstant
  <2>5. now = begun[N + 1] /\ due = now + Period
    BY <1>1, <1>2, <2>2, NextInstant
  <2>6. \A n \in 1 .. N + 1 : begun[n] \in Nat
    BY <1>1, <2>2
  <2>7. misses' = Cardinality(Missed')
    <3>1. IsFiniteSet(Missed) /\ N + 1 \notin Missed
      <4>1. IsFiniteSet(1 .. N)
        BY <1>1, FS_Interval
      <4>2. Missed \subseteq 1 .. N
        BY DEF Missed, Finished
      <4>3. IsFiniteSet(Missed)
        <5> HIDE DEF N
        <5> QED BY <4>1, <4>2, FS_Subset
      <4>4. N + 1 \notin 1 .. N
        BY <1>1
      <4> QED BY <4>2, <4>3, <4>4
    <3>2. \A n : n \in Missed' <=>
            n \in Missed \/ (n = N + 1 /\ now + work >= due)
      <4>1. \A n : n \in 1 .. N + 1 <=> n \in 1 .. N \/ n = N + 1
        BY <1>1
      <4>2. \A n : n \in Missed' <=> n \in 1 .. N + 1 /\ ended'[n] - begun[n] >= Period
        BY <2>2, <2>4 DEF Missed, Finished
      <4>3. \A n : n \in Missed <=> n \in 1 .. N /\ ended[n] - begun[n] >= Period
        BY DEF Missed, Finished
      <4>4. ended'[N + 1] - begun[N + 1] >= Period <=> now + work >= due
        <5>1. ended'[N + 1] = now + work /\ begun[N + 1] = now /\ due = now + Period
          BY <2>4, <2>5
        <5>2. now \in Nat /\ work \in Nat
          BY <1>1, <2>3
        <5>3. (now + work) - now >= Period <=> now + work >= now + Period
          BY <5>2
        <5> QED BY <5>1, <5>3
      <4>5. \A n \in 1 .. N : ended'[n] - begun[n] = ended[n] - begun[n]
        BY <2>4
      <4> QED BY <1>1, <4>1, <4>2, <4>3, <4>4, <4>5
    <3>3. CASE now + work >= due
      <4>1. Missed' = Missed \cup {N + 1}
        BY <3>2, <3>3
      <4>2. Cardinality(Missed') = Cardinality(Missed) + 1
        BY <3>1, <4>1, FS_AddElement
      <4> QED BY <1>2, <2>1, <3>3, <4>2
    <3>4. CASE ~(now + work >= due)
      <4>1. Missed' = Missed
        BY <3>2, <3>4
      <4> QED BY <1>2, <2>1, <3>4, <4>1
    <3> QED BY <3>3, <3>4
  <2>8. /\ maxJitter' \in Nat /\ maxJitter' \in Deviated' \cup {0}
        /\ \A d \in Deviated' : d <= maxJitter'
    <3>1. \A d : d \in Deviated' <=>
            \E n \in 1 .. N + 1 : n # 1 /\ d = Distance(begun[n] - begun[n - 1], Period)
      BY <2>2, <2>4 DEF Deviated, Finished
    <3>2. \A d : d \in Deviated <=>
            \E n \in 1 .. N : n # 1 /\ d = Distance(begun[n] - begun[n - 1], Period)
      BY DEF Deviated, Finished
    <3>3. \A n : n \in 1 .. N + 1 <=> n \in 1 .. N \/ n = N + 1
      BY <1>1
    <3>4. CASE N = 0
      <4>1. maxJitter' = maxJitter
        BY <2>1, <2>2, <3>4
      <4>2. \A n \in 1 .. N + 1 : n = 1
        BY <3>4
      <4>3. Deviated' = Deviated
        BY <3>1, <3>2, <3>3, <4>2
      <4> QED BY <1>2, <4>1, <4>3
    <3>5. CASE N # 0
      <4>1. previousCycleStart = begun[N] /\ Last(begun) = begun[N + 1] /\ Len(begun) # 1
        BY <1>1, <1>2, <2>2, <2>4, <3>5 DEF Last
      <4>2. maxJitter' = Larger(maxJitter, deviation)
        BY <2>1, <4>1
      <4>3. \A d : d \in Deviated' <=> d \in Deviated \/ d = deviation
        <5>1. N + 1 # 1 /\ (N + 1) - 1 = N
          BY <1>1, <3>5
        <5> QED BY <3>1, <3>2, <3>3, <5>1
      <4>4. deviation \in Nat
        <5>1. begun[N] \in Nat /\ begun[N + 1] \in Nat
          BY <1>1, <2>6, <3>5
        <5> QED BY <5>1 DEF Distance
      <4> HIDE DEF deviation
      <4>5. \A d \in Deviated : d \in Int
        <5>1. \A n \in 1 .. N : n # 1 => begun[n] \in Nat /\ begun[n - 1] \in Nat
          BY <1>1, <2>6
        <5> QED BY <3>2, <5>1 DEF Distance
      <4>6. CASE maxJitter < deviation
        <5>1. maxJitter' = deviation
          BY <4>2, <4>6 DEF Larger
        <5>2. ASSUME NEW d \in Deviated' PROVE d <= deviation
          <6>1. CASE d \in Deviated
            BY <1>2, <4>4, <4>5, <4>6, <6>1
          <6>2. CASE d = deviation
            BY <4>4, <6>2
          <6> QED BY <4>3, <6>1, <6>2
        <5> QED BY <4>3, <4>4, <5>1, <5>2
      <4>7. CASE ~(maxJitter < deviation)
        <5>1. maxJitter' = maxJitter
          BY <4>2, <4>7 DEF Larger
        <5>2. ASSUME NEW d \in Deviated' PROVE d <= maxJitter
          <6>1. CASE d \in Deviated
            BY <1>2, <6>1
          <6>2. CASE d = deviation
            BY <1>2, <4>4, <4>7, <6>2
          <6> QED BY <4>3, <6>1, <6>2
        <5> QED BY <1>2, <4>3, <5>1, <5>2
      <4> QED BY <4>6, <4>7
    <3> QED BY <3>4, <3>5
  <2>9. /\ \E worked : Sums(worked)'
        /\ \A worked : Sums(worked)' => worked[Len(ended')] = totalTime + work
    BY <1>2, <2>1, <2>2, <2>3, <2>5, SumsGrow
  <2> QED BY <1>1, <1>2, <2>1, <2>2, <2>4, <2>7, <2>8, <2>9
<1>6. CASE EmulatorCycle
  BY <1>1, <1>6 DEF EmulatorCycle
<1> QED
  BY <1>3, <1>4, <1>5, <1>6 DEF PacingNext

\* Before the first cycle there is nothing to tell.
LEMMA MetricsStart == PacingInit => MetricsInv
<1> SUFFICES ASSUME PacingInit PROVE MetricsInv
  OBVIOUS
<1>1. ended = << >> /\ begun = << >> /\ Len(ended) = 0 /\ phase = "begin"
      /\ misses = 0 /\ maxJitter = 0 /\ totalTime = 0
  BY DEF PacingInit
<1>2. Missed = {} /\ Deviated = {}
  BY <1>1 DEF Missed, Deviated, Finished
<1>3. Cardinality(Missed) = 0
  BY <1>2, FS_EmptySet
<1>4. ASSUME NEW worked
      PROVE  Sums(worked) <=> worked = [n \in 0 .. 0 |-> IF n = 0 THEN 0 ELSE worked[n - 1] + (ended[n] - begun[n])]
  BY <1>1 DEF Sums
<1>5. \E worked : Sums(worked)
  <2> DEFINE zero == [n \in 0 .. 0 |-> 0]
             sums == [n \in 0 .. 0 |-> IF n = 0 THEN 0 ELSE zero[n - 1] + (ended[n] - begun[n])]
  <2>1. zero = sums
    OBVIOUS
  <2>2. Sums(zero)
    BY <1>4, <2>1
  <2> QED BY <2>2
<1>6. ASSUME NEW worked, Sums(worked)
      PROVE  worked[0] = 0
  BY <1>4, <1>6
<1> QED
  BY <1>1, <1>2, <1>3, <1>5, <1>6 DEF MetricsInv

\* The metrics are what the schedule was, however late the machine made it
\* (control_loop.cpp 111-131, control_loop.hpp 122-127).
THEOREM MetricsCorrect == PacingSpec => []MetricsTellTheSchedule
<1>1. PacingInv /\ MetricsInv /\ [PacingNext]_pacingVars => PacingInv' /\ MetricsInv'
  BY PacingStep, MetricsStep
<1>2. PacingInv /\ MetricsInv => MetricsTellTheSchedule
  BY MetricsTell
<1> QED
  BY <1>1, <1>2, PacingStart, MetricsStart, PTL DEF PacingSpec
===============================================================================
