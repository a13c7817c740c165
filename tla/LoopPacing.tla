------------------------------ MODULE LoopPacing ------------------------------
(***************************************************************************)
(* When a control cycle begins.  Two loops of this code pace cycles:       *)
(*                                                                         *)
(*   ControlLoop::runLoop   the next cycle is due one period after this one*)
(*                          began; a cycle that takes longer misses its    *)
(*                          deadline and the next begins at once           *)
(*   the emulator's control thread                                         *)
(*                          cycle n is due n periods after the thread      *)
(*                          began, however late the cycles before it were  *)
(*                                                                         *)
(* Time is counted in ticks of an ideal clock.  A cycle works for up to    *)
(* MaxWork ticks, waiting for a mutex and being preempted included, and a  *)
(* sleep ends up to MaxOversleep ticks late.                               *)
(***************************************************************************)
EXTENDS Integers, FiniteSets, SequencesExt

CONSTANTS
  Period,                       \* period_
  MaxWork, MaxOversleep,        \* how late the machine may be
  MaxCycles                     \* bound: cycles begun

ASSUME PacingAssumption ==
  /\ Period \in Nat \ {0} /\ MaxCycles \in Nat
  /\ MaxWork \in Nat /\ MaxOversleep \in Nat

VARIABLES
  pacer,                        \* which of the two loops this is
  now,                          \* steady_clock::now()
  due,                          \* nextDeadline, or the emulator's next
  phase,                        \* "begin", "work" or "sleep"
  previousCycleStart,           \* what the cycle under way compares itself with
  misses,                       \* deadlineMisses_
  maxJitter,                    \* maxJitterNs_
  totalTime,                    \* totalThreadedCycleTimeNs_
  begun,                        \* history: when each cycle began
  ended                         \* history: when each cycle's work was done

pacingVars == << pacer, now, due, phase, previousCycleStart, misses, maxJitter, totalTime, begun, ended >>
metrics == << previousCycleStart, misses, maxJitter, totalTime >>

PacingInit ==
  /\ pacer \in {"ControlLoop", "emulator"}
  /\ now = 0 /\ due = 0
  /\ phase = "begin"
  /\ previousCycleStart = 0
  /\ misses = 0 /\ maxJitter = 0 /\ totalTime = 0
  /\ begun = << >> /\ ended = << >>

Larger(a, b) == IF a < b THEN b ELSE a
Distance(a, b) == IF a < b THEN b - a ELSE a - b

-------------------------------------------------------------------------------
(* ControlLoop::runLoop. *)

(* Mutated form: the deadline follows the schedule, not the cycle.         *)
BeginCycleOnSchedule ==
  /\ pacer = "ControlLoop" /\ phase = "begin"
  /\ Len(begun) < MaxCycles
  /\ begun' = Append(begun, now)
  /\ due' = due + Period
  /\ phase' = "work"
  /\ UNCHANGED << pacer, now, metrics, ended >>

BeginCycle ==
  /\ pacer = "ControlLoop" /\ phase = "begin"
  /\ Len(begun) < MaxCycles
  /\ begun' = Append(begun, now)
  /\ due' = now + Period
  /\ phase' = "work"
  /\ UNCHANGED << pacer, now, metrics, ended >>

(* Mutated form: the deviation of the first cycle is recorded as well.     *)
FinishCycleRecordsFirst ==
  /\ pacer = "ControlLoop" /\ phase = "work"
  /\ \E work \in 0 .. MaxWork :
       /\ now' = now + work
       /\ totalTime' = totalTime + work
       /\ maxJitter' = Larger(maxJitter, Distance(Last(begun) - previousCycleStart, Period))
       /\ IF now + work >= due
          THEN misses' = misses + 1 /\ phase' = "begin"
          ELSE phase' = "sleep" /\ UNCHANGED misses
       /\ ended' = Append(ended, now + work)
  /\ previousCycleStart' = Last(begun)
  /\ UNCHANGED << pacer, due, begun >>

(* step is done: the metrics, and whether there is anything left to sleep. *)
(* The bookkeeping between the clock readings at its end takes no time.    *)
FinishCycle ==
  /\ pacer = "ControlLoop" /\ phase = "work"
  /\ \E work \in 0 .. MaxWork :
       /\ now' = now + work
       /\ totalTime' = totalTime + work
       /\ maxJitter' = IF Len(begun) = 1 THEN maxJitter
                       ELSE Larger(maxJitter, Distance(Last(begun) - previousCycleStart, Period))
       /\ IF now + work >= due
          THEN misses' = misses + 1 /\ phase' = "begin"
          ELSE phase' = "sleep" /\ UNCHANGED misses
       /\ ended' = Append(ended, now + work)
  /\ previousCycleStart' = Last(begun)
  /\ UNCHANGED << pacer, due, begun >>

(* sleep_until returns at the time asked for or later, at once if it is    *)
(* past.                                                                   *)
SleepUntilDue ==
  /\ phase = "sleep"
  /\ \E late \in 0 .. MaxOversleep : now' = Larger(now, due + late)
  /\ phase' = "begin"
  /\ UNCHANGED << pacer, due, metrics, begun, ended >>

-------------------------------------------------------------------------------
(* The control thread of apps/robot-emulator.  It keeps no metrics but the *)
(* count of cycles; next starts at the thread's own start.                 *)

EmulatorCycle ==
  /\ pacer = "emulator" /\ phase = "begin"
  /\ Len(begun) < MaxCycles
  /\ begun' = Append(begun, now)
  /\ \E work \in 0 .. MaxWork :
       /\ now' = now + work
       /\ ended' = Append(ended, now + work)
  /\ due' = due + Period
  /\ phase' = "sleep"
  /\ UNCHANGED << pacer, metrics >>

PacingNext == BeginCycle \/ FinishCycle \/ SleepUntilDue \/ EmulatorCycle

PacingSpec == PacingInit /\ [][PacingNext]_pacingVars

-------------------------------------------------------------------------------
(* Properties. *)

Cycles == 1 .. Len(begun)
Finished == 1 .. Len(ended)

Spaced == \A n \in Cycles \ {1} : begun[n] - begun[n - 1] >= Period

\* Two cycles of ControlLoop begin at least one period apart, whatever became
\* of the first: no lost time is made up by cycles back to back, so the robot
\* never moves faster in real time than its limits allow per period
\* (control_loop.cpp 129-132).
CyclesSpaced == pacer = "ControlLoop" => Spaced

\* The same of the emulator's control thread, which "reimplements
\* ControlLoop::start()'s own pacing loop" (main.cpp 119-120).
EmulatorCyclesSpaced == pacer = "emulator" => Spaced

\* The metrics tell the schedule: a miss for each cycle that left no time to
\* sleep, the worst deviation from the period over all finished cycles but the
\* first, and the time spent working (control_loop.hpp 122-127).
MetricsTellTheSchedule ==
  LET Deviations == {Distance(begun[n] - begun[n - 1], Period) : n \in Finished \ {1}}
      worked[n \in 0 .. Len(ended)] ==
        IF n = 0 THEN 0 ELSE worked[n - 1] + (ended[n] - begun[n])
  IN pacer = "ControlLoop" =>
     /\ misses = Cardinality({n \in Finished : ended[n] - begun[n] >= Period})
     /\ \A d \in Deviations : d <= maxJitter
     /\ maxJitter \in Deviations \cup {0}
     /\ totalTime = worked[Len(ended)]
===============================================================================
