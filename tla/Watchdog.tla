------------------------------- MODULE Watchdog -------------------------------
(***************************************************************************)
(* robot::safety::Watchdog: its owner, its polling thread and the counter  *)
(* it watches, on a clock.  Every access to one of its atomics is a step;  *)
(* reading the counter or the clock into one of them is part of the store. *)
(*                                                                         *)
(* EmulatorServer uses the same loop without stop and reset; here the      *)
(* class is alone, with all its operations and with real time.             *)
(***************************************************************************)
EXTENDS Integers

CONSTANTS
  Timeout, PollInterval,        \* in ticks
  MaxTime, MaxBeats             \* bounds: the clock and the counter

ASSUME WatchdogAssumption ==
  /\ Timeout \in Nat \ {0} /\ PollInterval \in Nat \ {0}
  /\ MaxTime \in Nat /\ MaxBeats \in Nat

VARIABLES
  now,                          \* nowNs()
  counter,                      \* what heartbeatCounter_() returns
  running, tripped,             \* running_, tripped_
  lastSeenCounter,              \* lastSeenCounter_
  lastChangeTime,               \* lastChangeTimeNs_
  stopRequested,                \* the stop token of thread_
  poller,                       \* where the polling thread is; "none": there is none
  wakeAt,                       \* end of its sleep
  poll,                         \* what the poll under way has read
  owner,                        \* where the owner's call is
  lastBeat,                     \* history: when the counter last changed
  armedAt,                      \* history: when start or reset last set the baseline
  torn,                         \* history: a poll that a reset came into has stored the
                                \* time of its own over the reset's
  heldUp                        \* history: time has passed while a thread had a step to take

clockVars == << now, counter, lastBeat, heldUp >>
baseline == << lastSeenCounter, lastChangeTime >>
arming == << armedAt, torn >>
pollVars == << poller, wakeAt, poll >>
vars == << clockVars, running, tripped, baseline, stopRequested, pollVars, owner, arming >>

NoPoll == [current |-> 0, changed |-> 0, previous |-> 0, clock |-> 0, undisturbed |-> FALSE]

Init ==
  /\ now = 0 /\ counter = 0 /\ lastBeat = 0
  /\ running = FALSE /\ tripped = FALSE /\ stopRequested = FALSE
  /\ lastSeenCounter = 0 /\ lastChangeTime = 0
  /\ poller = "none" /\ wakeAt = 0 /\ poll = NoPoll
  /\ owner = "idle"
  /\ armedAt = 0 /\ torn = FALSE /\ heldUp = FALSE

Larger(a, b) == IF a < b THEN b ELSE a

-------------------------------------------------------------------------------
(* The world: time passes, the watched loop counts.  A thread with a step  *)
(* to take may be held up for any time before it.                          *)

(* The owner is between two calls, the polling thread is not there or is in*)
(* its sleep.                                                              *)
Prompt ==
  /\ owner = "idle"
  /\ poller = "none" \/ (poller = "sleep" /\ now < wakeAt)

Tick ==
  /\ now < MaxTime
  /\ now' = now + 1
  /\ heldUp' = (heldUp \/ ~Prompt)
  /\ UNCHANGED << counter, lastBeat, running, tripped, baseline, stopRequested, pollVars,
                  owner, arming >>

Beat ==
  /\ counter < MaxBeats
  /\ counter' = counter + 1
  /\ lastBeat' = now
  /\ UNCHANGED << now, heldUp, running, tripped, baseline, stopRequested, pollVars, owner,
                  arming >>

-------------------------------------------------------------------------------
(* The owner: start, stop, reset and the destructor, one call at a time.   *)

(* From one store to the next; what a store writes is in OwnerStore.       *)
OwnerNext ==
  [ startSeen |-> "startChange", startChange |-> "startClear", startClear |-> "startSpawn",
    resetClear |-> "resetSeen", resetSeen |-> "resetChange", resetChange |-> "idle" ]

Start ==
  /\ owner = "idle" /\ ~running
  /\ running' = TRUE
  /\ owner' = "startSeen"
  /\ UNCHANGED << clockVars, tripped, baseline, stopRequested, pollVars, arming >>

Reset ==
  /\ owner = "idle"
  /\ owner' = "resetClear"
  /\ poll' = [poll EXCEPT !.undisturbed = FALSE]
  /\ UNCHANGED << clockVars, running, tripped, baseline, stopRequested, poller, wakeAt,
                  arming >>

(* Mutated form: reset forgets the time of the last change.                *)
OwnerStoreForgetsTime ==
  /\ owner \in DOMAIN OwnerNext
  /\ tripped' = IF owner \in {"startClear", "resetClear"} THEN FALSE ELSE tripped
  /\ lastSeenCounter' = IF owner \in {"startSeen", "resetSeen"} THEN counter
                        ELSE lastSeenCounter
  /\ lastChangeTime' = IF owner = "startChange" THEN now ELSE lastChangeTime
  /\ armedAt' = IF owner \in {"startChange", "resetChange"} THEN now ELSE armedAt
  /\ torn' = (torn /\ owner \notin {"startChange", "resetChange"})
  /\ owner' = OwnerNext[owner]
  /\ UNCHANGED << clockVars, running, stopRequested, pollVars >>

OwnerStore ==
  /\ owner \in DOMAIN OwnerNext
  /\ tripped' = IF owner \in {"startClear", "resetClear"} THEN FALSE ELSE tripped
  /\ lastSeenCounter' = IF owner \in {"startSeen", "resetSeen"} THEN counter
                        ELSE lastSeenCounter
  /\ lastChangeTime' = IF owner \in {"startChange", "resetChange"} THEN now
                       ELSE lastChangeTime
  /\ armedAt' = IF owner \in {"startChange", "resetChange"} THEN now ELSE armedAt
  /\ torn' = (torn /\ owner \notin {"startChange", "resetChange"})
  /\ owner' = OwnerNext[owner]
  /\ UNCHANGED << clockVars, running, stopRequested, pollVars >>

Spawn ==
  /\ owner = "startSpawn"
  /\ stopRequested' = FALSE
  /\ poller' = "check"
  /\ owner' = "idle"
  /\ UNCHANGED << clockVars, running, tripped, baseline, wakeAt, poll, arming >>

Stop ==
  /\ owner = "idle" /\ running
  /\ running' = FALSE
  /\ owner' = "requestStop"
  /\ UNCHANGED << clockVars, tripped, baseline, stopRequested, pollVars, arming >>

(* The destructor does what stop does, with the join left to ~jthread.     *)
Destroy ==
  /\ owner = "idle"
  /\ IF running THEN owner' = "requestLastStop" ELSE owner' = "gone"
  /\ running' = FALSE
  /\ UNCHANGED << clockVars, tripped, baseline, stopRequested, pollVars, arming >>

RequestStop ==
  /\ owner \in {"requestStop", "requestLastStop"}
  /\ stopRequested' = TRUE
  /\ owner' = IF owner = "requestStop" THEN "join" ELSE "lastJoin"
  /\ UNCHANGED << clockVars, running, tripped, baseline, pollVars, arming >>

(* Mutated form: stop returns without waiting.                             *)
JoinAtOnce ==
  /\ owner \in {"join", "lastJoin"}
  /\ owner' = IF owner = "join" THEN "idle" ELSE "gone"
  /\ UNCHANGED << clockVars, running, tripped, baseline, stopRequested, pollVars, arming >>

Join ==
  /\ owner \in {"join", "lastJoin"}
  /\ poller = "none"
  /\ owner' = IF owner = "join" THEN "idle" ELSE "gone"
  /\ UNCHANGED << clockVars, running, tripped, baseline, stopRequested, pollVars, arming >>

Owner == Start \/ Reset \/ OwnerStore \/ Spawn \/ Stop \/ Destroy \/ RequestStop \/ Join

-------------------------------------------------------------------------------
(* The polling thread: runLoop.                                            *)

(* What the last poll has read is gone.                                    *)
CheckStop ==
  /\ poller = "check"
  /\ IF stopRequested
     THEN poller' = "none" /\ UNCHANGED wakeAt
     ELSE poller' = "sleep" /\ wakeAt' = now + PollInterval
  /\ poll' = NoPoll
  /\ UNCHANGED << clockVars, running, tripped, baseline, stopRequested, owner, arming >>

Wake ==
  /\ poller = "sleep" /\ now >= wakeAt
  /\ poller' = IF stopRequested THEN "none" ELSE "readCounter"
  /\ wakeAt' = 0
  /\ UNCHANGED << clockVars, running, tripped, baseline, stopRequested, poll, owner, arming >>

ReadCounter ==
  /\ poller = "readCounter"
  /\ poll' = [NoPoll EXCEPT
                !.current = counter, !.changed = lastBeat,
                !.undisturbed = owner \notin {"resetClear", "resetSeen", "resetChange"}]
  /\ poller' = "readSeen"
  /\ UNCHANGED << clockVars, running, tripped, baseline, stopRequested, wakeAt, owner, arming >>

ReadSeen ==
  /\ poller = "readSeen"
  /\ poll' = [poll EXCEPT !.previous = lastSeenCounter]
  /\ poller' = "readClock"
  /\ UNCHANGED << clockVars, running, tripped, baseline, stopRequested, wakeAt, owner, arming >>

(* Mutated form: an unchanged counter restarts the clock as well.          *)
ReadClockAlwaysStores ==
  /\ poller = "readClock"
  /\ poll' = [poll EXCEPT !.clock = now]
  /\ poller' = "storeSeen"
  /\ UNCHANGED << clockVars, running, tripped, baseline, stopRequested, wakeAt, owner, arming >>

ReadClock ==
  /\ poller = "readClock"
  /\ poll' = [poll EXCEPT !.clock = now]
  /\ poller' = IF poll.current # poll.previous THEN "storeSeen" ELSE "compare"
  /\ UNCHANGED << clockVars, running, tripped, baseline, stopRequested, wakeAt, owner, arming >>

(* Mutated form: the time of the change is not kept.                       *)
StoreSeenWithoutTime ==
  /\ poller = "storeSeen"
  /\ lastSeenCounter' = poll.current
  /\ poller' = "check"
  /\ UNCHANGED << clockVars, running, tripped, lastChangeTime, stopRequested, wakeAt, poll,
                  owner, arming >>

StoreSeen ==
  /\ poller = "storeSeen"
  /\ lastSeenCounter' = poll.current
  /\ poller' = "storeChange"
  /\ UNCHANGED << clockVars, running, tripped, lastChangeTime, stopRequested, wakeAt, poll,
                  owner, arming >>

StoreChange ==
  /\ poller = "storeChange"
  /\ lastChangeTime' = poll.clock
  /\ torn' = ~poll.undisturbed
  /\ poller' = "check"
  /\ UNCHANGED << clockVars, running, tripped, lastSeenCounter, stopRequested, wakeAt, poll,
                  owner, armedAt >>

Compare ==
  /\ poller = "compare"
  /\ poller' = IF poll.clock - lastChangeTime >= Timeout THEN "trip" ELSE "check"
  /\ UNCHANGED << clockVars, running, tripped, baseline, stopRequested, wakeAt, poll, owner,
                  arming >>

Trip ==
  /\ poller = "trip"
  /\ tripped' = TRUE
  /\ poller' = "check"
  /\ UNCHANGED << clockVars, running, baseline, stopRequested, wakeAt, poll, owner, arming >>

Poll ==
  \/ CheckStop \/ Wake
  \/ ReadCounter \/ ReadSeen \/ ReadClock
  \/ StoreSeen \/ StoreChange
  \/ Compare \/ Trip

Next == Tick \/ Beat \/ Owner \/ Poll

Spec == Init /\ [][Next]_vars

-------------------------------------------------------------------------------
(* Properties. *)

\* Nothing of a reset is in what this poll goes by: none came into the poll, nor
\* into one whose time the poll measures from.
Untouched == poll.undisturbed /\ ~torn

\* A trip means silence, however the threads are held up: the poll has measured
\* the timeout from a time since which the counter had not changed when the poll
\* read it (watchdog.hpp 65-66).  If the poll was held up before it read the
\* clock the counter may have gone on in between; if no thread was, it had stood
\* still for all of the timeout.
TripMeansSilence ==
  [][ ~tripped /\ tripped' /\ Untouched =>
        /\ poll.clock - lastChangeTime >= Timeout
        /\ poll.changed <= lastChangeTime
        /\ heldUp \/ lastBeat <= lastChangeTime \/ poll.clock <= lastBeat ]_vars

\* A trip within the timeout of a start or reset is one that a reset came into:
\* its poll, or the one that stored the time it measures from, was under way
\* during a reset.  Every other poll leaves the watchdog armed for the whole
\* timeout, however the threads are held up (watchdog.hpp 69-71).
ResetRearms ==
  [][ ~tripped /\ tripped' /\ poll.clock - armedAt < Timeout => ~Untouched ]_vars

\* Silence is noticed: between two polls, once the counter has stood still and
\* nobody re-armed the watchdog for the timeout and two poll intervals, it has
\* tripped, unless a thread was held up between two steps (watchdog.hpp 23-27).
SilenceNoticed ==
  ~heldUp /\ running /\ owner = "idle" /\ poller = "sleep"
    /\ now >= Larger(lastBeat, armedAt) + Timeout + 2 * PollInterval
      => tripped

\* When stop or the destructor has returned no polling thread is left, which
\* could trip the watchdog later (watchdog.hpp 58-59).
StopHalts == owner \in {"idle", "gone"} /\ ~running => poller = "none"
===============================================================================
