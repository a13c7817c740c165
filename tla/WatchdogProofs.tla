---------------------------- MODULE WatchdogProofs -----------------------------
(***************************************************************************)
(* The watchdog for every timeout, every poll interval and every rhythm of *)
(* the counter it watches.  What stop leaves behind, what a trip means and *)
(* what a reset is worth hold however the threads are held up between two  *)
(* steps; when a silence is noticed is known as long as none was.          *)
(***************************************************************************)
EXTENDS Watchdog, TLAPS

OwnerLabels ==
  { "idle", "gone", "startSeen", "startChange", "startClear", "startSpawn",
    "resetClear", "resetSeen", "resetChange",
    "requestStop", "join", "requestLastStop", "lastJoin" }

Starting  == { "startSeen", "startChange", "startClear", "startSpawn" }
Resetting == { "resetClear", "resetSeen", "resetChange" }
Stopping  == { "requestStop", "join", "requestLastStop", "lastJoin" }

PollRecord ==
  [ current : Nat, changed : Nat, previous : Nat, clock : Nat, undisturbed : BOOLEAN ]

Typed ==
  /\ now \in Nat /\ counter \in Nat /\ lastBeat \in Nat
  /\ running \in BOOLEAN /\ tripped \in BOOLEAN
  /\ lastSeenCounter \in Nat /\ lastChangeTime \in Nat
  /\ wakeAt \in Nat /\ armedAt \in Nat
  /\ poller \in { "none", "check", "sleep", "readCounter", "readSeen", "readClock",
                  "storeSeen", "storeChange", "compare", "trip" }
  /\ poll \in PollRecord
  /\ owner \in OwnerLabels
  /\ torn \in BOOLEAN /\ heldUp \in BOOLEAN

\* A polling thread is only there while the watchdog runs or is being stopped.
Life ==
  /\ owner \in Starting => running /\ poller = "none"
  /\ owner \in Stopping => ~running
  /\ poller # "none" => running \/ owner \in Stopping

-------------------------------------------------------------------------------
(* What holds however the threads are held up.                             *)

Polling == poller \in { "readSeen", "readClock", "storeSeen", "storeChange", "compare", "trip" }
Clocked == poller \in { "storeSeen", "storeChange", "compare", "trip" }

\* A poll that no reset came into has read the counter and the clock after the
\* last start or reset, and finds the baseline as it was.
Reads ==
  /\ lastBeat <= now /\ armedAt <= now /\ lastSeenCounter <= counter
  /\ Polling =>
       /\ poll.current <= counter /\ poll.changed <= now
       /\ poll.current = counter => poll.changed = lastBeat
       /\ owner \in Resetting => ~poll.undisturbed
  /\ Clocked => poll.clock <= now /\ poll.changed <= poll.clock
  /\ Clocked /\ poll.undisturbed => armedAt <= poll.clock
  /\ poller \in { "readClock", "storeSeen", "compare", "trip" } /\ poll.undisturbed =>
       poll.previous = lastSeenCounter
  /\ poller \in { "compare", "trip" } => poll.current = poll.previous
  /\ poller = "storeChange" /\ poll.undisturbed => poll.current = lastSeenCounter
  /\ poller = "trip" /\ poll.undisturbed => poll.clock - lastChangeTime >= Timeout

\* While the baseline is of one piece, no beat it counts came after its time.
OfOnePiece ==
  ~torn =>
    /\ armedAt <= lastChangeTime
    /\ lastSeenCounter = counter /\ owner \notin { "startChange", "resetChange" }
         /\ poller # "storeChange" => lastBeat <= lastChangeTime
    /\ Polling /\ poll.undisturbed /\ poll.current = lastSeenCounter
         /\ poller # "storeChange" => poll.changed <= lastChangeTime

Sound == Typed /\ Life /\ Reads /\ OfOnePiece

-------------------------------------------------------------------------------
(* The invariant of a watchdog whose threads take no time over their steps.*)

Latest  == Larger(lastBeat, armedAt)
Behind  == lastSeenCounter # counter    \* a beat has not been stored

\* The clock, and what has been read of it.
Times ==
  /\ lastBeat <= now /\ lastChangeTime <= now /\ armedAt <= lastChangeTime
  /\ poller \in { "storeSeen", "storeChange", "compare", "trip" } => poll.clock = now
  /\ poller = "sleep" => now <= wakeAt /\ wakeAt <= now + PollInterval
  /\ owner \in { "startClear", "startSpawn" } => armedAt = now

\* What a poll has read of the counter, and what a reset makes of it.
Readings ==
  /\ lastSeenCounter <= counter
  /\ Polling => poll.current <= counter /\ (poll.current = counter \/ lastBeat = now)
  /\ Polling /\ owner \in Resetting => ~poll.undisturbed
  /\ Polling /\ poller \notin { "readSeen", "storeChange" } =>
       /\ poll.undisturbed => poll.previous = lastSeenCounter
       /\ poll.previous = lastSeenCounter \/ armedAt = now \/ owner = "resetChange"
  /\ poller \in { "compare", "trip" } => poll.current = poll.previous
  /\ lastChangeTime < lastBeat /\ owner \notin { "startChange", "resetChange" }
       /\ poller # "storeChange" => Behind

\* How late a beat is seen, and how late a silence.
Delays ==
  /\ owner # "resetChange" => lastChangeTime <= Latest + PollInterval
  /\ owner = "resetChange" /\ Behind => lastBeat = now
  /\ poller \in { "storeSeen", "storeChange" } =>
       now <= Latest + PollInterval \/ owner = "resetChange"
  /\ poller = "sleep" /\ Behind => wakeAt <= Latest + PollInterval
  /\ poller \in { "readCounter", "readSeen", "readClock" } /\ Behind =>
       now <= Latest + PollInterval
  /\ poller \in { "storeChange", "check" } /\ Behind => now <= Latest
  /\ owner \notin { "resetSeen", "resetChange" } =>
       /\ poller = "check" => tripped \/ now < lastChangeTime + Timeout
       /\ poller = "sleep" => tripped \/ wakeAt - PollInterval < lastChangeTime + Timeout

Prompted == Typed /\ Life /\ Times /\ Readings /\ Delays

-------------------------------------------------------------------------------
\* From one store of start or reset to the next.
LEMMA OwnerNextIs ==
  /\ DOMAIN OwnerNext = { "startSeen", "startChange", "startClear",
                          "resetClear", "resetSeen", "resetChange" }
  /\ OwnerNext["startSeen"] = "startChange" /\ OwnerNext["startChange"] = "startClear"
  /\ OwnerNext["startClear"] = "startSpawn"
  /\ OwnerNext["resetClear"] = "resetSeen" /\ OwnerNext["resetSeen"] = "resetChange"
  /\ OwnerNext["resetChange"] = "idle"
<1>1. DOMAIN OwnerNext = { "startSeen", "startChange", "startClear",
                          "resetClear", "resetSeen", "resetChange" }
  BY DEF OwnerNext
<1>2. /\ OwnerNext["startSeen"] = "startChange" /\ OwnerNext["startChange"] = "startClear"
      /\ OwnerNext["startClear"] = "startSpawn"
  BY DEF OwnerNext
<1>3. /\ OwnerNext["resetClear"] = "resetSeen" /\ OwnerNext["resetSeen"] = "resetChange"
      /\ OwnerNext["resetChange"] = "idle"
  BY DEF OwnerNext
<1> QED
  BY <1>1, <1>2, <1>3

LEMMA TypedCorrect == Spec => []Typed
<1> USE DEF Typed, PollRecord
<1>1. Init => Typed
  <2> SUFFICES ASSUME Init PROVE Typed
    OBVIOUS
  <2>1. poll \in PollRecord
    BY DEF Init, NoPoll
  <2>2. owner \in OwnerLabels
    BY DEF Init, OwnerLabels
  <2> QED
    BY <2>1, <2>2 DEF Init
<1>2. Typed /\ [Next]_vars => Typed'
  <2> SUFFICES ASSUME Typed, [Next]_vars PROVE Typed'
    OBVIOUS
  <2>1. CASE Tick \/ Beat
    <3>1. heldUp' \in BOOLEAN
      BY <2>1, Zenon DEF Tick, Beat
    <3> QED
      BY <2>1, <3>1 DEF Tick, Beat, baseline, pollVars, arming
  <2>2. CASE Start \/ Spawn \/ Stop
    BY <2>2 DEF Start, Spawn, Stop, clockVars, baseline, pollVars, OwnerLabels, arming
  <2>3. CASE Destroy
    BY <2>3 DEF Destroy, clockVars, baseline, pollVars, OwnerLabels, arming
  <2>4. CASE Reset
    BY <2>4 DEF Reset, clockVars, baseline, OwnerLabels, arming
  <2>5. CASE OwnerStore
    <3>1. OwnerNext[owner] \in OwnerLabels
      BY <2>5, OwnerNextIs DEF OwnerStore, OwnerLabels
    <3> QED
      BY <2>5, <3>1 DEF OwnerStore, clockVars, pollVars, arming
  <2>6. CASE RequestStop \/ Join
    BY <2>6 DEF RequestStop, Join, clockVars, baseline, pollVars, OwnerLabels, arming
  <2>7. CASE CheckStop \/ Wake
    <3>1. NoPoll \in PollRecord
      BY DEF NoPoll
    <3>2. poll' \in PollRecord
      BY <2>7, <3>1 DEF CheckStop, Wake
    <3> QED
      BY <2>7, <3>2, WatchdogAssumption DEF CheckStop, Wake, clockVars, baseline, arming
  <2>8. CASE ReadCounter
    <3>1. poll' \in PollRecord
      BY <2>8 DEF ReadCounter, NoPoll
    <3> QED
      BY <2>8, <3>1 DEF ReadCounter, clockVars, baseline, arming
  <2>9. CASE ReadSeen \/ ReadClock
    BY <2>9 DEF ReadSeen, ReadClock, clockVars, baseline, arming
  <2>10. CASE StoreSeen \/ StoreChange \/ Compare \/ Trip
    BY <2>10 DEF StoreSeen, StoreChange, Compare, Trip, clockVars, baseline, arming
  <2>11. CASE UNCHANGED vars
    BY <2>11 DEF vars, clockVars, baseline, pollVars, arming
  <2> QED
    BY <2>1, <2>2, <2>3, <2>4, <2>5, <2>6, <2>7, <2>8, <2>9, <2>10, <2>11
       DEF Next, Owner, Poll
<1> QED
  BY <1>1, <1>2, PTL DEF Spec

LEMMA LifeCorrect == Spec => []Life
<1> USE DEF Life, Starting, Stopping
<1>1. Init => Life
  BY DEF Init
<1>2. Typed /\ Life /\ [Next]_vars => Life'
  <2> SUFFICES ASSUME Typed, Life, [Next]_vars PROVE Life'
    OBVIOUS
  <2>1. CASE Tick \/ Beat \/ Reset
    BY <2>1 DEF Tick, Beat, Reset, pollVars, arming
  <2>2. CASE Start \/ Spawn \/ Stop \/ Destroy
    BY <2>2 DEF Start, Spawn, Stop, Destroy, pollVars, arming
  <2>3. CASE OwnerStore
    BY <2>3, OwnerNextIs DEF OwnerStore, pollVars, arming
  <2>4. CASE RequestStop \/ Join
    BY <2>4 DEF RequestStop, Join, pollVars, arming
  <2>5. CASE Poll
    BY <2>5 DEF Poll, CheckStop, Wake, ReadCounter, ReadSeen, ReadClock, StoreSeen, StoreChange,
                Compare, Trip, NoPoll
  <2>6. CASE UNCHANGED vars
    BY <2>6 DEF vars, pollVars, arming
  <2> QED
    BY <2>1, <2>2, <2>3, <2>4, <2>5, <2>6 DEF Next, Owner
<1> QED
  BY <1>1, <1>2, TypedCorrect, PTL DEF Spec

\* When stop or the destructor has returned no polling thread is left, for any
\* timeout and any schedule of the threads (watchdog.cpp 26-59).
THEOREM StopHaltsCorrect == Spec => []StopHalts
<1>1. Life => StopHalts
  BY DEF Life, StopHalts, Stopping
<1> QED
  BY <1>1, LifeCorrect, PTL

-------------------------------------------------------------------------------
\* Time passes only while nobody is at work.
LEMMA TimesKept ==
  ASSUME Prompted, [Next]_vars, ~heldUp'
  PROVE  Times'
<1> USE WatchdogAssumption DEF Prompted, Typed, PollRecord, Times
<1>1. CASE Tick
  <2>1. Prompt
    BY <1>1, Zenon DEF Tick
  <2> QED
    BY <1>1, <2>1 DEF Tick, Prompt, baseline, pollVars, arming
<1>2. CASE Beat
  BY <1>2 DEF Beat, baseline, pollVars, arming
<1>3. CASE Start \/ Spawn \/ Stop \/ Destroy \/ RequestStop \/ Join
  BY <1>3 DEF Start, Spawn, Stop, Destroy, RequestStop, Join, clockVars, baseline, pollVars,
              arming
<1>4. CASE Reset
  BY <1>4 DEF Reset, clockVars, baseline, arming
<1>5. CASE OwnerStore
  BY <1>5, OwnerNextIs DEF OwnerStore, clockVars, pollVars, Life, Starting, arming
<1>6. CASE CheckStop \/ Wake
  BY <1>6 DEF CheckStop, Wake, clockVars, baseline, arming, NoPoll
<1>7. CASE ReadCounter \/ ReadSeen \/ ReadClock
  BY <1>7 DEF ReadCounter, ReadSeen, ReadClock, NoPoll, clockVars, baseline, arming
<1>8. CASE StoreSeen \/ StoreChange \/ Compare \/ Trip
  BY <1>8 DEF StoreSeen, StoreChange, Compare, Trip, clockVars, baseline, arming
<1>9. CASE UNCHANGED vars
  BY <1>9 DEF vars, clockVars, baseline, pollVars, arming
<1> QED
  BY <1>1, <1>2, <1>3, <1>4, <1>5, <1>6, <1>7, <1>8, <1>9 DEF Next, Owner, Poll

LEMMA ReadingsKept ==
  ASSUME Prompted, [Next]_vars, ~heldUp'
  PROVE  Readings'
<1> USE WatchdogAssumption DEF Prompted, Typed, PollRecord, Times, Readings, Polling, Behind
<1>1. CASE Tick
  <2>1. Prompt
    BY <1>1, Zenon DEF Tick
  <2> QED
    BY <1>1, <2>1 DEF Tick, Prompt, baseline, pollVars, arming
<1>2. CASE Beat
  BY <1>2 DEF Beat, baseline, pollVars, arming
<1>3. CASE Start \/ Spawn \/ Stop \/ Destroy \/ RequestStop \/ Join
  BY <1>3 DEF Start, Spawn, Stop, Destroy, RequestStop, Join, clockVars, baseline, pollVars,
              Life, Starting, Resetting, arming
<1>4. CASE Reset
  BY <1>4 DEF Reset, clockVars, baseline, Resetting, arming
<1>5. CASE OwnerStore
  BY <1>5, OwnerNextIs DEF OwnerStore, clockVars, pollVars, Life, Starting, Resetting, arming
<1>6. CASE CheckStop \/ Wake
  BY <1>6 DEF CheckStop, Wake, clockVars, baseline, arming, NoPoll
<1>7. CASE ReadCounter
  BY <1>7 DEF ReadCounter, NoPoll, clockVars, baseline, Resetting, arming
<1>8. CASE ReadSeen
  BY <1>8 DEF ReadSeen, clockVars, baseline, arming
<1>9. CASE ReadClock
  BY <1>9 DEF ReadClock, clockVars, baseline, arming
<1>10. CASE StoreSeen
  BY <1>10 DEF StoreSeen, clockVars, arming
<1>11. CASE StoreChange
  BY <1>11 DEF StoreChange, clockVars, arming
<1>12. CASE Compare
  BY <1>12 DEF Compare, clockVars, baseline, arming
<1>13. CASE Trip
  BY <1>13 DEF Trip, clockVars, baseline, arming
<1>14. CASE UNCHANGED vars
  BY <1>14 DEF vars, clockVars, baseline, pollVars, arming
<1> QED
  BY <1>1, <1>2, <1>3, <1>4, <1>5, <1>6, <1>7, <1>8, <1>9, <1>10, <1>11, <1>12, <1>13, <1>14
     DEF Next, Owner, Poll

LEMMA DelaysKept ==
  ASSUME Prompted, [Next]_vars, ~heldUp'
  PROVE  Delays'
<1> USE WatchdogAssumption
    DEF Prompted, Typed, PollRecord, Times, Readings, Delays, Polling, Behind, Latest, Larger
<1>1. CASE Tick
  <2>1. Prompt
    BY <1>1, Zenon DEF Tick
  <2> QED
    BY <1>1, <2>1 DEF Tick, Prompt, baseline, pollVars, arming
<1>2. CASE Beat
  BY <1>2 DEF Beat, baseline, pollVars, arming
<1>3. CASE Start \/ Spawn \/ Stop \/ Destroy \/ RequestStop \/ Join
  BY <1>3 DEF Start, Spawn, Stop, Destroy, RequestStop, Join, clockVars, baseline, pollVars,
              Life, Starting, arming
<1>4. CASE Reset
  BY <1>4 DEF Reset, clockVars, baseline, arming
<1>5. CASE OwnerStore
  BY <1>5, OwnerNextIs DEF OwnerStore, clockVars, pollVars, Life, Starting, arming
<1>6. CASE CheckStop
  BY <1>6 DEF CheckStop, clockVars, baseline, arming, NoPoll
<1>7. CASE Wake
  BY <1>7 DEF Wake, clockVars, baseline, arming
<1>8. CASE ReadCounter \/ ReadSeen
  BY <1>8 DEF ReadCounter, ReadSeen, NoPoll, clockVars, baseline, arming
<1>9. CASE ReadClock
  BY <1>9 DEF ReadClock, clockVars, baseline, arming
<1>10. CASE StoreSeen
  BY <1>10 DEF StoreSeen, clockVars, arming
<1>11. CASE StoreChange
  BY <1>11 DEF StoreChange, clockVars, arming
<1>12. CASE Compare
  BY <1>12 DEF Compare, clockVars, baseline, arming
<1>13. CASE Trip
  BY <1>13 DEF Trip, clockVars, baseline, arming
<1>14. CASE UNCHANGED vars
  BY <1>14 DEF vars, clockVars, baseline, pollVars, arming
<1> QED
  BY <1>1, <1>2, <1>3, <1>4, <1>5, <1>6, <1>7, <1>8, <1>9, <1>10, <1>11, <1>12, <1>13, <1>14
     DEF Next, Owner, Poll

\* As long as no thread was held up.
LEMMA PromptedCorrect == Spec => [](~heldUp => Prompted)
<1>1. Init /\ Typed /\ Life => Prompted
  <2> SUFFICES ASSUME Init, Typed, Life PROVE Times /\ Readings /\ Delays
    BY DEF Prompted
  <2>1. Times
    BY DEF Init, Times
  <2>2. Readings
    BY DEF Init, Readings, Polling, Behind
  <2>3. Delays
    BY WatchdogAssumption DEF Init, Delays, Behind, Latest, Larger
  <2> QED
    BY <2>1, <2>2, <2>3
<1>2. [Next]_vars /\ Typed /\ ~heldUp' => ~heldUp
  <2> SUFFICES ASSUME [Next]_vars, Typed, heldUp PROVE heldUp'
    OBVIOUS
  <2>1. CASE Tick \/ Beat
    BY <2>1 DEF Tick, Beat
  <2>2. CASE Owner
    BY <2>2 DEF Owner, Start, Reset, OwnerStore, Spawn, Stop, Destroy, RequestStop, Join,
                clockVars, arming
  <2>3. CASE Poll
    BY <2>3 DEF Poll, CheckStop, Wake, ReadCounter, ReadSeen, ReadClock, StoreSeen, StoreChange,
                Compare, Trip, clockVars, arming, NoPoll
  <2>4. CASE UNCHANGED vars
    BY <2>4 DEF vars, clockVars, arming
  <2> QED
    BY <2>1, <2>2, <2>3, <2>4 DEF Next
<1>3. Prompted /\ Typed' /\ Life' /\ [Next]_vars /\ ~heldUp' => Prompted'
  BY TimesKept, ReadingsKept, DelaysKept DEF Prompted
<1> QED
  BY <1>1, <1>2, <1>3, TypedCorrect, LifeCorrect, PTL DEF Spec

\* A silence of the timeout and two poll intervals has tripped the watchdog,
\* however long the timeout and the interval, unless a thread was held up between
\* two steps (watchdog.cpp 71-90).
THEOREM SilenceNoticedCorrect == Spec => []SilenceNoticed
<1>1. (~heldUp => Prompted) => SilenceNoticed
  <2> SUFFICES ASSUME Prompted, running, owner = "idle", poller = "sleep", ~tripped
               PROVE  now < Latest + Timeout + 2 * PollInterval
    BY WatchdogAssumption DEF Prompted, Typed, SilenceNoticed, Latest, Larger
  <2>1. wakeAt - PollInterval < lastChangeTime + Timeout
    BY DEF Prompted, Delays
  <2>2. lastChangeTime <= Latest + PollInterval /\ now <= wakeAt
    BY DEF Prompted, Delays, Times
  <2> QED
    BY <2>1, <2>2, WatchdogAssumption DEF Prompted, Typed, Latest, Larger
<1> QED
  BY <1>1, PromptedCorrect, PTL

-------------------------------------------------------------------------------
LEMMA ReadsKept ==
  ASSUME Sound, [Next]_vars
  PROVE  Reads'
<1> USE WatchdogAssumption DEF Sound, Typed, PollRecord, Reads, Polling, Clocked
<1>1. CASE Tick
  BY <1>1 DEF Tick, baseline, pollVars, arming
<1>2. CASE Beat
  BY <1>2 DEF Beat, baseline, pollVars, arming
<1>3. CASE Start \/ Spawn \/ Stop \/ Destroy \/ RequestStop \/ Join
  BY <1>3 DEF Start, Spawn, Stop, Destroy, RequestStop, Join, clockVars, baseline, pollVars,
              arming, Life, Starting, Resetting
<1>4. CASE Reset
  BY <1>4 DEF Reset, clockVars, baseline, arming, Resetting
<1>5. CASE OwnerStore
  BY <1>5, OwnerNextIs DEF OwnerStore, clockVars, pollVars, Life, Starting, Resetting, arming
<1>6. CASE CheckStop \/ Wake
  BY <1>6 DEF CheckStop, Wake, NoPoll, clockVars, baseline, arming
<1>7. CASE ReadCounter
  <2>1. poll'.current = counter /\ poll'.changed = lastBeat
    BY <1>7 DEF ReadCounter, NoPoll
  <2>2. owner \in Resetting => ~poll'.undisturbed
    BY <1>7, Zenon DEF ReadCounter, NoPoll, Resetting
  <2>3. poller' = "readSeen" /\ lastBeat <= now /\ counter \in Nat
    BY <1>7 DEF ReadCounter
  <2>4. UNCHANGED << now, counter, lastBeat, lastSeenCounter, armedAt, owner >>
    BY <1>7 DEF ReadCounter, clockVars, baseline, arming
  <2> QED
    BY <2>1, <2>2, <2>3, <2>4 DEF Resetting
<1>8. CASE ReadSeen
  BY <1>8 DEF ReadSeen, clockVars, baseline, arming
<1>9. CASE ReadClock
  BY <1>9 DEF ReadClock, clockVars, baseline, arming
<1>10. CASE StoreSeen
  BY <1>10 DEF StoreSeen, clockVars, arming
<1>11. CASE StoreChange
  BY <1>11 DEF StoreChange, clockVars, arming
<1>12. CASE Compare
  BY <1>12 DEF Compare, clockVars, baseline, arming
<1>13. CASE Trip
  BY <1>13 DEF Trip, clockVars, baseline, arming
<1>14. CASE UNCHANGED vars
  BY <1>14 DEF vars, clockVars, baseline, pollVars, arming
<1> QED
  BY <1>1, <1>2, <1>3, <1>4, <1>5, <1>6, <1>7, <1>8, <1>9, <1>10, <1>11, <1>12, <1>13, <1>14
     DEF Next, Owner, Poll

LEMMA OfOnePieceKept ==
  ASSUME Sound, [Next]_vars
  PROVE  OfOnePiece'
<1> USE WatchdogAssumption DEF Sound, Typed, PollRecord, Reads, Polling, Clocked, OfOnePiece
<1>1. CASE Tick
  BY <1>1 DEF Tick, baseline, pollVars, arming
<1>2. CASE Beat
  BY <1>2 DEF Beat, baseline, pollVars, arming
<1>3. CASE Start \/ Spawn \/ Stop \/ Destroy \/ RequestStop \/ Join
  BY <1>3 DEF Start, Spawn, Stop, Destroy, RequestStop, Join, clockVars, baseline, pollVars,
              arming, Life, Starting
<1>4. CASE Reset
  BY <1>4 DEF Reset, clockVars, baseline, arming
<1>5. CASE OwnerStore
  BY <1>5, OwnerNextIs DEF OwnerStore, clockVars, pollVars, Life, Starting, Resetting, arming
<1>6. CASE CheckStop \/ Wake
  BY <1>6 DEF CheckStop, Wake, clockVars, baseline, arming, NoPoll
<1>7. CASE ReadCounter
  BY <1>7 DEF ReadCounter, NoPoll, clockVars, baseline, arming, Life, Starting, Resetting
<1>8. CASE ReadSeen
  BY <1>8 DEF ReadSeen, clockVars, baseline, arming
<1>9. CASE ReadClock
  BY <1>9 DEF ReadClock, clockVars, baseline, arming
<1>10. CASE StoreSeen
  BY <1>10 DEF StoreSeen, clockVars, arming
<1>11. CASE StoreChange
  BY <1>11 DEF StoreChange, clockVars, arming
<1>12. CASE Compare
  BY <1>12 DEF Compare, clockVars, baseline, arming
<1>13. CASE Trip
  BY <1>13 DEF Trip, clockVars, baseline, arming
<1>14. CASE UNCHANGED vars
  BY <1>14 DEF vars, clockVars, baseline, pollVars, arming
<1> QED
  BY <1>1, <1>2, <1>3, <1>4, <1>5, <1>6, <1>7, <1>8, <1>9, <1>10, <1>11, <1>12, <1>13, <1>14
     DEF Next, Owner, Poll

LEMMA SoundCorrect == Spec => []Sound
<1>1. Init /\ Typed /\ Life => Sound
  BY DEF Init, Sound, Reads, OfOnePiece, Polling, Clocked
<1>2. Sound /\ Typed' /\ Life' /\ [Next]_vars => Sound'
  BY ReadsKept, OfOnePieceKept DEF Sound
<1> QED
  BY <1>1, <1>2, TypedCorrect, LifeCorrect, PTL DEF Spec

\* Only a poll that has compared the times trips the watchdog.
LEMMA OnlyTripTrips ==
  ASSUME Typed, [Next]_vars, ~tripped, tripped'
  PROVE  Trip
<1>1. CASE Tick \/ Beat \/ Start \/ Reset \/ Spawn \/ Stop \/ Destroy \/ RequestStop \/ Join
  BY <1>1 DEF Tick, Beat, Start, Reset, Spawn, Stop, Destroy, RequestStop, Join
<1>2. CASE OwnerStore
  BY <1>2 DEF OwnerStore
<1>3. CASE CheckStop \/ Wake \/ ReadCounter \/ ReadSeen \/ ReadClock \/ StoreSeen \/ StoreChange
           \/ Compare
  BY <1>3 DEF CheckStop, Wake, ReadCounter, ReadSeen, ReadClock, StoreSeen, StoreChange, Compare
<1>4. CASE UNCHANGED vars
  BY <1>4 DEF vars
<1> QED
  BY <1>1, <1>2, <1>3, <1>4 DEF Next, Owner, Poll

\* What a trip of a poll that nothing of a reset reached has measured and seen.
LEMMA UntouchedTrip ==
  ASSUME Sound, [Next]_vars, ~tripped, tripped', Untouched
  PROVE  /\ poller = "trip"
         /\ poll.clock - lastChangeTime >= Timeout
         /\ poll.changed <= lastChangeTime
         /\ armedAt <= lastChangeTime
<1>1. poller = "trip"
  BY OnlyTripTrips DEF Sound, Trip
<1>2. poll.clock - lastChangeTime >= Timeout /\ poll.current = lastSeenCounter
  BY <1>1 DEF Sound, Reads, Untouched
<1> QED
  BY <1>1, <1>2 DEF Sound, OfOnePiece, Untouched, Polling

\* When a poll that nothing of a reset reached trips, it has measured the timeout
\* from a time since which the counter had not changed when the poll read it,
\* however the threads are held up; when none was, the counter stood still until
\* the poll read the clock (watchdog.cpp 78-94).
THEOREM TripMeansSilenceCorrect == Spec => TripMeansSilence
<1>1. Sound /\ (~heldUp => Prompted) /\ [Next]_vars =>
        [ ~tripped /\ tripped' /\ Untouched =>
            /\ poll.clock - lastChangeTime >= Timeout
            /\ poll.changed <= lastChangeTime
            /\ heldUp \/ lastBeat <= lastChangeTime \/ poll.clock <= lastBeat ]_vars
  <2> SUFFICES ASSUME Sound, ~heldUp => Prompted, [Next]_vars, ~tripped, tripped', Untouched
               PROVE  /\ poll.clock - lastChangeTime >= Timeout
                      /\ poll.changed <= lastChangeTime
                      /\ heldUp \/ lastBeat <= lastChangeTime \/ poll.clock <= lastBeat
    OBVIOUS
  <2>1. /\ poller = "trip"
        /\ poll.clock - lastChangeTime >= Timeout
        /\ poll.changed <= lastChangeTime
    BY UntouchedTrip
  <2>2. ASSUME ~heldUp
        PROVE  lastBeat <= lastChangeTime \/ poll.clock <= lastBeat
    <3>1. poll.clock = now /\ (poll.current = counter \/ lastBeat = now)
      BY <2>1, <2>2 DEF Prompted, Times, Readings, Polling
    <3>2. poll.current = counter => poll.changed = lastBeat
      BY <2>1 DEF Sound, Reads, Polling
    <3> QED
      BY <2>1, <3>1, <3>2 DEF Sound, Typed
  <2> QED
    BY <2>1, <2>2
<1>2. [][ ~tripped /\ tripped' /\ Untouched =>
            /\ poll.clock - lastChangeTime >= Timeout
            /\ poll.changed <= lastChangeTime
            /\ heldUp \/ lastBeat <= lastChangeTime \/ poll.clock <= lastBeat ]_vars
        <=> TripMeansSilence
  BY PTL DEF TripMeansSilence
<1> QED
  BY <1>1, <1>2, SoundCorrect, PromptedCorrect, PTL DEF Spec

\* Only a poll that was under way during a reset, or that measures from the time
\* such a poll has stored, trips within the timeout of a start or reset
\* (watchdog.cpp 31-39, 71-96).
THEOREM ResetRearmsCorrect == Spec => ResetRearms
<1>1. Sound /\ [Next]_vars =>
        [ ~tripped /\ tripped' /\ poll.clock - armedAt < Timeout => ~Untouched ]_vars
  <2> SUFFICES ASSUME Sound, [Next]_vars, ~tripped, tripped', Untouched
               PROVE  ~(poll.clock - armedAt < Timeout)
    OBVIOUS
  <2> QED
    BY UntouchedTrip, WatchdogAssumption DEF Sound, Typed, PollRecord
<1>2. [][ ~tripped /\ tripped' /\ poll.clock - armedAt < Timeout => ~Untouched ]_vars
        <=> ResetRearms
  BY PTL DEF ResetRearms
<1> QED
  BY <1>1, <1>2, SoundCorrect, PTL DEF Spec
===============================================================================
