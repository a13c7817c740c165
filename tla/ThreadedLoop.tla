----------------------------- MODULE ThreadedLoop ------------------------------
(***************************************************************************)
(* robot::runtime::ControlLoop from its two sides; a behaviour is one of:  *)
(*                                                                         *)
(*   "calls"   start, stop and the destructor, and the threads they begin  *)
(*             and end (ControlLoop); a thread's cycles take any time      *)
(*   "clock"   the cycles of one such thread on a clock, or those of the   *)
(*             emulator's control thread (LoopPacing); nobody calls        *)
(*                                                                         *)
(* The two share no state: runLoop reads nothing start and stop write but  *)
(* its stop request, and they read nothing of its clock and its metrics.   *)
(***************************************************************************)
EXTENDS ControlLoop, LoopPacing

VARIABLE side                   \* "calls" or "clock"

everything == << side, vars, pacingVars >>

LoopInit ==
  /\ side \in {"calls", "clock"}
  /\ Init /\ PacingInit

Calling == side = "calls" /\ UNCHANGED << side, pacingVars >>

LoopNext ==
  \/ Calling /\ Next
  \/ side = "clock" /\ PacingNext /\ UNCHANGED << side, vars >>

(* The fairness of ControlLoop; the clock's side promises no progress.     *)
LoopSpec ==
  /\ LoopInit /\ [][LoopNext]_everything
  /\ \A c \in Callers : WF_everything(Calling /\ Call(c))
  /\ \A t \in Loops : WF_everything(Calling /\ RunLoop(t))
===============================================================================
