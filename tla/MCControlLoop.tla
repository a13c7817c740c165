---------------------------- MODULE MCControlLoop ----------------------------
(* Two callers, at most MaxStarts = 3 background threads.                  *)
EXTENDS ControlLoop
===============================================================================
