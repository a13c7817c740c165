---------------------------- MODULE MCThreadedLoop -----------------------------
(* Two callers, at most four background threads in turn.  A period of two  *)
(* ticks, cycles of up to five, sleeps up to one late.                     *)
EXTENDS ThreadedLoop
===============================================================================
