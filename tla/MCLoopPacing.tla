----------------------------- MODULE MCLoopPacing -----------------------------
(* A period of two ticks, cycles of up to five, sleeps that end on time.   *)
EXTENDS LoopPacing
===============================================================================
