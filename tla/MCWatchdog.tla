------------------------------ MODULE MCWatchdog ------------------------------
(* A timeout of three polls; long enough to trip, reset and trip again.    *)
EXTENDS Watchdog
===============================================================================
