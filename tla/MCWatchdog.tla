----------------------------- MODULE MCWatchdog -----------------------------
(* Watchdog with intervals of a few ticks.                                 *)
EXTENDS Watchdog

CONSTANTS a1, a2
=============================================================================
