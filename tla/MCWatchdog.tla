----------------------------- MODULE MCWatchdog -----------------------------
(* Model checking instance of Watchdog.                                    *)
EXTENDS Watchdog

(* A score the watchdog spares, and two it does not.                       *)
MCScore == {-800, 0, 900}
=============================================================================
