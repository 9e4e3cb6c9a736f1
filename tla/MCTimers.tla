------------------------------- MODULE MCTimers -------------------------------
(***************************************************************************)
(* Three timers for a pool of two threads: one timer has no worker of its  *)
(* own, and timers can be started while others fire, or after the stop.    *)
(***************************************************************************)
EXTENDS Timers
=============================================================================
