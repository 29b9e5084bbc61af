----------------------------- MODULE MCWatchdog -----------------------------
(***************************************************************************)
(* A small instance of Watchdog.  Its run checks liveness, so it may not   *)
(* use symmetry; the property of a child is checked for one id, the ids    *)
(* being interchangeable.                                                  *)
(***************************************************************************)
EXTENDS Watchdog

CONSTANTS p1, p2

\* A dead child is replaced, for one id.
ReplacedOne == Replaced(p1)
=============================================================================
