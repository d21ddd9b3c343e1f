------------------------------ MODULE MCTimers ------------------------------
EXTENDS Timers

(* TO_KB_ACTV shortens the sleeps while it runs; the other timer, like the *)
(* shift and stopwatch timers, does not.                                   *)
MCSleepCap ==
  [t \in Timers |-> IF t = TO_KB_ACTV THEN 2 ELSE SCREEN_REFRESH_PERIOD]
=============================================================================
