---------------------------- MODULE MCTimerQueue ----------------------------
(* Values of the constants for the runs of TimerQueue. *)
EXTENDS TimerQueue

CONSTANTS once, recurring, other

Intervals == [i \in Items |-> IF i = recurring THEN 1 ELSE 0]
=============================================================================
