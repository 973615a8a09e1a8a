---------------------------- MODULE MCTimerManager --------------------------
(* TimerManager with narrow integers: unsigned long long of 5 bits and int of *)
(* 3, so that wrap-around and truncation happen within a short run.           *)
EXTENDS TimerManager, TLC

(* 0 is rejected by AddTimer; 5 does not fit the narrow int. *)
MCIntervals == {0, 1, 3, 5}

(* Intervals every timeout of which fits the int. *)
ShortIntervals == {1, 3}

Symmetry == Permutations(Timers)
=============================================================================
