------------------------------ MODULE MCPollers ------------------------------
(* Both pollers with three channel objects and three descriptors, enough for   *)
(* an entry in the middle of the list to be removed and for descriptors and    *)
(* objects to be reused, an event array of two, which can be filled and grow,  *)
(* and two removals under way, of two connections or of the same one.          *)
EXTENDS Pollers, TLC

Symmetry == Permutations(Channels) \cup Permutations(Fds)
=============================================================================
