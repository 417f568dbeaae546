---------------------------- MODULE MCTimerManager ----------------------------
(* Small instances of TimerManager for TLC. *)
EXTENDS TimerManager, TLC
Symmetry == Permutations(Timers) \cup Permutations(Clients) \cup Permutations(Loops)
=============================================================================
