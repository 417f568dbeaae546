----------------------------- MODULE MCScheduler -----------------------------
(* Small instances of Scheduler for TLC. *)
EXTENDS Scheduler, TLC
Symmetry == Permutations(Wrappers) \cup Permutations(Workers) \cup Permutations(Funcs)
UntilOvertaken == ~overtaken
=============================================================================
