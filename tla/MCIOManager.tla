----------------------------- MODULE MCIOManager -----------------------------
(* Small instances of IOManager for TLC. *)
EXTENDS IOManager, TLC
Symmetry == Permutations(Workers) \cup Permutations(Jobs)
=============================================================================
