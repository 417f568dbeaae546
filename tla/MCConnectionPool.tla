--------------------------- MODULE MCConnectionPool ---------------------------
(* Small instances of ConnectionPool for TLC. *)
EXTENDS ConnectionPool, TLC
Symmetry == Permutations(Threads) \cup Permutations(Conns)
=============================================================================
