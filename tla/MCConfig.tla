------------------------------ MODULE MCConfig ------------------------------
(* Small instances of Config for TLC. *)
EXTENDS Config
MCContents == {Broken, [n |-> 1], [n |-> Bad], [n |-> 0, x |-> 1]}
=============================================================================
