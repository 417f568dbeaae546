------------------------------- MODULE MCHook -------------------------------
(* Small instances of Hook for TLC. *)
EXTENDS Hook
=============================================================================
