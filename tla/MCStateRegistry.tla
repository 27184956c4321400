-------------------------- MODULE MCStateRegistry --------------------------
(* TLC instances of StateRegistry. *)
EXTENDS StateRegistry
=============================================================================
