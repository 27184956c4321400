--------------------------- MODULE MCPersistStore ---------------------------
(* TLC instances of PersistStore. *)
EXTENDS PersistStore, TLC

Symmetry == Permutations(Entities)
=============================================================================
