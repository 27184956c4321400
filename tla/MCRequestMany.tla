--------------------------- MODULE MCRequestMany ---------------------------
(* TLC instances of RequestMany. *)
EXTENDS RequestMany
=============================================================================
