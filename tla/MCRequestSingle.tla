-------------------------- MODULE MCRequestSingle --------------------------
(* TLC instances of RequestSingle. *)
EXTENDS RequestSingle
=============================================================================
