---------------------------- MODULE MCNoteBridge ----------------------------
(* TLC instance of NoteBridge. *)
EXTENDS NoteBridge

NoteOnly == {"note"}
First == {1}
=============================================================================
