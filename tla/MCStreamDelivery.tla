-------------------------- MODULE MCStreamDelivery --------------------------
(* TLC instances of StreamDelivery. *)
EXTENDS StreamDelivery

AllVerdicts == {"ignore", "note", "think"}
NoteOnly == {"note"}
Second == {2}
=============================================================================
