--------------------------- MODULE MCImpLifecycle ---------------------------
(* TLC instances of ImpLifecycle. *)
EXTENDS ImpLifecycle, TLC

CONSTANTS subject, ephemeral, durable

\* One channel of each kind that start and unwind treat differently.
ThreeKinds == <<ephemeral, subject, durable>>
TwoKinds == <<ephemeral, subject>>

Symmetry == Permutations(Runners) \cup Permutations(Stoppers)
=============================================================================
