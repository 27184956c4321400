----------------------------- MODULE DurableMap -----------------------------
(***************************************************************************)
(* What persist.Store promises: a durable map from entities to state.  The *)
(* state of an entity is the set of updates it reflects.  A successful     *)
(* Update makes the state it returns durable; a failed call leaves its     *)
(* effect in doubt and nothing else; nothing acknowledged disappears       *)
(* before a Delete, and nothing deleted comes back.  Reads, evictions,     *)
(* restarts and the passing of time change nothing here.                   *)
(***************************************************************************)
EXTENDS Integers

CONSTANTS Entities, Updates

VARIABLES
    durable,  \* what the backend holds of an entity
    acked,    \* the state its last successful Update returned
    limbo     \* updates of failed calls: they may or may not be there

vars == <<durable, acked, limbo>>

Init ==
    /\ durable = [e \in Entities |-> {}]
    /\ acked = [e \in Entities |-> {}]
    /\ limbo = [e \in Entities |-> {}]

\* The states an Update of e by u may be based on.
Reachable(e, u) ==
    {D \in SUBSET (acked[e] \cup limbo[e] \cup {u}) : acked[e] \cup {u} \subseteq D}

UpdateOK(e, u) ==
    \E D \in Reachable(e, u) :
        /\ durable' = [durable EXCEPT ![e] = D]
        /\ acked' = [acked EXCEPT ![e] = D]
        /\ limbo' = [limbo EXCEPT ![e] = {}]

UpdateFails(e, u) ==
    /\ \E D \in Reachable(e, u) \cup {durable[e]} : durable' = [durable EXCEPT ![e] = D]
    /\ limbo' = [limbo EXCEPT ![e] = @ \cup {u}]
    /\ UNCHANGED acked

DeleteOK(e) ==
    /\ durable' = [durable EXCEPT ![e] = {}]
    /\ acked' = [acked EXCEPT ![e] = {}]
    /\ limbo' = [limbo EXCEPT ![e] = {}]

DeleteFails(e) ==
    /\ \E D \in {{}, durable[e]} : durable' = [durable EXCEPT ![e] = D]
    /\ acked' = [acked EXCEPT ![e] = {}]
    /\ limbo' = [limbo EXCEPT ![e] = @ \cup acked[e]]

Next ==
    \/ \E e \in Entities, u \in Updates : UpdateOK(e, u) \/ UpdateFails(e, u)
    \/ \E e \in Entities : DeleteOK(e) \/ DeleteFails(e)

Spec == Init /\ [][Next]_vars
=============================================================================
