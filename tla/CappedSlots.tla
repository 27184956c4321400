---------------------------- MODULE CappedSlots ----------------------------
(***************************************************************************)
(* What a declared StateShape promises its callers: a capped map from      *)
(* entities to state in which every operation on a slot is atomic, a slot  *)
(* is never evicted, and a caller is refused only when every unit of the   *)
(* cap is taken by a slot, by an allocation under way or by an allocation  *)
(* whose factory panicked.  StateRegistry refines this specification.      *)
(***************************************************************************)
EXTENDS Integers, FiniteSets

CONSTANTS
    Procs,      \* the awareness and thinking goroutines that use the shape
    Entities,   \* the entities messages are about
    Cap,        \* the cap the shape declares
    None        \* stands for "no slot"

VARIABLES
    state,      \* entity -> its state (the goroutines whose update it holds) or None
    pending,    \* allocations under way
    lost,       \* units of the cap that will never be given back
    refused     \* goroutines whose last State call returned ErrCapExceeded

vars == <<state, pending, lost, refused>>

Taken == Cardinality({e \in Entities : state[e] # None}) + pending + lost

Init ==
    /\ state = [e \in Entities |-> None]
    /\ pending = 0
    /\ lost = 0
    /\ refused = {}

\* A new State call forgets the outcome of the previous one.
Call(p) ==
    /\ refused' = refused \ {p}
    /\ UNCHANGED <<state, pending, lost>>

Refuse(p) ==
    /\ Taken >= Cap
    /\ refused' = refused \cup {p}
    /\ UNCHANGED <<state, pending, lost>>

Reserve ==
    /\ Taken < Cap
    /\ pending' = pending + 1
    /\ UNCHANGED <<state, lost, refused>>

\* The first allocation of e to finish creates its slot; a later one finds the
\* slot and withdraws.
Allocate(e) ==
    /\ pending > 0
    /\ state[e] = None
    /\ pending' = pending - 1
    /\ state' = [state EXCEPT ![e] = {}]
    /\ UNCHANGED <<lost, refused>>

Withdraw ==
    /\ pending > 0
    /\ pending' = pending - 1
    /\ UNCHANGED <<state, lost, refused>>

Lose ==
    /\ pending > 0
    /\ pending' = pending - 1
    /\ lost' = lost + 1
    /\ UNCHANGED <<state, refused>>

\* An Update adds its own contribution to everything the slot already holds.
Update(p, e) ==
    /\ state[e] # None
    /\ state' = [state EXCEPT ![e] = @ \cup {p}]
    /\ UNCHANGED <<pending, lost, refused>>

Set(e) ==
    /\ state[e] # None
    /\ state' = [state EXCEPT ![e] = {}]
    /\ UNCHANGED <<pending, lost, refused>>

Next ==
    \/ \E p \in Procs : Call(p) \/ Refuse(p)
    \/ Reserve \/ Withdraw \/ Lose
    \/ \E e \in Entities : Allocate(e) \/ Set(e)
    \/ \E p \in Procs, e \in Entities : Update(p, e)

Spec == Init /\ [][Next]_vars
=============================================================================
