---------------------------- MODULE PersistStore ----------------------------
(***************************************************************************)
(* persist/store.go: one Store, its bounded LRU residency and its          *)
(* write-through to a Backend.                                             *)
(*                                                                         *)
(* The store's mutex is held across the backend I/O, so an operation is    *)
(* one step with one of the outcomes the backend can produce; a backend    *)
(* write that returns an error may have been applied all the same (a lost  *)
(* reply, a cancelled context).  A crash drops residency and keeps the     *)
(* backend; one between a Put and its return is a failed Put that was      *)
(* applied, followed by a crash.                                           *)
(*                                                                         *)
(* One connection delivers in order, so a write that was given up on is    *)
(* applied before the next call of the same process is served, or never:   *)
(* at once or never is all that can be told apart.  A write of a dead      *)
(* process that is applied after one of its successor is not modelled.     *)
(***************************************************************************)
EXTENDS Integers, Sequences, SequencesExt

CONSTANTS
    Entities,
    Bound,       \* the resident bound, WithBound
    MaxUpdates,  \* bound: Update calls in a behaviour
    MaxClock,    \* bound: ticks of the wall clock
    RefState,    \* T is a map or pointer that fn mutates in place
    None         \* absent

Updates == 1..MaxUpdates

\* A state is the set of Updates it reflects and the time it is advanced to.
State == [ids : SUBSET Updates, asOf : Nat]
\* envelope: the state and its last-active stamp, written as one value.
Envelope == [ids : SUBSET Updates, asOf : Nat, stamp : Nat]

ASSUME BoundPositive == Bound \in Nat \ {0}
ASSUME BoundsNatural == MaxUpdates \in Nat /\ MaxClock \in Nat
ASSUME RefStateFlag == RefState \in BOOLEAN
ASSUME NoneIsNoState == None \notin State
ASSUME NoneIsNoEnvelope == None \notin Envelope

VARIABLES
    resident,  \* entity -> state, or None when not resident
    lru,       \* resident entities, hottest first
    backend,   \* entity -> envelope or None
    now,       \* the wall clock
    calls,     \* Update calls so far
    acked,     \* the updates in the state the last successful Update returned
    limbo,     \* updates whose call failed, or whose Delete failed
    recency    \* every entity accessed since start, latest first (history)

vars == <<resident, lru, backend, now, calls, acked, limbo, recency>>
history == <<acked, limbo>>

Init ==
    /\ resident = [e \in Entities |-> None]
    /\ lru = <<>>
    /\ backend = [e \in Entities |-> None]
    /\ now = 0
    /\ calls = 0
    /\ acked = [e \in Entities |-> {}]
    /\ limbo = [e \in Entities |-> {}]
    /\ recency = <<>>

Members(s) == {s[i] : i \in 1..Len(s)}
Position(s, e) == CHOOSE i \in 1..Len(s) : s[i] = e
\* list.Remove of the one element the map has for e, if it has any.
Without(s, e) == IF e \in Members(s) THEN RemoveAt(s, Position(s, e)) ELSE s
ToFront(s, e) == <<e>> \o Without(s, e)

\* Mutant: a hit does not move the entity to the front.
Touched_HitStays(e) ==
    IF resident[e] # None THEN lru
    ELSE IF Len(lru) < Bound THEN <<e>> \o lru
    ELSE <<e>> \o SubSeq(lru, 1, Bound - 1)

\* MoveToFront on a hit; insert on a miss, which drops the coldest at the bound.
Touched(e) ==
    IF resident[e] # None \/ Len(lru) < Bound
    THEN ToFront(lru, e)
    ELSE <<e>> \o SubSeq(lru, 1, Bound - 1)

\* Wake: advance the state by the time since the last-active stamp.
Wake(env) == [ids |-> env.ids, asOf |-> env.asOf + (now - env.stamp)]

\* The state getLocked returns when the backend answers: the resident one, the
\* rehydrated one, or the zero value of an entity never seen.
Current(e) ==
    IF resident[e] # None THEN resident[e]
    ELSE IF backend[e] # None THEN Wake(backend[e])
    ELSE [ids |-> {}, asOf |-> now]

\* e is resident with state st and hottest; whatever was evicted is gone.
Resides(e, st) ==
    /\ lru' = Touched(e)
    /\ recency' = ToFront(recency, e)
    /\ resident' = [x \in Entities |->
                      IF x = e THEN st
                      ELSE IF x \in Members(lru') THEN resident[x] ELSE None]

\* The envelope Update marshals: the state fn returned, stamped with the clock.
Seal(st) == [ids |-> st.ids, asOf |-> st.asOf, stamp |-> now]

Stores(e, env) == backend' = [backend EXCEPT ![e] = env]

-----------------------------------------------------------------------------
Get(e) ==
    /\ Resides(e, Current(e))
    /\ UNCHANGED <<backend, now, calls, history>>

\* Mutant: a failed read is taken for an entity never seen.
ReadFails_AsZero(e) ==
    /\ resident[e] = None
    /\ Resides(e, [ids |-> {}, asOf |-> now])
    /\ UNCHANGED <<backend, now, calls, history>>

\* Get or Update of an entity that is not resident, when the backend read or a
\* decode fails: the error is returned and nothing is inserted.
ReadFails(e) ==
    /\ resident[e] = None
    /\ UNCHANGED vars

\* Mutant: only the resident entry is written.
UpdateOK_WriteBehind(e) ==
    LET next == [Current(e) EXCEPT !.ids = @ \cup {calls + 1}] IN
    /\ calls < MaxUpdates
    /\ calls' = calls + 1
    /\ Resides(e, next)
    /\ acked' = [acked EXCEPT ![e] = next.ids]
    /\ limbo' = [limbo EXCEPT ![e] = {}]
    /\ UNCHANGED <<now, backend>>

\* Mutant: an envelope that exists keeps its last-active stamp.
UpdateOK_OldStamp(e) ==
    LET next == [Current(e) EXCEPT !.ids = @ \cup {calls + 1}] IN
    /\ calls < MaxUpdates
    /\ calls' = calls + 1
    /\ Stores(e, [Seal(next) EXCEPT !.stamp = IF backend[e] = None THEN @ ELSE backend[e].stamp])
    /\ Resides(e, next)
    /\ acked' = [acked EXCEPT ![e] = next.ids]
    /\ limbo' = [limbo EXCEPT ![e] = {}]
    /\ UNCHANGED now

\* Update whose Put succeeds: durable first, then resident.
UpdateOK(e) ==
    LET next == [Current(e) EXCEPT !.ids = @ \cup {calls + 1}] IN
    /\ calls < MaxUpdates
    /\ calls' = calls + 1
    /\ Stores(e, Seal(next))
    /\ Resides(e, next)
    /\ acked' = [acked EXCEPT ![e] = next.ids]
    /\ limbo' = [limbo EXCEPT ![e] = {}]
    /\ UNCHANGED now

\* Update that fails after the read: fn panics, an encode fails, or Put returns
\* an error, having been applied or not.  The resident entry keeps the value fn
\* was given; when T is a map or a pointer, and not its nil zero value, that is
\* the very object fn has changed in place.
UpdateFails(e) ==
    LET cur == Current(e)
        next == [cur EXCEPT !.ids = @ \cup {calls + 1}]
    IN
    /\ calls < MaxUpdates
    /\ calls' = calls + 1
    /\ Stores(e, Seal(next)) \/ UNCHANGED backend
    /\ Resides(e, IF RefState /\ cur.ids # {} THEN next ELSE cur)
    /\ limbo' = [limbo EXCEPT ![e] = @ \cup {calls + 1}]
    /\ UNCHANGED <<now, acked>>

\* Mutant: Delete forgets the resident entry.
DeleteOK_KeepsResident(e) ==
    /\ Stores(e, None)
    /\ acked' = [acked EXCEPT ![e] = {}]
    /\ limbo' = [limbo EXCEPT ![e] = {}]
    /\ UNCHANGED <<resident, lru, recency, now, calls>>

DeleteOK(e) ==
    /\ Stores(e, None)
    /\ resident' = [resident EXCEPT ![e] = None]
    /\ lru' = Without(lru, e)
    /\ recency' = Without(recency, e)
    /\ acked' = [acked EXCEPT ![e] = {}]
    /\ limbo' = [limbo EXCEPT ![e] = {}]
    /\ UNCHANGED <<now, calls>>

\* Delete whose backend call fails leaves residency intact.
DeleteFails(e) ==
    /\ Stores(e, None) \/ UNCHANGED backend
    /\ acked' = [acked EXCEPT ![e] = {}]
    /\ limbo' = [limbo EXCEPT ![e] = @ \cup acked[e]]
    /\ UNCHANGED <<resident, lru, now, calls, recency>>

\* The process stops and another starts with an empty store.
Crash ==
    /\ resident' = [e \in Entities |-> None]
    /\ lru' = <<>>
    /\ recency' = <<>>
    /\ UNCHANGED <<backend, now, calls, history>>

\* The wall clock goes on; that it is never set back is assumed.
Tick ==
    /\ now < MaxClock
    /\ now' = now + 1
    /\ UNCHANGED <<resident, lru, backend, calls, history, recency>>

Next ==
    \/ \E e \in Entities :
          \/ Get(e) \/ ReadFails(e) \/ UpdateOK(e) \/ UpdateFails(e)
          \/ DeleteOK(e) \/ DeleteFails(e)
    \/ Crash
    \/ Tick

Spec == Init /\ [][Next]_vars

-----------------------------------------------------------------------------
(* Properties *)

DataOK ==
    /\ resident \in [Entities -> State \cup {None}]
    /\ backend \in [Entities -> Envelope \cup {None}]
    /\ now \in 0..MaxClock
    /\ calls \in 0..MaxUpdates
    /\ acked \in [Entities -> SUBSET Updates]
    /\ limbo \in [Entities -> SUBSET Updates]

\* Every variable keeps its type; in particular no state is ever advanced to a
\* time before the clock's origin.
TypeOK == DataOK /\ lru \in Seq(Entities) /\ recency \in Seq(Entities)

Ids(x) == IF x = None THEN {} ELSE x.ids

\* Write-through: whatever fails, is evicted or crashes, the backend holds
\* every update of the state the last successful Update returned, and beyond
\* them only updates whose fate a failed call left open; nothing that was
\* deleted comes back.
Durable ==
    \A e \in Entities :
        acked[e] \subseteq Ids(backend[e]) /\ Ids(backend[e]) \subseteq acked[e] \cup limbo[e]

\* The same holds of a resident entry, so Get never answers from a state that
\* lacks an acknowledged update (a read error is never taken for "not found").
CacheCoherent ==
    \A e \in Entities : resident[e] # None =>
        acked[e] \subseteq resident[e].ids /\ resident[e].ids \subseteq acked[e] \cup limbo[e]

\* No stretch of time is applied twice by the wake hook: no state, resident or
\* stored, has been advanced beyond the present, nor an envelope beyond its own
\* stamp, although evicted entities are woken again from the same stamp.
NoTimeCountedTwice ==
    \A e \in Entities :
        /\ resident[e] # None => resident[e].asOf <= now
        /\ backend[e] # None => backend[e].asOf <= backend[e].stamp /\ backend[e].stamp <= now

Distinct(s) == \A i, j \in 1..Len(s) : s[i] = s[j] => i = j

\* Residency is bounded, the map and the list hold the same entities, each
\* once, and what is resident is always the most recently used.
ResidencyIsLRU ==
    /\ Len(lru) <= Bound
    /\ Members(lru) = {e \in Entities : resident[e] # None}
    /\ Distinct(lru)
    /\ lru = SubSeq(recency, 1, Len(lru))

\* store.go:152-153: "On a backend failure the resident state is left at its
\* pre-fn value".
FailedUpdateKeepsResident ==
    [][\A e \in Entities : calls' > calls /\ limbo'[e] \ limbo[e] # {} =>
          resident'[e] = Current(e)]_vars

-----------------------------------------------------------------------------
\* The store is a durable map: residency, eviction, wake, restart and failed
\* reads are invisible.
Map == INSTANCE DurableMap WITH durable <- [e \in Entities |-> Ids(backend[e])]

\* Every operation of the store is one of DurableMap's, or changes nothing there.
ImplementsDurableMap == Map!Spec
=============================================================================
