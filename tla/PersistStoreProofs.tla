------------------------- MODULE PersistStoreProofs -------------------------
(***************************************************************************)
(* Proofs about PersistStore for every set of entities, every bound and    *)
(* both kinds of state.  The data part of the invariant, IInv, does not    *)
(* depend on which entry the LRU evicts; the residency part, LRUInv, rests *)
(* on it only for a state not being None.                                  *)
(***************************************************************************)
EXTENDS PersistStore, SequenceTheorems, TLAPS

-----------------------------------------------------------------------------
(* What makes the properties inductive *)

\* The data part.
IInv == DataOK /\ Durable /\ CacheCoherent /\ NoTimeCountedTwice

\* The residency part: recency has every entity once
\* and begins with what is resident.
LRUInv ==
    /\ lru \in Seq(Entities) /\ recency \in Seq(Entities)
    /\ Distinct(recency)
    /\ Len(lru) <= Len(recency)
    /\ ResidencyIsLRU

-----------------------------------------------------------------------------
\* What getLocked returns is a state, holds every acknowledged update, nothing
\* but acknowledged and doubtful ones, and has not been advanced past the clock.
LEMMA CurrentIsSound ==
    ASSUME IInv, NEW e \in Entities
    PROVE  /\ Current(e) \in State
           /\ acked[e] \subseteq Current(e).ids
           /\ Current(e).ids \subseteq acked[e] \cup limbo[e]
           /\ Current(e).asOf <= now
<1> USE DEF IInv, DataOK
<1>1. CASE resident[e] # None
  BY <1>1 DEF Current, CacheCoherent, NoTimeCountedTwice
<1>2. CASE resident[e] = None /\ backend[e] # None
  <2>1. Current(e) = [ids |-> backend[e].ids, asOf |-> backend[e].asOf + (now - backend[e].stamp)]
    BY <1>2 DEF Current, Wake
  <2>2. /\ backend[e].ids \in SUBSET Updates /\ backend[e].asOf \in Nat /\ backend[e].stamp \in Nat
        /\ backend[e].asOf <= backend[e].stamp /\ backend[e].stamp <= now /\ now \in Nat
    BY <1>2 DEF Envelope, NoTimeCountedTwice
  <2>3. acked[e] \subseteq backend[e].ids /\ backend[e].ids \subseteq acked[e] \cup limbo[e]
    BY <1>2 DEF Durable, Ids
  <2> QED  BY <2>1, <2>2, <2>3 DEF State
<1>3. CASE resident[e] = None /\ backend[e] = None
  <2>1. Current(e) = [ids |-> {}, asOf |-> now]
    BY <1>3 DEF Current
  <2>2. acked[e] = {}
    BY <1>3 DEF Durable, Ids
  <2> QED  BY <2>1, <2>2 DEF State
<1> QED  BY <1>1, <1>2, <1>3

\* Adding the current call to a state makes a state.
LEMMA NextIsState ==
    ASSUME IInv, NEW st \in State, calls < MaxUpdates
    PROVE  LET nx == [st EXCEPT !.ids = @ \cup {calls + 1}] IN
           /\ nx \in State /\ nx.ids = st.ids \cup {calls + 1} /\ nx.asOf = st.asOf
           /\ Seal(nx) \in Envelope
           /\ Seal(nx).ids = nx.ids /\ Seal(nx).asOf = st.asOf /\ Seal(nx).stamp = now
<1>1. calls + 1 \in Updates /\ now \in Nat
  BY BoundsNatural DEF IInv, DataOK, Updates
<1> QED  BY <1>1 DEF State, Envelope, Seal

\* Residing keeps every other resident entry as it is or drops it.
LEMMA ResidesKeeps ==
    ASSUME IInv, NEW e \in Entities, NEW st \in State, Resides(e, st)
    PROVE  /\ resident' \in [Entities -> State \cup {None}]
           /\ resident'[e] = st
           /\ \A x \in Entities : x # e => resident'[x] \in {resident[x], None}
BY DEF Resides, IInv, DataOK

\* The initial states satisfy the inductive invariant.
LEMMA InitIInv == Init => IInv
BY BoundsNatural DEF Init, IInv, DataOK, Durable, CacheCoherent, NoTimeCountedTwice, Ids

-----------------------------------------------------------------------------
\* Reading preserves the inductive invariant, evictions included.
LEMMA GetIInv == ASSUME IInv, NEW e \in Entities, Get(e) PROVE IInv'
<1> DEFINE cur == Current(e)
<1>1. cur \in State /\ acked[e] \subseteq cur.ids /\ cur.ids \subseteq acked[e] \cup limbo[e]
      /\ cur.asOf <= now
  BY CurrentIsSound
<1>2. /\ resident' \in [Entities -> State \cup {None}] /\ resident'[e] = cur
      /\ \A x \in Entities : x # e => resident'[x] \in {resident[x], None}
  BY <1>1, ResidesKeeps DEF Get
<1>3. /\ backend' = backend /\ now' = now /\ calls' = calls
      /\ acked' = acked /\ limbo' = limbo
  BY DEF Get, history
<1>4. DataOK' /\ Durable'
  BY <1>2, <1>3 DEF IInv, DataOK, Durable, Ids
<1>5. CacheCoherent' /\ NoTimeCountedTwice'
  BY <1>1, <1>2, <1>3 DEF IInv, CacheCoherent, NoTimeCountedTwice
<1> QED  BY <1>4, <1>5 DEF IInv

\* A successful Update preserves the inductive invariant.
LEMMA UpdateOKIInv == ASSUME IInv, NEW e \in Entities, UpdateOK(e) PROVE IInv'
<1> DEFINE cur == Current(e)
           nx == [cur EXCEPT !.ids = @ \cup {calls + 1}]
<1>1. cur \in State /\ cur.asOf <= now /\ calls < MaxUpdates
  BY CurrentIsSound DEF UpdateOK
<1>2. /\ nx \in State /\ nx.asOf = cur.asOf
      /\ Seal(nx) \in Envelope
      /\ Seal(nx).ids = nx.ids /\ Seal(nx).asOf = cur.asOf /\ Seal(nx).stamp = now
  BY <1>1, NextIsState
<1>3. /\ resident' \in [Entities -> State \cup {None}] /\ resident'[e] = nx
      /\ \A x \in Entities : x # e => resident'[x] \in {resident[x], None}
  BY <1>2, ResidesKeeps DEF UpdateOK
<1>4. /\ backend' = [backend EXCEPT ![e] = Seal(nx)] /\ now' = now /\ calls' = calls + 1
      /\ acked' = [acked EXCEPT ![e] = nx.ids] /\ limbo' = [limbo EXCEPT ![e] = {}]
  BY DEF UpdateOK, Stores
<1> HIDE DEF cur, nx
<1>5. DataOK'
  BY <1>1, <1>2, <1>3, <1>4, BoundsNatural DEF IInv, DataOK, State
<1>6. Durable'
  BY <1>2, <1>4, NoneIsNoEnvelope DEF IInv, DataOK, Durable, Ids
<1>7. CacheCoherent'
  BY <1>3, <1>4 DEF IInv, DataOK, CacheCoherent
<1>8. NoTimeCountedTwice'
  BY <1>1, <1>2, <1>3, <1>4 DEF IInv, DataOK, NoTimeCountedTwice
<1> QED  BY <1>5, <1>6, <1>7, <1>8 DEF IInv

\* A failed Update, applied by the backend or not, preserves the inductive
\* invariant.
LEMMA UpdateFailsIInv == ASSUME IInv, NEW e \in Entities, UpdateFails(e) PROVE IInv'
<1> DEFINE cur == Current(e)
           nx == [cur EXCEPT !.ids = @ \cup {calls + 1}]
           st == IF RefState /\ cur.ids # {} THEN nx ELSE cur
<1>1. /\ cur \in State /\ acked[e] \subseteq cur.ids /\ cur.ids \subseteq acked[e] \cup limbo[e]
      /\ cur.asOf <= now /\ calls < MaxUpdates
  BY CurrentIsSound DEF UpdateFails
<1>2. /\ nx \in State /\ nx.ids = cur.ids \cup {calls + 1} /\ nx.asOf = cur.asOf
      /\ Seal(nx) \in Envelope
      /\ Seal(nx).ids = nx.ids /\ Seal(nx).asOf = cur.asOf /\ Seal(nx).stamp = now
  BY <1>1, NextIsState
<1>3. /\ st \in State /\ st.asOf = cur.asOf
      /\ acked[e] \subseteq st.ids /\ st.ids \subseteq acked[e] \cup limbo[e] \cup {calls + 1}
  BY <1>1, <1>2
<1>4. /\ resident' \in [Entities -> State \cup {None}] /\ resident'[e] = st
      /\ \A x \in Entities : x # e => resident'[x] \in {resident[x], None}
  BY <1>3, ResidesKeeps DEF UpdateFails
<1>5. /\ backend' \in {backend, [backend EXCEPT ![e] = Seal(nx)]}
      /\ now' = now /\ calls' = calls + 1
      /\ acked' = acked /\ limbo' = [limbo EXCEPT ![e] = limbo[e] \cup {calls + 1}]
  BY DEF UpdateFails, Stores
<1>6. calls + 1 \in Updates
  BY <1>1, BoundsNatural DEF IInv, DataOK, Updates
<1> HIDE DEF cur, nx, st
<1>7. DataOK'
  BY <1>1, <1>2, <1>4, <1>5, <1>6, BoundsNatural DEF IInv, DataOK
<1>8. Durable'
  BY <1>1, <1>2, <1>5, NoneIsNoEnvelope DEF IInv, DataOK, Durable, Ids
<1>9. CacheCoherent'
  BY <1>3, <1>4, <1>5 DEF IInv, DataOK, CacheCoherent
<1>10. NoTimeCountedTwice'
  BY <1>1, <1>2, <1>3, <1>4, <1>5 DEF IInv, DataOK, NoTimeCountedTwice
<1> QED  BY <1>7, <1>8, <1>9, <1>10 DEF IInv

\* Deletes, failed or not, a restart and the clock preserve the inductive
\* invariant.
LEMMA OthersIInv ==
    ASSUME IInv,
           \/ \E e \in Entities : DeleteOK(e) \/ DeleteFails(e) \/ ReadFails(e)
           \/ Crash \/ Tick
    PROVE  IInv'
<1> USE DEF IInv, DataOK, Durable, CacheCoherent, NoTimeCountedTwice, Ids, history, Stores
<1>1. ASSUME NEW e \in Entities, DeleteOK(e) PROVE IInv'
  BY <1>1 DEF DeleteOK
<1>2. ASSUME NEW e \in Entities, DeleteFails(e) PROVE IInv'
  BY <1>2 DEF DeleteFails
<1>3. ASSUME NEW e \in Entities, ReadFails(e) PROVE IInv'
  BY <1>3 DEF ReadFails, vars
<1>4. CASE Crash
  BY <1>4 DEF Crash
<1>5. CASE Tick
  <2>1. now' \in 0..MaxClock /\ now < now' /\ now \in Nat
    BY <1>5, BoundsNatural DEF Tick
  <2> QED  BY <1>5, <2>1 DEF Tick, State, Envelope
<1> QED  BY <1>1, <1>2, <1>3, <1>4, <1>5

\* Every step preserves the inductive invariant.
LEMMA NextIInv == IInv /\ [Next]_vars => IInv'
<1> SUFFICES ASSUME IInv, [Next]_vars PROVE IInv'
  OBVIOUS
<1>1. CASE UNCHANGED vars
  BY <1>1 DEF vars, IInv, DataOK, Durable, CacheCoherent, NoTimeCountedTwice, Ids
<1>2. CASE Next
  BY <1>2, GetIInv, UpdateOKIInv, UpdateFailsIInv, OthersIInv DEF Next
<1> QED  BY <1>1, <1>2

-----------------------------------------------------------------------------
\* The inductive invariant holds throughout.
THEOREM StoreInvariant == Spec => []IInv
<1> QED  BY InitIInv, NextIInv, PTL DEF Spec

\* Every acknowledged update stays on the backend until it is deleted, and
\* nothing deleted comes back, through failures, evictions and restarts.
THEOREM StoreDurable == Spec => []Durable
<1>1. IInv => Durable
  BY DEF IInv
<1> QED  BY <1>1, StoreInvariant, PTL

\* A resident entry never lacks an acknowledged update.
THEOREM StoreCacheCoherent == Spec => []CacheCoherent
<1>1. IInv => CacheCoherent
  BY DEF IInv
<1> QED  BY <1>1, StoreInvariant, PTL

\* The wake hook never advances a state past the present.
THEOREM StoreNoTimeCountedTwice == Spec => []NoTimeCountedTwice
<1>1. IInv => NoTimeCountedTwice
  BY DEF IInv
<1> QED  BY <1>1, StoreInvariant, PTL

-----------------------------------------------------------------------------
(* Refinement of DurableMap *)

Stored == [e \in Entities |-> Ids(backend[e])]

\* Every step of the store is a step of the durable map, or leaves it alone.
LEMMA MapNext == IInv /\ [Next]_vars => [Map!Next]_(Map!vars)
<1> SUFFICES ASSUME IInv, [Next]_vars
             PROVE  Map!Next \/ UNCHANGED Map!vars
  OBVIOUS
<1>0. ASSUME Stored' = Stored, acked' = acked, limbo' = limbo PROVE UNCHANGED Map!vars
  BY <1>0 DEF Map!vars, Stored
<1>1. CASE UNCHANGED vars
  BY <1>1, <1>0 DEF vars, Stored
<1>2. ASSUME NEW e \in Entities, Get(e) PROVE UNCHANGED Map!vars
  BY <1>2, <1>0 DEF Get, Stored, history
<1>3. ASSUME NEW e \in Entities, ReadFails(e) PROVE UNCHANGED Map!vars
  BY <1>3, <1>0 DEF ReadFails, vars, Stored
<1>4. CASE Crash \/ Tick
  BY <1>4, <1>0 DEF Crash, Tick, Stored, history
<1>5. ASSUME NEW e \in Entities, UpdateOK(e)
      PROVE  \E u \in Updates : Map!UpdateOK(e, u)
  <2> DEFINE cur == Current(e)
             nx == [cur EXCEPT !.ids = @ \cup {calls + 1}]
  <2>1. /\ cur \in State /\ acked[e] \subseteq cur.ids /\ cur.ids \subseteq acked[e] \cup limbo[e]
        /\ calls < MaxUpdates
    BY <1>5, CurrentIsSound DEF UpdateOK
  <2>2. nx.ids = cur.ids \cup {calls + 1} /\ Seal(nx) \in Envelope /\ Seal(nx).ids = nx.ids
    BY <2>1, NextIsState
  <2>3. /\ backend' = [backend EXCEPT ![e] = Seal(nx)]
        /\ acked' = [acked EXCEPT ![e] = nx.ids] /\ limbo' = [limbo EXCEPT ![e] = {}]
    BY <1>5 DEF UpdateOK, Stores
  <2>4. PICK u \in Updates : u = calls + 1
    BY <2>1, BoundsNatural DEF IInv, DataOK, Updates
  <2>5. PICK D : D = nx.ids
    OBVIOUS
  <2> HIDE DEF cur, nx
  <2>6. Stored' = [Stored EXCEPT ![e] = D]
    BY <2>2, <2>3, <2>5, NoneIsNoEnvelope DEF Stored, Ids, IInv, DataOK
  <2>7. D \in Map!Reachable(e, u)
    BY <2>1, <2>2, <2>4, <2>5 DEF Map!Reachable
  <2>8. Map!UpdateOK(e, u)
    BY <2>3, <2>5, <2>6, <2>7 DEF Map!UpdateOK, Stored
  <2> QED  BY <2>8
<1>6. ASSUME NEW e \in Entities, UpdateFails(e)
      PROVE  \E u \in Updates : Map!UpdateFails(e, u)
  <2> DEFINE cur == Current(e)
             nx == [cur EXCEPT !.ids = @ \cup {calls + 1}]
  <2>1. /\ cur \in State /\ acked[e] \subseteq cur.ids /\ cur.ids \subseteq acked[e] \cup limbo[e]
        /\ calls < MaxUpdates
    BY <1>6, CurrentIsSound DEF UpdateFails
  <2>2. nx.ids = cur.ids \cup {calls + 1} /\ Seal(nx) \in Envelope /\ Seal(nx).ids = nx.ids
    BY <2>1, NextIsState
  <2>3. /\ backend' \in {backend, [backend EXCEPT ![e] = Seal(nx)]}
        /\ acked' = acked /\ limbo' = [limbo EXCEPT ![e] = limbo[e] \cup {calls + 1}]
    BY <1>6 DEF UpdateFails, Stores
  <2>4. PICK u \in Updates : u = calls + 1
    BY <2>1, BoundsNatural DEF IInv, DataOK, Updates
  <2> HIDE DEF cur, nx
  <2>5. \E D \in {Stored[e], nx.ids} : Stored' = [Stored EXCEPT ![e] = D]
    <3>1. CASE backend' = backend
      BY <3>1 DEF Stored
    <3>2. CASE backend' = [backend EXCEPT ![e] = Seal(nx)]
      BY <2>2, <3>2, NoneIsNoEnvelope DEF Stored, Ids, IInv, DataOK
    <3> QED  BY <2>3, <3>1, <3>2
  <2>6. PICK D \in {Stored[e], nx.ids} : Stored' = [Stored EXCEPT ![e] = D]
    BY <2>5
  <2>7. D \in Map!Reachable(e, u) \cup {Stored[e]}
    BY <2>1, <2>2, <2>4, <2>6 DEF Map!Reachable
  <2>8. Map!UpdateFails(e, u)
    BY <2>3, <2>4, <2>6, <2>7 DEF Map!UpdateFails, Stored
  <2> QED  BY <2>8
<1>7. ASSUME NEW e \in Entities, DeleteOK(e) PROVE Map!DeleteOK(e)
  <2>1. Stored' = [Stored EXCEPT ![e] = {}]
    BY <1>7 DEF DeleteOK, Stores, Stored, Ids, IInv, DataOK
  <2> QED  BY <1>7, <2>1 DEF DeleteOK, Map!DeleteOK, Stored
<1>8. ASSUME NEW e \in Entities, DeleteFails(e) PROVE Map!DeleteFails(e)
  <2>1. PICK D \in {{}, Stored[e]} : Stored' = [Stored EXCEPT ![e] = D]
    BY <1>8 DEF DeleteFails, Stores, Stored, Ids, IInv, DataOK
  <2> QED  BY <1>8, <2>1 DEF DeleteFails, Map!DeleteFails, Stored
<1>9. CASE Next
  <2>1. CASE \E e \in Entities : Get(e) \/ ReadFails(e)
    BY <2>1, <1>2, <1>3
  <2>2. CASE \E e \in Entities : UpdateOK(e) \/ UpdateFails(e)
    BY <2>2, <1>5, <1>6 DEF Map!Next
  <2>3. CASE \E e \in Entities : DeleteOK(e) \/ DeleteFails(e)
    BY <2>3, <1>7, <1>8 DEF Map!Next
  <2> QED  BY <1>4, <1>9, <2>1, <2>2, <2>3 DEF Next
<1> QED  BY <1>1, <1>9

\* The store is a durable map: eviction, rehydration, wake and restart do not
\* show, and a failed call puts its own update in doubt and no other.
THEOREM StoreRefinesDurableMap == Spec => ImplementsDurableMap
<1>1. Init => Map!Init
  BY DEF Init, Map!Init, Ids
<1> QED
  BY <1>1, MapNext, StoreInvariant, PTL DEF Spec, ImplementsDurableMap, Map!Spec
-----------------------------------------------------------------------------
(* Residency *)

\* Positions of an entity in a sequence of entities that holds it.
LEMMA PositionOf ==
    ASSUME NEW s \in Seq(Entities), NEW e \in Members(s)
    PROVE  Position(s, e) \in 1..Len(s) /\ s[Position(s, e)] = e
<1>1. PICK i \in 1..Len(s) : s[i] = e
  BY DEF Members
<1> QED  BY <1>1 DEF Position

\* What list.Remove leaves: the elements before the entity's position stay where
\* they are and the ones behind it move up by one.
LEMMA WithoutMember ==
    ASSUME NEW s \in Seq(Entities), NEW e \in Members(s)
    PROVE  /\ Without(s, e) \in Seq(Entities)
           /\ Len(Without(s, e)) = Len(s) - 1
           /\ \A i \in 1..(Len(s) - 1) :
                 Without(s, e)[i] = IF i < Position(s, e) THEN s[i] ELSE s[i + 1]
<1> DEFINE p == Position(s, e)
           a == SubSeq(s, 1, p - 1)
           b == SubSeq(s, p + 1, Len(s))
<1>1. p \in 1..Len(s) /\ Len(s) \in Nat
  BY PositionOf
<1>2. Without(s, e) = a \o b
  BY DEF Without, RemoveAt
<1> HIDE DEF p
<1>3. /\ a \in Seq(Entities) /\ Len(a) = p - 1
      /\ \A i \in 1..(p - 1) : a[i] = s[i]
  <2>1. \A i \in 1..(p - 1) : s[i] \in Entities
    BY <1>1
  <2>2. 1 \in Int /\ p - 1 \in Int
    BY <1>1
  <2>3. /\ a \in Seq(Entities) /\ Len(a) = (IF 1 <= p - 1 THEN p - 1 - 1 + 1 ELSE 0)
        /\ \A i \in 1..(p - 1 - 1 + 1) : a[i] = s[1 + i - 1]
    BY <2>1, <2>2, SubSeqProperties
  <2> QED  BY <1>1, <2>3
<1>4. /\ b \in Seq(Entities) /\ Len(b) = Len(s) - p
      /\ \A i \in 1..(Len(s) - p) : b[i] = s[p + i]
  <2>1. \A i \in (p + 1)..Len(s) : s[i] \in Entities
    BY <1>1
  <2>2. p + 1 \in Int /\ Len(s) \in Int
    BY <1>1
  <2>3. /\ b \in Seq(Entities) /\ Len(b) = (IF p + 1 <= Len(s) THEN Len(s) - (p + 1) + 1 ELSE 0)
        /\ \A i \in 1..(Len(s) - (p + 1) + 1) : b[i] = s[p + 1 + i - 1]
    BY <2>1, <2>2, SubSeqProperties
  <2> QED  BY <1>1, <2>3
<1> HIDE DEF a, b
<1>5. /\ a \o b \in Seq(Entities) /\ Len(a \o b) = Len(a) + Len(b)
      /\ \A i \in 1..(Len(a) + Len(b)) : (a \o b)[i] = IF i <= Len(a) THEN a[i] ELSE b[i - Len(a)]
  BY <1>3, <1>4, ConcatProperties
<1>6. Len(a) + Len(b) = Len(s) - 1
  BY <1>1, <1>3, <1>4
<1>7. ASSUME NEW i \in 1..(Len(s) - 1)
      PROVE  (a \o b)[i] = IF i < p THEN s[i] ELSE s[i + 1]
  <2>1. CASE i < p
    BY <1>1, <1>3, <1>5, <1>6, <2>1
  <2>2. CASE ~(i < p)
    <3>1. i - (p - 1) \in 1..(Len(s) - p) /\ p + (i - (p - 1)) = i + 1
      BY <1>1, <2>2
    <3>2. (a \o b)[i] = b[i - (p - 1)]
      BY <1>1, <1>3, <1>5, <1>6, <2>2
    <3> QED  BY <1>4, <2>2, <3>1, <3>2
  <2> QED  BY <2>1, <2>2
<1> QED  BY <1>1, <1>2, <1>5, <1>6, <1>7 DEF p

\* e before the elements of s.
LEMMA Headed ==
    ASSUME NEW e \in Entities, NEW s \in Seq(Entities)
    PROVE  /\ <<e>> \o s \in Seq(Entities)
           /\ Len(<<e>> \o s) = Len(s) + 1
           /\ (<<e>> \o s)[1] = e
           /\ \A i \in 2..(Len(s) + 1) : (<<e>> \o s)[i] = s[i - 1]
<1>1. <<e>> \in Seq(Entities) /\ Len(<<e>>) = 1 /\ <<e>>[1] = e
  OBVIOUS
<1>2. Len(s) \in Nat
  OBVIOUS
<1> DEFINE h == <<e>>
<1> HIDE DEF h
<1>3. /\ h \o s \in Seq(Entities)
      /\ Len(h \o s) = Len(h) + Len(s)
      /\ \A i \in 1..(Len(h) + Len(s)) : (h \o s)[i] = IF i <= Len(h) THEN h[i] ELSE s[i - Len(h)]
  BY <1>1, ConcatProperties DEF h
<1>4. h \in Seq(Entities) /\ Len(h) = 1 /\ h[1] = e
  BY <1>1 DEF h
<1>5. /\ h \o s \in Seq(Entities) /\ Len(h \o s) = Len(s) + 1 /\ (h \o s)[1] = e
      /\ \A i \in 2..(Len(s) + 1) : (h \o s)[i] = s[i - 1]
  BY <1>2, <1>3, <1>4
<1> QED  BY <1>5 DEF h

\* The elements of a sequence and of its front move.
LEMMA WithoutOK ==
    ASSUME NEW s \in Seq(Entities), NEW e \in Entities, Distinct(s)
    PROVE  /\ Without(s, e) \in Seq(Entities) /\ Distinct(Without(s, e))
           /\ Members(Without(s, e)) = Members(s) \ {e}
           /\ Len(Without(s, e)) <= Len(s)
<1>0. Len(s) \in Nat
  OBVIOUS
<1>1. CASE e \notin Members(s)
  BY <1>0, <1>1 DEF Without
<1>2. CASE e \in Members(s)
  <2> DEFINE w == Without(s, e)
             p == Position(s, e)
  <2>1. p \in 1..Len(s) /\ s[p] = e
    BY <1>2, PositionOf
  <2>2. /\ w \in Seq(Entities) /\ Len(w) = Len(s) - 1
        /\ \A i \in 1..(Len(s) - 1) : w[i] = IF i < p THEN s[i] ELSE s[i + 1]
    BY <1>2, WithoutMember
  <2> HIDE DEF w, p
  <2>3. Distinct(w)
    <3> SUFFICES ASSUME NEW i \in 1..Len(w), NEW j \in 1..Len(w), w[i] = w[j] PROVE i = j
      BY DEF Distinct
    <3>1. i \in 1..(Len(s) - 1) /\ j \in 1..(Len(s) - 1)
      BY <2>2
    <3>2. \A k, l \in 1..Len(s) : s[k] = s[l] => k = l
      BY DEF Distinct
    <3>3. CASE i < p /\ j < p
      BY <1>0, <2>1, <2>2, <3>1, <3>2, <3>3
    <3>4. CASE i < p /\ ~(j < p)
      BY <1>0, <2>1, <2>2, <3>1, <3>2, <3>4
    <3>5. CASE ~(i < p) /\ j < p
      BY <1>0, <2>1, <2>2, <3>1, <3>2, <3>5
    <3>6. CASE ~(i < p) /\ ~(j < p)
      BY <1>0, <2>1, <2>2, <3>1, <3>2, <3>6
    <3> QED  BY <3>3, <3>4, <3>5, <3>6
  <2>4. ASSUME NEW x \in Members(w) PROVE x \in Members(s) \ {e}
    <3>1. PICK i \in 1..(Len(s) - 1) : x = w[i]
      BY <2>2 DEF Members
    <3>2. CASE i < p
      <4>1. x = s[i] /\ i \in 1..Len(s) /\ i # p
        BY <1>0, <2>1, <2>2, <3>1, <3>2
      <4> QED  BY <2>1, <4>1 DEF Members, Distinct
    <3>3. CASE ~(i < p)
      <4>1. x = s[i + 1] /\ i + 1 \in 1..Len(s) /\ i + 1 # p
        BY <1>0, <2>1, <2>2, <3>1, <3>3
      <4> QED  BY <2>1, <4>1 DEF Members, Distinct
    <3> QED  BY <3>2, <3>3
  <2>5. ASSUME NEW x \in Members(s) \ {e} PROVE x \in Members(w)
    <3>1. PICK i \in 1..Len(s) : x = s[i]
      BY DEF Members
    <3>2. i # p
      BY <2>1, <3>1
    <3>3. CASE i < p
      <4>1. i \in 1..(Len(s) - 1) /\ w[i] = x
        BY <1>0, <2>1, <2>2, <3>1, <3>3
      <4> QED  BY <2>2, <4>1 DEF Members
    <3>4. CASE ~(i < p)
      <4>1. i - 1 \in 1..(Len(s) - 1) /\ ~(i - 1 < p) /\ (i - 1) + 1 = i
        BY <1>0, <2>1, <3>2, <3>4
      <4>2. w[i - 1] = x
        BY <2>2, <3>1, <4>1
      <4> QED  BY <2>2, <4>1, <4>2 DEF Members
    <3> QED  BY <3>3, <3>4
  <2>6. Members(w) = Members(s) \ {e}
    BY <2>4, <2>5
  <2> QED  BY <1>0, <2>2, <2>3, <2>6 DEF w
<1> QED  BY <1>1, <1>2

\* Moving or inserting e at the front keeps the elements distinct.
LEMMA HeadedOK ==
    ASSUME NEW s \in Seq(Entities), NEW e \in Entities, Distinct(s), e \notin Members(s)
    PROVE  Distinct(<<e>> \o s) /\ Members(<<e>> \o s) = Members(s) \cup {e}
<1> DEFINE f == <<e>> \o s
<1>0. Len(s) \in Nat
  OBVIOUS
<1>1. /\ f \in Seq(Entities) /\ Len(f) = Len(s) + 1 /\ f[1] = e
      /\ \A i \in 2..(Len(s) + 1) : f[i] = s[i - 1]
  BY Headed
<1> HIDE DEF f
<1>2. ASSUME NEW i \in 2..(Len(s) + 1) PROVE f[i] \in Members(s)
  <2>1. i - 1 \in 1..Len(s) /\ f[i] = s[i - 1]
    BY <1>0, <1>1
  <2> QED  BY <2>1 DEF Members
<1>3. ASSUME NEW i \in 1..Len(f), NEW j \in 1..Len(f), f[i] = f[j] PROVE i = j
  <2>1. CASE i = 1 \/ j = 1
    BY <1>0, <1>1, <1>2, <1>3, <2>1
  <2>2. CASE i # 1 /\ j # 1
    <3>1. i - 1 \in 1..Len(s) /\ j - 1 \in 1..Len(s) /\ s[i - 1] = s[j - 1]
      BY <1>0, <1>1, <1>3, <2>2
    <3>2. i - 1 = j - 1
      BY <3>1 DEF Distinct
    <3> QED  BY <3>2
  <2> QED  BY <2>1, <2>2
<1>4. ASSUME NEW x \in Members(s) PROVE x \in Members(f)
  <2>1. PICK i \in 1..Len(s) : x = s[i]
    BY DEF Members
  <2>2. i + 1 \in 2..(Len(s) + 1) /\ (i + 1) - 1 = i
    BY <1>0
  <2>3. f[i + 1] = x /\ i + 1 \in 1..Len(f)
    BY <1>0, <1>1, <2>1, <2>2
  <2> QED  BY <2>3 DEF Members
<1>5. e \in Members(f)
  <2>1. 1 \in 1..Len(f)
    BY <1>0, <1>1
  <2> QED  BY <1>1, <2>1 DEF Members
<1>6. ASSUME NEW x \in Members(f) PROVE x \in Members(s) \cup {e}
  <2>1. PICK i \in 1..(Len(s) + 1) : x = f[i]
    BY <1>1 DEF Members
  <2>2. i = 1 \/ i \in 2..(Len(s) + 1)
    BY <1>0
  <2> QED  BY <1>1, <1>2, <2>1, <2>2
<1>7. Distinct(f) /\ Members(f) = Members(s) \cup {e}
  BY <1>3, <1>4, <1>5, <1>6 DEF Distinct
<1> QED  BY <1>7 DEF f

LEMMA ToFrontOK ==
    ASSUME NEW s \in Seq(Entities), NEW e \in Entities, Distinct(s)
    PROVE  /\ ToFront(s, e) \in Seq(Entities) /\ Distinct(ToFront(s, e))
           /\ Members(ToFront(s, e)) = Members(s) \cup {e}
           /\ Len(ToFront(s, e)) = Len(Without(s, e)) + 1
<1> DEFINE w == Without(s, e)
<1>1. /\ w \in Seq(Entities) /\ Distinct(w) /\ Members(w) = Members(s) \ {e}
  BY WithoutOK
<1> HIDE DEF w
<1>2. Distinct(<<e>> \o w) /\ Members(<<e>> \o w) = Members(w) \cup {e}
  BY <1>1, HeadedOK
<1>3. <<e>> \o w \in Seq(Entities) /\ Len(<<e>> \o w) = Len(w) + 1
  BY <1>1, Headed
<1>4. ToFront(s, e) = <<e>> \o w
  BY DEF ToFront, w
<1> QED  BY <1>1, <1>2, <1>3, <1>4 DEF w

\* l is what r begins with.
Leads(l, r) == Len(l) <= Len(r) /\ \A i \in 1..Len(l) : l[i] = r[i]

\* A distinct sequence has distinct beginnings.
LEMMA LeadsDistinct ==
    ASSUME NEW l \in Seq(Entities), NEW r \in Seq(Entities), Distinct(r), Leads(l, r)
    PROVE  Distinct(l)
<1>1. Len(l) \in Nat /\ Len(r) \in Nat /\ Len(l) <= Len(r)
  BY DEF Leads
<1>2. ASSUME NEW i \in 1..Len(l), NEW j \in 1..Len(l), l[i] = l[j] PROVE i = j
  <2>1. i \in 1..Len(r) /\ j \in 1..Len(r)
    BY <1>1
  <2>2. r[i] = r[j]
    BY <1>2 DEF Leads
  <2> QED  BY <2>1, <2>2 DEF Distinct
<1> QED  BY <1>2 DEF Distinct

\* Removing an entity from a distinct sequence and from its beginning.
LEMMA WithoutLeads ==
    ASSUME NEW l \in Seq(Entities), NEW r \in Seq(Entities), NEW e \in Entities,
           Distinct(r), Leads(l, r)
    PROVE  Leads(Without(l, e), Without(r, e))
<1>0. /\ Len(l) \in Nat /\ Len(r) \in Nat /\ Len(l) <= Len(r)
      /\ \A i \in 1..Len(l) : l[i] = r[i] /\ i \in 1..Len(r)
  BY DEF Leads
<1> DEFINE p == Position(l, e)
           q == Position(r, e)
           v == Without(l, e)
           w == Without(r, e)
<1>1. CASE e \in Members(l)
  <2>1. p \in 1..Len(l) /\ l[p] = e
    BY <1>1, PositionOf
  <2>2. e \in Members(r) /\ r[p] = e /\ p \in 1..Len(r)
    BY <1>0, <2>1 DEF Members
  <2>3. q \in 1..Len(r) /\ r[q] = e
    BY <2>2, PositionOf
  <2>4. q = p
    BY <2>2, <2>3 DEF Distinct
  <2>5. /\ Len(v) = Len(l) - 1
        /\ \A i \in 1..(Len(l) - 1) : v[i] = IF i < p THEN l[i] ELSE l[i + 1]
    BY <1>1, WithoutMember
  <2>6. /\ Len(w) = Len(r) - 1
        /\ \A i \in 1..(Len(r) - 1) : w[i] = IF i < q THEN r[i] ELSE r[i + 1]
    BY <2>2, WithoutMember
  <2> HIDE DEF p, q, v, w
  <2>7. ASSUME NEW i \in 1..Len(v) PROVE v[i] = w[i]
    <3>1. i \in 1..(Len(l) - 1) /\ i \in 1..(Len(r) - 1) /\ i \in 1..Len(l) /\ i + 1 \in 1..Len(l)
      BY <1>0, <2>5
    <3>2. l[i] = r[i] /\ l[i + 1] = r[i + 1]
      BY <1>0, <3>1
    <3> QED  BY <2>4, <2>5, <2>6, <3>1, <3>2
  <2>8. Len(v) <= Len(w)
    BY <1>0, <2>5, <2>6
  <2> QED  BY <2>7, <2>8 DEF Leads, v, w
<1>2. CASE e \notin Members(l) /\ e \notin Members(r)
  BY <1>2 DEF Without
<1>3. CASE e \notin Members(l) /\ e \in Members(r)
  <2>1. q \in 1..Len(r) /\ r[q] = e
    BY <1>3, PositionOf
  <2>2. q > Len(l)
    <3>1. q \notin 1..Len(l)
      <4> SUFFICES ASSUME q \in 1..Len(l) PROVE FALSE
        OBVIOUS
      <4>1. l[q] = e
        BY <1>0, <2>1
      <4> QED  BY <1>3, <4>1 DEF Members
    <3> HIDE DEF q
    <3> QED  BY <1>0, <2>1, <3>1
  <2>3. v = l
    BY <1>3 DEF Without
  <2>4. /\ Len(w) = Len(r) - 1
        /\ \A i \in 1..(Len(r) - 1) : w[i] = IF i < q THEN r[i] ELSE r[i + 1]
    BY <1>3, WithoutMember
  <2> HIDE DEF q, v, w
  <2>5. Len(l) <= Len(w)
    BY <1>0, <2>1, <2>2, <2>4
  <2>6. ASSUME NEW i \in 1..Len(l) PROVE l[i] = w[i]
    <3>1. i \in 1..(Len(r) - 1) /\ i < q
      BY <1>0, <2>1, <2>2
    <3> QED  BY <1>0, <2>4, <3>1
  <2> QED  BY <2>3, <2>5, <2>6 DEF Leads, v, w
<1> QED  BY <1>1, <1>2, <1>3

\* Putting e before a sequence and before its beginning.
LEMMA HeadedLeads ==
    ASSUME NEW l \in Seq(Entities), NEW r \in Seq(Entities), NEW e \in Entities, Leads(l, r)
    PROVE  Leads(<<e>> \o l, <<e>> \o r)
<1> DEFINE f == <<e>> \o l
           g == <<e>> \o r
<1>0. /\ Len(l) \in Nat /\ Len(r) \in Nat /\ Len(l) <= Len(r)
      /\ \A i \in 1..Len(l) : l[i] = r[i]
  BY DEF Leads
<1>1. /\ Len(f) = Len(l) + 1 /\ f[1] = e
      /\ \A i \in 2..(Len(l) + 1) : f[i] = l[i - 1]
  BY Headed
<1>2. /\ Len(g) = Len(r) + 1 /\ g[1] = e
      /\ \A i \in 2..(Len(r) + 1) : g[i] = r[i - 1]
  BY Headed
<1> HIDE DEF f, g
<1>3. ASSUME NEW i \in 1..Len(f) PROVE f[i] = g[i]
  <2>1. CASE i = 1
    BY <1>1, <1>2, <2>1
  <2>2. CASE i # 1
    <3>1. i \in 2..(Len(l) + 1) /\ i \in 2..(Len(r) + 1) /\ i - 1 \in 1..Len(l)
      BY <1>0, <1>1, <2>2
    <3> QED  BY <1>0, <1>1, <1>2, <3>1
  <2> QED  BY <2>1, <2>2
<1>4. Leads(f, g)
  BY <1>0, <1>1, <1>2, <1>3 DEF Leads
<1> QED  BY <1>4 DEF f, g

\* What the invariant says of the list, point by point.
LEMMA LRULeads ==
    ASSUME LRUInv
    PROVE  /\ lru \in Seq(Entities) /\ recency \in Seq(Entities)
           /\ Distinct(recency) /\ Distinct(lru) /\ Leads(lru, recency)
           /\ Len(lru) <= Bound /\ Members(lru) = {e \in Entities : resident[e] # None}
<1>1. /\ lru \in Seq(Entities) /\ recency \in Seq(Entities) /\ Distinct(recency) /\ Distinct(lru)
      /\ Len(lru) <= Len(recency) /\ lru = SubSeq(recency, 1, Len(lru))
      /\ Len(lru) <= Bound /\ Members(lru) = {e \in Entities : resident[e] # None}
  BY DEF LRUInv, ResidencyIsLRU
<1>2. PICK n \in Nat : n = Len(lru)
  <2>1. Len(lru) \in Nat
    BY <1>1, LenProperties
  <2> QED  BY <2>1
<1>3. \A i \in 1..n : recency[i] \in Entities
  BY <1>1, <1>2
<1>4. \A i \in 1..(n - 1 + 1) : SubSeq(recency, 1, n)[i] = recency[1 + i - 1]
  <2>1. 1 \in Int /\ n \in Int
    OBVIOUS
  <2> QED  BY <1>3, <2>1, SubSeqProperties
<1>5. \A i \in 1..n : lru[i] = recency[i]
  BY <1>1, <1>2, <1>4
<1> QED  BY <1>1, <1>2, <1>5 DEF Leads

\* The converse: a beginning of recency is a SubSeq of it.
LEMMA LeadsIsSubSeq ==
    ASSUME NEW l \in Seq(Entities), NEW r \in Seq(Entities), Leads(l, r)
    PROVE  l = SubSeq(r, 1, Len(l))
<1>1. PICK n \in Nat : n = Len(l)
  OBVIOUS
<1>2. n <= Len(r) /\ \A i \in 1..n : l[i] = r[i] /\ r[i] \in Entities
  BY <1>1 DEF Leads
<1>3. /\ SubSeq(r, 1, n) \in Seq(Entities)
      /\ Len(SubSeq(r, 1, n)) = (IF 1 <= n THEN n - 1 + 1 ELSE 0)
      /\ \A i \in 1..(n - 1 + 1) : SubSeq(r, 1, n)[i] = r[1 + i - 1]
  <2>1. 1 \in Int /\ n \in Int
    OBVIOUS
  <2> QED  BY <1>2, <2>1, SubSeqProperties
<1>4. Len(SubSeq(r, 1, n)) = n /\ \A i \in 1..n : SubSeq(r, 1, n)[i] = l[i]
  BY <1>2, <1>3
<1>5. l = SubSeq(r, 1, n)
  BY <1>1, <1>3, <1>4, SeqEqual
<1> QED  BY <1>1, <1>5

\* MoveToFront and insert: the list stays within the bound, begins recency, and
\* gains no entity but e.
LEMMA TouchedOK ==
    ASSUME LRUInv, NEW e \in Entities
    PROVE  /\ Touched(e) \in Seq(Entities) /\ Len(Touched(e)) <= Bound
           /\ Leads(Touched(e), ToFront(recency, e))
           /\ e \in Members(Touched(e)) /\ Members(Touched(e)) \subseteq Members(lru) \cup {e}
<1>0. /\ lru \in Seq(Entities) /\ recency \in Seq(Entities)
      /\ Distinct(recency) /\ Distinct(lru) /\ Leads(lru, recency)
      /\ Len(lru) <= Bound /\ Members(lru) = {x \in Entities : resident[x] # None}
      /\ Len(lru) \in Nat /\ Bound \in Nat /\ Bound > 0
  BY LRULeads, BoundPositive
<1>1. /\ Without(recency, e) \in Seq(Entities) /\ ToFront(recency, e) = <<e>> \o Without(recency, e)
  BY <1>0, WithoutOK DEF ToFront
<1>2. CASE resident[e] # None \/ Len(lru) < Bound
  <2>1. Touched(e) = ToFront(lru, e) /\ ToFront(lru, e) = <<e>> \o Without(lru, e)
    BY <1>2 DEF Touched, ToFront
  <2>2. /\ ToFront(lru, e) \in Seq(Entities) /\ Members(ToFront(lru, e)) = Members(lru) \cup {e}
        /\ Len(ToFront(lru, e)) = Len(Without(lru, e)) + 1
        /\ Without(lru, e) \in Seq(Entities) /\ Len(Without(lru, e)) <= Len(lru)
    BY <1>0, ToFrontOK, WithoutOK
  <2>3. Leads(Without(lru, e), Without(recency, e))
    BY <1>0, WithoutLeads
  <2>4. Leads(ToFront(lru, e), ToFront(recency, e))
    BY <1>1, <2>1, <2>2, <2>3, HeadedLeads
  <2>5. Len(ToFront(lru, e)) <= Bound
    <3>1. CASE resident[e] # None
      <4>1. e \in Members(lru)
        BY <1>0, <3>1
      <4>2. Len(Without(lru, e)) = Len(lru) - 1
        BY <1>0, <4>1, WithoutMember
      <4> QED  BY <1>0, <2>2, <4>2
    <3>2. CASE Len(lru) < Bound
      <4>1. Len(Without(lru, e)) \in Nat
        BY <2>2
      <4> QED  BY <1>0, <2>2, <3>2, <4>1
    <3> QED  BY <1>2, <3>1, <3>2
  <2> QED  BY <2>1, <2>2, <2>4, <2>5
<1>3. CASE ~(resident[e] # None \/ Len(lru) < Bound)
  <2> DEFINE c == SubSeq(lru, 1, Bound - 1)
  <2>1. Touched(e) = <<e>> \o c
    BY <1>3 DEF Touched
  <2>2. Len(lru) = Bound /\ e \notin Members(lru)
    BY <1>0, <1>3
  <2>3. \A i \in 1..(Bound - 1) : lru[i] \in Entities /\ lru[i] \in Members(lru)
    <3>1. \A i \in 1..(Bound - 1) : i \in 1..Len(lru)
      BY <1>0, <2>2
    <3> QED  BY <1>0, <3>1 DEF Members
  <2>4. /\ c \in Seq(Entities) /\ Len(c) = (IF 1 <= Bound - 1 THEN Bound - 1 - 1 + 1 ELSE 0)
        /\ \A i \in 1..(Bound - 1 - 1 + 1) : c[i] = lru[1 + i - 1]
    <3>1. 1 \in Int /\ Bound - 1 \in Int
      BY <1>0
    <3> QED  BY <2>3, <3>1, SubSeqProperties
  <2> HIDE DEF c
  <2>5. /\ c \in Seq(Entities) /\ Len(c) = Bound - 1
        /\ \A i \in 1..(Bound - 1) : c[i] = lru[i]
    BY <1>0, <2>4
  <2>6. Leads(c, recency)
    <3>1. Len(lru) <= Len(recency) /\ \A i \in 1..Len(lru) : lru[i] = recency[i]
      BY <1>0 DEF Leads
    <3>2. Len(recency) \in Nat
      BY <1>0
    <3>3. Bound - 1 <= Len(recency) /\ \A i \in 1..(Bound - 1) : i \in 1..Len(lru)
      BY <1>0, <2>2, <3>1, <3>2
    <3> QED  BY <2>5, <3>1, <3>3 DEF Leads
  <2>7. Members(c) \subseteq Members(lru)
    BY <2>3, <2>5 DEF Members
  <2>8. e \notin Members(c) /\ Without(c, e) = c
    BY <2>2, <2>7 DEF Without
  <2>9. Leads(c, Without(recency, e))
    BY <1>0, <2>5, <2>6, <2>8, WithoutLeads
  <2>10. Leads(<<e>> \o c, ToFront(recency, e))
    BY <1>1, <2>5, <2>9, HeadedLeads
  <2>11. Distinct(c)
    BY <1>0, <2>5, <2>6, LeadsDistinct
  <2>12. Members(<<e>> \o c) = Members(c) \cup {e}
    BY <2>5, <2>8, <2>11, HeadedOK
  <2>13. <<e>> \o c \in Seq(Entities) /\ Len(<<e>> \o c) = Bound
    <3>1. <<e>> \o c \in Seq(Entities) /\ Len(<<e>> \o c) = Len(c) + 1
      BY <2>5, Headed
    <3> QED  BY <1>0, <2>5, <3>1
  <2> QED  BY <1>0, <2>1, <2>7, <2>10, <2>12, <2>13
<1> QED  BY <1>2, <1>3

\* A step after which the list begins recency and has what is resident.
LEMMA LRUFrom ==
    ASSUME lru' \in Seq(Entities), recency' \in Seq(Entities), Distinct(recency'),
           Leads(lru', recency'), Len(lru') <= Bound,
           Members(lru') = {e \in Entities : resident'[e] # None}
    PROVE  LRUInv'
<1>1. Distinct(lru') /\ lru' = SubSeq(recency', 1, Len(lru'))
  BY LeadsDistinct, LeadsIsSubSeq
<1>2. Len(lru') <= Len(recency')
  BY DEF Leads
<1> QED  BY <1>1, <1>2 DEF LRUInv, ResidencyIsLRU, Distinct, Members

\* An operation that makes e resident preserves the invariant of residency.
LEMMA ResidesLRU ==
    ASSUME LRUInv, NEW e \in Entities, NEW st \in State, Resides(e, st)
    PROVE  LRUInv'
<1>0. /\ lru' = Touched(e) /\ recency' = ToFront(recency, e)
      /\ resident' = [x \in Entities |->
            IF x = e THEN st ELSE IF x \in Members(lru') THEN resident[x] ELSE None]
  BY DEF Resides
<1>1. /\ lru' \in Seq(Entities) /\ Len(lru') <= Bound /\ Leads(lru', recency')
      /\ e \in Members(lru') /\ Members(lru') \subseteq Members(lru) \cup {e}
  BY <1>0, TouchedOK
<1>2. recency' \in Seq(Entities) /\ Distinct(recency')
  BY <1>0, LRULeads, ToFrontOK
<1>3. Members(lru) = {x \in Entities : resident[x] # None}
  BY LRULeads
<1>4. st # None
  BY NoneIsNoState
<1>5. \A x \in Entities : resident'[x] # None <=> x \in Members(lru')
  BY <1>0, <1>1, <1>3, <1>4
<1>6. Members(lru') = {x \in Entities : resident'[x] # None}
  BY <1>1, <1>3, <1>5
<1> QED  BY <1>1, <1>2, <1>6, LRUFrom

\* Every step preserves the invariant of residency.
LEMMA LRUNext == IInv /\ LRUInv /\ [Next]_vars => LRUInv'
<1> SUFFICES ASSUME IInv, LRUInv, [Next]_vars PROVE LRUInv'
  OBVIOUS
<1>1. ASSUME NEW e \in Entities, Get(e) PROVE LRUInv'
  BY <1>1, CurrentIsSound, ResidesLRU DEF Get
<1>2. ASSUME NEW e \in Entities, UpdateOK(e) PROVE LRUInv'
  <2>1. PICK next \in State : Resides(e, next)
    BY <1>2, CurrentIsSound, NextIsState DEF UpdateOK
  <2> QED  BY <2>1, ResidesLRU
<1>3. ASSUME NEW e \in Entities, UpdateFails(e) PROVE LRUInv'
  <2>1. Current(e) \in State /\ [Current(e) EXCEPT !.ids = @ \cup {calls + 1}] \in State
    BY <1>3, CurrentIsSound, NextIsState DEF UpdateFails
  <2>2. PICK next \in State : Resides(e, next)
    BY <1>3, <2>1 DEF UpdateFails
  <2> QED  BY <2>2, ResidesLRU
<1>4. ASSUME NEW e \in Entities, DeleteOK(e) PROVE LRUInv'
  <2>0. /\ lru \in Seq(Entities) /\ recency \in Seq(Entities)
        /\ Distinct(recency) /\ Distinct(lru) /\ Leads(lru, recency)
        /\ Len(lru) <= Bound /\ Members(lru) = {x \in Entities : resident[x] # None}
    BY LRULeads
  <2>1. /\ lru' = Without(lru, e) /\ recency' = Without(recency, e)
        /\ resident' = [resident EXCEPT ![e] = None]
    BY <1>4 DEF DeleteOK
  <2>2. /\ lru' \in Seq(Entities) /\ Members(lru') = Members(lru) \ {e} /\ Len(lru') <= Len(lru)
    BY <2>0, <2>1, WithoutOK
  <2>3. recency' \in Seq(Entities) /\ Distinct(recency')
    BY <2>0, <2>1, WithoutOK
  <2>4. Leads(lru', recency')
    BY <2>0, <2>1, WithoutLeads
  <2>5. Len(lru') <= Bound
    <3>1. Len(lru') \in Nat /\ Len(lru) \in Nat /\ Bound \in Nat
      BY <2>0, <2>2, BoundPositive
    <3> QED  BY <2>0, <2>2, <3>1
  <2>6. Members(lru') = {x \in Entities : resident'[x] # None}
    BY <2>0, <2>1, <2>2 DEF IInv, DataOK
  <2> QED  BY <2>2, <2>3, <2>4, <2>5, <2>6, LRUFrom
<1>5. CASE Crash
  <2>1. /\ lru' = <<>> /\ recency' = <<>> /\ resident' = [e \in Entities |-> None]
    BY <1>5 DEF Crash
  <2>2. Len(lru') = 0 /\ lru' \in Seq(Entities) /\ recency' \in Seq(Entities) /\ Len(recency') = 0
    BY <2>1
  <2>3. Members(lru') = {} /\ Distinct(recency') /\ Leads(lru', recency') /\ Len(lru') <= Bound
    BY <2>2, BoundPositive DEF Members, Distinct, Leads
  <2> QED  BY <2>1, <2>2, <2>3, LRUFrom
<1>6. CASE UNCHANGED <<resident, lru, recency>>
  BY <1>6 DEF LRUInv, ResidencyIsLRU, Distinct, Members
<1> QED
  BY <1>1, <1>2, <1>3, <1>4, <1>5, <1>6 DEF Next, ReadFails, DeleteFails, Tick, vars

\* Both invariants hold throughout.
THEOREM ResidencyInvariant == Spec => []LRUInv
<1>1. Init => LRUInv
  <2> SUFFICES ASSUME Init PROVE LRUInv
    OBVIOUS
  <2>1. lru = <<>> /\ recency = <<>> /\ resident = [e \in Entities |-> None]
    BY DEF Init
  <2>2. Len(lru) = 0 /\ lru \in Seq(Entities) /\ recency \in Seq(Entities) /\ Len(recency) = 0
    BY <2>1
  <2>3. lru = SubSeq(recency, 1, Len(lru))
    <3>1. SubSeq(recency, 1, 0) = <<>>
      BY SubSeqEmpty
    <3> QED  BY <2>1, <2>2, <3>1
  <2>4. Members(lru) = {} /\ Distinct(recency) /\ Distinct(lru) /\ Len(lru) <= Bound
    BY <2>2, BoundPositive DEF Members, Distinct
  <2> QED  BY <2>1, <2>2, <2>3, <2>4 DEF LRUInv, ResidencyIsLRU
<1> QED  BY <1>1, LRUNext, StoreInvariant, PTL DEF Spec

\* For every bound and every order of hits, misses, evictions, deletes, failures
\* and restarts, residency stays within the bound, the map and the list agree,
\* and what is resident is what was used last.
THEOREM StoreResidencyIsLRU == Spec => []ResidencyIsLRU
<1>1. LRUInv => ResidencyIsLRU
  BY DEF LRUInv
<1> QED  BY <1>1, ResidencyInvariant, PTL

\* store.go:152-153, for states that are values: an Update that fails leaves the
\* resident state at the value fn was given.
THEOREM StoreFailedUpdateKeepsResident ==
    RefState = FALSE => (Spec => FailedUpdateKeepsResident)
<1> SUFFICES ASSUME RefState = FALSE PROVE Spec => FailedUpdateKeepsResident
  OBVIOUS
<1> DEFINE Keeps == \A e \in Entities :
        calls' > calls /\ limbo'[e] \ limbo[e] # {} => resident'[e] = Current(e)
<1>1. IInv /\ [Next]_vars => [Keeps]_vars
  <2> SUFFICES ASSUME IInv, Next PROVE Keeps
    BY Zenon
  <2>0. limbo \in [Entities -> SUBSET Updates] /\ calls \in Int
    BY DEF IInv, DataOK
  <2>1. ASSUME NEW e \in Entities, UpdateOK(e) PROVE Keeps
    BY <2>0, <2>1 DEF UpdateOK
  <2>2. ASSUME NEW e \in Entities, UpdateFails(e) PROVE Keeps
    <3>1. limbo' = [limbo EXCEPT ![e] = @ \cup {calls + 1}]
      BY <2>2 DEF UpdateFails
    <3>2. resident'[e] = Current(e)
      BY <2>2 DEF UpdateFails, Resides
    <3> QED  BY <2>0, <3>1, <3>2
  <2>3. CASE calls' = calls
    BY <2>0, <2>3
  <2>4. \/ \E e \in Entities : UpdateOK(e) \/ UpdateFails(e)
        \/ calls' = calls
    BY DEF Next, Get, ReadFails, DeleteOK, DeleteFails, Crash, Tick, vars
  <2> QED  BY <2>1, <2>2, <2>3, <2>4
<1> QED  BY <1>1, StoreInvariant, PTL DEF Spec, FailedUpdateKeepsResident
=============================================================================
