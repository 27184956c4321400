--------------------------- MODULE StateRegistry ---------------------------
(***************************************************************************)
(* registry.go: the slots of one declared StateShape, shared without a     *)
(* global lock by every awareness and thinking goroutine of an imp.        *)
(*                                                                         *)
(* registry.ref is one step per atomic operation (sync.Map Load and        *)
(* LoadOrStore, the atomic counter's Load, CompareAndSwap and Add); the    *)
(* slot operations are one step per access to the value under the slot's   *)
(* mutex.  Shapes share nothing, so one shape stands for each of them.     *)
(***************************************************************************)
EXTENDS Integers, FiniteSets

CONSTANTS
    Procs,           \* goroutines that hold an awareness or thinking context
    Entities,        \* entities their messages are about
    Cap,             \* StateShape.Cap (validate.go requires it to be positive)
    None,            \* "no slot"
    FactoryMayPanic  \* whether StateShape.Factory, which is user code, may panic

\* A goroutine builds at most one slot per entity (a slot it stored, or found
\* stored, is never removed), so the pair identifies the *slot it allocates.
Slot == Procs \X Entities

ASSUME ProcsFinite == IsFiniteSet(Procs)
ASSUME EntitiesFinite == IsFiniteSet(Entities)
ASSUME CapPositive == Cap \in Nat \ {0}
ASSUME NoneIsNoSlot == None \notin Slot
ASSUME NoneIsNoState == \A S \in SUBSET Procs : None # S
ASSUME NoneIsNoProc == None \notin Procs
ASSUME PanicFlag == FactoryMayPanic \in BOOLEAN

VARIABLES
    pc,      \* where each goroutine is
    ent,     \* the entity of its latest State call
    cur,     \* the counter value its CAS expects
    ref,     \* the slot its StateRef points to, None without one
    tmp,     \* the value Update's fn was called with
    err,     \* the error its latest State call returned
    count,   \* shape.count
    slots,   \* shape.slots: entity -> slot or None
    val,     \* slot.val: the goroutines whose update the value holds
    owner,   \* slot.mu: the goroutine holding it, or None
    lost     \* reservations abandoned by a panicking factory (history variable)

vars == <<pc, ent, cur, ref, tmp, err, count, slots, val, owner, lost>>

InRef   == {"load", "count", "cas", "factory", "store", "giveback"}
Reserved == {"factory", "store", "giveback"}
PCs     == {"idle", "ref", "update"} \cup InRef

Allocated == {e \in Entities : slots[e] # None}
Reserving == {p \in Procs : pc[p] \in Reserved}

Init ==
    /\ pc = [p \in Procs |-> "idle"]
    /\ ent \in [Procs -> Entities]
    /\ cur = [p \in Procs |-> 0]
    /\ ref = [p \in Procs |-> None]
    /\ tmp = [p \in Procs |-> {}]
    /\ err = [p \in Procs |-> "nil"]
    /\ count = 0
    /\ slots = [e \in Entities |-> None]
    /\ val = [s \in Slot |-> {}]
    /\ owner = [s \in Slot |-> None]
    /\ lost = 0

Goto(p, l) == pc' = [pc EXCEPT ![p] = l]
Return(p, x) == err' = [err EXCEPT ![p] = x]

-----------------------------------------------------------------------------
(* registry.ref *)

\* ref(name, e) with a declared name.
Call(p, e) ==
    /\ pc[p] = "idle"
    /\ Goto(p, "load")
    /\ Return(p, "nil")
    /\ ent' = [ent EXCEPT ![p] = e]
    /\ UNCHANGED <<cur, ref, tmp, count, slots, val, owner, lost>>

\* ref(name, e) with an undeclared name: ErrUnknownStateShape.
CallUnknown(p) ==
    /\ pc[p] = "idle"
    /\ Return(p, "unknown")
    /\ UNCHANGED <<pc, ent, cur, ref, tmp, count, slots, val, owner, lost>>

\* sh.slots.Load
Load(p) ==
    /\ pc[p] = "load"
    /\ \/ /\ slots[ent[p]] # None
          /\ Goto(p, "ref")
          /\ ref' = [ref EXCEPT ![p] = slots[ent[p]]]
       \/ /\ slots[ent[p]] = None
          /\ Goto(p, "count")
          /\ UNCHANGED ref
    /\ UNCHANGED <<ent, cur, tmp, err, count, slots, val, owner, lost>>

\* Mutant: the cap check lets one reservation too many through.
LoadCount_OffByOne(p) ==
    /\ pc[p] = "count"
    /\ count <= Cap
    /\ Goto(p, "cas")
    /\ cur' = [cur EXCEPT ![p] = count]
    /\ UNCHANGED <<ent, ref, tmp, err, count, slots, val, owner, lost>>

\* sh.count.Load below the cap.
LoadCount(p) ==
    /\ pc[p] = "count"
    /\ count < Cap
    /\ Goto(p, "cas")
    /\ cur' = [cur EXCEPT ![p] = count]
    /\ UNCHANGED <<ent, ref, tmp, err, count, slots, val, owner, lost>>

\* Mutant: a call that finds the count at the cap retries instead of failing.
CapExceeded_Retries(p) ==
    /\ pc[p] = "count"
    /\ count >= Cap
    /\ Goto(p, "load")
    /\ UNCHANGED <<ent, cur, ref, tmp, err, count, slots, val, owner, lost>>

\* sh.count.Load at the cap: ErrCapExceeded.
CapExceeded(p) ==
    /\ pc[p] = "count"
    /\ count >= Cap
    /\ Goto(p, "idle")
    /\ Return(p, "cap")
    /\ UNCHANGED <<ent, cur, ref, tmp, count, slots, val, owner, lost>>

\* sh.count.CompareAndSwap: reserve a unit of the cap, or go round again.
CompareAndSwap(p) ==
    /\ pc[p] = "cas"
    /\ \/ /\ count = cur[p]
          /\ count' = count + 1
          /\ Goto(p, "factory")
       \/ /\ count # cur[p]
          /\ Goto(p, "count")
          /\ UNCHANGED count
    /\ cur' = [cur EXCEPT ![p] = 0]
    /\ UNCHANGED <<ent, ref, tmp, err, slots, val, owner, lost>>

\* fresh := &slot{val: sh.factory()}
Factory(p) ==
    /\ pc[p] = "factory"
    /\ Goto(p, "store")
    /\ UNCHANGED <<ent, cur, ref, tmp, err, count, slots, val, owner, lost>>

\* The factory panics.  safeAwareness or launchThinking recovers, so the
\* process lives on, but nothing gives the reservation back.
FactoryPanics(p) ==
    /\ FactoryMayPanic
    /\ pc[p] = "factory"
    /\ Goto(p, "idle")
    /\ lost' = lost + 1
    /\ UNCHANGED <<ent, cur, ref, tmp, err, count, slots, val, owner>>

\* Mutant: Store instead of LoadOrStore, so the last writer replaces the slot.
LoadOrStore_Overwrites(p) ==
    /\ pc[p] = "store"
    /\ slots' = [slots EXCEPT ![ent[p]] = <<p, ent[p]>>]
    /\ ref' = [ref EXCEPT ![p] = <<p, ent[p]>>]
    /\ Goto(p, IF slots[ent[p]] = None THEN "ref" ELSE "giveback")
    /\ UNCHANGED <<ent, cur, tmp, err, count, val, owner, lost>>

\* Mutant: the loser of the race forgets to give its reservation back.
LoadOrStore_KeepsReservation(p) ==
    /\ pc[p] = "store"
    /\ slots' = [slots EXCEPT ![ent[p]] = IF @ = None THEN <<p, ent[p]>> ELSE @]
    /\ ref' = [ref EXCEPT ![p] = slots'[ent[p]]]
    /\ Goto(p, "ref")
    /\ UNCHANGED <<ent, cur, tmp, err, count, val, owner, lost>>

\* sh.slots.LoadOrStore: the first to store wins; the loser adopts the slot
\* it finds and must still give its reservation back.
LoadOrStore(p) ==
    /\ pc[p] = "store"
    /\ \/ /\ slots[ent[p]] = None
          /\ slots' = [slots EXCEPT ![ent[p]] = <<p, ent[p]>>]
          /\ ref' = [ref EXCEPT ![p] = <<p, ent[p]>>]
          /\ Goto(p, "ref")
       \/ /\ slots[ent[p]] # None
          /\ ref' = [ref EXCEPT ![p] = slots[ent[p]]]
          /\ Goto(p, "giveback")
          /\ UNCHANGED slots
    /\ UNCHANGED <<ent, cur, tmp, err, count, val, owner, lost>>

\* sh.count.Add(-1)
GiveBack(p) ==
    /\ pc[p] = "giveback"
    /\ count' = count - 1
    /\ Goto(p, "ref")
    /\ UNCHANGED <<ent, cur, ref, tmp, err, slots, val, owner, lost>>

-----------------------------------------------------------------------------
(* stateRef: Get, Set and Update under the slot's mutex *)

\* Get acquires and releases the mutex around one read; the caller may do
\* anything with the value, the registry is as it was.
Get(p) ==
    /\ pc[p] = "ref"
    /\ owner[ref[p]] = None
    /\ UNCHANGED vars

\* Set acquires and releases the mutex around one write; the new value holds
\* no update.
Set(p) ==
    /\ pc[p] = "ref"
    /\ owner[ref[p]] = None
    /\ val' = [val EXCEPT ![ref[p]] = {}]
    /\ UNCHANGED <<pc, ent, cur, ref, tmp, err, count, slots, owner, lost>>

\* Mutant: Update does not wait for the mutex.
UpdateBegin_Unlocked(p) ==
    /\ pc[p] = "ref"
    /\ owner' = [owner EXCEPT ![ref[p]] = p]
    /\ tmp' = [tmp EXCEPT ![p] = val[ref[p]]]
    /\ Goto(p, "update")
    /\ UNCHANGED <<ent, cur, ref, err, count, slots, val, lost>>

\* Update takes the mutex and calls fn with the current value ...
UpdateBegin(p) ==
    /\ pc[p] = "ref"
    /\ owner[ref[p]] = None
    /\ owner' = [owner EXCEPT ![ref[p]] = p]
    /\ tmp' = [tmp EXCEPT ![p] = val[ref[p]]]
    /\ Goto(p, "update")
    /\ UNCHANGED <<ent, cur, ref, err, count, slots, val, lost>>

\* ... and stores what fn returns: the value it was given, with its own change.
UpdateEnd(p) ==
    /\ pc[p] = "update"
    /\ val' = [val EXCEPT ![ref[p]] = tmp[p] \cup {p}]
    /\ owner' = [owner EXCEPT ![ref[p]] = None]
    /\ tmp' = [tmp EXCEPT ![p] = {}]
    /\ Goto(p, "ref")
    /\ UNCHANGED <<ent, cur, ref, err, count, slots, lost>>

\* Mutant: the Unlock is not deferred, so a panic in fn skips it.
UpdatePanics_KeepsLock(p) ==
    /\ pc[p] = "update"
    /\ Goto(p, "idle")
    /\ ref' = [ref EXCEPT ![p] = None]
    /\ tmp' = [tmp EXCEPT ![p] = {}]
    /\ UNCHANGED <<ent, cur, err, count, slots, val, owner, lost>>

\* fn panics: the deferred Unlock runs, the value is untouched, and the panic
\* ends the handler that called Update.
UpdatePanics(p) ==
    /\ pc[p] = "update"
    /\ owner' = [owner EXCEPT ![ref[p]] = None]
    /\ Goto(p, "idle")
    /\ ref' = [ref EXCEPT ![p] = None]
    /\ tmp' = [tmp EXCEPT ![p] = {}]
    /\ UNCHANGED <<ent, cur, err, count, slots, val, lost>>

\* The handler is done with its StateRef.
Release(p) ==
    /\ pc[p] = "ref"
    /\ Goto(p, "idle")
    /\ ref' = [ref EXCEPT ![p] = None]
    /\ UNCHANGED <<ent, cur, tmp, err, count, slots, val, owner, lost>>

-----------------------------------------------------------------------------
RefStep(p) ==
    \/ Load(p) \/ LoadCount(p) \/ CapExceeded(p) \/ CompareAndSwap(p)
    \/ Factory(p) \/ FactoryPanics(p) \/ LoadOrStore(p) \/ GiveBack(p)

SlotStep(p) ==
    Get(p) \/ Set(p) \/ UpdateBegin(p) \/ UpdateEnd(p) \/ UpdatePanics(p) \/ Release(p)

Next == \E p \in Procs :
    \/ \E e \in Entities : Call(p, e)
    \/ CallUnknown(p)
    \/ RefStep(p)
    \/ SlotStep(p)

Spec == Init /\ [][Next]_vars

\* The scheduler runs every goroutine that is inside ref, and fn returns.
Fairness == \A p \in Procs :
    WF_vars(RefStep(p)) /\ WF_vars(UpdateEnd(p) \/ UpdatePanics(p))

FairSpec == Spec /\ Fairness

-----------------------------------------------------------------------------
(* Properties *)

\* Every variable of the registry keeps its type.
TypeOK ==
    /\ pc \in [Procs -> PCs]
    /\ ent \in [Procs -> Entities]
    /\ cur \in [Procs -> Nat]
    /\ ref \in [Procs -> Slot \cup {None}]
    /\ tmp \in [Procs -> SUBSET Procs]
    /\ err \in [Procs -> {"nil", "unknown", "cap"}]
    /\ count \in Nat
    /\ slots \in [Entities -> Slot \cup {None}]
    /\ val \in [Slot -> SUBSET Procs]
    /\ owner \in [Slot -> Procs \cup {None}]
    /\ lost \in Nat

\* The cap of the shape bounds the slots ref allocates however the
\* reservations of concurrent calls interleave.
CapRespected == Cardinality(Allocated) <= Cap

\* The counter ref reserves from never drifts: it is the number of stored
\* slots, plus the reservations of calls still between their CAS and their
\* store or give-back, plus those a panicking factory abandoned.
CountAccounts ==
    count = Cardinality(Allocated) + Cardinality(Reserving) + lost

\* Two goroutines that hold a StateRef for one entity hold the same slot, the
\* one in the map, whoever won the LoadOrStore race: a loser never keeps the
\* slot it built.
OneSlotPerEntity ==
    \A p \in Procs : pc[p] \in {"ref", "update", "giveback"} =>
        /\ ref[p] \in Slot
        /\ ref[p] = slots[ent[p]]

\* A slot's mutex is held exactly by the goroutine inside Update on that slot,
\* so a panic in fn cannot leave an entity locked for ever.
LockHeldOnlyInUpdate ==
    \A s \in Slot, p \in Procs :
        owner[s] = p <=> (pc[p] = "update" /\ ref[p] = s)

\* No update of a slot is ever lost: only a Set, at a moment when nobody is
\* inside Update, replaces the value; any other step, a panic of fn included,
\* at most adds to what earlier Updates left there.
NoLostUpdate ==
    [][\A s \in Slot :
          val[s] \subseteq val'[s] \/ (owner[s] = None /\ val'[s] = {} /\ UNCHANGED pc)]_vars

\* registry.ref returns whatever the other goroutines do: its CAS loop cannot
\* starve, since a slot is never evicted and so only finitely many
\* reservations can ever beat it.
EveryCallReturns ==
    \A p \in Procs : pc[p] \in InRef ~> pc[p] \notin InRef

\* The generous reading of the comment of ErrCapExceeded (state.go:26-29) and
\* of data-model.md:88, "when the entity count for Name already equals Cap":
\* when a call is refused, at least Cap distinct entities have a slot or are
\* being given one.
CapErrorGenuine ==
    [][\A p \in Procs : err'[p] = "cap" /\ err[p] # "cap" =>
          Cardinality(Allocated \cup {ent[q] : q \in Reserving}) >= Cap]_vars

\* The same sentence for a call that meets no concurrent allocation: it is
\* refused only when the shape really holds as many slots as its cap.
SoloRefusalGenuine ==
    [][\A p \in Procs : err'[p] = "cap" /\ err[p] # "cap" /\ Reserving = {} =>
          Cardinality(Allocated) = Cap]_vars

-----------------------------------------------------------------------------
\* The registry implements the capped map of CappedSlots: the state of an
\* entity is the value of its slot, Update and Set take effect at their write,
\* and ErrCapExceeded needs the whole cap to be taken.
Abs == INSTANCE CappedSlots WITH
    state   <- [e \in Entities |-> IF slots[e] = None THEN None ELSE val[slots[e]]],
    pending <- Cardinality(Reserving),
    refused <- {p \in Procs : err[p] = "cap"}

\* registry.ref and the StateRef operations refine the atomic capped map.
ImplementsCappedSlots == Abs!Spec
=============================================================================
