------------------------ MODULE StateRegistryProofs ------------------------
(***************************************************************************)
(* Proofs about StateRegistry for every finite set of goroutines and of    *)
(* entities and every cap.                                                 *)
(***************************************************************************)
EXTENDS StateRegistry, FiniteSetTheorems, TLAPS

-----------------------------------------------------------------------------
(* What makes the properties inductive *)

CountWithinCap == count <= Cap

\* ref attempts its CAS only from a count it saw below the cap.
CasBelowCap == \A p \in Procs : pc[p] = "cas" => cur[p] < Cap

\* A slot in the map was built for the entity it is stored under.
SlotsMatchEntities ==
    \A e \in Entities : slots[e] # None => slots[e] \in Procs \X {e}

\* A slot that is not in the map still has the value its factory produced.
FreshSlotsEmpty ==
    \A p \in Procs, e \in Entities : slots[e] # <<p, e>> => val[<<p, e>>] = {}

\* While fn runs, the value it was called with is still the slot's value.
UpdateSeesCurrent ==
    \A p \in Procs : pc[p] = "update" => tmp[p] = val[ref[p]]

IInv ==
    /\ TypeOK
    /\ CountAccounts
    /\ CountWithinCap
    /\ CasBelowCap
    /\ SlotsMatchEntities
    /\ OneSlotPerEntity
    /\ LockHeldOnlyInUpdate
    /\ UpdateSeesCurrent
    /\ FreshSlotsEmpty

-----------------------------------------------------------------------------
\* The sets the counter accounts for are finite, so their cardinalities are
\* natural numbers.
LEMMA CountedSetsFinite ==
    /\ IsFiniteSet(Allocated)
    /\ IsFiniteSet(Reserving)
    /\ Cardinality(Allocated) \in Nat
    /\ Cardinality(Reserving) \in Nat
<1>1. Allocated \in SUBSET Entities /\ Reserving \in SUBSET Procs
  BY DEF Allocated, Reserving
<1>2. IsFiniteSet(Allocated) /\ IsFiniteSet(Reserving)
  BY <1>1, ProcsFinite, EntitiesFinite, FS_Subset
<1> QED  BY <1>2, FS_CardinalityType

\* The initial states satisfy the inductive invariant.
LEMMA InitIInv == Init => IInv
<1> SUFFICES ASSUME Init PROVE IInv
  OBVIOUS
<1> USE DEF Init
<1>1. Allocated = {} /\ Reserving = {}
  BY DEF Allocated, Reserving, Reserved
<1>2. CountAccounts
  BY <1>1, FS_EmptySet DEF CountAccounts
<1>3. TypeOK
  BY DEF TypeOK, PCs
<1>4. LockHeldOnlyInUpdate
  BY NoneIsNoProc DEF LockHeldOnlyInUpdate
<1> QED
  BY <1>2, <1>3, <1>4, CapPositive
     DEF IInv, CountWithinCap, CasBelowCap, SlotsMatchEntities, OneSlotPerEntity,
         UpdateSeesCurrent, FreshSlotsEmpty, Slot

-----------------------------------------------------------------------------
\* A reservation taken adds one to the reservations.
LEMMA ReserveOne ==
    ASSUME NEW p \in Procs, p \notin Reserving, Reserving' = Reserving \cup {p}
    PROVE  Cardinality(Reserving') = Cardinality(Reserving) + 1
BY CountedSetsFinite, FS_AddElement

\* A reservation given up removes one from the reservations.
LEMMA UnreserveOne ==
    ASSUME NEW p \in Procs, p \in Reserving, Reserving' = Reserving \ {p}
    PROVE  /\ Cardinality(Reserving') = Cardinality(Reserving) - 1
           /\ Cardinality(Reserving') \in Nat
<1>1. IsFiniteSet(Reserving \ {p}) /\ Cardinality(Reserving \ {p}) = Cardinality(Reserving) - 1
  BY CountedSetsFinite, FS_RemoveElement
<1> QED  BY <1>1, FS_CardinalityType

\* A slot stored for a new entity adds one to the allocated entities.
LEMMA AllocateOne ==
    ASSUME NEW e \in Entities, e \notin Allocated, Allocated' = Allocated \cup {e}
    PROVE  Cardinality(Allocated') = Cardinality(Allocated) + 1
BY CountedSetsFinite, FS_AddElement

\* ref, from the call to the reservation of a unit of the cap, preserves the
\* inductive invariant.
LEMMA StepReserve ==
    ASSUME IInv, NEW p \in Procs,
           \/ \E e \in Entities : Call(p, e)
           \/ CallUnknown(p) \/ Load(p) \/ LoadCount(p) \/ CapExceeded(p)
           \/ CompareAndSwap(p) \/ Factory(p)
    PROVE  IInv'
<1> USE DEF IInv, Goto, Return
<1>a. CASE \/ \E e \in Entities : Call(p, e)
           \/ CallUnknown(p) \/ Load(p) \/ LoadCount(p) \/ CapExceeded(p)
           \/ (CompareAndSwap(p) /\ count # cur[p]) \/ Factory(p)
  <2> USE DEF Call, CallUnknown, Load, LoadCount, CapExceeded, CompareAndSwap, Factory
  <2>1. TypeOK'
    BY <1>a DEF TypeOK, PCs, InRef
  <2>2. Allocated' = Allocated /\ Reserving' = Reserving
    BY <1>a DEF Allocated, Reserving, Reserved, TypeOK
  <2>3. count' = count /\ lost' = lost
    BY <1>a
  <2>4. CountAccounts' /\ CountWithinCap'
    BY <2>2, <2>3 DEF CountAccounts, CountWithinCap
  <2>5. CasBelowCap'
    BY <1>a DEF CasBelowCap, TypeOK
  <2>6. SlotsMatchEntities' /\ FreshSlotsEmpty'
    BY <1>a DEF SlotsMatchEntities, FreshSlotsEmpty
  <2>7. OneSlotPerEntity'
    BY <1>a DEF OneSlotPerEntity, TypeOK
  <2>8. LockHeldOnlyInUpdate'
    BY <1>a DEF LockHeldOnlyInUpdate, TypeOK
  <2>9. UpdateSeesCurrent'
    BY <1>a DEF UpdateSeesCurrent, TypeOK
  <2> QED  BY <2>1, <2>4, <2>5, <2>6, <2>7, <2>8, <2>9
<1>b. CASE CompareAndSwap(p) /\ count = cur[p]
  <2> USE DEF CompareAndSwap
  <2>1. TypeOK'
    BY <1>b DEF TypeOK, PCs, InRef
  <2>2. Allocated' = Allocated /\ Reserving' = Reserving \cup {p} /\ p \notin Reserving
    BY <1>b DEF Allocated, Reserving, Reserved, TypeOK
  <2>3. CountAccounts'
    <3>1. Cardinality(Reserving') = Cardinality(Reserving) + 1
      BY <2>2, ReserveOne
    <3>2. count' = count + 1 /\ lost' = lost /\ count \in Nat /\ lost \in Nat
      BY <1>b DEF TypeOK
    <3> QED  BY <2>2, <3>1, <3>2, CountedSetsFinite DEF CountAccounts
  <2>4. CountWithinCap'
    BY <1>b, CapPositive DEF CountWithinCap, CasBelowCap, TypeOK
  <2>5. CasBelowCap' /\ SlotsMatchEntities' /\ OneSlotPerEntity' /\ FreshSlotsEmpty'
    BY <1>b DEF CasBelowCap, SlotsMatchEntities, OneSlotPerEntity, FreshSlotsEmpty, TypeOK
  <2>6. LockHeldOnlyInUpdate' /\ UpdateSeesCurrent'
    BY <1>b DEF LockHeldOnlyInUpdate, UpdateSeesCurrent, TypeOK
  <2> QED  BY <2>1, <2>3, <2>4, <2>5, <2>6
<1> QED  BY <1>a, <1>b DEF CompareAndSwap

\* ref, from the reservation to its return, preserves the inductive invariant.
LEMMA StepAllocate ==
    ASSUME IInv, NEW p \in Procs,
           FactoryPanics(p) \/ LoadOrStore(p) \/ GiveBack(p)
    PROVE  IInv'
<1> USE DEF IInv, Goto, Return
<1>1. CASE FactoryPanics(p)
  <2> USE <1>1 DEF FactoryPanics
  <2>1. TypeOK'
    BY DEF TypeOK, PCs, InRef
  <2>2. Allocated' = Allocated /\ Reserving' = Reserving \ {p} /\ p \in Reserving
    BY DEF Allocated, Reserving, Reserved, TypeOK
  <2>3. CountAccounts'
    <3>1. Cardinality(Reserving') = Cardinality(Reserving) - 1
      BY <2>2, UnreserveOne
    <3>2. count' = count /\ lost' = lost + 1 /\ count \in Nat /\ lost \in Nat
      BY DEF TypeOK
    <3> QED  BY <2>2, <3>1, <3>2, CountedSetsFinite DEF CountAccounts
  <2>4. CountWithinCap' /\ CasBelowCap' /\ SlotsMatchEntities' /\ OneSlotPerEntity' /\ FreshSlotsEmpty'
    BY DEF CountWithinCap, CasBelowCap, SlotsMatchEntities, OneSlotPerEntity, FreshSlotsEmpty, TypeOK
  <2>5. LockHeldOnlyInUpdate' /\ UpdateSeesCurrent'
    BY DEF LockHeldOnlyInUpdate, UpdateSeesCurrent, TypeOK
  <2> QED  BY <2>1, <2>3, <2>4, <2>5
<1>2. CASE LoadOrStore(p) /\ slots[ent[p]] = None
  <2> DEFINE e == ent[p]
  <2> USE <1>2 DEF LoadOrStore
  <2>0. e \in Entities /\ <<p, e>> \in Slot /\ <<p, e>> # None
    BY NoneIsNoSlot DEF TypeOK, Slot
  <2>1. TypeOK'
    BY <2>0 DEF TypeOK, PCs, InRef
  <2>2. /\ Allocated' = Allocated \cup {e} /\ e \notin Allocated
        /\ Reserving' = Reserving \ {p} /\ p \in Reserving
    BY <2>0 DEF Allocated, Reserving, Reserved, TypeOK
  <2>3. CountAccounts'
    <3>1. Cardinality(Reserving') = Cardinality(Reserving) - 1
      BY <2>2, UnreserveOne
    <3>2. Cardinality(Allocated') = Cardinality(Allocated) + 1
      BY <2>0, <2>2, AllocateOne
    <3>3. count' = count /\ lost' = lost /\ count \in Nat /\ lost \in Nat
      BY DEF TypeOK
    <3> QED  BY <3>1, <3>2, <3>3, CountedSetsFinite DEF CountAccounts
  <2>4. CountWithinCap' /\ CasBelowCap'
    BY DEF CountWithinCap, CasBelowCap, TypeOK
  <2>5. SlotsMatchEntities'
    BY <2>0 DEF SlotsMatchEntities, TypeOK
  <2>9. FreshSlotsEmpty'
    <3> SUFFICES ASSUME NEW q \in Procs, NEW d \in Entities, slots'[d] # <<q, d>>
                 PROVE  val'[<<q, d>>] = {}
      BY DEF FreshSlotsEmpty
    <3>1. slots[d] # <<q, d>>
      BY <2>0, NoneIsNoSlot DEF TypeOK, Slot
    <3> QED  BY <3>1 DEF FreshSlotsEmpty
  <2>6. OneSlotPerEntity'
    BY <2>0, NoneIsNoSlot DEF OneSlotPerEntity, TypeOK
  <2>7. LockHeldOnlyInUpdate'
    BY DEF LockHeldOnlyInUpdate, TypeOK
  <2>8. UpdateSeesCurrent'
    BY DEF UpdateSeesCurrent, TypeOK
  <2> QED  BY <2>1, <2>3, <2>4, <2>5, <2>6, <2>7, <2>8, <2>9
<1>3. CASE LoadOrStore(p) /\ slots[ent[p]] # None
  <2> USE <1>3 DEF LoadOrStore
  <2>1. TypeOK'
    BY DEF TypeOK, PCs, InRef
  <2>2. Allocated' = Allocated /\ Reserving' = Reserving
    BY DEF Allocated, Reserving, Reserved, TypeOK
  <2>3. CountAccounts' /\ CountWithinCap'
    BY <2>2 DEF CountAccounts, CountWithinCap
  <2>4. CasBelowCap' /\ SlotsMatchEntities' /\ OneSlotPerEntity' /\ FreshSlotsEmpty'
    BY DEF CasBelowCap, SlotsMatchEntities, OneSlotPerEntity, FreshSlotsEmpty, TypeOK
  <2>5. LockHeldOnlyInUpdate' /\ UpdateSeesCurrent'
    BY DEF LockHeldOnlyInUpdate, UpdateSeesCurrent, TypeOK
  <2> QED  BY <2>1, <2>3, <2>4, <2>5
<1>4. CASE GiveBack(p)
  <2> USE <1>4 DEF GiveBack
  <2>1. Allocated' = Allocated /\ Reserving' = Reserving \ {p} /\ p \in Reserving
    BY DEF Allocated, Reserving, Reserved, TypeOK
  <2>2. Cardinality(Reserving') = Cardinality(Reserving) - 1 /\ Cardinality(Reserving') \in Nat
    BY <2>1, UnreserveOne
  <2>3. count' \in Nat /\ CountAccounts'
    BY <2>1, <2>2, CountedSetsFinite DEF CountAccounts, TypeOK
  <2>4. TypeOK'
    BY <2>3 DEF TypeOK, PCs, InRef
  <2>5. CountWithinCap' /\ CasBelowCap' /\ SlotsMatchEntities' /\ OneSlotPerEntity' /\ FreshSlotsEmpty'
    BY CapPositive DEF CountWithinCap, CasBelowCap, SlotsMatchEntities, OneSlotPerEntity, FreshSlotsEmpty, TypeOK
  <2>6. LockHeldOnlyInUpdate' /\ UpdateSeesCurrent'
    BY DEF LockHeldOnlyInUpdate, UpdateSeesCurrent, TypeOK
  <2> QED  BY <2>3, <2>4, <2>5, <2>6
<1> QED  BY <1>1, <1>2, <1>3, <1>4

\* The operations on a slot preserve the inductive invariant.
LEMMA StepSlot ==
    ASSUME IInv, NEW p \in Procs, SlotStep(p)
    PROVE  IInv'
<1> USE DEF IInv, vars, Goto, SlotStep, Get, Set, UpdateBegin, UpdateEnd, UpdatePanics, Release
<1>0. pc[p] \in {"ref", "update"} /\ ref[p] \in Slot
  BY DEF OneSlotPerEntity
<1>1. TypeOK'
  BY <1>0 DEF TypeOK, PCs, InRef
<1>2. Allocated' = Allocated /\ Reserving' = Reserving
  BY DEF Allocated, Reserving, Reserved, TypeOK
<1>3. count' = count /\ lost' = lost /\ cur' = cur /\ slots' = slots /\ ent' = ent
  OBVIOUS
<1>4. CountAccounts' /\ CountWithinCap' /\ SlotsMatchEntities'
  BY <1>2, <1>3 DEF CountAccounts, CountWithinCap, SlotsMatchEntities
<1>5. CasBelowCap' /\ OneSlotPerEntity'
  BY <1>3 DEF CasBelowCap, OneSlotPerEntity, TypeOK
<1>6. LockHeldOnlyInUpdate'
  BY <1>0, NoneIsNoProc, NoneIsNoSlot DEF LockHeldOnlyInUpdate, TypeOK
<1>7. UpdateSeesCurrent'
  BY <1>0, NoneIsNoProc DEF UpdateSeesCurrent, LockHeldOnlyInUpdate, OneSlotPerEntity, TypeOK
<1>8. FreshSlotsEmpty'
  <2> SUFFICES ASSUME NEW q \in Procs, NEW d \in Entities, slots'[d] # <<q, d>>
               PROVE  val'[<<q, d>>] = {}
    BY DEF FreshSlotsEmpty
  <2>1. slots[d] # <<q, d>> /\ val[<<q, d>>] = {}
    BY <1>3 DEF FreshSlotsEmpty
  <2>2. ref[p] = slots[ent[p]] /\ ent[p] \in Entities /\ ref[p] # None
    BY <1>0, NoneIsNoSlot DEF OneSlotPerEntity, TypeOK
  <2>3. PICK r \in Procs : ref[p] = <<r, ent[p]>>
    BY <2>2 DEF SlotsMatchEntities
  <2>4. <<q, d>> # ref[p]
    <3>1. ASSUME <<q, d>> = <<r, ent[p]>> PROVE FALSE
      <4>1. d = ent[p]
        BY <3>1
      <4> QED  BY <4>1, <3>1, <2>1, <2>2, <2>3, Zenon
    <3> QED  BY <3>1, <2>3
  <2>5. <<q, d>> \in Slot
    BY DEF Slot
  <2>6. val'[<<q, d>>] = val[<<q, d>>]
    BY <1>0, <2>4, <2>5 DEF TypeOK
  <2> QED  BY <2>1, <2>6
<1> QED  BY <1>1, <1>4, <1>5, <1>6, <1>7, <1>8

\* Every step preserves the inductive invariant.
LEMMA NextIInv == IInv /\ [Next]_vars => IInv'
<1> SUFFICES ASSUME IInv, [Next]_vars PROVE IInv'
  OBVIOUS
<1>1. CASE UNCHANGED vars
  BY <1>1 DEF vars, IInv, TypeOK, CountAccounts, Allocated, Reserving, CountWithinCap,
              CasBelowCap, SlotsMatchEntities, OneSlotPerEntity, LockHeldOnlyInUpdate,
              UpdateSeesCurrent, FreshSlotsEmpty
<1>2. CASE Next
  BY <1>2, StepReserve, StepAllocate, StepSlot DEF Next, RefStep
<1> QED  BY <1>1, <1>2

-----------------------------------------------------------------------------
\* The inductive invariant holds throughout.
THEOREM RegistryInvariant == Spec => []IInv
<1>1. QED  BY InitIInv, NextIInv, PTL DEF Spec

\* Every variable of the registry keeps its type; in particular the counter
\* never goes below zero however give-backs interleave.
THEOREM RegistryTypeCorrect == Spec => []TypeOK
<1>1. IInv => TypeOK
  BY DEF IInv
<1> QED  BY <1>1, RegistryInvariant, PTL

\* The slots ref allocates never exceed the cap of the shape.
THEOREM RegistryCapRespected == Spec => []CapRespected
<1>1. IInv => CapRespected
  BY CountedSetsFinite, CapPositive
     DEF IInv, CapRespected, CountAccounts, CountWithinCap, TypeOK
<1> QED  BY <1>1, RegistryInvariant, PTL

\* The counter is the allocated slots, the reservations and the lost ones.
THEOREM RegistryCountAccounts == Spec => []CountAccounts
<1>1. IInv => CountAccounts
  BY DEF IInv
<1> QED  BY <1>1, RegistryInvariant, PTL

\* All goroutines that hold a StateRef for an entity hold the slot in the map.
THEOREM RegistryOneSlotPerEntity == Spec => []OneSlotPerEntity
<1>1. IInv => OneSlotPerEntity
  BY DEF IInv
<1> QED  BY <1>1, RegistryInvariant, PTL

\* A slot's mutex is held by a goroutine inside Update on it and by no other,
\* panics of fn included.
THEOREM RegistryLockHeldOnlyInUpdate == Spec => []LockHeldOnlyInUpdate
<1>1. IInv => LockHeldOnlyInUpdate
  BY DEF IInv
<1> QED  BY <1>1, RegistryInvariant, PTL

\* No interleaving of Update, Set and Get loses an update, and no panic does.
THEOREM RegistryNoLostUpdate == Spec => NoLostUpdate
<1> DEFINE A == \A s \in Slot :
                   val[s] \subseteq val'[s] \/ (owner[s] = None /\ val'[s] = {} /\ UNCHANGED pc)
<1>1. IInv /\ [Next]_vars => [A]_vars
  <2> SUFFICES ASSUME IInv, Next PROVE A
    BY DEF vars
  <2> PICK p \in Procs : \/ \E e \in Entities : Call(p, e)
                         \/ CallUnknown(p) \/ RefStep(p) \/ SlotStep(p)
    BY DEF Next
  <2>1. CASE UpdateEnd(p)
    BY <2>1 DEF UpdateEnd, IInv, UpdateSeesCurrent, OneSlotPerEntity, TypeOK
  <2>2. CASE Set(p)
    BY <2>2 DEF Set, IInv, OneSlotPerEntity, TypeOK
  <2>3. CASE ~UpdateEnd(p) /\ ~Set(p)
    <3>1. val' = val
      BY <2>3 DEF RefStep, SlotStep, Call, CallUnknown, Load, LoadCount, CapExceeded,
                  CompareAndSwap, Factory, FactoryPanics, LoadOrStore, GiveBack, Get,
                  UpdateBegin, UpdatePanics, Release, vars
    <3> QED  BY <3>1
  <2> QED  BY <2>1, <2>2, <2>3
<1> QED  BY <1>1, RegistryInvariant, PTL DEF Spec, NoLostUpdate

-----------------------------------------------------------------------------
(* Refinement of CappedSlots *)

AbsState == [e \in Entities |-> IF slots[e] = None THEN None ELSE val[slots[e]]]
AbsRefused == {p \in Procs : err[p] = "cap"}

\* The units of the cap that the abstract map counts as taken are what the
\* counter holds.
LEMMA TakenIsCount == IInv => Abs!Taken = count
<1> SUFFICES ASSUME IInv PROVE Abs!Taken = count
  OBVIOUS
<1>1. {e \in Entities : AbsState[e] # None} = Allocated
  BY NoneIsNoState DEF IInv, TypeOK, AbsState, Allocated
<1>2. Abs!Taken = Cardinality({e \in Entities : AbsState[e] # None}) + Cardinality(Reserving) + lost
  BY SMT DEF Abs!Taken, AbsState, Abs!Cardinality, Cardinality
<1> QED  BY <1>1, <1>2 DEF IInv, CountAccounts

\* The initial states map to initial states.
LEMMA AbsInit == Init => Abs!Init
<1> SUFFICES ASSUME Init PROVE Abs!Init
  OBVIOUS
<1>1. Reserving = {}
  BY DEF Init, Reserving, Reserved
<1>2. Cardinality(Reserving) = 0
  BY <1>1, FS_EmptySet
<1> QED  BY <1>2 DEF Init, Abs!Init

\* Every step of the registry is a step of the abstract map, or leaves it alone.
LEMMA AbsNext == IInv /\ IInv' /\ [Next]_vars => [Abs!Next]_(Abs!vars)
<1> SUFFICES ASSUME IInv, IInv', [Next]_vars
             PROVE  Abs!Next \/ UNCHANGED Abs!vars
  OBVIOUS
<1> USE DEF Goto, Return
<1> DEFINE Pending == Cardinality(Reserving)
           Stutter == AbsState' = AbsState /\ Pending' = Pending
                      /\ lost' = lost /\ AbsRefused' = AbsRefused
<1>s. ASSUME Stutter PROVE UNCHANGED Abs!vars
  BY <1>s DEF Abs!vars, AbsState, AbsRefused
<1>0. CASE UNCHANGED vars
  BY <1>0 DEF vars, Abs!vars, Reserving
<1>1. ASSUME NEW p \in Procs, NEW e \in Entities, Call(p, e) PROVE Abs!Call(p)
  <2>1. Reserving' = Reserving
    BY <1>1 DEF Call, Reserving, Reserved, IInv, TypeOK
  <2>2. AbsRefused' = AbsRefused \ {p}
    BY <1>1 DEF Call, AbsRefused, IInv, TypeOK
  <2> QED  BY <1>1, <2>1, <2>2 DEF Call, Abs!Call, AbsRefused
<1>2. ASSUME NEW p \in Procs, CallUnknown(p) PROVE Abs!Call(p)
  <2>1. Reserving' = Reserving
    BY <1>2 DEF CallUnknown, Reserving
  <2>2. AbsRefused' = AbsRefused \ {p}
    BY <1>2 DEF CallUnknown, AbsRefused, IInv, TypeOK
  <2> QED  BY <1>2, <2>1, <2>2 DEF CallUnknown, Abs!Call, AbsRefused
<1>3. ASSUME NEW p \in Procs,
             \/ Load(p) \/ LoadCount(p) \/ Factory(p)
             \/ (CompareAndSwap(p) /\ count # cur[p])
             \/ (LoadOrStore(p) /\ slots[ent[p]] # None)
             \/ Get(p) \/ UpdateBegin(p) \/ UpdatePanics(p) \/ Release(p)
      PROVE  UNCHANGED Abs!vars
  <2>1. Reserving' = Reserving
    BY <1>3 DEF Load, LoadCount, Factory, CompareAndSwap, LoadOrStore, Get, UpdateBegin,
                UpdatePanics, Release, Reserving, Reserved, IInv, TypeOK, vars
  <2>2. err' = err /\ lost' = lost /\ slots' = slots /\ val' = val
    BY <1>3 DEF Load, LoadCount, Factory, CompareAndSwap, LoadOrStore, Get, UpdateBegin,
                UpdatePanics, Release, vars
  <2> QED  BY <2>1, <2>2, <1>s DEF AbsState, AbsRefused
<1>4. ASSUME NEW p \in Procs, CapExceeded(p) PROVE Abs!Refuse(p)
  <2>1. Reserving' = Reserving
    BY <1>4 DEF CapExceeded, Reserving, Reserved, IInv, TypeOK
  <2>2. AbsRefused' = AbsRefused \cup {p}
    BY <1>4 DEF CapExceeded, AbsRefused, IInv, TypeOK
  <2>3. Abs!Taken >= Cap
    BY <1>4, TakenIsCount DEF CapExceeded
  <2> QED  BY <1>4, <2>1, <2>2, <2>3 DEF CapExceeded, Abs!Refuse, AbsRefused
<1>5. ASSUME NEW p \in Procs, CompareAndSwap(p), count = cur[p] PROVE Abs!Reserve
  <2>1. Reserving' = Reserving \cup {p} /\ p \notin Reserving
    BY <1>5 DEF CompareAndSwap, Reserving, Reserved, IInv, TypeOK
  <2>2. Pending' = Pending + 1
    BY <2>1, ReserveOne
  <2>3. Abs!Taken < Cap
    BY <1>5, TakenIsCount DEF CompareAndSwap, IInv, CasBelowCap
  <2> QED  BY <1>5, <2>2, <2>3 DEF CompareAndSwap, Abs!Reserve
<1>6. ASSUME NEW p \in Procs, FactoryPanics(p) PROVE Abs!Lose
  <2>1. Reserving' = Reserving \ {p} /\ p \in Reserving
    BY <1>6 DEF FactoryPanics, Reserving, Reserved, IInv, TypeOK
  <2>2. Pending' = Pending - 1 /\ Pending > 0
    <3>1. Cardinality(Reserving') = Cardinality(Reserving) - 1 /\ Cardinality(Reserving') \in Nat
      BY <2>1, UnreserveOne
    <3> QED  BY <3>1, CountedSetsFinite
  <2> QED  BY <1>6, <2>2 DEF FactoryPanics, Abs!Lose
<1>7. ASSUME NEW p \in Procs, NEW e \in Entities, e = ent[p],
             LoadOrStore(p), slots[ent[p]] = None
      PROVE  Abs!Allocate(e)
  <2>1. Reserving' = Reserving \ {p} /\ p \in Reserving
    BY <1>7 DEF LoadOrStore, Reserving, Reserved, IInv, TypeOK
  <2>2. Pending' = Pending - 1 /\ Pending > 0
    <3>1. Cardinality(Reserving') = Cardinality(Reserving) - 1 /\ Cardinality(Reserving') \in Nat
      BY <2>1, UnreserveOne
    <3> QED  BY <3>1, CountedSetsFinite
  <2>3. /\ ent[p] \in Entities /\ <<p, ent[p]>> \in Slot /\ <<p, ent[p]>> # None
        /\ slots' = [slots EXCEPT ![ent[p]] = <<p, ent[p]>>] /\ val' = val
    BY <1>7, NoneIsNoSlot DEF LoadOrStore, Slot, IInv, TypeOK
  <2>4. val[<<p, ent[p]>>] = {}
    BY <1>7, <2>3 DEF IInv, FreshSlotsEmpty, SlotsMatchEntities
  <2>5. AbsState' = [AbsState EXCEPT ![ent[p]] = {}] /\ AbsState[ent[p]] = None
    BY <1>7, <2>3, <2>4 DEF AbsState, IInv, TypeOK
  <2> QED  BY <1>7, <2>2, <2>5 DEF LoadOrStore, Abs!Allocate, AbsState
<1>8. ASSUME NEW p \in Procs, GiveBack(p) PROVE Abs!Withdraw
  <2>1. Reserving' = Reserving \ {p} /\ p \in Reserving
    BY <1>8 DEF GiveBack, Reserving, Reserved, IInv, TypeOK
  <2>2. Pending' = Pending - 1 /\ Pending > 0
    <3>1. Cardinality(Reserving') = Cardinality(Reserving) - 1 /\ Cardinality(Reserving') \in Nat
      BY <2>1, UnreserveOne
    <3> QED  BY <3>1, CountedSetsFinite
  <2> QED  BY <1>8, <2>2 DEF GiveBack, Abs!Withdraw
<1>9. ASSUME NEW p \in Procs, pc[p] \in {"ref", "update"}
      PROVE  /\ ent[p] \in Entities /\ ref[p] \in Slot /\ ref[p] = slots[ent[p]]
             /\ AbsState[ent[p]] = val[ref[p]] /\ AbsState[ent[p]] # None
             /\ \A e \in Entities \ {ent[p]} : slots[e] # ref[p]
  <2>1. ent[p] \in Entities /\ ref[p] \in Slot /\ ref[p] = slots[ent[p]]
    BY <1>9 DEF IInv, OneSlotPerEntity, TypeOK
  <2>2. AbsState[ent[p]] = val[ref[p]] /\ val[ref[p]] \in SUBSET Procs
    BY <2>1, NoneIsNoSlot DEF AbsState, IInv, TypeOK
  <2>3. ASSUME NEW e \in Entities \ {ent[p]} PROVE slots[e] # ref[p]
    BY <2>1, <2>3, NoneIsNoSlot DEF IInv, SlotsMatchEntities
  <2> QED  BY <2>1, <2>2, <2>3, NoneIsNoState
<1>10. ASSUME NEW p \in Procs, NEW e \in Entities, e = ent[p], Set(p) PROVE Abs!Set(e)
  <2>1. Reserving' = Reserving
    BY <1>10 DEF Set, Reserving
  <2>2. AbsState' = [AbsState EXCEPT ![ent[p]] = {}]
    <3>1. val' = [val EXCEPT ![ref[p]] = {}] /\ slots' = slots /\ pc[p] \in {"ref", "update"}
      BY <1>10 DEF Set
    <3>2. /\ ent[p] \in Entities /\ ref[p] \in Slot /\ ref[p] = slots[ent[p]] /\ ref[p] # None
          /\ \A d \in Entities \ {ent[p]} : slots[d] # ref[p]
      BY <3>1, <1>9, NoneIsNoSlot
    <3>3. val \in [Slot -> SUBSET Procs] /\ slots \in [Entities -> Slot \cup {None}]
      BY DEF IInv, TypeOK
    <3>4. \A d \in Entities : AbsState'[d] = [AbsState EXCEPT ![ent[p]] = {}][d]
      BY <3>1, <3>2, <3>3 DEF AbsState
    <3> QED  BY <3>4 DEF AbsState
  <2> QED  BY <1>9, <1>10, <2>1, <2>2 DEF Set, Abs!Set, AbsState
<1>11. ASSUME NEW p \in Procs, NEW e \in Entities, e = ent[p], UpdateEnd(p)
       PROVE  Abs!Update(p, e)
  <2>1. Reserving' = Reserving
    BY <1>11 DEF UpdateEnd, Reserving, Reserved, IInv, TypeOK
  <2>2. AbsState' = [AbsState EXCEPT ![ent[p]] = AbsState[ent[p]] \cup {p}]
    <3>1. /\ val' = [val EXCEPT ![ref[p]] = val[ref[p]] \cup {p}]
          /\ slots' = slots /\ pc[p] \in {"ref", "update"}
      BY <1>11 DEF UpdateEnd, IInv, UpdateSeesCurrent
    <3>2. /\ ent[p] \in Entities /\ ref[p] \in Slot /\ ref[p] = slots[ent[p]] /\ ref[p] # None
          /\ AbsState[ent[p]] = val[ref[p]]
          /\ \A d \in Entities \ {ent[p]} : slots[d] # ref[p]
      BY <3>1, <1>9, NoneIsNoSlot
    <3>3. val \in [Slot -> SUBSET Procs] /\ slots \in [Entities -> Slot \cup {None}]
      BY DEF IInv, TypeOK
    <3>4. \A d \in Entities :
             AbsState'[d] = [AbsState EXCEPT ![ent[p]] = AbsState[ent[p]] \cup {p}][d]
      BY <3>1, <3>2, <3>3 DEF AbsState
    <3> QED  BY <3>4 DEF AbsState
  <2> QED  BY <1>9, <1>11, <2>1, <2>2 DEF UpdateEnd, Abs!Update, AbsState
<1>12. CASE Next
  <2> PICK p \in Procs : \/ \E e \in Entities : Call(p, e)
                         \/ CallUnknown(p) \/ RefStep(p) \/ SlotStep(p)
    BY <1>12 DEF Next
  <2>1. PICK e \in Entities : e = ent[p]
    BY DEF IInv, TypeOK
  <2>2. CASE (\E d \in Entities : Call(p, d)) \/ CallUnknown(p)
    BY <2>2, <1>1, <1>2 DEF Abs!Next
  <2>3. CASE RefStep(p)
    <3>1. CASE CapExceeded(p)
      BY <3>1, <1>4 DEF Abs!Next
    <3>2. CASE FactoryPanics(p) \/ GiveBack(p) \/ (CompareAndSwap(p) /\ count = cur[p])
      BY <3>2, <1>5, <1>6, <1>8 DEF Abs!Next
    <3>3. CASE LoadOrStore(p) /\ slots[ent[p]] = None
      <4>1. Abs!Allocate(e)
        BY <3>3, <2>1, <1>7
      <4> QED  BY <4>1 DEF Abs!Next
    <3> QED  BY <2>3, <3>1, <3>2, <3>3, <1>3 DEF RefStep
  <2>4. CASE SlotStep(p)
    <3>1. CASE Set(p)
      <4>1. Abs!Set(e)
        BY <3>1, <2>1, <1>10
      <4> QED  BY <4>1 DEF Abs!Next
    <3>2. CASE UpdateEnd(p)
      <4>1. Abs!Update(p, e)
        BY <3>2, <2>1, <1>11
      <4> QED  BY <4>1 DEF Abs!Next
    <3> QED  BY <2>4, <3>1, <3>2, <1>3 DEF SlotStep
  <2> QED  BY <2>2, <2>3, <2>4
<1> QED  BY <1>0, <1>12

\* registry.ref and the StateRef operations refine the atomic capped map: slot
\* states change only by whole Updates and Sets, and ErrCapExceeded is returned
\* only when the cap is taken by slots, allocations under way and lost units.
THEOREM RegistryRefinesCappedSlots == Spec => ImplementsCappedSlots
<1> QED
  BY AbsInit, AbsNext, RegistryInvariant, PTL DEF Spec, ImplementsCappedSlots, Abs!Spec

-----------------------------------------------------------------------------
(* Genuine refusals *)

NoneLost == lost = 0

\* Without a panicking factory no reservation is ever abandoned.
LEMMA NothingAbandoned ==
  ASSUME ~FactoryMayPanic
  PROVE  Spec => []NoneLost
<1>1. Init => NoneLost
  BY DEF Init, NoneLost
<1>2. NoneLost /\ [Next]_vars => NoneLost'
  BY DEF NoneLost, Next, vars, Call, CallUnknown, RefStep, SlotStep, Load, LoadCount, CapExceeded,
         CompareAndSwap, Factory, FactoryPanics, LoadOrStore, GiveBack, Get, Set,
         UpdateBegin, UpdateEnd, UpdatePanics, Release
<1> QED  BY <1>1, <1>2, PTL DEF Spec

\* ErrCapExceeded comes only from a step that finds the count at the cap.
LEMMA RefusedAtCap ==
  ASSUME TypeOK, [Next]_vars, NEW p \in Procs, err'[p] = "cap", err[p] # "cap"
  PROVE  count >= Cap
<1>1. err' # err
  OBVIOUS
<1>2. PICK q \in Procs : \/ \E e \in Entities : Call(q, e)
                         \/ CallUnknown(q) \/ CapExceeded(q)
  BY <1>1 DEF Next, vars, RefStep, SlotStep, Load, LoadCount, CompareAndSwap, Factory,
         FactoryPanics, LoadOrStore, GiveBack, Get, Set, UpdateBegin, UpdateEnd,
         UpdatePanics, Release
<1>3. CASE (\E e \in Entities : Call(q, e)) \/ CallUnknown(q)
  BY <1>3 DEF Call, CallUnknown, Return, TypeOK
<1>4. CASE CapExceeded(q)
  BY <1>4 DEF CapExceeded
<1> QED  BY <1>2, <1>3, <1>4

\* state.go:26-29 for a call that meets no concurrent allocation: if the factory
\* never panics, ErrCapExceeded means that Cap entities hold a slot, at every
\* later time and after any number of lost LoadOrStore races.
THEOREM SoloRefusals ==
  ASSUME ~FactoryMayPanic
  PROVE  Spec => SoloRefusalGenuine
<1>1. ASSUME IInv, NoneLost, [Next]_vars
      PROVE  [\A p \in Procs : err'[p] = "cap" /\ err[p] # "cap" /\ Reserving = {} =>
                Cardinality(Allocated) = Cap]_vars
  <2> SUFFICES ASSUME NEW p \in Procs, err'[p] = "cap", err[p] # "cap", Reserving = {}
               PROVE  Cardinality(Allocated) = Cap
    OBVIOUS
  <2>1. count >= Cap
    BY <1>1, RefusedAtCap DEF IInv
  <2>2. Cardinality(Reserving) = 0
    BY FS_EmptySet
  <2>3. Allocated \subseteq Entities /\ Cardinality(Allocated) \in Nat
    BY EntitiesFinite, FS_Subset, FS_CardinalityType DEF Allocated
  <2> QED
    BY <1>1, <2>1, <2>2, <2>3, CapPositive DEF IInv, NoneLost, TypeOK, CountAccounts,
       CountWithinCap
<1> QED
  BY <1>1, RegistryInvariant, NothingAbandoned, PTL DEF Spec, SoloRefusalGenuine
=============================================================================
