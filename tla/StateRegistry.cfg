CONSTANTS
    Procs = {p1, p2}
    Entities = {e1, e2, e3}
    Cap = 2
    None = None
    FactoryMayPanic = TRUE
SPECIFICATION FairSpec
INVARIANTS
    CountAccounts
    OneSlotPerEntity
    LockHeldOnlyInUpdate
PROPERTIES
    NoLostUpdate
    EveryCallReturns
    ImplementsCappedSlots
