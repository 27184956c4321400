CONSTANTS
    Entities = {e1, e2, e3}
    Bound = 2
    MaxUpdates = 3
    MaxClock = 2
    RefState = FALSE
    None = None
SPECIFICATION Spec
SYMMETRY Symmetry
INVARIANTS
    Durable
    CacheCoherent
    NoTimeCountedTwice
    ResidencyIsLRU
PROPERTIES
    ImplementsDurableMap
