CONSTANTS
    maxReplies = 2
    MinBuffer = 2
    MaxArrivals = 5
SPECIFICATION FairManySpec
CHECK_DEADLOCK FALSE
INVARIANTS
    CollectedInOrder
    CapHonoured
    EarlyReturnMeansFull
PROPERTIES
    CallReturns
