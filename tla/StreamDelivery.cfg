CONSTANTS
    N = 2
    Poison <- Second
    Verdicts <- AllVerdicts
    AckPolicy = "explicit"
    MaxDeliver = 2
    MaxAckPending = 2
    MaxBuffer = 2
    MaxFaults = 2
    MaxSubject = 1
    CounterMod = 16
    None = None
SPECIFICATION Spec
CHECK_DEADLOCK FALSE
INVARIANTS
    AckedMeansAware
    EveryDeliveryCounted
    StuckSignal
