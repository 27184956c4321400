CONSTANTS
    N = 3
    Poison <- Second
    Verdicts <- NoteOnly
    AckPolicy = "all"
    MaxDeliver = 2
    MaxAckPending = 3
    MaxBuffer = 2
    MaxFaults = 0
    MaxSubject = 0
    CounterMod = 16
    None = None
SPECIFICATION Spec
CHECK_DEADLOCK FALSE
INVARIANTS
    AckedMeansAware
