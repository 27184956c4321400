CONSTANTS
    N = 2
    Poison <- First
    Verdicts <- NoteOnly
    AckPolicy = "explicit"
    MaxDeliver = 0
    MaxAckPending = 2
    MaxBuffer = 2
    MaxFaults = 2
    MaxSubject = 0
    MaxPostFails = 1
    CounterMod = 1
    None = None
SPECIFICATION NoteSpec
CHECK_DEADLOCK FALSE
INVARIANTS
    PostsPerNote
PROPERTIES
    HealthySettles
    NoteHeard
