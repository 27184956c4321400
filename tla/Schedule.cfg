CONSTANTS
    Callers = {c1, c2}
    Requests <- MCRequests
    Removals <- MCRemovals
    Stream = "S"
    Streams <- MCStreams
    Parsed <- MCParsed
    OneShots <- MCOneShots
    MaxTime = 2
    MaxCalls = 3
    MaxFaults = 1
    None = None
SPECIFICATION Spec
SYMMETRY Symmetry
CHECK_DEADLOCK FALSE
INVARIANTS
    SlotAsReturned
    TicksAsAsked
PROPERTIES
    TicksKept
