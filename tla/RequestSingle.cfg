CONSTANTS
    Calls = {c1, c2, c3}
SPECIFICATION FairSpec
CHECK_DEADLOCK FALSE
INVARIANTS
    TimeoutIsOurs
    CountersAgree
PROPERTIES
    RequestReturns
