CONSTANTS
    DefaultAckWait = 2
    Imps = {i1, i2}
    Specs <- MySpecs
    Names = {"D"}
    Existing <- MyExisting
    MaxStarts = 3
    MaxFaults = 1
    None = None
SPECIFICATION Spec
SYMMETRY Symmetry
CHECK_DEADLOCK FALSE
INVARIANTS
    BoundAsDeclared
    EphemeralsAccounted
PROPERTIES
    ValidationExact
    SameDeclarationWelcome
