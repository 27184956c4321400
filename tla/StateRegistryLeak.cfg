CONSTANTS
    Procs = {p1, p2}
    Entities = {e1, e2}
    Cap = 2
    None = None
    FactoryMayPanic = TRUE
SPECIFICATION Spec
PROPERTIES
    SoloRefusalGenuine
