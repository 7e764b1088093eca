SPECIFICATION Spec
CONSTANTS
    Host = {h1, h2}
    Path = {p1}
    TicksPerSecond = 2
    NoDate = NoDate
    MaxClock = 3
    MaxWrites = 2
SYMMETRY Symmetry
INVARIANTS
    PanicHasCause
PROPERTIES
    NotModifiedIsHonest
    ContentFreshOrRepeated
CHECK_DEADLOCK FALSE
