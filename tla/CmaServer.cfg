CONSTANTS
    Procs = {p1, p2}
    Regions = {r1, r2}
    None = none
    Half = 2
CHECK_DEADLOCK FALSE
SPECIFICATION Spec
INVARIANTS BufferOwned HalvesInTurn
PROPERTIES InterruptEnds
