CONSTANTS
    B = 4
    Depth = 8
    MaxAddr = 2
    Ahead = 6
    MaxWords = 26
SPECIFICATION Spec
INVARIANTS BurstsWhole PositionLead
PROPERTIES StreamSpec BurstsDrain
