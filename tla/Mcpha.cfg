CONSTANTS
    Asked = {{"spectrum", "start", "stop", "reset"},
             {"window", "scope_reset", "scope_start", "scope_read"}}
    Bins = 3
    Weights = {1, 3}
    RAND_MAX = 5
    Full = 2
    RingSize = 8
    Burst = 4
    Rounding = 4
    Windows <- MCWindows
SPECIFICATION Spec
CHECK_DEADLOCK FALSE
INVARIANTS PulserKept PulsesFaithful ReadoutExact
PROPERTIES StopEnds
