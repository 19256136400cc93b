CONSTANTS
    Size = 2
    Settle = 1
    Rate = 1
    Depth = 2
    MaxNet = 1
    MaxCommands = 1
    Readers = {r1, r2}
SPECIFICATION VnaSpec
PROPERTIES SweepExact SweepCompletes ReadersEnd
