CONSTANTS
    Words = 2
    Lanes = 2
    Writes <- MCWrites
    Reads <- MCReads
    MaxWrites = 2
    MaxReads = 2
    MaxStatus = 1
SPECIFICATION HubSpec
INVARIANT AnswersKept
PROPERTIES RegisterSpec AllAnswered
