CONSTANTS
    B = 4
    Ratio = 2
    Depth = 12
    MaxAddr = 2
    Series = {8, 16}
    MaxWords = 26
SPECIFICATION Spec
INVARIANTS WordsKept BurstsWhole
PROPERTIES StreamSpec SeriesFlushed
