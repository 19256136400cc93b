CONSTANTS
    B = 4
    Ratio = 2
    Depth = 16
    MaxAddr = 2
    Series = {4}
    MaxWords = 16
SPECIFICATION Spec
PROPERTY SeriesFlushed
