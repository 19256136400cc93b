CONSTANTS
    Level = 2
    Sums = {0, 2, 3}
    Limits = {1, 2, 3}
    CountMod = 4
    MaxSamples = 9
SPECIFICATION Spec
INVARIANTS SeriesCounted PulseReadable SeriesUnbroken
