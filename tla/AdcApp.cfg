CONSTANTS
    SeriesLen = 2
    Ring = 4
    Depth = 2
    Loads = {TRUE, FALSE}
    MaxSeries = 3
    MaxReplays = 2
    MaxRuns = 2
SPECIFICATION Spec
CHECK_DEADLOCK FALSE
INVARIANT CaptureAligned
PROPERTIES CutAfterAbandonment MemoryOwned CaptureNotMissed
