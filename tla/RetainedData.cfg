SPECIFICATION MCSpec
CONSTANTS
    Samples = {1, 2}
    Calls = {c1, c2, c3}
    Days = 1
    MaxClock = 2
    MaxDeletes = 1
    MaxStops = 1
    None = None
INVARIANTS NoSampleSlips ConformantIsComplete RegisteredIsRetained
SYMMETRY Symmetry
CHECK_DEADLOCK FALSE
