CONSTANTS
    Requests = {r1, r2}
    Commands = {c1}
    Remembered = 1
    MaxFailures = 1
    MaxInFlight = 1
    MaxCopies = 2
SPECIFICATION FairSpec
CHECK_DEADLOCK FALSE
INVARIANTS PersistedBeforeDispatched ExecutedOnce
PROPERTIES StatusAdvances Settles
