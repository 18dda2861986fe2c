CONSTANTS
    Threads <- AllThreads
    Queries <- SomeQueries
    MaxLength = 5
    HealthyLength = 5
    Damage = 3
    PageLimit = 2
    NoBound = NoBound
SPECIFICATION ThreadSpec
CHECK_DEADLOCK FALSE
INVARIANTS ValidMeansContinuous AlarmIsTrue
