SPECIFICATION FairSpec
CONSTANTS
    Servers = 2
    Sweepers = {s1}
    Requests = {r1}
    Subscriptions = {a}
    Registries <- Administered
    Streams = {x}
    Credits = 1
    Batch = 1
    MaxBatches = 2
    MaxPrunes = 1
    Retention = 1
    MaxClock = 0
    MaxFailures = 0
    None = None
PROPERTY AdministeredIsDeletable
CHECK_DEADLOCK FALSE
