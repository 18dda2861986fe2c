SPECIFICATION Spec
CONSTANTS
    Servers = 2
    Sweepers = {s1}
    Requests = {r1, r2}
    Subscriptions = {a}
    Registries <- SomeRegistries
    Streams = {x}
    Credits = 1
    Batch = 1
    MaxBatches = 2
    MaxPrunes = 1
    Retention = 1
    MaxClock = 1
    MaxFailures = 1
    None = None
INVARIANTS PreparedIsFinishable ErasedInBulkOnly PrunedIsSuperseded
CHECK_DEADLOCK FALSE
