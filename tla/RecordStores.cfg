\* A queue of two, batches of two, a lifespan that runs twice.
SPECIFICATION StoreSpec
CONSTANTS
    MaxQueue = 2
    BatchSize = 2
    MaxRecords = 4
    MaxStarts = 2
    MaxFaults = 2
    Backends = {"sqlite", "postgres", "redis", "other"}
    Ttl = 2
    MinPage = 1
    Limits = {1, 2}
    Bound <- MCBound
INVARIANTS
    TypeOK
    Accounting
    WrittenIsStored
    DrainBarrier
    ListComplete
PROPERTIES
    CloseReturns
\* A flusher that is closed for good stops.
CHECK_DEADLOCK FALSE
