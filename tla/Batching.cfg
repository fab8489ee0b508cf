SPECIFICATION Spec
CONSTANTS
    Callers = {c1, c2}
    Flushers = {f1, f2}
    Closer = closer
    NoTask = NoTask
    FlushMaxEvents = 2
    MaxPending = 2
    Backends = {"postgres", "redis", "single"}
    MaxId = 4
    MaxFaults = 2
    MaxCrashes = 1
SYMMETRY TaskSymmetry
INVARIANTS
    TypeOK
    Conservation
    GlobalOrder
    FlushBarrier
    DurablePrefix
    NeverUnattended
PROPERTIES
    LogSpec
