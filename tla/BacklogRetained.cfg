SPECIFICATION Spec
CONSTANTS
    Callers = {c1, c2}
    Flushers = {f1, f2}
    Closer = closer
    NoTask = NoTask
    FlushMaxEvents = 2
    MaxPending = 2
    Backends = {"postgres"}
    MaxId = 4
    MaxFaults = 1
    MaxCrashes = 0
SYMMETRY TaskSymmetry
INVARIANTS
    BacklogRetained
