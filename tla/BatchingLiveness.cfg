\* One fault and no crash, so that fairness decides whether an event gets out.
SPECIFICATION FairSpec
CONSTANTS
    Callers = {c1, c2}
    Flushers = {f1, f2}
    Closer = closer
    NoTask = NoTask
    FlushMaxEvents = 2
    MaxPending = 2
    Backends = {"postgres"}
    MaxId = 2
    MaxFaults = 1
    MaxCrashes = 0
PROPERTIES
    EventuallyResolved
