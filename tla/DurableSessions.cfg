SPECIFICATION Spec
CONSTANTS
    Backends = {"sqlite", "postgres", "redis"}
    Sessions = {s1, s2}
    Principals = {alice, nobody}
    Nobody = nobody
    Absent = absent
    Admin = admin
    Callers <- MCCallers
    Ttl = TRUE
    Workers = {w1, w2}
    Requests = {r1, r2}
    MaxSessions = 1
    Bound <- MCBound
SYMMETRY Alike
INVARIANTS
    TypeOK
    AdoptedWhole
    TerminatedForCause
    EndIsRecorded
    AnsweredIsRecorded
    NeverRevived
CHECK_DEADLOCK FALSE
