SPECIFICATION Spec
CONSTANTS
    Backends = {"postgres"}
    Sessions = {s1}
    Principals = {alice, nobody}
    Nobody = nobody
    Absent = absent
    Admin = admin
    Callers <- MCCallers
    Ttl = TRUE
    Workers = {w1, w2}
    Requests = {r1, r2}
    MaxSessions = 1
    Bound <- MCBound
SYMMETRY Alike
CHECK_DEADLOCK FALSE
PROPERTY NeverAdoptedAgain
