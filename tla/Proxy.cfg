SPECIFICATION Spec
CONSTANTS
    Fronts = {"proxy", "scoped"}
    Clients = {c1, c2}
    Sessions = {"s1", "s2"}
    Credentials = {"k1", "k2"}
    Accepts <- MCAccepts
    MaxId = 3
    MaxBuffers = 2
    MaxRequests = 3
SYMMETRY ClientSymmetry
INVARIANTS
    TypeOK
    OwnSessionOnly
    SentInOrder
    NoGapOnResume
CHECK_DEADLOCK FALSE
