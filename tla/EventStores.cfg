SPECIFICATION Spec
CONSTANTS
    Backends = {"sqlite", "behind", "script", "pipe", "postgres"}
    Streams = {main, branch}
    Tenants = {"acme", "none"}
    NoTenant = "none"
    TenantOf <- MCTenantOf
    Nobody = "nobody"
    Writers = {"w1", "w2"}
    Readers = {"r1"}
    Kinds = {"msg"}
    Bound <- MCBound
    Batch = 1
    MaxPending = 2
    MaxLength = 2
SYMMETRY StreamSymmetry
INVARIANTS
    TypeOK
    ReplayComplete
    ReplayExact
    AckedReachesDisk
    SubscriberSound
PROPERTY NoLateArrival
CHECK_DEADLOCK FALSE
