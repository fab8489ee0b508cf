SPECIFICATION Spec
CONSTANTS
    Backends = {"behind"}
    Streams = {main, branch}
    Tenants = {"acme", "none"}
    NoTenant = "none"
    TenantOf <- MCTenantOf
    Nobody = "nobody"
    Writers = {"w1", "w2"}
    Readers = {"r1"}
    Kinds = {"msg"}
    Bound <- MCCrashBound
    Batch = 1
    MaxPending = 2
    MaxLength = 2
INVARIANT IdsNeverReused
CHECK_DEADLOCK FALSE
