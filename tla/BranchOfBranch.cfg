SPECIFICATION Spec
CONSTANTS
    Backends = {"sqlite"}
    Streams = {main, branch, twig}
    Tenants = {"acme", "none"}
    NoTenant = "none"
    TenantOf <- MCTenantOf
    Nobody = "nobody"
    Writers = {"w1"}
    Readers = {"r1"}
    Kinds = {"msg"}
    Bound <- MCNestBound
    Batch = 1
    MaxPending = 2
    MaxLength = 2
SYMMETRY StreamSymmetry
INVARIANT BranchHasItsPastOnly
CHECK_DEADLOCK FALSE
