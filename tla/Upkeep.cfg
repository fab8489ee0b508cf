SPECIFICATION FairSpec
CONSTANTS
    Jobs = {"archive", "resume", "purge", "strict", "lenient", "migrate", "dump"}
    Streams = {"main", "branch"}
    Nobody = "nobody"
    Tenants = {"acme", "none"}
    NoTenant = "none"
    Archivers = {"a1", "a2"}
    Readers = {"r1"}
    Crew <- MCCrew
    Batch = 2
    Bound <- MCBound
    Windows = {"acme"}
INVARIANTS
    TypeOK
    NothingLost
    ReplayFaithful
    AuditMatches
    MigrationFaithful
PROPERTY Drained
CHECK_DEADLOCK FALSE
