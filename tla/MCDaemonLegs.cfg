CONSTANTS
    None = None
    Conns = {"c1"}
    Bundles <- MCFullBundle
    MaxCalls = 3
SPECIFICATION Spec
INVARIANTS
    TypeOK
    OuterWithinMode
    DnsRestoredBeforeDown
    MeshWithinMode
    ShutdownReleases
PROPERTIES
    FailedBringUpIsRetried
