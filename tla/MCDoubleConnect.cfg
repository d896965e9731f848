CONSTANTS
    None = None
    Conns = {"c1"}
    Bundles <- MCBundles
    MaxCalls = 2
SPECIFICATION Spec
INVARIANTS
    NoOrphanClient
