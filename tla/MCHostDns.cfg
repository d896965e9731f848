CONSTANTS
    None = None
    Conns = {10}
    Configs = {"m1", "m2"}
    Rungs = 2
    MaxChanges = 3
    MaxCalls = 3
    NamesFronting = TRUE
    PortSupported = TRUE
    MayFail = TRUE
SPECIFICATION Spec
INVARIANTS
    TypeOK
    HostFollowsForwarder
    ServingIsHealthy
PROPERTIES
    ListenerComesBack
