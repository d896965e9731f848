SPECIFICATION Spec
CONSTANTS
    IPs = {i1}
    Peers = {p1}
    Handlers = {h1, h2}
    SafeNames = {f}
    BadNames = {b}
    MaxCopies = 1
    RingCap = 2
    MaxDrops = 3
    MaxCrashes = 1
    None = None
CONSTRAINT Focus
INVARIANTS DropsAreKept RingIsRecent NoStrayTemp
PROPERTY ReceiverFollowsMesh
