SPECIFICATION Spec
CONSTANTS
    Names <- MCNames
    IPs = {"ip4", "ip6"}
    V6 = {"ip6"}
    Anchors = {"own", "other"}
    Artifacts <- MCArtifacts
    Signed <- MCSigned
    Claims <- MCClaims
    Editions <- MCEditions
    Queries = {q1}
    LiveAnswers <- MCLive
    Questions <- MCQuestions
    Stats = {1, 2, 3}
    ObservedTTL = 1
    ObsSuppress = 1
    ObservedMax = 1
    MaxTime = 2
    Faults = {"io", "crash", "tamper"}
    MaxFaults = 1
    None = None
CONSTRAINT Focus
INVARIANTS AnswersAreJustified ObservedIsLatest ReplayBound CacheIsCoherent
PROPERTY RefreshConverges
