SPECIFICATION Spec
CONSTANTS
    None = None
    Slugs = {"default", "b"}
    Names <- MCNames
    SlugOf <- MCSlugOf
    SlugName <- MCSlugOf
    DefaultName = "default"
    Bundles = {"b1", "b2", "forged"}
    Trusted = {"b1", "b2"}
    Modes = {"wg", "nb"}
    Intents = {"pq"}
    Legacy = "b1"
    Conns = {1}
    StoreMayFail = TRUE
    DefaultMode = "nb"
    FlagModes = {None, "wg"}
    MaxEdits = 1
CONSTRAINT Focus
INVARIANTS
    MarkerResolves
    OperatorKeysSurvive
    MemoryFollowsMarker
    MemoryMatchesDisk
    OnlyVerifiedInUse
