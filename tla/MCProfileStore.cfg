CONSTANTS
    None = None
    Slugs <- MCSlugs
    Names <- MCNames
    SlugOf <- MCSlugOf
    Bundles <- MCBundles
    Trusted <- MCTrusted
    Modes = {"wg", "nb"}
    Intents = {"pq"}
    Faults = {"crash", "io"}
SPECIFICATION Spec
INVARIANTS
    OnlyVerifiedOnDisk
    RenameKeepsProfile
    ConsistentUntilFault
PROPERTIES
    ClobberOnlyByReplace
    ImplementsCatalog
    WholeUntilFault
