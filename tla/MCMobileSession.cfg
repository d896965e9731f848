SPECIFICATION Spec
CONSTANTS
    Platforms = {"android", "ios"}
    MaxRuns = 2
INVARIANTS IdleReleases MeshKeepsRunning OrphanOnlyByEarlyStop
PROPERTY StopEndsRuns
CHECK_DEADLOCK FALSE
