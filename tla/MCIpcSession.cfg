SPECIFICATION Spec
CONSTANTS
    Slugs = {a, b}
    MaxTimeouts = 2
    IdSpace = 3
    None = None
INVARIANT RepliesShiftByTimeouts
PROPERTY TrayConverges
CONSTRAINT Focus
