\* The process as main.py builds it: nothing asks for the immediate resync.
SPECIFICATION Spec
CONSTANTS
    Project = {p1, p2}
    TombstoneCap = 2
    HookWired = FALSE
    MaxRevision = 4
    MaxFailures = 0
SYMMETRY Symmetric
INVARIANT PausedHasResync
