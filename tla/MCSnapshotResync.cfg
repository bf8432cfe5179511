\* Every interleaving of four deletes in two projects, a breaking stream and three syncs.
\* The hook is wired, and a request may be lost: that covers the process without it too.
SPECIFICATION FairSpec
CONSTANTS
    Project = {p1, p2}
    TombstoneCap = 2
    HookWired = TRUE
    MaxRevision = 4
    MaxFailures = 2
INVARIANTS
    NoDeleteFallsBetween
    PausedExactlyUnderPressure
    SnapshotsInstallInOrder
PROPERTIES
    PausesEnd
