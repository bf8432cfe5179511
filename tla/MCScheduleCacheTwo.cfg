\* A wider instance than MCScheduleCache.cfg, without fairness: two schedules of
\* two projects, every interleaving of four Brain revisions.
SPECIFICATION Spec
CONSTANTS
    s1 = s1
    s2 = s2
    p1 = p1
    p2 = p2
    None = None
    Schedule = {s1, s2}
    Token = {t1, t2}
    Project = {p1, p2}
    ProjectOf <- Apart
    MaxRevision = 4
    TombstoneCap = 1
    ReplayAfterHold = FALSE
SYMMETRY Symmetric
INVARIANTS
    TypeOK
    NoResurrection
    PausedOnlyUnderPressure
    RowIsTheBrains
    StopCanEnd
    NoSpuriousProtocolError
PROPERTIES
    EvidenceNeverLost
    ImplementsMirror
    CursorNeverGoesBack
\* The log is finite and the cache ends in step with it.
CHECK_DEADLOCK FALSE
