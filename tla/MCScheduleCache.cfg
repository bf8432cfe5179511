\* One schedule through five Brain revisions and two control tokens, with the periodic resync.
SPECIFICATION FairSpec
CONSTANTS
    s1 = s1
    s2 = s2
    p1 = p1
    p2 = p2
    None = None
    Schedule = {s1}
    Token = {t1, t2}
    Project = {p1}
    ProjectOf <- Alone
    MaxRevision = 5
    TombstoneCap = 1
    ReplayAfterHold = FALSE
INVARIANTS
    NoResurrection
    RowIsTheBrains
    StopCanEnd
    NoSpuriousProtocolError
PROPERTIES
    EvidenceNeverLost
    ImplementsMirror
    CursorNeverGoesBack
    EventuallyInStep
\* The log is finite and the cache ends in step with it.
CHECK_DEADLOCK FALSE
