\* Two replicas, a project and the global key, three sessions, one fault.
SPECIFICATION FairSpec
CONSTANTS
    Instance = {i1, i2}
    Session = {s1, s2, s3}
    NoSession = NoSession
    NoKey = NoKey
    Global = Global
    Key = {Global, p1}
    MaxFaults = 1
    MaxScopeChanges = 2
INVARIANTS
    LeaderOwnsLock
    NothingLeftBehind
PROPERTIES
    ImplementsLock
    StaleLeaderStepsDown
    ProjectGetsALeader
\* Both replicas may stop for good.
CHECK_DEADLOCK FALSE
