\* A wider instance than MCLeaderElection.cfg, safety only: two faults and three
\* changes of scope.
SPECIFICATION Spec
CONSTANTS
    Instance = {i1, i2}
    Session = {s1, s2, s3}
    NoSession = NoSession
    NoKey = NoKey
    Global = Global
    Key = {Global, p1}
    MaxFaults = 2
    MaxScopeChanges = 3
INVARIANTS
    TypeOK
    LeaderOwnsLock
    NothingLeftBehind
\* Both replicas may stop for good.
CHECK_DEADLOCK FALSE
