\* One schedule, eight instants, two events.
SPECIFICATION Spec
CONSTANTS
    Grace = 1
    Heartbeat = 1
    Recheck = 1
    BackoffBase = 1
    BackoffCap = 1
    MaxSleep = 3
    UnhealthySleep = 1
    MaxDispatch = 2
    MaxMissed = 2
    RpcTimeout = 1
    Interval = {2}
    MaxTime = 7
    MaxEvents = 2
INVARIANTS
    LateFireIsOwed
    NothingOwedIsDiscarded
    CatchUpIsOnePass
    OverdueIsExplained
PROPERTIES
    FireAllKeepsTheNewest
\* The clock is bounded.
CHECK_DEADLOCK FALSE
