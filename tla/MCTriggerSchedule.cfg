\* Three calls with two keys, a clock that reaches the TTL, one crash.
SPECIFICATION FairSpec
CONSTANTS
    r1 = r1
    r2 = r2
    s1 = s1
    k2 = k2
    k1 = k1
    NoKey = NoKey
    Replicas = {r1}
    Schedules = {s1}
    Keys = {k1, k2}
    MaxCalls = 3
    MaxOpen = 2
    MaxAttempts = 2
    TTL = 1
    SweepBudget = 1
    MaxTime = 1
    MaxCrashes = 1
INVARIANTS
    OneFirePerCall
PROPERTIES
    HitIsTruthful
    RepeatFiresNothing
    EveryCallEnds
\* The calls and the clock are bounded.
CHECK_DEADLOCK FALSE
