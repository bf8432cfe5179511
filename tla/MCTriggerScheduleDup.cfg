\* Two calls with one key, two replicas.
SPECIFICATION Spec
CONSTANTS
    r1 = r1
    r2 = r2
    s1 = s1
    k1 = k1
    k2 = k2
    NoKey = NoKey
    Replicas = {r1, r2}
    Schedules = {s1}
    Keys = {k1}
    MaxCalls = 2
    MaxOpen = 2
    MaxAttempts = 2
    TTL = 2
    SweepBudget = 1
    MaxTime = 2
    MaxCrashes = 0
INVARIANTS
    OneFirePerKey
\* The calls and the clock are bounded.
CHECK_DEADLOCK FALSE
