\* A grace shorter, and a re-sync interval longer, than the longest back-off.
SPECIFICATION HealthSpec
CONSTANTS
    MaxDelay = 3
    MaxExponent = 3
    Interval = 4
    Grace = 3
    MaxTime = 12
    MaxAttempts = 4
INVARIANTS
    OutageIsContinuous
    PenaltyFitsTheLosses
\* The clock is bounded.
CHECK_DEADLOCK FALSE
