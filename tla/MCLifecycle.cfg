\* Two signals at any moment, two fires of the tick loop.
SPECIFICATION FairSpec
CONSTANTS
    MaxSignals = 2
    MaxFires = 2
INVARIANTS
    GateOutlivesFires
    ExitLeavesNothing
PROPERTIES
    SignalEndsRun
\* The process ends, and so does its behaviour.
CHECK_DEADLOCK FALSE
