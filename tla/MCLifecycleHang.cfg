\* A signal that arrives before run() does.
SPECIFICATION FairSpec
CONSTANTS
    MaxSignals = 2
    MaxFires = 2
PROPERTIES
    SignalAlwaysEnds
\* The process ends, and so does its behaviour.
CHECK_DEADLOCK FALSE
