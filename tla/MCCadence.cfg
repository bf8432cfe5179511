\* Every definition over ten instants, with a shift of two and days of two.
SPECIFICATION ShadowSpec
CONSTANTS
    Horizon = 9
    Turns = {4}
    Shift = 2
    MaxShift = 3
    LocalTimes = {1, 2, 3, 4, 5, 6, 8, 9}
    Steps = {1, 2, 3}
    DayLength = 2
    MaxDays = 4
    ScanFactor = 8
    Anchors = {0, 5}
    Caps = {1, 2}
    WindowEnds = {4, 8}
INVARIANTS
    PendingIsTheNextDue
    ReportIsTruthful
PROPERTIES
    BacklogIsWhatWasDue
\* The instants are bounded, and a report ends a behaviour.
CHECK_DEADLOCK FALSE
