\* A backlog that fills the cap and ends between a gap and the slot that was snapped past it.
SPECIFICATION ShadowSpec
CONSTANTS
    Horizon = 6
    Turns = {4}
    Shift = 2
    MaxShift = 3
    LocalTimes = {1, 2, 5}
    Steps = {1}
    DayLength = 4
    MaxDays = 3
    ScanFactor = 4
    Anchors = {0}
    Caps = {1}
    WindowEnds = {4}
PROPERTY BacklogIsTheLatest
CHECK_DEADLOCK FALSE
