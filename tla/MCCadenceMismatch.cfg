\* Two schedules refused at once, two revisions, a Brain that changes runtime and
\* comes back.
SPECIFICATION FairSpec
CONSTANTS
    None = None
    Schedule = {s1, s2}
    Token = {t1, t2}
    MaxRevision = 2
    MaxFlips = 2
INVARIANTS
    StopIsOwedAnAgreement
    LiftedAsTheBrainHasIt
PROPERTIES
    ReconnectLiftsStops
