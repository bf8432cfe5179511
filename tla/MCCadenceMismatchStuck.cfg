\* One failed renegotiation under a healthy stream: FairSpec, so that the stop is not just idleness.
SPECIFICATION FairSpec
CONSTANTS
    None = None
    Schedule = {s1}
    Token = {t1}
    MaxRevision = 2
    MaxFlips = 2
PROPERTY AgreeingBrainLiftsStops
