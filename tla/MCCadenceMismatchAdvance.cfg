\* A cursor advance is the first request to be refused.
SPECIFICATION Spec
CONSTANTS
    None = None
    Schedule = {s1}
    Token = {t1}
    MaxRevision = 2
    MaxFlips = 2
INVARIANT FirstRefusalIsHeld
