\* A wider instance than MCCadenceMismatch.cfg, safety only: three revisions.
SPECIFICATION Spec
CONSTANTS
    None = None
    Schedule = {s1, s2}
    Token = {t1, t2}
    MaxRevision = 3
    MaxFlips = 2
SYMMETRY Symmetric
INVARIANTS
    TypeOK
    StopIsOwedAnAgreement
    FireHeldFirst
    LiftedAsTheBrainHasIt
