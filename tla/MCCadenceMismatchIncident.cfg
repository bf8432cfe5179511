\* Two generations: the schedule is redefined after its stop was lifted.
SPECIFICATION Spec
CONSTANTS
    None = None
    Schedule = {s1}
    Token = {t1,t2}
    MaxRevision = 3
    MaxFlips = 3
INVARIANT DurableIsOneIncident
