\* Two workers, two sessions, one device; waits below, within and above the
\* limits; foreign keys are enforced on one connection of the pool only.
SPECIFICATION Spec
CONSTANTS
    Worker = {w1, w2}
    SID = {s1, s2}
    Guid = {g1}
    NoSID = NoSID
    NoGuid = NoGuid
    MinWait = 1
    MaxWait = 1
    MaxRequest = 2
    SessionMaxAge = 1
    DBCanFail = FALSE
    FKEnforced = {TRUE, FALSE}
SYMMETRY Symmetry
INVARIANTS
    NoOrphans
