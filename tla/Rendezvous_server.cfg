\* Two requests at a time, failing statements, the cleanup loop with fairness.
SPECIFICATION FairSpec
CONSTANTS
    Worker = {w1, w2}
    SID = {s1}
    Guid = {g1}
    NoSID = NoSID
    NoGuid = NoGuid
    MinWait = 1
    MaxWait = 1
    MaxRequest = 2
    SessionMaxAge = 1
    DBCanFail = TRUE
    FKEnforced = {TRUE}
INVARIANTS
    TypeOK
    NoOrphans
    DistrustIsBounded
    HandshakesAreWhole
PROPERTIES
    ImplementsLeases
    CleanupKeepsServed
    ExpiredBlobsGo
    AbandonedSessionsGo
