\* Two devices: the directives of g1 are RV bypass, or its rendezvous server
\* always refuses.  TO2 gives g2 the GUID g1.  Statements fail.
SPECIFICATION SchedFairSpec
CONSTANTS
    Guid = {g1, g2}
    Spare = {g1}
    NoGuid = NoGuid
    Importer = {i1}
    Reseller = {r1}
    TO2Worker = {t1}
    Bad = Bad
    Other = Other
    MaxBlocks = 1
    MaxRequests = 2
    DBCanFail = TRUE
    DefaultTTL = 2
    RetryDelay = 1
    Bypass = {g1}
    Unreachable = {g1}
    Silent = {}
INVARIANTS
    SchedTypeOK
    RenewedInTime
    PendingIsOwned
    ImportedIsTracked
PROPERTIES
    CompletionSticks
    PendingRegistered
