\* Two devices; the rendezvous server of one accepts a connection and never
\* answers.
SPECIFICATION SchedFairSpec
CONSTANTS
    Guid = {g1, g2}
    Spare = {g1}
    NoGuid = NoGuid
    Importer = {i1}
    Reseller = {r1}
    TO2Worker = {t1}
    Bad = Bad
    Other = Other
    MaxBlocks = 1
    MaxRequests = 2
    DBCanFail = FALSE
    DefaultTTL = 2
    RetryDelay = 1
    Bypass = {}
    Unreachable = {}
    Silent = {g1}
PROPERTIES
    PendingRegistered
