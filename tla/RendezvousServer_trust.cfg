\* One administrator, one request at a time; every device is issued by c1.
SPECIFICATION ServerSpec
CONSTANTS
    Cert = {c1}
    TheCert = c1
    Handler = {h1}
    Malformed = Malformed
    Other = Other
    MaxBlocks = 1
    BodyLimit = 1
    DBCanFail = TRUE
    Worker = {w1}
    SID = {s1}
    Guid = {g1}
    NoSID = NoSID
    NoGuid = NoGuid
    MinWait = 1
    MaxWait = 1
    MaxRequest = 1
    SessionMaxAge = 1
    FKEnforced = {TRUE}
    IssuedBy <- OneIssuer
INVARIANTS
    RevocationBounded
