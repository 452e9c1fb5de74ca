\* Two concurrent handlers, files up to one block past the limit of two,
\* failing statements.
SPECIFICATION FairSpec
CONSTANTS
    Cert = {c1}
    Handler = {h1, h2}
    Malformed = Malformed
    Other = Other
    MaxBlocks = 3
    BodyLimit = 2
    DBCanFail = TRUE
INVARIANTS
    TypeOK
    EachRowClaimedOnce
    StatsAddUp
    SettledPoolIsTable
PROPERTIES
    RequestsAnswered
