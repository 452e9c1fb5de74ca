\* Two concurrent handlers, no failure: a pool read early is installed late.
SPECIFICATION Spec
CONSTANTS
    Cert = {c1, c2}
    Handler = {h1, h2}
    Malformed = Malformed
    Other = Other
    MaxBlocks = 1
    BodyLimit = 1
    DBCanFail = FALSE
SYMMETRY Symmetry
INVARIANTS
    PoolIsTable
