\* Every key of both formats, one handler, statements that fail.
SPECIFICATION Spec
CONSTANTS
    Handler = {h1}
    Legacy <- V1Documents
    V1Input <- V1Documents
    V2Input <- V2Documents
    IPText <- IPs
    HexText <- Hexes
    MaxPort = 3
    MaxUint32 = 4
    Saturates = FALSE
    DBCanFail = TRUE
INVARIANTS
    TypeOK
    ConfigReadable
    V2ReadWriteKeeps
    V1ReadWriteKeeps
