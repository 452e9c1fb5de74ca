\* A V1 document with ext_rv.
SPECIFICATION Spec
CONSTANTS
    Handler = {h1}
    Legacy = {}
    V1Input <- V1ExtRV
    V2Input <- V2Two
    IPText <- IPs
    HexText <- Hexes
    MaxPort = 3
    MaxUint32 = 4
    Saturates = FALSE
    DBCanFail = FALSE
INVARIANTS
    ConfigReadable
