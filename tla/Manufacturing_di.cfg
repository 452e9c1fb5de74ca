\* Two devices, two requests at a time, one fault; a restart in the middle of
\* two SetHMACs uses up two GUIDs.
SPECIFICATION FairSpec
CONSTANTS
    Device = {d1, d2}
    First = d1
    Worker = {w1, w2}
    SID = {s1, s2}
    Guid = {g1, g2, g3, g4}
    Config = {c1, c2}
    None = None
    Key <- Keys
    MfgKeyFamily = "ec"
    MaxFaults = 1
INVARIANTS
    TypeOK
    DoneIsOwnVoucher
PROPERTIES
    DeviceInitialised
