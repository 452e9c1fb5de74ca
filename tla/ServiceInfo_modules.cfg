\* One device, one entry of each module; statements fail, paths come and go.
SPECIFICATION FairSpec
CONSTANTS
    Session = {s1}
    file = file
    dir = dir
    Path <- Paths
    DefaultDirs = {dir}
    Fsims <- OneOfEach
    DBCanFail = TRUE
INVARIANTS
    TypeOK
    ReportedIsStored
    InConfiguredOrder
    SkipsAreExplained
PROPERTIES
    ServiceInfoEnds
