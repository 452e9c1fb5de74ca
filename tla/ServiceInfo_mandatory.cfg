\* One device; the file of a mandatory download goes after startup.
SPECIFICATION Spec
CONSTANTS
    Session = {s1}
    file = file
    dir = dir
    Path <- Paths
    DefaultDirs = {dir}
    Fsims <- OneOfEach
    DBCanFail = FALSE
INVARIANTS
    MandatoryIsGiven
