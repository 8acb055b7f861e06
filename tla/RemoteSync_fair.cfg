SPECIFICATION FairSpec
CONSTANTS
    Sets = {s1}
    Contents = {c1}
    Keys = {k1}
    NoKey = NoKey
    NoSig = NoSig
    NoFile = NoFile
    CacheLag = TRUE
    UntrustedSource = FALSE
    MaxRevision = 2
    MaxPublication = 2
    MaxEdits = 1
    MaxFaults = 1
PROPERTIES
    LocalApplied
    EventuallyCurrent
CHECK_DEADLOCK FALSE
