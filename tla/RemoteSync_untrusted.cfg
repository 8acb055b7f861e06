SPECIFICATION Spec
CONSTANTS
    Sets = {s1, s2}
    Contents = {c1}
    Keys = {k1, k2}
    NoKey = NoKey
    NoSig = NoSig
    NoFile = NoFile
    CacheLag = FALSE
    UntrustedSource = TRUE
    MaxRevision = 2
    MaxPublication = 2
    MaxEdits = 1
    MaxFaults = 1
SYMMETRY Symmetry
INVARIANTS
    CopyGenuine

    
    
    
CHECK_DEADLOCK FALSE
