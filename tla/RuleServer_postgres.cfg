SPECIFICATION Spec
CONSTANTS
    Sets = {s1}
    Contents = {c1, c2}
    ValidContents = {c1}
    Keys = {k1, k2}
    Requests = {r1, r2}
    NoKey = NoKey
    NoSig = NoSig
    NoRequest = NoRequest
    Postgres = TRUE
    MaxRaceRetries = 1
    MaxRevision = 2
    MaxPublication = 2
SYMMETRY Symmetry
INVARIANTS
    SignaturesVerify
    NoRaceRetry
    SignatureFileFresh
PROPERTIES
    LogSpec
CHECK_DEADLOCK FALSE
