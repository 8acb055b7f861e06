SPECIFICATION FairSpec
CONSTANTS
    Sets = {s1}
    Contents = {c1, c2}
    ValidContents = {c1}
    Keys = {k1}
    Requests = {r1, r2}
    NoKey = NoKey
    NoSig = NoSig
    NoRequest = NoRequest
    Postgres = FALSE
    MaxRaceRetries = 1
    MaxRevision = 1
    MaxPublication = 2
PROPERTIES
    RequestsFinish
CHECK_DEADLOCK FALSE
