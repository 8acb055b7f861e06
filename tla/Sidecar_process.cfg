\* Two lines of two parts through a buffer of three, two states of the policy
\* file.
SPECIFICATION FairSpec
CONSTANTS
    Modes = {"closed", "audit"}
    Policies = {"once", "watch"}
    Parts = 2
    BufferCap = 3
    MaxLines = 2
    MaxFiles = 2
INVARIANTS
    OutputKept
    FlushedOnExit
    OneConfigPerLine
PROPERTIES
    LinesAppear
    SignalEnds
    EventuallyApplied
CHECK_DEADLOCK FALSE
