CONSTANTS
    Pods = {p1, p2}
    Slots = {r1, r2}
    None = None
    Interval = 2
    MaxLines = 2
    MaxFaults = 1
SPECIFICATION FairSpec
INVARIANTS CountedOnce
PROPERTIES AllReported StatusSettles
CHECK_DEADLOCK FALSE
