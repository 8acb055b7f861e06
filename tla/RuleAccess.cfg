SPECIFICATION MCSpec
CONSTANTS
    Keys = {k1, k2, k3}
    Every = 2
    Burst = 2
    MaxBuckets = 2
    MaxTime = 6
    MaxPullTime = 3
    None = None
    Tokens = {t1}
    Sets = {s1, s2}
    Handlers = {h1, h2}
    DayLength = 1
    Retention = 1
    TouchEvery = 1
    PullEvery = 1
    PullBurst = 2
    MaxPulls = 3
SYMMETRY Symmetry
INVARIANTS CountsExact LastUsedRight
PROPERTIES NeverForgiven
CHECK_DEADLOCK FALSE
