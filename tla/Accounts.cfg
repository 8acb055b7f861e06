CONSTANTS
    e1 = e1  e2 = e2  h1 = h1  h2 = h2  admin = admin  o1 = o1  o2 = o2
    None = None
    Emails = {e1, e2}
    Handlers = {h1, h2}
    AdminOrg = admin
    Slugs = {admin, o1, o2}
    SlugOf <- SameSlug
    MaxAttempts = 2
    LoginTTL = 3
    SessionTTL = 3
    TicksPerSecond = 3
    TextRank <- Rank
    MaxLinks = 2
    MaxClock = 6
SPECIFICATION Spec
INVARIANTS WorksOnce InTime AccountsWhole
SYMMETRY Sym
CHECK_DEADLOCK FALSE
