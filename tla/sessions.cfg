SPECIFICATION FairSpec
CONSTANTS
    Platforms = {tomato, delivery}
    Tomato = tomato
    Threads = {t1, t2}
    NoThread = NoThread
    MaxValue = 2
    MaxOps = 4
INVARIANTS StoredLoginIsKept
PROPERTIES ExecutesLoggedIn LoginEnds
CHECK_DEADLOCK FALSE
