SPECIFICATION Spec
CONSTANTS
    Tasks = {t1, t2}
    None = None
    Settings <- MCSettings
    PoolSize = 1
    MinSize = 0
    ConnLimit = 3
    PoolLimit = 2
    Visits = 2
INVARIANTS
    Exclusive
    IdleClean
    NothingLost
CHECK_DEADLOCK FALSE
