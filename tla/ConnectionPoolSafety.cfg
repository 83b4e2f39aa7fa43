SPECIFICATION Spec
CONSTANTS
    Threads = {t1, t2}
    None = None
    MaxConnections = 1
    ConnLimit = 3
    Sessions = 2
    WaitMode = "finite"
    Ops <- SafeOps
SYMMETRY Symmetry
INVARIANTS
    PoolBounded
    Exclusive
    IdleClean
    TransactionKeepsConnection
    NoLeak
    LockOrder
PROPERTY CheckoutUsable
