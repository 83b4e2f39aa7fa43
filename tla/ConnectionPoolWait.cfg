SPECIFICATION FairSpec
CONSTANTS
    Threads = {t1, t2, t3}
    None = None
    MaxConnections = 1
    ConnLimit = 2
    Sessions = 1
    WaitMode = "forever"
    Ops <- WaitOps
PROPERTY WaiterServed
