SPECIFICATION FairSpec
CONSTANTS
    Clients = {a}
    Controllers = {c, d}
    None = None
    QueueSize = 1
    MaxWrites = 2
    MaxWriters = 2
    MaxCalls = 2
    Ops <- OrderlyOps
PROPERTIES
    Answered
    Returns
