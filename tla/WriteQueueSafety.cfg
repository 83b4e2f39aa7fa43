SPECIFICATION Spec
CONSTANTS
    Clients = {a, b}
    Controllers = {c}
    None = None
    QueueSize = 2
    MaxWrites = 3
    MaxWriters = 2
    MaxCalls = 5
    Ops <- FaultOps
SYMMETRY Symmetry
INVARIANTS
    WriterSound
    InOrder
    Told
    PauseExclusive
    Flushed
PROPERTY AnswerStands
CHECK_DEADLOCK FALSE
