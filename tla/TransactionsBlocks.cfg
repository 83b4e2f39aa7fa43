SPECIFICATION Spec
CONSTANTS
    Rows = {r1, r2}
    MaxDepth = 3
    MaxSaves = 3
    Ops <- BlockOps
SYMMETRY Symmetry
INVARIANTS
    InTransactionTrue
    SavepointsKept
    ContextsSound
PROPERTY Implements
