SPECIFICATION Spec
CONSTANTS
    Rows = {r1}
    MaxDepth = 3
    MaxSaves = 3
    Ops <- MixedOps
INVARIANTS
    ModesSound
