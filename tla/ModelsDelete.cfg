SPECIFICATION ModelsSpec
CONSTANTS
    NoObject = NoObject
    Readers = {"r1", "r2"}
    NoCursor = 0
    Table <- CachedRows
    BadSets = {{}, {2}}
    Runs = 2
    Reads = 4
    Instances = {"i", "j"}
    Parents = {"r1", "n"}
    KnownIds <- KnownParents
    Texts = {"default", "key"}
    RowIds = {1, 2}
    Steps = 4
    Clients = {"p", "q"}
    Sides = {"course", "student"}
    Of <- Related
    Throughs <- ThroughModels
    Askers = {"p", "q"}
    Unsaved = "new"
    MaxCalls = 3
    StoreKeys = {"x", "y"}
    Backends = {"sqlite", "postgres"}
    MaxWrites = 3
    Parts = {"graph"}
INVARIANT
    SparesOthers
CHECK_DEADLOCK FALSE
