SPECIFICATION ResultsSpec
CONSTANTS
    Drivers = {"aiosqlite", "aiomysql", "asyncpg"}
    Gens = {"g1", "g2"}
    Nobody = "nobody"
    RowCount = 3
    Buffer = 2
    Queries = 2
INVARIANTS
    StreamsSafe
    ObjectsAsJoined
    RelatedAsStored
PROPERTY
    NeverStuck
CHECK_DEADLOCK FALSE
