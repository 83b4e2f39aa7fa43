SPECIFICATION SchemaSpec
CONSTANTS
    Runners = {"r1", "r2"}
    NoOne = "nobody"
    Migration <- ThreeMigrations
    Transactional = TRUE
    Statements = 2
    Commands = 2
    Faults = 1
    Threads = {"t", "u"}
    FunctionNames = {"f"}
    Versions = {1, 2}
    Schemata = {"aux"}
    Files = {"a.db", "bad.db"}
    Broken = {"bad.db"}
    Extensions = {"fts"}
    PragmaKeys = {"cache"}
    Settings = {1}
    Timeouts = {5, 10}
    MaxStatements = 4
    Tables <- AlteredTables
    Asked <- Alterations
    Dialects = {"sqlite", "postgres", "mysql", "cockroach"}
    SqliteVersions = {24, 53}
    MigrateCalls = 1
    Mishaps = 1
    MaxAttempts = {0, 1, 2}
    Parts = {"migrations", "migrator", "diff", "dataset", "lifecycle", "sqlite", "retries", "changelog", "reflection"}
INVARIANTS
    MigrationsTrue
    RowsSurvive
    SchemaKnown
    SettingsLast
    NothingHalfDone
CHECK_DEADLOCK FALSE
