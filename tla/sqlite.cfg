SPECIFICATION FairSQLiteSpec

CONSTANTS
    Codes = {c1}
    Sessions = {p1, p2}
    NoRow = NoRow
    Nobody = Nobody
    ColumnCount = 2
    Retention = 1
    PageSize = 1
    Lifetimes = {0, 1}
    Workloads = {{"Set", "Delete", "RecordClick", "Tick", "Stop"},
                 {"Set", "RecordClick", "RecentClicks", "Tick"},
                 {"Set", "Update", "RotateToken", "Delete", "Tick"},
                 {"Set", "CreateAPIKey", "LookupAPIKey", "DeleteAPIKey", "Stop"}}
    MaxDrawn = 3
    MaxClicks = 1
    MaxClock = 3
    MaxFaults = 1

INVARIANTS
    CountMatchesClicks
    ClicksDurable
    BindingsKeepTheirKey

PROPERTIES
    RevocationAtomic
    CleanupTakesOnlyTheOld
    PageHoldsNewest
    SQLiteImplementsLifecycle
    LockReleased
    Reopens

\* Nobody has to call or to start the program.
CHECK_DEADLOCK FALSE
