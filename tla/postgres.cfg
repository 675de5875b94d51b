SPECIFICATION FairPostgresSpec

CONSTANTS
    Codes = {c1, c2}
    Sessions = {p1, p2}
    Cleaners = {w1}
    NoRow = NoRow
    ColumnCount = 0
    Retention = 1
    Lifetimes = {0, 1}
    Workloads <- PostgresWorkloads
    MaxDrawn = 3
    MaxClicks = 1
    MaxClock = 3
    MaxFaults = 1

INVARIANTS
    CountMatchesClicks
    ClicksAccounted

PROPERTIES
    PostgresImplementsLifecycle
    NobodyWaitsForever

\* Nobody has to call.
CHECK_DEADLOCK FALSE
