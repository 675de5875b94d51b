SPECIFICATION FairSpec

CONSTANTS
    Jobs = {j1, j2}
    Workers = {w1, w2}
    QueueSize = 1
    NoJob = NoJob
    MaxAttempts = 3

INVARIANTS
    TypeOK
    OnePlace
    DrainedWhenClosed

PROPERTIES
    PostsAreRetries
    AcceptedSettle
    CloseReturns

\* The process may end, and clients may stop making requests.
CHECK_DEADLOCK FALSE
