SPECIFICATION Spec

CONSTANTS
    Jobs = {j1, j2}
    Workers = {w1}
    QueueSize = 1
    NoJob = NoJob
    MaxAttempts = 2

SYMMETRY Symmetry

INVARIANTS
    EnqueueNeverPanics

\* The process may end, and clients may stop making requests.
CHECK_DEADLOCK FALSE
