SPECIFICATION FairUnfurlSpec

CONSTANTS
    Codes = {c1, c2}
    URLs = {u1, u2}
    Jobs = {j1, j2}
    Workers = {w1, w2}
    QueueSize = 1
    NoJob = NoJob
    NoRow = NoRow
    NoPreview = NoPreview
    MaxPatches = 2
    MaxFaults = 1

INVARIANTS
    LateAnswersFit

PROPERTIES
    AttemptsAreStamped

\* Nobody has to create or to change a link.
CHECK_DEADLOCK FALSE
