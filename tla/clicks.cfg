SPECIFICATION Spec

CONSTANTS
    Codes = {c1}
    Procs = {p1, p2, p3}
    URLs = {u1}
    NoURL = NoURL
    NoRow = NoRow
    NoCode = NoCode
    Keep = Keep
    ClickCap = 2
    AuditCap = 2
    MaxRequests = 5
    MaxExpirationMinutes = 1
    MaxClock = 1
    LinkBodies <- CappedLinks
    PatchBodies <- CapPatches
    Endpoints = {"shorten", "redirect", "patch", "delete"}

SYMMETRY Symmetry

INVARIANTS
    TypeOK
    OvershootBounded
    LedgerAgrees

\* Every request may have been served: the system then rests.
CHECK_DEADLOCK FALSE
