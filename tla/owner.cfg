SPECIFICATION Spec

CONSTANTS
    Codes = {c1, c2}
    Procs = {p1, p2}
    URLs = {u1}
    NoURL = NoURL
    NoRow = NoRow
    NoCode = NoCode
    Keep = Keep
    ClickCap = 2
    AuditCap = 2
    MaxRequests = 4
    MaxExpirationMinutes = 1
    MaxClock = 3
    LinkBodies <- ExpiringLinks
    PatchBodies <- NoPatches
    Endpoints = {"shorten", "redirect", "rotate", "delete", "keys"}

SYMMETRY Symmetry

INVARIANTS
    AuditRing
    LogCoversCount

PROPERTIES
    ImplementsLifecycle
    RevokedKeysStayDead
    ActorsAttributed

\* Every request may have been served: the system then rests.
CHECK_DEADLOCK FALSE
