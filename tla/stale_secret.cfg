SPECIFICATION Spec

CONSTANTS
    Codes = {c1}
    Procs = {p1, p2}
    URLs = {u1}
    NoURL = NoURL
    NoRow = NoRow
    NoCode = NoCode
    Keep = Keep
    ClickCap = 2
    AuditCap = 2
    MaxRequests = 3
    MaxExpirationMinutes = 1
    MaxClock = 1
    LinkBodies <- HookedLinks
    PatchBodies <- HookPatches
    Endpoints = {"shorten", "patch"}

SYMMETRY Symmetry

PROPERTIES
    PatchKeepsSecret

\* Every request may have been served: the system then rests.
CHECK_DEADLOCK FALSE
