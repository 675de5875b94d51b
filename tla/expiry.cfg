SPECIFICATION FairSpec

CONSTANTS
    Codes = {c1}
    Procs = {p1, p2}
    URLs = {u1}
    NoURL = NoURL
    NoRow = NoRow
    NoCode = NoCode
    Keep = Keep
    ClickCap = 2
    AuditCap = 2
    MaxRequests = 3
    MaxExpirationMinutes = 1
    MaxClock = 3
    LinkBodies <- ExpiringLinks
    PatchBodies <- LifePatches
    Endpoints = {"shorten", "redirect", "patch", "rotate", "delete", "keys"}

INVARIANTS
    FanOutFollowsRecord
    WebhookPaired

PROPERTIES
    RequestsComplete
    ExpiredReaped
    AuditedOrUnread

\* Every request may have been served: the system then rests.
CHECK_DEADLOCK FALSE
