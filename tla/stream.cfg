SPECIFICATION FairSpec

CONSTANTS
    Codes = {c1}
    Clicks = {e1, e2, e3}
    Clients = {s1, s2}
    NoCode = NoCode
    BufferSize = 1
    MaxClaims = 2

INVARIANTS
    SubscribersHear

PROPERTIES
    PublishersFinish
    LeaversForgotten

\* Nobody has to follow or to watch a link.
CHECK_DEADLOCK FALSE
