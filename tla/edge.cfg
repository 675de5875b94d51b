SPECIFICATION Spec

CONSTANTS
    i1 = i1
    i2 = i2
    i3 = i3
    h1 = h1
    h2 = h2
    Requests = {r1, r2, r3, r4}
    IPs = {i1, i2, i3}
    NotAnIP = NotAnIP
    NoBucket = NoBucket
    Rate = 1
    Window = 2
    TrustProxy = TRUE
    Hosts = {h1, h2}
    NoEntry = NoEntry
    TTL = 1
    CacheCap = 1
    MaxFlips = 1
    DenyList = {}
    Traffic <- BurstOrCrowd
    MaxTicks <- FourOrOne

SYMMETRY Symmetry

INVARIANTS
    AdmissionBounded
    VerdictsFresh

PROPERTIES
    RefusedOnlyWhenSpent

\* Nobody has to make a request.
CHECK_DEADLOCK FALSE
