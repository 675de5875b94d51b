------------------------------- MODULE DNSCache -------------------------------
(***************************************************************************)
(* services/dnscache.go: verdicts of ValidateHostAtRuntime on the host of  *)
(* a redirect's destination, kept for ttl.  The resolver is external: what *)
(* a host resolves to changes at any time, and a lookup takes a while in   *)
(* which nothing is locked.                                                *)
(***************************************************************************)
EXTENDS GateClock

CONSTANTS
    Hosts,
    NoEntry,
    TTL,
    CacheCap,
    MaxFlips      \* bound: changes of what hosts resolve to

VARIABLES
    addresses,    \* Hosts -> what the host resolves to now
    flips,
    data,         \* Hosts -> the cached verdict, or NoEntry
    checks,       \* Requests -> the call in progress, or its answer
    \* History variable: nothing below reads it.
    lastTrue      \* Hosts -> verdict -> until when it was the right one

cacheVars == <<addresses, flips, data, checks, lastTrue>>

\* Public addresses only, some that is not, or none.
Resolutions == {"public", "private", "none"}

\* ValidateHostAtRuntime: every address must be public, and there must be one.
Verdict(resolution) ==
    CASE resolution = "public"  -> "ok"
      [] resolution = "private" -> "ErrPrivateAddress"
      [] resolution = "none"    -> "ErrInvalidHost"

Verdicts == {Verdict(a) : a \in Resolutions}

Entry == [err : Verdicts, expires : Nat]

CheckPCs == {"idle", "look", "resolve", "store", "done"}

ASSUME CacheAssumption ==
    /\ TTL \in Nat \ {0}
    /\ CacheCap \in Nat \ {0}
    /\ MaxFlips \in Nat
    /\ NoEntry \notin Entry

\* A destination is validated when its link is created.
CacheInit ==
    /\ addresses = [h \in Hosts |-> "public"]
    /\ flips = 0
    /\ data = [h \in Hosts |-> NoEntry]
    /\ checks = [r \in Requests |->
                   [pc |-> "idle", host |-> NoEntry, now |-> 0, err |-> "ok"]]
    /\ lastTrue = [h \in Hosts |-> [v \in Verdicts |-> 0]]

----------------------------------------------------------------------------

\* A DNS answer changes, or the resolver stops or starts to answer.
Flip(h, resolution) ==
    /\ flips < MaxFlips
    /\ addresses[h] # resolution
    /\ addresses' = [addresses EXCEPT ![h] = resolution]
    /\ flips' = flips + 1
    /\ lastTrue' = [lastTrue EXCEPT ![h][Verdict(addresses[h])] = clock]
    /\ UNCHANGED <<data, checks>>

Cached == {h \in Hosts : data[h] # NoEntry}

\* ValidateHost: the clock is read first.
Validate(r, h) ==
    /\ checks[r].pc = "idle"
    /\ checks' = [checks EXCEPT ![r] = [@ EXCEPT !.pc = "look", !.host = h, !.now = clock]]
    /\ UNCHANGED <<addresses, flips, data, lastTrue>>

Hit(r) ==
    LET h == checks[r].host
    IN  h \in Cached /\ checks[r].now < data[h].expires

LookUp(r) ==
    /\ checks[r].pc = "look"
    /\ checks' = IF Hit(r)
                 THEN [checks EXCEPT ![r].pc = "done", ![r].err = data[checks[r].host].err]
                 ELSE [checks EXCEPT ![r].pc = "resolve"]
    /\ UNCHANGED <<addresses, flips, data, lastTrue>>

Resolve(r) ==
    /\ checks[r].pc = "resolve"
    /\ checks' = [checks EXCEPT ![r].pc = "store",
                                ![r].err = Verdict(addresses[checks[r].host])]
    /\ UNCHANGED <<addresses, flips, data, lastTrue>>

\* evictIfFullLocked: what is left of the map before a verdict is stored.
Evicted(now) ==
    LET live == {h \in Cached : now <= data[h].expires}
    IN  IF Cardinality(Cached) < CacheCap THEN data
        ELSE [h \in Hosts |-> IF h \in live /\ Cardinality(live) < CacheCap
                              THEN data[h] ELSE NoEntry]

\* Mutant: the verdict counts from when it is stored.
ExpiresLate(r) == clock + TTL

Expires(r) == checks[r].now + TTL

\* The slower of two lookups of a host stores the older verdict last.
Store(r) ==
    /\ checks[r].pc = "store"
    /\ data' = [Evicted(checks[r].now) EXCEPT ![checks[r].host] =
                  [err |-> checks[r].err, expires |-> Expires(r)]]
    /\ checks' = [checks EXCEPT ![r].pc = "done"]
    /\ UNCHANGED <<addresses, flips, lastTrue>>

ValidateHost(r) == LookUp(r) \/ Resolve(r) \/ Store(r)

----------------------------------------------------------------------------

CacheTypeOK ==
    /\ addresses \in [Hosts -> Resolutions]
    /\ flips \in 0..MaxFlips
    /\ data \in [Hosts -> Entry \cup {NoEntry}]
    /\ checks \in [Requests -> [pc : CheckPCs, host : Hosts \cup {NoEntry}, now : Nat,
                               err : Verdicts]]
    /\ lastTrue \in [Hosts -> [Verdicts -> Nat]]
===============================================================================
