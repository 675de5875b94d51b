----------------------------- MODULE RedirectGate -----------------------------
(***************************************************************************)
(* What GET /{code} passes before it is counted: the read limiter of       *)
(* app.go, then the deny list and the DNS cache on the host of the         *)
(* destination that PickDestination chose.  The link itself is             *)
(* RedirectHandler's business.                                             *)
(***************************************************************************)
EXTENDS RateLimiter, DNSCache

CONSTANTS
    DenyList,   \* hosts whose own name or parent domain is on the list
    Traffic,    \* what the clients send: functions from sets of Requests
    MaxTicks    \* bound: ticks of the clock, by what the clients send

gateVars == <<clock, asks, limiterVars, cacheVars>>

\* Pool has the hosts of a link's destinations that have a positive weight.
ASSUME GateAssumption ==
    /\ IsFiniteSet(Requests)
    /\ DenyList \subseteq Hosts
    /\ MaxTicks \in [Traffic -> Nat]
    /\ \A t \in Traffic : DOMAIN t \subseteq Requests
    /\ \A t \in Traffic : t \in [DOMAIN t -> [Remote : IPs,
                                              Forwarded : Seq(IPs \cup {NotAnIP}),
                                              Pool : SUBSET Hosts]]

Init ==
    /\ clock = TTL
    /\ asks \in Traffic
    /\ LimiterInit
    /\ CacheInit

\* A request is in the limiter for microseconds: it is never two ticks behind.
Lagging(r) == gate[r].pc \in {"load", "count"} /\ gate[r].now < clock

Tick ==
    /\ clock < TTL + MaxTicks[asks]
    /\ ~ \E r \in Requests : Lagging(r)
    /\ clock' = clock + 1
    /\ UNCHANGED <<asks, limiterVars, cacheVars>>

Limit(r) ==
    /\ Arrive(r) \/ Middleware(r)
    /\ UNCHANGED <<clock, asks, cacheVars>>

\* The handler picks a destination; a denied host ends the request.
Handle(r) ==
    /\ gate[r].pc = "admitted"
    /\ \E h \in asks[r].Pool \ DenyList : Validate(r, h)
    /\ UNCHANGED <<clock, asks, limiterVars>>

Check(r) ==
    /\ ValidateHost(r)
    /\ UNCHANGED <<clock, asks, limiterVars>>

\* What other hosts resolve to makes no difference to anyone.
Followed == UNION {asks[r].Pool : r \in DOMAIN asks}

Next ==
    \/ \E r \in Requests : Limit(r) \/ Handle(r) \/ Check(r)
    \/ Janitor /\ UNCHANGED <<clock, asks, cacheVars>>
    \/ \E h \in Followed, a \in Resolutions : Flip(h, a) /\ UNCHANGED <<clock, asks, limiterVars>>
    \/ Tick

Spec == Init /\ [][Next]_gateVars

----------------------------------------------------------------------------
(* Properties. *)

\* Requests of an address that were admitted in a stretch of time.
AdmittedIn(ip, from, to) ==
    {r \in DOMAIN asks : ClientIP(r) = ip /\ admitted[r] # 0 /\ admitted[r] \in from..to}

\* ratelimit.go:12, README.md:381: an address is held to Rate requests per
\* window.  In a stretch as long as a window, two windows of one bucket may
\* touch, and up to three buckets take part: a request may count in a bucket
\* that the janitor drops meanwhile, and a late sweep may be followed by one
\* in time.  That is all that can add up, and not even all of it.
AdmissionBounded ==
    \A ip \in IPs : \A from \in TTL..clock :
        LET A == AdmittedIn(ip, from, from + Window)
            B == {window[r].bucket : r \in A}
        IN  /\ Cardinality(A) <= 2 * Rate * Cardinality(B)
            /\ Cardinality(B) <= 3
            /\ Cardinality(A) <= 5 * Rate

\* ratelimit.go:58: a request is turned away only if its address has had Rate
\* requests admitted no longer than a window before it came.
RefusedOnlyWhenSpent ==
    [][\A r \in DOMAIN asks :
          gate[r].pc = "count" /\ gate'[r].pc = "limited" =>
              Cardinality(AdmittedIn(ClientIP(r), gate[r].now - Window, clock)) >= Rate]_gateVars

\* dnscache.go:12: "a rebound host is blocked within 5 seconds of the DNS
\* flip", and a host that resolves again is let through: the verdict of a
\* redirect was the right one less than TTL before it asked, or later.
VerdictsFresh ==
    \A r \in Requests : checks[r].pc = "done" =>
        LET h == checks[r].host
            v == checks[r].err
        IN  Verdict(addresses[h]) = v \/ lastTrue[h][v] + TTL > checks[r].now
===============================================================================
