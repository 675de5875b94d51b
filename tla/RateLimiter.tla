------------------------------ MODULE RateLimiter ------------------------------
(***************************************************************************)
(* middleware/ratelimit.go: a fixed window per client address.  Buckets    *)
(* are shared by reference: a request finds its bucket in one step and     *)
(* counts in it in another, and in between the janitor may have taken the  *)
(* bucket out of the map.  A bucket is named by the request that made it.  *)
(***************************************************************************)
EXTENDS GateClock

CONSTANTS
    IPs,         \* what net.ParseIP accepts
    NotAnIP,     \* any other element of X-Forwarded-For
    NoBucket,
    Rate,
    Window,
    TrustProxy

VARIABLES
    asks,      \* the requests that clients make -> what they send
    gate,      \* Requests -> where the request is in Middleware
    buckets,   \* the sync.Map: IPs -> the bucket's name, or NoBucket
    heap,      \* Requests -> the bucket that the request made
    janitor,
    \* History variables: nothing below reads them.
    admitted,  \* Requests -> when next.ServeHTTP was called, 0 if never
    window,    \* Requests -> the bucket and the window that it counted in
    born       \* Requests -> when the bucket it made went into the map

limiterVars == <<gate, buckets, heap, janitor, admitted, window, born>>

\* The window is a minute (app.go:98) and a tick half of it at most,
\* which is longer than any request is in the limiter.
ASSUME LimiterAssumption ==
    /\ Rate \in Nat \ {0}
    /\ Window \in Nat \ {0, 1}
    /\ TrustProxy \in BOOLEAN
    /\ NotAnIP \notin IPs
    /\ NoBucket \notin Requests

GatePCs == {"idle", "load", "count", "admitted", "limited"}

\* ClientIP: behind a proxy the rightmost element that is an address, and
\* the address of the connection without one.
ClientIP(r) ==
    LET xff == asks[r].Forwarded
        valid == {i \in 1..Len(xff) : xff[i] # NotAnIP}
    IN  IF TrustProxy /\ valid # {}
        THEN xff[CHOOSE i \in valid : \A k \in valid : k <= i]
        ELSE asks[r].Remote

\* A request before or after its time in the limiter.
Passed(pc) == [pc |-> pc, now |-> 0, bucket |-> NoBucket]

Stale(b, now) == now > heap[b].resetAt

LimiterInit ==
    /\ gate = [r \in Requests |-> Passed("idle")]
    /\ buckets = [ip \in IPs |-> NoBucket]
    /\ heap = [r \in Requests |-> [count |-> 0, resetAt |-> 0]]
    /\ janitor = [now |-> 0, due |-> clock + 2 * Window, todo |-> {}, stale |-> {}]
    /\ admitted = [r \in Requests |-> 0]
    /\ window = [r \in Requests |-> [bucket |-> NoBucket, resetAt |-> 0]]
    /\ born = [r \in Requests |-> 0]

----------------------------------------------------------------------------
(* Middleware. *)

Arrive(r) ==
    /\ r \in DOMAIN asks
    /\ gate[r].pc = "idle"
    /\ gate' = [gate EXCEPT ![r].pc = "load", ![r].now = clock]
    /\ UNCHANGED <<buckets, heap, janitor, admitted, window, born>>

\* Mutant: every request stores a bucket of its own.
StoreAlways(r) ==
    /\ gate[r].pc = "load"
    /\ buckets' = [buckets EXCEPT ![ClientIP(r)] = r]
    /\ heap' = [heap EXCEPT ![r].resetAt = gate[r].now + Window]
    /\ gate' = [gate EXCEPT ![r].pc = "count", ![r].bucket = r]
    /\ born' = [born EXCEPT ![r] = clock]
    /\ UNCHANGED <<janitor, admitted, window>>

LoadOrStore(r) ==
    /\ gate[r].pc = "load"
    /\ LET ip == ClientIP(r)
       IN  IF buckets[ip] = NoBucket
           THEN /\ buckets' = [buckets EXCEPT ![ip] = r]
                /\ heap' = [heap EXCEPT ![r].resetAt = gate[r].now + Window]
                /\ gate' = [gate EXCEPT ![r].pc = "count", ![r].bucket = r]
                /\ born' = [born EXCEPT ![r] = clock]
           ELSE /\ gate' = [gate EXCEPT ![r].pc = "count", ![r].bucket = buckets[ip]]
                /\ UNCHANGED <<buckets, heap, born>>
    /\ UNCHANGED <<janitor, admitted, window>>

\* Mutant: the new window starts with the count of the old one.
ResetKeepsCount(b, now) == [count |-> heap[b].count, resetAt |-> now + Window]

Reset(b, now) == [count |-> 0, resetAt |-> now + Window]

\* The section under the bucket's lock.
Count(r) ==
    LET b     == gate[r].bucket
        w     == IF Stale(b, gate[r].now) THEN Reset(b, gate[r].now) ELSE heap[b]
        count == w.count + 1
    IN  /\ gate[r].pc = "count"
        /\ heap' = [heap EXCEPT ![b] = [w EXCEPT !.count = count]]
        /\ gate' = [gate EXCEPT ![r] = Passed(IF count > Rate THEN "limited" ELSE "admitted")]
        /\ admitted' = [admitted EXCEPT ![r] = IF count > Rate THEN 0 ELSE clock]
        /\ window' = [window EXCEPT ![r] = [bucket |-> b, resetAt |-> w.resetAt]]
        /\ UNCHANGED <<buckets, janitor, born>>

Middleware(r) == LoadOrStore(r) \/ Count(r)

----------------------------------------------------------------------------
(* The janitor.  Range visits every key; looking at a bucket takes its lock *)
(* and deleting it does not.  The context's end is left out: the janitor    *)
(* then stops, as it may anyway.                                            *)

\* now is when the ticker fired, which may be a while ago.
Sweep ==
    /\ janitor.todo \cup janitor.stale = {}
    /\ \E now \in janitor.due..clock :
          janitor' = [now |-> now, due |-> janitor.due + 2 * Window, stale |-> {},
                      todo |-> {ip \in IPs : buckets[ip] # NoBucket}]
    /\ UNCHANGED <<gate, buckets, heap, admitted, window, born>>

Look(ip) ==
    /\ ip \in janitor.todo
    /\ janitor.stale = {}
    /\ janitor' = [janitor EXCEPT
                     !.todo  = @ \ {ip},
                     !.stale = IF Stale(buckets[ip], janitor.now) THEN {ip} ELSE {}]
    /\ UNCHANGED <<gate, buckets, heap, admitted, window, born>>

\* A request may hold the bucket, or have started a new window in it.
Delete(ip) ==
    /\ ip \in janitor.stale
    /\ buckets' = [buckets EXCEPT ![ip] = NoBucket]
    /\ janitor' = [janitor EXCEPT !.stale = {}]
    /\ UNCHANGED <<gate, heap, admitted, window, born>>

Janitor == Sweep \/ \E ip \in IPs : Look(ip) \/ Delete(ip)

----------------------------------------------------------------------------

Bucket == [count : Nat, resetAt : Nat]

LimiterTypeOK ==
    /\ gate \in [Requests -> [pc : GatePCs, now : Nat, bucket : Requests \cup {NoBucket}]]
    /\ buckets \in [IPs -> Requests \cup {NoBucket}]
    /\ heap \in [Requests -> Bucket]
    /\ janitor \in [now : Nat, due : Nat, todo : SUBSET IPs, stale : SUBSET IPs]
    /\ admitted \in [Requests -> Nat]
    /\ window \in [Requests -> [bucket : Requests \cup {NoBucket}, resetAt : Nat]]
    /\ born \in [Requests -> Nat]
===============================================================================
