-------------------------- MODULE RedirectGateProofs --------------------------
(***************************************************************************)
(* Theorems about RedirectGate, for any number of requests, clients and    *)
(* hosts, any rate, window, TTL and capacity of the cache.                 *)
(***************************************************************************)
EXTENDS RedirectGate, FiniteSetTheorems, TLAPS

----------------------------------------------------------------------------
(* The DNS cache. *)

\* v is the right verdict on h, or was until less than TTL before t.
RightWithin(h, v, t) == Verdict(addresses[h]) = v \/ lastTrue[h][v] + TTL >= t

\* VerdictsFresh is not inductive: it takes what is in the cache, and what a
\* lookup has brought and not yet stored, to be fresh as well.  A verdict
\* expires a TTL after a time not later than its lookup.
VerdictsKept ==
    /\ \A h \in Cached : data[h].expires <= clock + TTL
                         /\ RightWithin(h, data[h].err, data[h].expires)
    /\ \A r \in Requests :
         /\ checks[r].pc # "idle" => checks[r].host \in Hosts
         /\ checks[r].now <= clock
         /\ checks[r].pc = "store" => RightWithin(checks[r].host, checks[r].err, checks[r].now + TTL)

CacheInv == clock \in Nat /\ CacheTypeOK /\ VerdictsKept /\ VerdictsFresh

LEMMA CacheStarts == Init => CacheInv
BY CacheAssumption DEF Init, CacheInit, CacheInv, CacheTypeOK, VerdictsKept, VerdictsFresh,
   Resolutions, Verdicts, Verdict, CheckPCs, Cached

LEMMA VerdictsAreVerdicts == \A a \in Resolutions : Verdict(a) \in Verdicts
BY DEF Verdicts

\* What was right stays right within the same bounds when DNS changes now.
LEMMA FlipKeepsRight ==
    ASSUME CacheInv, NEW g \in Hosts, NEW a \in Resolutions, Flip(g, a),
           NEW h \in Hosts, NEW v \in Verdicts, NEW t \in Nat, RightWithin(h, v, t),
           t <= clock + TTL
    PROVE  RightWithin(h, v, t)'
<1>1. /\ clock \in Nat /\ TTL \in Nat
      /\ addresses \in [Hosts -> Resolutions]
      /\ lastTrue \in [Hosts -> [Verdicts -> Nat]]
  BY CacheAssumption DEF CacheInv, CacheTypeOK
<1>2. addresses' = [addresses EXCEPT ![g] = a]
      /\ lastTrue' = [lastTrue EXCEPT ![g][Verdict(addresses[g])] = clock]
  BY DEF Flip
<1>3. Verdict(addresses[g]) \in Verdicts
  BY <1>1, VerdictsAreVerdicts
<1>4. CASE h = g /\ v = Verdict(addresses[g])
  <2>1. lastTrue'[h][v] = clock
    BY <1>1, <1>2, <1>3, <1>4
  <2> QED
    BY <1>1, <2>1 DEF RightWithin
<1>5. CASE h = g /\ v # Verdict(addresses[g])
  <2>1. lastTrue'[h][v] = lastTrue[h][v]
    BY <1>1, <1>2, <1>3, <1>5
  <2> QED
    BY <1>5, <2>1 DEF RightWithin
<1>6. CASE h # g
  <2>1. lastTrue'[h] = lastTrue[h] /\ addresses'[h] = addresses[h]
    BY <1>1, <1>2, <1>6
  <2> QED
    BY <2>1 DEF RightWithin
<1> QED
  BY <1>4, <1>5, <1>6

LEMMA FlipKeepsCache ==
    ASSUME CacheInv, NEW g \in Hosts, NEW a \in Resolutions, Flip(g, a), clock' = clock
    PROVE  CacheInv'
<1>1. /\ clock \in Nat /\ TTL \in Nat \ {0} /\ MaxFlips \in Nat
      /\ CacheTypeOK
      /\ data' = data /\ checks' = checks /\ Cached' = Cached
  BY CacheAssumption DEF CacheInv, Flip, Cached
<1>2. CacheTypeOK'
  <2>1. addresses' \in [Hosts -> Resolutions] /\ flips' \in 0..MaxFlips
    BY <1>1 DEF CacheTypeOK, Flip
  <2>2. Verdict(addresses[g]) \in Verdicts
    BY <1>1, VerdictsAreVerdicts DEF CacheTypeOK
  <2>3. lastTrue' \in [Hosts -> [Verdicts -> Nat]]
    BY <1>1, <2>2 DEF CacheTypeOK, Flip
  <2> QED
    BY <1>1, <2>1, <2>3 DEF CacheTypeOK
<1>3. \A h \in Cached : data[h] \in Entry
  BY <1>1 DEF CacheTypeOK, Cached
<1>4. \A r \in Requests : checks[r].err \in Verdicts /\ checks[r].now \in Nat
  BY <1>1 DEF CacheTypeOK
<1>5. VerdictsKept'
  <2>1. \A h \in Cached : data[h].expires <= clock + TTL /\ RightWithin(h, data[h].err, data[h].expires)'
    BY <1>1, <1>3, FlipKeepsRight DEF CacheInv, VerdictsKept, Cached, Entry
  <2>2. ASSUME NEW r \in Requests, checks[r].pc = "store"
        PROVE  RightWithin(checks[r].host, checks[r].err, checks[r].now + TTL)'
    BY <1>1, <1>4, <2>2, FlipKeepsRight DEF CacheInv, VerdictsKept
  <2> QED
    BY <1>1, <2>1, <2>2 DEF CacheInv, VerdictsKept, RightWithin
<1>6. ASSUME NEW r \in Requests, checks[r].pc = "done"
      PROVE  RightWithin(checks[r].host, checks[r].err, checks[r].now + 1)'
  <2>1. RightWithin(checks[r].host, checks[r].err, checks[r].now + 1)
    BY <1>1, <1>4, <1>6 DEF CacheInv, VerdictsFresh, VerdictsKept, RightWithin, CacheTypeOK
  <2> QED
    BY <1>1, <1>4, <1>6, <2>1, FlipKeepsRight DEF CacheInv, VerdictsKept
<1>7. VerdictsFresh'
  <2> SUFFICES ASSUME NEW r \in Requests, checks[r].pc = "done"
               PROVE  \/ Verdict(addresses'[checks[r].host]) = checks[r].err
                      \/ lastTrue'[checks[r].host][checks[r].err] + TTL > checks[r].now
    BY <1>1 DEF VerdictsFresh
  <2>1. checks[r].host \in Hosts
    BY DEF CacheInv, VerdictsKept
  <2>2. lastTrue'[checks[r].host][checks[r].err] \in Nat
    BY <1>2, <1>4, <2>1 DEF CacheTypeOK
  <2> QED
    BY <1>1, <1>4, <1>6, <2>2 DEF RightWithin
<1> QED
  BY <1>1, <1>2, <1>5, <1>7 DEF CacheInv

LEMMA ValidateKeepsCache ==
    ASSUME CacheInv, NEW r \in Requests, NEW h \in Hosts, Validate(r, h), clock' = clock
    PROVE  CacheInv'
<1>1. CacheTypeOK'
  BY DEF CacheInv, CacheTypeOK, Validate, CheckPCs
<1>2. /\ UNCHANGED <<addresses, data, lastTrue, Cached>>
      /\ \A q \in Requests : q # r => checks'[q] = checks[q]
      /\ checks'[r].pc = "look" /\ checks'[r].host = h /\ checks'[r].now = clock
  BY DEF CacheInv, CacheTypeOK, Validate, Cached
<1> QED
  BY <1>1, <1>2 DEF CacheInv, VerdictsKept, VerdictsFresh, RightWithin

LEMMA LookUpKeepsCache ==
    ASSUME CacheInv, NEW r \in Requests, LookUp(r), clock' = clock
    PROVE  CacheInv'
<1> DEFINE h == checks[r].host
<1>1. h \in Hosts /\ checks[r].now \in Nat
  BY DEF CacheInv, CacheTypeOK, VerdictsKept, LookUp
<1>2. UNCHANGED <<addresses, data, lastTrue, flips, Cached>>
  BY DEF LookUp, Cached
<1>3. CASE Hit(r)
  <2>1. /\ h \in Cached /\ checks[r].now < data[h].expires
        /\ data[h] \in Entry
        /\ RightWithin(h, data[h].err, data[h].expires)
    BY <1>1, <1>3 DEF Hit, CacheInv, CacheTypeOK, Cached, VerdictsKept
  <2>2. checks' = [checks EXCEPT ![r].pc = "done", ![r].err = data[h].err]
    BY <1>3 DEF LookUp
  <2>3. CacheTypeOK'
    BY <1>2, <2>1, <2>2 DEF CacheInv, CacheTypeOK, CheckPCs, Entry
  <2>4. /\ \A q \in Requests : q # r => checks'[q] = checks[q]
        /\ checks'[r].pc = "done" /\ checks'[r].err = data[h].err
        /\ checks'[r].host = h /\ checks'[r].now = checks[r].now
    BY <2>2 DEF CacheInv, CacheTypeOK
  <2>5. VerdictsKept'
    BY <1>1, <1>2, <2>4 DEF CacheInv, VerdictsKept, RightWithin
  <2>6. Verdict(addresses[h]) = data[h].err \/ lastTrue[h][data[h].err] + TTL > checks[r].now
    <3>1. lastTrue[h][data[h].err] \in Nat /\ TTL \in Nat /\ data[h].expires \in Nat
      BY <1>1, <2>1, CacheAssumption DEF CacheInv, CacheTypeOK, Entry
    <3> QED
      BY <1>1, <2>1, <3>1 DEF RightWithin
  <2>7. VerdictsFresh'
    BY <1>1, <1>2, <2>4, <2>6 DEF CacheInv, VerdictsFresh
  <2> QED
    BY <2>3, <2>5, <2>7 DEF CacheInv
<1>4. CASE ~Hit(r)
  <2>1. checks' = [checks EXCEPT ![r].pc = "resolve"]
    BY <1>4 DEF LookUp
  <2>2. CacheTypeOK'
    BY <1>2, <2>1 DEF CacheInv, CacheTypeOK, CheckPCs
  <2>3. /\ \A q \in Requests : q # r => checks'[q] = checks[q]
        /\ checks'[r].pc = "resolve"
        /\ checks'[r].host = h /\ checks'[r].now = checks[r].now
    BY <2>1 DEF CacheInv, CacheTypeOK
  <2> QED
    BY <1>1, <1>2, <2>2, <2>3 DEF CacheInv, VerdictsKept, VerdictsFresh, RightWithin
<1> QED
  BY <1>3, <1>4

LEMMA ResolveKeepsCache ==
    ASSUME CacheInv, NEW r \in Requests, Resolve(r), clock' = clock
    PROVE  CacheInv'
<1> DEFINE h == checks[r].host
<1>1. h \in Hosts
  BY DEF CacheInv, VerdictsKept, Resolve
<1>2. Verdict(addresses[h]) \in Verdicts
  BY <1>1, VerdictsAreVerdicts DEF CacheInv, CacheTypeOK
<1>3. UNCHANGED <<addresses, data, lastTrue, flips, Cached>>
      /\ checks' = [checks EXCEPT ![r].pc = "store", ![r].err = Verdict(addresses[h])]
  BY DEF Resolve, Cached
<1>4. CacheTypeOK'
  BY <1>2, <1>3 DEF CacheInv, CacheTypeOK, CheckPCs
<1>5. /\ \A q \in Requests : q # r => checks'[q] = checks[q]
      /\ checks'[r].pc = "store" /\ checks'[r].err = Verdict(addresses[h])
      /\ checks'[r].host = h /\ checks'[r].now = checks[r].now
  BY <1>3 DEF CacheInv, CacheTypeOK
<1> QED
  BY <1>1, <1>3, <1>4, <1>5 DEF CacheInv, VerdictsKept, VerdictsFresh, RightWithin

\* What eviction leaves was there before.
LEMMA EvictedOnlyForgets ==
    ASSUME data \in [Hosts -> Entry \cup {NoEntry}], NEW now \in Nat
    PROVE  /\ Evicted(now) \in [Hosts -> Entry \cup {NoEntry}]
           /\ \A h \in Hosts : Evicted(now)[h] = data[h] \/ Evicted(now)[h] = NoEntry
BY DEF Evicted

LEMMA StoreKeepsCache ==
    ASSUME CacheInv, NEW r \in Requests, Store(r), clock' = clock
    PROVE  CacheInv'
<1> DEFINE h == checks[r].host
           now == checks[r].now
           kept == Evicted(now)
           new == [err |-> checks[r].err, expires |-> now + TTL]
<1>1. /\ h \in Hosts /\ now \in Nat /\ now <= clock /\ clock \in Nat
      /\ checks[r].err \in Verdicts
      /\ RightWithin(h, checks[r].err, now + TTL)
      /\ TTL \in Nat \ {0}
  BY CacheAssumption DEF CacheInv, CacheTypeOK, VerdictsKept, Store
<1>2. /\ kept \in [Hosts -> Entry \cup {NoEntry}]
      /\ \A g \in Hosts : kept[g] = data[g] \/ kept[g] = NoEntry
  BY <1>1, EvictedOnlyForgets DEF CacheInv, CacheTypeOK
<1>3. /\ UNCHANGED <<addresses, lastTrue, flips>>
      /\ data' = [kept EXCEPT ![h] = new]
      /\ checks' = [checks EXCEPT ![r].pc = "done"]
  BY DEF Store, Expires
<1> HIDE DEF kept, new
<1>4. new \in Entry /\ new.err = checks[r].err /\ new.expires = now + TTL
  BY <1>1 DEF Entry, new
<1>5. CacheTypeOK'
  BY <1>2, <1>3, <1>4 DEF CacheInv, CacheTypeOK, CheckPCs
<1>6. /\ \A q \in Requests : q # r => checks'[q] = checks[q]
      /\ checks'[r].pc = "done" /\ checks'[r].err = checks[r].err
      /\ checks'[r].host = h /\ checks'[r].now = now
  BY <1>3 DEF CacheInv, CacheTypeOK
<1>7. ASSUME NEW g \in Cached'
      PROVE  data'[g].expires <= clock + TTL /\ RightWithin(g, data'[g].err, data'[g].expires)
  <2>1. CASE g = h
    BY <1>1, <1>2, <1>3, <1>4, <2>1
  <2>2. CASE g # h
    <3>1. g \in Hosts /\ data'[g] # NoEntry /\ data'[g] = kept[g]
      BY <1>2, <1>3, <2>2 DEF Cached
    <3>2. data'[g] = data[g] /\ g \in Cached
      BY <1>2, <3>1 DEF Cached
    <3> QED
      BY <3>2 DEF CacheInv, VerdictsKept
  <2> QED
    BY <2>1, <2>2
<1>8. VerdictsKept'
  BY <1>1, <1>3, <1>6, <1>7 DEF CacheInv, VerdictsKept, RightWithin
<1>9. Verdict(addresses[h]) = checks[r].err \/ lastTrue[h][checks[r].err] + TTL > now
  BY <1>1 DEF CacheInv, CacheTypeOK, RightWithin
<1>10. VerdictsFresh'
  BY <1>3, <1>6, <1>9 DEF CacheInv, VerdictsFresh
<1> QED
  BY <1>1, <1>5, <1>8, <1>10 DEF CacheInv

LEMMA TickKeepsCache ==
    ASSUME CacheInv, UNCHANGED cacheVars, clock' = clock \/ clock' = clock + 1
    PROVE  CacheInv'
<1>1. clock \in Nat /\ TTL \in Nat
  BY CacheAssumption DEF CacheInv
<1>2. UNCHANGED <<addresses, flips, data, checks, lastTrue, Cached>>
  BY DEF cacheVars, Cached
<1>3. CacheTypeOK' /\ VerdictsFresh'
  BY <1>2 DEF CacheInv, CacheTypeOK, VerdictsFresh
<1>4. VerdictsKept'
  <2>1. /\ \A r \in Requests : checks[r].now \in Nat
        /\ \A h \in Cached : data[h] \in Entry
    BY DEF CacheInv, CacheTypeOK, Cached
  <2>2. ASSUME NEW h \in Cached PROVE data[h].expires <= clock' + TTL
    BY <1>1, <2>1 DEF CacheInv, VerdictsKept, Entry
  <2>3. ASSUME NEW r \in Requests PROVE checks[r].now <= clock'
    BY <1>1, <2>1 DEF CacheInv, VerdictsKept
  <2> QED
    BY <1>2, <2>2, <2>3 DEF CacheInv, VerdictsKept, RightWithin
<1> QED
  BY <1>1, <1>3, <1>4 DEF CacheInv

----------------------------------------------------------------------------
(* The clients. *)

\* A request in the limiter, or past it, is one that a client has made.
AsksInv ==
    /\ asks \in Traffic
    /\ \A r \in Requests : gate[r].pc # "idle" => r \in DOMAIN asks

LEMMA TrafficTyped ==
    ASSUME asks \in Traffic, NEW r \in DOMAIN asks
    PROVE  /\ r \in Requests
           /\ asks[r].Remote \in IPs
           /\ asks[r].Forwarded \in Seq(IPs \cup {NotAnIP})
           /\ asks[r].Pool \subseteq Hosts
BY GateAssumption

\* A set of positions in a sequence has a last one.
LEMMA LastPosition ==
    ASSUME NEW n \in Nat, NEW S \in SUBSET (1..n), S # {}
    PROVE  \E i \in S : \A k \in S : k <= i
<1> DEFINE From(i) == {k \in S : k >= i}
           Tails == {From(i) : i \in S}
<1>1. IsFiniteSet(S)
  <2>1. IsFiniteSet(1..n)
    BY 1 \in Int, n \in Int, FS_Interval
  <2> QED
    BY <2>1, FS_Subset
<1>2. IsWellFoundedOn(StrictSubsetOrdering(S), SUBSET S)
  BY <1>1, FS_FiniteSubsetsOfFinite, FS_StrictSubsetOrderingWellFounded
<1>3. Tails \subseteq SUBSET S /\ Tails # {}
  OBVIOUS
<1>4. PICK T \in Tails : \A U \in Tails : ~ (<<U, T>> \in StrictSubsetOrdering(S))
  <2> HIDE DEF Tails
  <2> QED
    BY <1>2, <1>3, WFMin
<1>5. PICK i \in S : T = From(i)
  OBVIOUS
<1>6. ASSUME NEW k \in S, k > i PROVE FALSE
  <2>1. From(k) \in Tails
    OBVIOUS
  <2> HIDE DEF Tails
  <2>2. From(k) \in SUBSET S /\ T \in SUBSET S /\ From(k) \subseteq T
                /\ i \in T /\ i \notin From(k)
    <3>1. i \in Nat /\ k \in Nat
      OBVIOUS
    <3>2. From(k) \in SUBSET S /\ i \notin From(k)
      BY <1>6, <3>1
    <3>3. From(i) \in SUBSET S /\ i \in From(i)
      BY <3>1
    <3>4. From(k) \subseteq From(i)
      <4>1. \A l \in S : l \in Nat
        OBVIOUS
      <4>2. \A l \in S : l >= k => l >= i
        BY <1>6, <3>1, <4>1
      <4> QED
        BY <4>2
    <3> HIDE DEF From
    <3> QED
      BY <1>5, <3>2, <3>3, <3>4
  <2> HIDE DEF From
  <2>3. <<From(k), T>> \in StrictSubsetOrdering(S)
    BY <2>2 DEF StrictSubsetOrdering
  <2> QED
    BY <1>4, <2>1, <2>3
<1> QED
  BY <1>6

LEMMA ClientIPIsAnIP ==
    ASSUME asks \in Traffic, NEW r \in DOMAIN asks
    PROVE  ClientIP(r) \in IPs
<1> DEFINE xff == asks[r].Forwarded
           valid == {i \in 1..Len(xff) : xff[i] # NotAnIP}
<1>1. xff \in Seq(IPs \cup {NotAnIP}) /\ asks[r].Remote \in IPs
  BY TrafficTyped
<1>2. CASE TrustProxy /\ valid # {}
  <2>1. Len(xff) \in Nat /\ valid \in SUBSET (1..Len(xff))
    BY <1>1
  <2>2. \E i \in valid : \A k \in valid : k <= i
    BY <1>2, <2>1, LastPosition
  <2> DEFINE last == CHOOSE i \in valid : \A k \in valid : k <= i
  <2>3. last \in valid
    BY <2>2
  <2>4. ClientIP(r) = xff[last]
    BY <1>2 DEF ClientIP
  <2> HIDE DEF last
  <2>5. xff[last] \in IPs
    BY <1>1, <2>3
  <2> QED
    BY <2>4, <2>5
<1>3. CASE ~(TrustProxy /\ valid # {})
  <2>1. ClientIP(r) = asks[r].Remote
    BY <1>3 DEF ClientIP
  <2> QED
    BY <1>1, <2>1
<1> QED
  BY <1>2, <1>3

LEMMA AsksStart == Init => AsksInv
BY DEF Init, LimiterInit, AsksInv, Passed

LEMMA AsksStay == LimiterTypeOK /\ AsksInv /\ [Next]_gateVars => AsksInv'
<1> SUFFICES ASSUME LimiterTypeOK, AsksInv, [Next]_gateVars PROVE AsksInv'
  OBVIOUS
<1>1. UNCHANGED asks
  BY DEF Next, Limit, Handle, Check, Tick, gateVars
<1>2. UNCHANGED gate \/ \E r \in Requests : Arrive(r) \/ Middleware(r)
  BY DEF Next, Limit, Handle, Check, Tick, Janitor, Sweep, Look, Delete, gateVars, limiterVars
<1>3. ASSUME NEW q \in Requests, gate'[q].pc # "idle" PROVE gate[q].pc # "idle" \/ q \in DOMAIN asks
  BY <1>2, <1>3 DEF Arrive, Middleware, LoadOrStore, Count, LimiterTypeOK
<1> QED
  BY <1>1, <1>3 DEF AsksInv

----------------------------------------------------------------------------
(* The limiter. *)

\* The request has looked for its bucket, and may have made one.
Counting(r) == gate[r].pc \notin {"idle", "load"}

\* A bucket, in the map or in the hands of a request, is the client's own.
BucketsOwned ==
    /\ \A ip \in IPs : buckets[ip] # NoBucket =>
          Counting(buckets[ip]) /\ ClientIP(buckets[ip]) = ip
    /\ \A r \in Requests : gate[r].pc = "count" =>
          /\ gate[r].bucket # NoBucket
          /\ Counting(gate[r].bucket)
          /\ ClientIP(gate[r].bucket) = ClientIP(r)

\* How many requests of its client the window of a bucket has seen admitted.
Spent(b) == Cardinality(AdmittedIn(ClientIP(b), heap[b].resetAt - Window, clock))

\* RefusedOnlyWhenSpent needs that a bucket does not count what was not
\* admitted: up to Rate, its count is covered by requests admitted since
\* its window began, those that counted in another bucket of the client
\* included.
CountsCovered ==
    /\ \A r \in Requests :
          /\ gate[r].pc \in {"load", "count"} => gate[r].now <= clock
          /\ gate[r].pc # "admitted" => admitted[r] = 0
    /\ \A b \in Requests :
          /\ heap[b].resetAt <= clock + Window
          /\ ~Counting(b) => heap[b].count = 0
          /\ Counting(b) => heap[b].count <= Spent(b) \/ Rate <= Spent(b)

LimiterInv == clock \in Nat \ {0} /\ LimiterTypeOK /\ BucketsOwned /\ CountsCovered

LEMMA AdmittedFinite ==
    ASSUME asks \in Traffic, NEW ip, NEW from \in Int, NEW to \in Int
    PROVE  /\ IsFiniteSet(AdmittedIn(ip, from, to))
           /\ Cardinality(AdmittedIn(ip, from, to)) \in Nat
<1>1. AdmittedIn(ip, from, to) \in SUBSET Requests
  BY GateAssumption DEF AdmittedIn
<1>2. IsFiniteSet(AdmittedIn(ip, from, to))
  BY <1>1, GateAssumption, FS_Subset
<1> QED
  BY <1>2, FS_CardinalityType

LEMMA WiderHoldsMore ==
    ASSUME NEW S, NEW T, IsFiniteSet(T), S \subseteq T
    PROVE  Cardinality(S) \in Nat /\ Cardinality(T) \in Nat /\ Cardinality(S) <= Cardinality(T)
<1>1. IsFiniteSet(S) /\ Cardinality(S) <= Cardinality(T)
  BY FS_Subset
<1> QED
  BY <1>1, FS_CardinalityType

LEMMA LimiterStarts == Init => AsksInv /\ LimiterInv
<1> SUFFICES ASSUME Init PROVE AsksInv /\ LimiterInv
  OBVIOUS
<1>1. TTL \in Nat \ {0} /\ clock = TTL /\ Window \in Nat \ {0}
  BY CacheAssumption, LimiterAssumption DEF Init
<1>2. LimiterTypeOK
  BY <1>1 DEF Init, LimiterInit, LimiterTypeOK, Passed, GatePCs, Bucket
<1>3. BucketsOwned /\ CountsCovered
  BY <1>1, <1>2 DEF Init, LimiterInit, LimiterTypeOK, BucketsOwned, CountsCovered, Counting,
     Passed, Bucket
<1> QED
  BY <1>1, <1>2, <1>3, AsksStart DEF LimiterInv

\* Time passing, and requests admitted, spend no less of any window.
LEMMA SpentGrows ==
    ASSUME AsksInv, LimiterInv, UNCHANGED asks, clock' \in Nat, clock <= clock',
           \A r \in Requests : admitted[r] # 0 => admitted'[r] = admitted[r],
           NEW ip, NEW from \in Int
    PROVE  /\ AdmittedIn(ip, from, clock) \subseteq AdmittedIn(ip, from, clock)'
           /\ Cardinality(AdmittedIn(ip, from, clock)) \in Nat
           /\ Cardinality(AdmittedIn(ip, from, clock)') \in Nat
           /\ Cardinality(AdmittedIn(ip, from, clock)) <= Cardinality(AdmittedIn(ip, from, clock)')
<1>1. AdmittedIn(ip, from, clock) \subseteq AdmittedIn(ip, from, clock)'
  <2> SUFFICES ASSUME NEW r \in AdmittedIn(ip, from, clock)
               PROVE  r \in AdmittedIn(ip, from, clock)'
    OBVIOUS
  <2>1. r \in DOMAIN asks /\ r \in Requests /\ ClientIP(r) = ip /\ admitted[r] # 0
        /\ admitted[r] \in from..clock
    BY TrafficTyped DEF AdmittedIn, AsksInv
  <2>2. ClientIP(r)' = ip
    BY <2>1 DEF ClientIP
  <2>3. admitted'[r] \in from..clock'
    BY <2>1 DEF LimiterInv
  <2> QED
    BY <2>1, <2>2, <2>3 DEF AdmittedIn
<1>2. IsFiniteSet(AdmittedIn(ip, from, clock)')
  <2>1. AdmittedIn(ip, from, clock)' \in SUBSET Requests
    BY GateAssumption DEF AdmittedIn, AsksInv
  <2> QED
    BY <2>1, GateAssumption, FS_Subset
<1> QED
  BY <1>1, <1>2, WiderHoldsMore

\* Steps that leave the buckets as they are, and the requests' place.
LEMMA LimiterRests ==
    ASSUME AsksInv, LimiterInv, LimiterTypeOK',
           UNCHANGED <<asks, gate, heap, admitted>>,
           clock' = clock \/ clock' = clock + 1,
           \A ip \in IPs : buckets'[ip] = buckets[ip] \/ buckets'[ip] = NoBucket
    PROVE  LimiterInv'
<1>1. /\ clock \in Nat \ {0} /\ clock' \in Nat \ {0} /\ clock <= clock'
      /\ Window \in Nat /\ Rate \in Nat
      /\ LimiterTypeOK
  BY LimiterAssumption DEF LimiterInv
<1>2. /\ \A r : ClientIP(r)' = ClientIP(r)
      /\ \A r : Counting(r)' = Counting(r)
  BY DEF ClientIP, Counting
<1>3. BucketsOwned'
  BY <1>2 DEF LimiterInv, BucketsOwned
<1>4. ASSUME NEW b \in Requests PROVE Spent(b) \in Nat /\ Spent(b)' \in Nat /\ Spent(b) <= Spent(b)'
  <2> PICK ip : ip = ClientIP(b)
    OBVIOUS
  <2>1. PICK from \in Int : from = heap[b].resetAt - Window
    BY <1>1 DEF LimiterTypeOK, Bucket
  <2>2. /\ Spent(b) = Cardinality(AdmittedIn(ip, from, clock))
        /\ Spent(b)' = Cardinality(AdmittedIn(ip, from, clock)')
    BY <1>2, <2>1 DEF Spent, AdmittedIn
  <2> QED
    BY <1>1, <2>2, SpentGrows
<1>5. ASSUME NEW b \in Requests
      PROVE  /\ heap[b].resetAt <= clock' + Window
             /\ ~Counting(b) => heap[b].count = 0
             /\ Counting(b) => heap[b].count <= Spent(b)' \/ Rate <= Spent(b)'
  <2>1. heap[b] \in Bucket
    BY <1>1 DEF LimiterTypeOK
  <2> QED
    BY <1>1, <1>4, <2>1 DEF LimiterInv, CountsCovered, Bucket
<1>6. ASSUME NEW r \in Requests
      PROVE  /\ gate[r].pc \in {"load", "count"} => gate[r].now <= clock'
             /\ gate[r].pc # "admitted" => admitted[r] = 0
  <2>1. gate[r].now \in Nat
    BY <1>1 DEF LimiterTypeOK
  <2> QED
    BY <1>1, <2>1 DEF LimiterInv, CountsCovered
<1>7. CountsCovered'
  BY <1>2, <1>5, <1>6 DEF CountsCovered
<1> QED
  BY <1>1, <1>3, <1>7 DEF LimiterInv

LEMMA ArriveKeepsLimiter ==
    ASSUME AsksInv, LimiterInv, NEW r \in Requests, Arrive(r), UNCHANGED <<clock, asks>>
    PROVE  LimiterInv'
<1>1. /\ clock \in Nat \ {0} /\ clock' = clock /\ LimiterTypeOK
      /\ gate' = [gate EXCEPT ![r].pc = "load", ![r].now = clock]
      /\ UNCHANGED <<buckets, heap, janitor, admitted, window, born>>
      /\ gate[r].pc = "idle"
  BY DEF LimiterInv, Arrive
<1>2. LimiterTypeOK'
  <2>1. gate \in [Requests -> [pc : GatePCs, now : Nat, bucket : Requests \cup {NoBucket}]]
    BY <1>1 DEF LimiterTypeOK
  <2>2. gate' \in [Requests -> [pc : GatePCs, now : Nat, bucket : Requests \cup {NoBucket}]]
    BY <1>1, <2>1 DEF GatePCs
  <2> QED
    BY <1>1, <2>2 DEF LimiterTypeOK
<1>3. /\ \A q \in Requests : q # r => gate'[q] = gate[q]
      /\ gate'[r].pc = "load" /\ gate'[r].now = clock
  BY <1>1 DEF LimiterTypeOK
<1>4. /\ \A q : ClientIP(q)' = ClientIP(q)
      /\ \A q \in Requests : Counting(q)' <=> Counting(q)
  <2>1. \A q : ClientIP(q)' = ClientIP(q)
    BY DEF ClientIP
  <2>2. ASSUME NEW q \in Requests PROVE Counting(q)' <=> Counting(q)
    BY <1>1, <1>3 DEF Counting
  <2> QED
    BY <2>1, <2>2
<1>5. \A q \in Requests : Spent(q)' = Spent(q)
  BY <1>1, <1>4 DEF Spent, AdmittedIn
<1>6. /\ \A ip \in IPs : buckets[ip] \in Requests \cup {NoBucket}
      /\ \A q \in Requests : gate[q].bucket \in Requests \cup {NoBucket}
  BY <1>1 DEF LimiterTypeOK
<1>7. BucketsOwned'
  <2>1. \A ip \in IPs : buckets[ip] # NoBucket => Counting(buckets[ip])' /\ ClientIP(buckets[ip]) = ip
    BY <1>1, <1>4, <1>6 DEF LimiterInv, BucketsOwned
  <2> QED
    BY <1>1, <1>3, <1>4, <1>6, <2>1 DEF LimiterInv, BucketsOwned
<1>8. CountsCovered'
  <2>1. \A q \in Requests :
          /\ gate'[q].pc \in {"load", "count"} => gate'[q].now <= clock
          /\ gate'[q].pc # "admitted" => admitted[q] = 0
    <3>1. \A q \in Requests :
            /\ gate[q].pc \in {"load", "count"} => gate[q].now <= clock
            /\ gate[q].pc # "admitted" => admitted[q] = 0
      BY DEF LimiterInv, CountsCovered
    <3>2. clock <= clock /\ admitted[r] = 0 /\ "idle" # "admitted"
      BY <1>1, <3>1
    <3> SUFFICES ASSUME NEW q \in Requests
                 PROVE  /\ gate'[q].pc \in {"load", "count"} => gate'[q].now <= clock
                        /\ gate'[q].pc # "admitted" => admitted[q] = 0
      OBVIOUS
    <3>3. CASE q = r
      BY <1>3, <3>2, <3>3
    <3>4. CASE q # r
      BY <1>3, <3>1, <3>4
    <3> QED
      BY <3>3, <3>4
  <2>2. \A q \in Requests :
          /\ heap[q].resetAt <= clock + Window
          /\ ~Counting(q)' => heap[q].count = 0
          /\ Counting(q)' => heap[q].count <= Spent(q)' \/ Rate <= Spent(q)'
    BY <1>4, <1>5 DEF LimiterInv, CountsCovered
  <2> QED
    BY <1>1, <2>1, <2>2 DEF CountsCovered
<1> QED
  BY <1>1, <1>2, <1>7, <1>8 DEF LimiterInv

LEMMA LoadKeepsLimiter ==
    ASSUME AsksInv, LimiterInv, NEW r \in Requests, LoadOrStore(r), UNCHANGED <<clock, asks>>
    PROVE  LimiterInv'
<1> DEFINE Counts(q) == gate'[q].pc \notin {"idle", "load"}
<1>1. /\ clock \in Nat \ {0} /\ clock' = clock /\ LimiterTypeOK
      /\ Window \in Nat \ {0} /\ Rate \in Nat \ {0} /\ NoBucket \notin Requests
      /\ gate[r].pc = "load" /\ UNCHANGED <<janitor, admitted, window>>
  BY LimiterAssumption DEF LimiterInv, LoadOrStore
<1>2. PICK ip \in IPs : ip = ClientIP(r)
  BY <1>1, ClientIPIsAnIP DEF AsksInv
<1>3. PICK b \in Requests :
        /\ gate' = [gate EXCEPT ![r].pc = "count", ![r].bucket = b]
        /\ \/ /\ buckets[ip] = NoBucket /\ b = r
              /\ buckets' = [buckets EXCEPT ![ip] = r]
              /\ heap' = [heap EXCEPT ![r].resetAt = gate[r].now + Window]
           \/ /\ b = buckets[ip] /\ b # NoBucket
              /\ UNCHANGED <<buckets, heap>>
  <2>1. buckets[ip] \in Requests \cup {NoBucket}
    BY <1>1 DEF LimiterTypeOK
  <2>2. CASE buckets[ip] = NoBucket
    BY <1>2, <2>2 DEF LoadOrStore
  <2>3. CASE buckets[ip] # NoBucket
    BY <1>2, <2>1, <2>3 DEF LoadOrStore
  <2> QED
    BY <2>2, <2>3
<1>4. /\ gate[r].now \in Nat /\ gate[r].now <= clock
      /\ heap[r] \in Bucket /\ heap[r].count = 0
  BY <1>1 DEF LimiterTypeOK, LimiterInv, CountsCovered, Counting
<1>5. /\ \A q \in Requests : q # r => gate'[q] = gate[q]
      /\ gate'[r].pc = "count" /\ gate'[r].now = gate[r].now /\ gate'[r].bucket = b
  BY <1>1, <1>3 DEF LimiterTypeOK
<1>6. /\ \A q : ClientIP(q)' = ClientIP(q)
      /\ \A q \in Requests : Counts(q) <=> Counting(q) \/ q = r
      /\ \A q \in Requests : Counting(q)' <=> Counts(q)
      /\ ~Counting(r)
  BY <1>1, <1>5 DEF ClientIP, Counting
<1>8. LimiterTypeOK'
  <2>1. gate' \in [Requests -> [pc : GatePCs, now : Nat, bucket : Requests \cup {NoBucket}]]
    <3>1. gate \in [Requests -> [pc : GatePCs, now : Nat, bucket : Requests \cup {NoBucket}]]
      BY <1>1 DEF LimiterTypeOK
    <3> QED
      BY <1>3, <3>1 DEF GatePCs
  <2>2. buckets' \in [IPs -> Requests \cup {NoBucket}]
    BY <1>1, <1>3 DEF LimiterTypeOK
  <2>3. heap' \in [Requests -> Bucket]
    BY <1>1, <1>3, <1>4 DEF LimiterTypeOK, Bucket
  <2>4. born' \in [Requests -> Nat]
    BY <1>1 DEF LimiterTypeOK, LoadOrStore
  <2> QED
    BY <1>1, <2>1, <2>2, <2>3, <2>4 DEF LimiterTypeOK
<1>9. Counts(b) /\ ClientIP(b) = ip
  BY <1>2, <1>3, <1>6 DEF LimiterInv, BucketsOwned
<1>10. \A j \in IPs : buckets'[j] = buckets[j] \/ (j = ip /\ buckets'[j] = b)
  BY <1>1, <1>2, <1>3 DEF LimiterTypeOK
<1>11. BucketsOwned'
  <2>1. ASSUME NEW j \in IPs, buckets'[j] # NoBucket
        PROVE  Counts(buckets'[j]) /\ ClientIP(buckets'[j]) = j
    <3>1. CASE buckets'[j] = buckets[j]
      <4>1. buckets[j] \in Requests
        BY <1>1, <2>1, <3>1 DEF LimiterTypeOK
      <4> QED
        BY <1>6, <2>1, <3>1, <4>1 DEF LimiterInv, BucketsOwned
    <3>2. CASE j = ip /\ buckets'[j] = b
      BY <1>9, <3>2
    <3> QED
      BY <1>10, <3>1, <3>2
  <2>2. ASSUME NEW q \in Requests, gate'[q].pc = "count"
        PROVE  /\ gate'[q].bucket # NoBucket
               /\ Counts(gate'[q].bucket)
               /\ ClientIP(gate'[q].bucket) = ClientIP(q)
    <3>1. CASE q = r
      BY <1>1, <1>2, <1>3, <1>5, <1>9, <3>1
    <3>2. CASE q # r
      <4>1. gate'[q] = gate[q] /\ gate[q].bucket \in Requests \cup {NoBucket}
        BY <1>1, <1>5, <3>2 DEF LimiterTypeOK
      <4>2. /\ gate[q].bucket # NoBucket
            /\ Counting(gate[q].bucket)
            /\ ClientIP(gate[q].bucket) = ClientIP(q)
        BY <2>2, <4>1 DEF LimiterInv, BucketsOwned
      <4> QED
        BY <1>6, <4>1, <4>2
    <3> QED
      BY <3>1, <3>2
  <2>3. buckets' \in [IPs -> Requests \cup {NoBucket}]
        /\ \A q \in Requests : gate'[q].bucket \in Requests \cup {NoBucket}
    BY <1>8 DEF LimiterTypeOK
  <2> QED
    BY <1>6, <2>1, <2>2, <2>3 DEF BucketsOwned
<1>12. ASSUME NEW q \in Requests
       PROVE  /\ heap'[q].resetAt <= clock + Window
              /\ ~Counts(q) => heap'[q].count = 0
              /\ Counts(q) => heap'[q].count <= Spent(q)' \/ Rate <= Spent(q)'
  <2>1. CASE q = r
    <3>1. /\ heap'[r].count = 0
          /\ heap'[r].resetAt \in Nat /\ heap'[r].resetAt <= clock + Window
      BY <1>1, <1>4, <1>3 DEF LimiterTypeOK, LimiterInv, CountsCovered, Bucket
    <3>2. Spent(r)' \in Nat
      <4>1. heap'[r].resetAt - Window \in Int /\ clock' \in Int
        BY <1>1, <3>1
      <4>2. \A S : S = AdmittedIn(ClientIP(r), heap'[r].resetAt - Window, clock') => Cardinality(S) \in Nat
        BY <4>1, AdmittedFinite DEF AsksInv
      <4>3. AdmittedIn(ClientIP(r), heap[r].resetAt - Window, clock)'
              = AdmittedIn(ClientIP(r), heap'[r].resetAt - Window, clock')
        BY <1>1, <1>6 DEF AdmittedIn
      <4> QED
        BY <4>2, <4>3 DEF Spent
    <3> QED
      BY <2>1, <3>1, <3>2
  <2>2. CASE q # r
    <3>1. heap'[q] = heap[q]
      BY <1>1, <1>3, <2>2 DEF LimiterTypeOK
    <3>2. Spent(q)' = Spent(q)
      BY <1>1, <1>6, <3>1 DEF Spent, AdmittedIn
    <3> QED
      BY <1>6, <2>2, <3>1, <3>2 DEF LimiterInv, CountsCovered
  <2> QED
    BY <2>1, <2>2
<1>13. CountsCovered'
  BY <1>1, <1>4, <1>5, <1>6, <1>12 DEF LimiterInv, CountsCovered
<1> QED
  BY <1>1, <1>8, <1>11, <1>13 DEF LimiterInv

\* What Count does, with the window it counts in named: w is new and empty,
\* or the bucket's, and covered either way.
LEMMA CountsInWindow ==
    ASSUME AsksInv, LimiterInv, NEW r \in Requests, Count(r)
    PROVE  \E b \in Requests, w \in Bucket, from \in Int :
             /\ Counting(b) /\ ClientIP(b) = ClientIP(r)
             /\ from = w.resetAt - Window /\ from <= clock
             /\ heap' = [heap EXCEPT ![b] = [count |-> w.count + 1, resetAt |-> w.resetAt]]
             /\ gate' = [gate EXCEPT ![r] = Passed(IF w.count + 1 > Rate THEN "limited" ELSE "admitted")]
             /\ admitted' = [admitted EXCEPT ![r] = IF w.count + 1 > Rate THEN 0 ELSE clock]
             /\ w.count = 0 \/ gate[r].now - Window <= from
             /\ \/ w.count <= Cardinality(AdmittedIn(ClientIP(r), from, clock))
                \/ Rate <= Cardinality(AdmittedIn(ClientIP(r), from, clock))
<1>1. /\ clock \in Nat \ {0} /\ LimiterTypeOK
      /\ Window \in Nat \ {0} /\ Rate \in Nat \ {0} /\ NoBucket \notin Requests
      /\ gate[r].pc = "count"
  BY LimiterAssumption DEF LimiterInv, Count
<1>2. PICK b \in Requests : b = gate[r].bucket /\ Counting(b) /\ ClientIP(b) = ClientIP(r)
  BY <1>1 DEF LimiterTypeOK, LimiterInv, BucketsOwned
<1>3. gate[r].now \in Nat /\ gate[r].now <= clock /\ heap[b] \in Bucket
  BY <1>1 DEF LimiterTypeOK, LimiterInv, CountsCovered
<1>4. PICK w : w = IF Stale(b, gate[r].now) THEN Reset(b, gate[r].now) ELSE heap[b]
  OBVIOUS
<1>5. w \in Bucket /\ w.resetAt <= clock + Window
  <2>1. CASE Stale(b, gate[r].now)
    BY <1>1, <1>3, <1>4, <2>1 DEF Reset, Bucket
  <2>2. CASE ~Stale(b, gate[r].now)
    BY <1>3, <1>4, <2>2 DEF LimiterInv, CountsCovered
  <2> QED
    BY <2>1, <2>2
<1>6. PICK from \in Int : from = w.resetAt - Window /\ from <= clock
  BY <1>1, <1>5 DEF Bucket
<1>7. [w EXCEPT !.count = w.count + 1] = [count |-> w.count + 1, resetAt |-> w.resetAt]
  BY <1>5 DEF Bucket
<1>8. /\ heap' = [heap EXCEPT ![b] = [w EXCEPT !.count = w.count + 1]]
      /\ gate' = [gate EXCEPT ![r] = Passed(IF w.count + 1 > Rate THEN "limited" ELSE "admitted")]
      /\ admitted' = [admitted EXCEPT ![r] = IF w.count + 1 > Rate THEN 0 ELSE clock]
  BY <1>2, <1>4 DEF Count
<1>9. w.count = 0 \/ gate[r].now - Window <= from
  <2>1. CASE Stale(b, gate[r].now)
    BY <1>4, <2>1 DEF Reset
  <2>2. CASE ~Stale(b, gate[r].now)
    BY <1>1, <1>3, <1>4, <1>6, <2>2 DEF Stale, Bucket
  <2> QED
    BY <2>1, <2>2
<1>10. \/ w.count <= Cardinality(AdmittedIn(ClientIP(r), from, clock))
       \/ Rate <= Cardinality(AdmittedIn(ClientIP(r), from, clock))
  <2>1. CASE Stale(b, gate[r].now)
    <3>1. w.count = 0
      BY <1>4, <2>1 DEF Reset
    <3>2. Cardinality(AdmittedIn(ClientIP(r), from, clock)) \in Nat
      BY <1>1, AdmittedFinite DEF AsksInv
    <3> QED
      BY <3>1, <3>2
  <2>2. CASE ~Stale(b, gate[r].now)
    BY <1>2, <1>4, <1>6, <2>2 DEF LimiterInv, CountsCovered, Spent
  <2> QED
    BY <2>1, <2>2
<1> QED
  BY <1>2, <1>5, <1>6, <1>7, <1>8, <1>9, <1>10

\* What Count does, with the bucket named and the window it counts in: the
\* bucket's own, or a new one that starts after it.
LEMMA CountInBucket ==
    ASSUME AsksInv, LimiterInv, NEW r \in Requests, Count(r)
    PROVE  \E b \in Requests, w \in Bucket :
             /\ b = gate[r].bucket
             /\ heap' = [heap EXCEPT ![b] = [count |-> w.count + 1, resetAt |-> w.resetAt]]
             /\ gate' = [gate EXCEPT ![r] = Passed(IF w.count + 1 > Rate THEN "limited" ELSE "admitted")]
             /\ admitted' = [admitted EXCEPT ![r] = IF w.count + 1 > Rate THEN 0 ELSE clock]
             /\ window' = [window EXCEPT ![r] = [bucket |-> b, resetAt |-> w.resetAt]]
             /\ UNCHANGED <<buckets, janitor, born>>
             /\ \/ w = heap[b] /\ gate[r].now <= w.resetAt
                \/ w.count = 0 /\ w.resetAt = gate[r].now + Window /\ heap[b].resetAt < gate[r].now
<1>1. /\ LimiterTypeOK /\ Window \in Nat /\ gate[r].pc = "count" /\ gate[r].now \in Nat
      /\ gate[r].bucket # NoBucket
  BY LimiterAssumption DEF LimiterInv, BucketsOwned, Count, LimiterTypeOK
<1>2. PICK b \in Requests : b = gate[r].bucket
  BY <1>1 DEF LimiterTypeOK
<1>3. heap[b] \in Bucket
  BY <1>1 DEF LimiterTypeOK
<1>4. PICK w : w = IF Stale(b, gate[r].now) THEN Reset(b, gate[r].now) ELSE heap[b]
  OBVIOUS
<1>5. /\ w \in Bucket
      /\ \/ w = heap[b] /\ gate[r].now <= w.resetAt
         \/ w.count = 0 /\ w.resetAt = gate[r].now + Window /\ heap[b].resetAt < gate[r].now
  <2>1. CASE Stale(b, gate[r].now)
    BY <1>1, <1>3, <1>4, <2>1 DEF Reset, Bucket, Stale
  <2>2. CASE ~Stale(b, gate[r].now)
    BY <1>1, <1>3, <1>4, <2>2 DEF Bucket, Stale
  <2> QED
    BY <2>1, <2>2
<1>6. [w EXCEPT !.count = w.count + 1] = [count |-> w.count + 1, resetAt |-> w.resetAt]
  BY <1>5 DEF Bucket
<1>7. /\ heap' = [heap EXCEPT ![b] = [w EXCEPT !.count = w.count + 1]]
      /\ gate' = [gate EXCEPT ![r] = Passed(IF w.count + 1 > Rate THEN "limited" ELSE "admitted")]
      /\ admitted' = [admitted EXCEPT ![r] = IF w.count + 1 > Rate THEN 0 ELSE clock]
      /\ window' = [window EXCEPT ![r] = [bucket |-> b, resetAt |-> w.resetAt]]
      /\ UNCHANGED <<buckets, janitor, born>>
  BY <1>2, <1>4 DEF Count
<1> QED
  BY <1>2, <1>5, <1>6, <1>7

LEMMA CountKeepsLimiter ==
    ASSUME AsksInv, LimiterInv, NEW r \in Requests, Count(r), UNCHANGED <<clock, asks>>
    PROVE  LimiterInv'
<1> DEFINE Counts(q) == gate'[q].pc \notin {"idle", "load"}
<1>1. /\ clock \in Nat \ {0} /\ clock' = clock /\ LimiterTypeOK
      /\ Window \in Nat \ {0} /\ Rate \in Nat \ {0}
      /\ gate[r].pc = "count" /\ admitted[r] = 0
      /\ UNCHANGED <<buckets, janitor>>
      /\ r \in DOMAIN asks
  BY LimiterAssumption DEF LimiterInv, CountsCovered, Count, AsksInv
<1>2. PICK b \in Requests, w \in Bucket, from \in Int :
             /\ Counting(b) /\ ClientIP(b) = ClientIP(r)
             /\ from = w.resetAt - Window /\ from <= clock
             /\ heap' = [heap EXCEPT ![b] = [count |-> w.count + 1, resetAt |-> w.resetAt]]
             /\ gate' = [gate EXCEPT ![r] = Passed(IF w.count + 1 > Rate THEN "limited" ELSE "admitted")]
             /\ admitted' = [admitted EXCEPT ![r] = IF w.count + 1 > Rate THEN 0 ELSE clock]
             /\ w.count = 0 \/ gate[r].now - Window <= from
             /\ \/ w.count <= Cardinality(AdmittedIn(ClientIP(r), from, clock))
                \/ Rate <= Cardinality(AdmittedIn(ClientIP(r), from, clock))
  BY CountsInWindow
<1>3. LimiterTypeOK'
  <2>1. w.count \in Nat /\ w.resetAt \in Nat
    BY DEF Bucket
  <2>2. gate' \in [Requests -> [pc : GatePCs, now : Nat, bucket : Requests \cup {NoBucket}]]
    BY <1>1, <1>2 DEF LimiterTypeOK, GatePCs, Passed
  <2>3. heap' \in [Requests -> Bucket]
    BY <1>1, <1>2, <2>1 DEF LimiterTypeOK, Bucket
  <2>4. admitted' \in [Requests -> Nat]
    BY <1>1, <1>2 DEF LimiterTypeOK
  <2>5. born' = born /\ window' \in [Requests -> [bucket : Requests \cup {NoBucket}, resetAt : Nat]]
    <3>1. PICK c \in Requests \cup {NoBucket}, e \in Nat :
            born' = born /\ window' = [window EXCEPT ![r] = [bucket |-> c, resetAt |-> e]]
      BY CountInBucket DEF Bucket
    <3> QED
      BY <1>1, <3>1 DEF LimiterTypeOK
  <2> QED
    BY <1>1, <2>2, <2>3, <2>4, <2>5 DEF LimiterTypeOK
<1>4. /\ \A q \in Requests : q # r => gate'[q] = gate[q] /\ admitted'[q] = admitted[q]
      /\ gate'[r] = Passed(IF w.count + 1 > Rate THEN "limited" ELSE "admitted")
      /\ admitted'[r] = IF w.count + 1 > Rate THEN 0 ELSE clock
      /\ \A q \in Requests : q # b => heap'[q] = heap[q]
      /\ heap'[b].count = w.count + 1 /\ heap'[b].resetAt = w.resetAt
  BY <1>1, <1>2 DEF LimiterTypeOK
<1>5. \A q : ClientIP(q)' = ClientIP(q)
  BY DEF ClientIP
<1>6. ASSUME NEW q \in Requests
      PROVE  (Counts(q) <=> Counting(q)) /\ (Counting(q)' <=> Counts(q))
  BY <1>1, <1>4 DEF Counting, Passed
<1>7. BucketsOwned'
  <2>1. \A j \in IPs : buckets[j] # NoBucket => Counting(buckets[j])' /\ ClientIP(buckets[j]) = j
    BY <1>1, <1>6 DEF LimiterInv, BucketsOwned, LimiterTypeOK
  <2>2. ASSUME NEW q \in Requests, gate'[q].pc = "count"
        PROVE  /\ gate'[q].bucket # NoBucket
               /\ Counts(gate'[q].bucket)
               /\ ClientIP(gate'[q].bucket) = ClientIP(q)
    <3>1. q # r
      BY <1>4, <2>2 DEF Passed
    <3>2. gate'[q] = gate[q] /\ gate[q].bucket \in Requests \cup {NoBucket}
      BY <1>1, <1>4, <3>1 DEF LimiterTypeOK
    <3>3. /\ gate[q].bucket # NoBucket
          /\ Counting(gate[q].bucket)
          /\ ClientIP(gate[q].bucket) = ClientIP(q)
      BY <2>2, <3>2 DEF LimiterInv, BucketsOwned
    <3> QED
      BY <1>6, <3>2, <3>3
  <2>3. \A q \in Requests : gate'[q].bucket \in Requests \cup {NoBucket}
    BY <1>3 DEF LimiterTypeOK
  <2> QED
    BY <1>1, <1>5, <1>6, <2>1, <2>2, <2>3 DEF BucketsOwned
<1>8. \A q \in Requests :
        /\ gate'[q].pc \in {"load", "count"} => gate'[q].now <= clock
        /\ gate'[q].pc # "admitted" => admitted'[q] = 0
  <2>1. \A q \in Requests :
          /\ gate[q].pc \in {"load", "count"} => gate[q].now <= clock
          /\ gate[q].pc # "admitted" => admitted[q] = 0
    BY DEF LimiterInv, CountsCovered
  <2> SUFFICES ASSUME NEW q \in Requests
               PROVE  /\ gate'[q].pc \in {"load", "count"} => gate'[q].now <= clock
                      /\ gate'[q].pc # "admitted" => admitted'[q] = 0
    OBVIOUS
  <2>2. CASE q = r
    BY <1>4, <2>2 DEF Passed
  <2>3. CASE q # r
    BY <1>4, <2>1, <2>3
  <2> QED
    BY <2>2, <2>3
<1>9. \A q \in Requests : admitted[q] # 0 => admitted'[q] = admitted[q]
  BY <1>1, <1>4
<1>10. w.count + 1 <= Spent(b)' \/ Rate <= Spent(b)'
  <2> DEFINE ip == ClientIP(r)
             before == AdmittedIn(ip, from, clock)
  <2>1. IsFiniteSet(before) /\ Cardinality(before) \in Nat /\ w.count \in Nat
    BY <1>1, AdmittedFinite DEF AsksInv, Bucket
  <2>2. PICK now : now = AdmittedIn(ClientIP(b), heap[b].resetAt - Window, clock)'
    OBVIOUS
  <2>3. now = {q \in DOMAIN asks : ClientIP(q) = ip /\ admitted'[q] # 0 /\ admitted'[q] \in from..clock}
    BY <1>1, <1>2, <1>4, <1>5, <2>2 DEF AdmittedIn
  <2>4. Spent(b)' = Cardinality(now)
    BY <2>2 DEF Spent
  <2>5. CASE w.count + 1 > Rate
    <3>1. \A q \in DOMAIN asks : admitted'[q] = admitted[q]
      BY <1>1, <1>4, <2>5, TrafficTyped DEF AsksInv
    <3>2. now = before
      BY <2>3, <3>1 DEF AdmittedIn
    <3> QED
      BY <1>1, <1>2, <2>1, <2>4, <2>5, <3>2
  <2>6. CASE ~(w.count + 1 > Rate)
    <3>1. admitted'[r] = clock /\ clock \in from..clock
      BY <1>1, <1>2, <1>4, <2>6
    <3>2. r \notin before
      BY <1>1 DEF AdmittedIn
    <3>3. \A q \in DOMAIN asks : q # r => admitted'[q] = admitted[q]
      BY <1>4, TrafficTyped DEF AsksInv
    <3>4. now = before \cup {r}
      BY <1>1, <2>3, <3>1, <3>3 DEF AdmittedIn
    <3> HIDE DEF before
    <3>5. Cardinality(now) = Cardinality(before) + 1
      BY <2>1, <3>2, <3>4, FS_AddElement
    <3>6. w.count <= Cardinality(before) \/ Rate <= Cardinality(before)
      BY <1>2 DEF before
    <3> QED
      BY <1>1, <2>1, <2>4, <3>5, <3>6
  <2> QED
    BY <2>5, <2>6
<1>11. ASSUME NEW q \in Requests, q # b
       PROVE  Counts(q) => heap[q].count <= Spent(q)' \/ Rate <= Spent(q)'
  <2>1. heap[q] \in Bucket
    BY <1>1 DEF LimiterTypeOK
  <2> PICK ip : ip = ClientIP(q)
    OBVIOUS
  <2>2. PICK since \in Int : since = heap[q].resetAt - Window
    BY <1>1, <2>1 DEF Bucket
  <2>3. /\ Spent(q) = Cardinality(AdmittedIn(ip, since, clock))
        /\ Spent(q)' = Cardinality(AdmittedIn(ip, since, clock)')
    BY <1>4, <1>5, <1>11, <2>2 DEF Spent, AdmittedIn
  <2>4. Spent(q) \in Nat /\ Spent(q)' \in Nat /\ Spent(q) <= Spent(q)'
    BY <1>1, <1>9, <2>3, SpentGrows
  <2>5. Counts(q) => heap[q].count <= Spent(q) \/ Rate <= Spent(q)
    BY <1>6 DEF LimiterInv, CountsCovered
  <2> QED
    BY <1>1, <2>1, <2>4, <2>5 DEF Bucket
<1>12. ASSUME NEW q \in Requests
       PROVE  /\ heap'[q].resetAt <= clock + Window
              /\ ~Counts(q) => heap'[q].count = 0
              /\ Counts(q) => heap'[q].count <= Spent(q)' \/ Rate <= Spent(q)'
  <2>1. CASE q = b
    <3>1. w.resetAt <= clock + Window
      BY <1>1, <1>2 DEF Bucket
    <3> QED
      BY <1>2, <1>4, <1>6, <1>10, <2>1, <3>1
  <2>2. CASE q # b
    BY <1>4, <1>6, <1>11, <2>2 DEF LimiterInv, CountsCovered
  <2> QED
    BY <2>1, <2>2
<1>13. CountsCovered'
  BY <1>1, <1>6, <1>8, <1>12 DEF CountsCovered
<1> QED
  BY <1>1, <1>3, <1>7, <1>13 DEF LimiterInv

LEMMA JanitorKeepsLimiter ==
    ASSUME AsksInv, LimiterInv, Janitor, UNCHANGED <<clock, asks>>
    PROVE  LimiterInv'
<1>1. LimiterTypeOK /\ clock \in Nat /\ Window \in Nat
  BY LimiterAssumption DEF LimiterInv
<1>2. UNCHANGED <<gate, heap, admitted>>
  BY DEF Janitor, Sweep, Look, Delete
<1>3. ASSUME Sweep
      PROVE  LimiterTypeOK' /\ UNCHANGED buckets
  <2>1. PICK now \in janitor.due..clock :
          janitor' = [now |-> now, due |-> janitor.due + 2 * Window, stale |-> {},
                      todo |-> {ip \in IPs : buckets[ip] # NoBucket}]
    BY <1>3 DEF Sweep
  <2> QED
    BY <1>1, <1>2, <1>3, <2>1 DEF LimiterTypeOK, Sweep
<1>4. ASSUME NEW ip \in IPs, Look(ip)
      PROVE  LimiterTypeOK' /\ UNCHANGED buckets
  <2>1. \E S \in {{}, {ip}} : janitor' = [janitor EXCEPT !.todo = @ \ {ip}, !.stale = S]
    BY <1>4 DEF Look
  <2> QED
    BY <1>1, <1>2, <1>4, <2>1 DEF LimiterTypeOK, Look
<1>5. ASSUME NEW ip \in IPs, Delete(ip)
      PROVE  /\ LimiterTypeOK'
             /\ \A j \in IPs : buckets'[j] = buckets[j] \/ buckets'[j] = NoBucket
  BY <1>1, <1>2, <1>5 DEF LimiterTypeOK, Delete
<1> QED
  BY <1>2, <1>3, <1>4, <1>5, LimiterRests DEF Janitor

LEMMA LimiterStays == AsksInv /\ LimiterInv /\ [Next]_gateVars => LimiterInv'
<1> SUFFICES ASSUME AsksInv, LimiterInv, [Next]_gateVars PROVE LimiterInv'
  OBVIOUS
<1>1. ASSUME NEW r \in Requests, Limit(r) PROVE LimiterInv'
  BY <1>1, ArriveKeepsLimiter, LoadKeepsLimiter, CountKeepsLimiter DEF Limit, Middleware
<1>2. ASSUME UNCHANGED <<asks, limiterVars>>, clock' = clock \/ clock' = clock + 1
      PROVE  LimiterInv'
  <2>1. UNCHANGED <<gate, buckets, heap, janitor, admitted, window, born>>
    BY <1>2 DEF limiterVars
  <2>2. LimiterTypeOK'
    BY <2>1 DEF LimiterInv, LimiterTypeOK
  <2> QED
    BY <1>2, <2>1, <2>2, LimiterRests
<1>3. ASSUME NEW r \in Requests, Handle(r) \/ Check(r) PROVE LimiterInv'
  BY <1>2, <1>3 DEF Handle, Check
<1>4. ASSUME Janitor, UNCHANGED <<clock, asks, cacheVars>> PROVE LimiterInv'
  BY <1>4, JanitorKeepsLimiter
<1>5. ASSUME Tick PROVE LimiterInv'
  BY <1>2, <1>5 DEF Tick
<1>6. ASSUME UNCHANGED gateVars PROVE LimiterInv'
  BY <1>2, <1>6 DEF gateVars
<1> QED
  BY <1>1, <1>2, <1>3, <1>4, <1>5, <1>6 DEF Next

----------------------------------------------------------------------------
(* The theorems. *)

LEMMA CacheStays == AsksInv /\ CacheInv /\ [Next]_gateVars => CacheInv'
<1> SUFFICES ASSUME AsksInv, CacheInv, [Next]_gateVars PROVE CacheInv'
  OBVIOUS
<1>1. ASSUME NEW r \in Requests, Limit(r) PROVE CacheInv'
  BY <1>1, TickKeepsCache DEF Limit
<1>2. ASSUME NEW r \in Requests, Handle(r) PROVE CacheInv'
  <2>1. clock' = clock
    BY <1>2 DEF Handle
  <2>2. PICK h \in asks[r].Pool \ DenyList : Validate(r, h)
    BY <1>2 DEF Handle
  <2>3. h \in Hosts
    BY <1>2, <2>2, TrafficTyped DEF Handle, AsksInv
  <2> QED
    BY <2>1, <2>2, <2>3, ValidateKeepsCache
<1>3. ASSUME NEW r \in Requests, Check(r) PROVE CacheInv'
  BY <1>3, LookUpKeepsCache, ResolveKeepsCache, StoreKeepsCache DEF Check, ValidateHost
<1>4. ASSUME Janitor, UNCHANGED <<clock, asks, cacheVars>> PROVE CacheInv'
  BY <1>4, TickKeepsCache
<1>5. ASSUME NEW h \in Followed, NEW a \in Resolutions, Flip(h, a), UNCHANGED clock
      PROVE  CacheInv'
  <2>1. h \in Hosts
    BY TrafficTyped DEF AsksInv, Followed
  <2> QED
    BY <1>5, <2>1, FlipKeepsCache
<1>6. ASSUME Tick PROVE CacheInv'
  BY <1>6, TickKeepsCache DEF Tick
<1>7. ASSUME UNCHANGED gateVars PROVE CacheInv'
  BY <1>7, TickKeepsCache DEF gateVars
<1> QED
  BY <1>1, <1>2, <1>3, <1>4, <1>5, <1>6, <1>7 DEF Next

LEMMA GateHolds == Spec => [](AsksInv /\ LimiterInv /\ CacheInv)
<1>1. Init => AsksInv /\ LimiterInv /\ CacheInv
  BY LimiterStarts, CacheStarts
<1>2. AsksInv /\ LimiterInv /\ CacheInv /\ [Next]_gateVars
        => (AsksInv /\ LimiterInv /\ CacheInv)'
  BY AsksStay, LimiterStays, CacheStays DEF LimiterInv
<1> QED
  BY <1>1, <1>2, PTL DEF Spec

\* dnscache.go:12: however lookups, evictions and DNS changes interleave, a
\* redirect's verdict on its destination was right less than a TTL before it
\* asked, or later.
THEOREM VerdictsStayFresh == Spec => []VerdictsFresh
BY GateHolds, PTL DEF CacheInv

\* ratelimit.go:58: whatever the janitor drops and however late a request
\* counts, nobody is turned away whose address has not had Rate requests
\* admitted in the window before.
THEOREM NobodyRefusedEarly == Spec => RefusedOnlyWhenSpent
<1> DEFINE Refusal == \A r \in DOMAIN asks :
          gate[r].pc = "count" /\ gate'[r].pc = "limited" =>
              Cardinality(AdmittedIn(ClientIP(r), gate[r].now - Window, clock)) >= Rate
<1>1. ASSUME AsksInv, LimiterInv, [Next]_gateVars
      PROVE  Refusal
  <2> SUFFICES ASSUME NEW r \in DOMAIN asks, gate[r].pc = "count", gate'[r].pc = "limited"
               PROVE  Cardinality(AdmittedIn(ClientIP(r), gate[r].now - Window, clock)) >= Rate
    OBVIOUS
  <2>1. /\ r \in Requests /\ LimiterTypeOK /\ gate[r].now \in Nat /\ clock \in Nat
        /\ Rate \in Nat \ {0} /\ Window \in Nat
    BY <1>1, TrafficTyped, LimiterAssumption DEF AsksInv, LimiterInv, LimiterTypeOK
  <2>2. Count(r)
    <3>1. gate'[r] # gate[r]
      OBVIOUS
    <3>2. \E q \in Requests : Arrive(q) \/ LoadOrStore(q) \/ Count(q)
      BY <1>1, <3>1 DEF Next, Limit, Middleware, Handle, Check, Tick, Janitor, Sweep, Look, Delete,
         gateVars, limiterVars
    <3> QED
      BY <2>1, <3>1, <3>2 DEF LimiterTypeOK, Arrive, LoadOrStore, Count
  <2>3. PICK b \in Requests, w \in Bucket, from \in Int :
             /\ from = w.resetAt - Window
             /\ gate' = [gate EXCEPT ![r] = Passed(IF w.count + 1 > Rate THEN "limited" ELSE "admitted")]
             /\ w.count = 0 \/ gate[r].now - Window <= from
             /\ \/ w.count <= Cardinality(AdmittedIn(ClientIP(r), from, clock))
                \/ Rate <= Cardinality(AdmittedIn(ClientIP(r), from, clock))
    BY <1>1, <2>1, <2>2, CountsInWindow
  <2>4. w.count \in Nat /\ w.count + 1 > Rate
    BY <2>1, <2>3 DEF Bucket, Passed, LimiterTypeOK
  <2>5. gate[r].now - Window \in Int /\ gate[r].now - Window <= from
    BY <2>1, <2>3, <2>4
  <2> DEFINE early == AdmittedIn(ClientIP(r), gate[r].now - Window, clock)
             late  == AdmittedIn(ClientIP(r), from, clock)
  <2>6. late \subseteq early
    BY <2>1, <2>5 DEF AdmittedIn
  <2>7. IsFiniteSet(early)
    BY <1>1, <2>1, <2>5, AdmittedFinite DEF AsksInv
  <2>8. w.count <= Cardinality(late) \/ Rate <= Cardinality(late)
    BY <2>3
  <2> HIDE DEF early, late
  <2>9. Cardinality(late) \in Nat /\ Cardinality(early) \in Nat
        /\ Cardinality(late) <= Cardinality(early)
    BY <2>6, <2>7, WiderHoldsMore
  <2>10. Rate <= Cardinality(early)
    BY <2>1, <2>4, <2>8, <2>9
  <2> QED
    BY <2>1, <2>9, <2>10 DEF early
<1>2. AsksInv /\ LimiterInv /\ [Next]_gateVars => [Refusal]_gateVars
  BY <1>1
<1> QED
  BY <1>2, GateHolds, PTL DEF Spec, RefusedOnlyWhenSpent

----------------------------------------------------------------------------
(* What adds up: AdmissionBounded. *)

\* A request that is still in the limiter read the clock a tick ago at most.
Prompt == \A r \in Requests : gate[r].pc \in {"load", "count"} => clock <= gate[r].now + 1

\* Whoever counts has a bucket that was in the map once, and the window of a
\* bucket ends no earlier than the first one did.
BucketsBorn ==
    /\ \A b \in Requests :
          /\ born[b] <= clock
          /\ ~Counting(b) => born[b] = 0
          /\ born[b] # 0 => born[b] + Window <= heap[b].resetAt + 1
    /\ \A ip \in IPs : buckets[ip] # NoBucket => born[buckets[ip]] # 0
    /\ \A r \in Requests : gate[r].pc = "count" => born[gate[r].bucket] # 0

\* A bucket is followed by the client's next one a window later or more, and
\* whoever holds it then came no later than that.
Succession ==
    /\ \A b, c \in Requests :
          b # c /\ born[b] # 0 /\ born[c] # 0 /\ ClientIP(b) = ClientIP(c) =>
              born[b] + Window <= born[c] \/ born[c] + Window <= born[b]
    /\ \A b \in Requests : born[b] # 0 =>
          \/ buckets[ClientIP(b)] = b
          \/ /\ born[b] + Window <= clock
             /\ \/ buckets[ClientIP(b)] = NoBucket
                \/ born[b] + Window <= born[buckets[ClientIP(b)]]
    /\ \A r, c \in Requests :
          /\ gate[r].pc = "count" /\ born[c] # 0 /\ ClientIP(c) = ClientIP(r)
          /\ born[gate[r].bucket] < born[c]
          => gate[r].now <= born[c]

\* The janitor takes a bucket that has been in the map for a window.
JanitorFits ==
    /\ janitor.now <= clock
    /\ janitor.todo \cap janitor.stale = {}
    /\ \A ip \in janitor.todo : buckets[ip] # NoBucket
    /\ \A ip \in janitor.stale :
          buckets[ip] # NoBucket /\ born[buckets[ip]] + Window <= clock

\* Where and when an admitted request counted.
WindowsFit ==
    \A r \in Requests : admitted[r] # 0 =>
        LET b == window[r].bucket
            e == window[r].resetAt
        IN  /\ b \in Requests /\ born[b] # 0 /\ ClientIP(b) = ClientIP(r)
            /\ admitted[r] <= clock
            /\ born[b] <= admitted[r] /\ born[b] + Window <= e + 1
            /\ admitted[r] <= e + 1 /\ e <= admitted[r] + Window
            /\ e = heap[b].resetAt \/ e + Window < heap[b].resetAt
            /\ \A c \in Requests :
                  born[c] # 0 /\ ClientIP(c) = ClientIP(r) /\ born[b] < born[c] =>
                      admitted[r] <= born[c] + 1

WindowsApart ==
    \A q, r \in Requests :
        admitted[q] # 0 /\ admitted[r] # 0 /\ window[q].bucket = window[r].bucket =>
            \/ window[q].resetAt = window[r].resetAt
            \/ window[q].resetAt + Window < window[r].resetAt
            \/ window[r].resetAt + Window < window[q].resetAt

\* The requests that a window of a bucket has let in.
LetIn(b, e) == {r \in Requests : admitted[r] # 0 /\ window[r] = [bucket |-> b, resetAt |-> e]}

WindowsHold ==
    \A b \in Requests :
        /\ \A e \in Nat : Cardinality(LetIn(b, e)) <= Rate
        /\ Cardinality(LetIn(b, heap[b].resetAt)) <= heap[b].count

AdmissionInv ==
    /\ Prompt /\ BucketsBorn /\ Succession /\ JanitorFits
    /\ WindowsFit /\ WindowsApart /\ WindowsHold

\* A bucket that was in the map is its client's, whose next is found there.
LEMMA BucketHasClient ==
    ASSUME AsksInv, LimiterInv, AdmissionInv, NEW b \in Requests, born[b] # 0
    PROVE  ClientIP(b) \in IPs
<1>1. Counting(b)
  BY DEF AdmissionInv, BucketsBorn
<1>2. b \in DOMAIN asks
  BY <1>1 DEF AsksInv, Counting
<1> QED
  BY <1>2, ClientIPIsAnIP DEF AsksInv

\* The types that the steps below need.
LEMMA AdmissionTypes ==
    ASSUME LimiterInv
    PROVE  /\ clock \in Nat \ {0} /\ Window \in Nat \ {0, 1} /\ Rate \in Nat \ {0}
           /\ NoBucket \notin Requests
           /\ heap \in [Requests -> Bucket] /\ born \in [Requests -> Nat]
           /\ admitted \in [Requests -> Nat]
           /\ gate \in [Requests -> [pc : GatePCs, now : Nat, bucket : Requests \cup {NoBucket}]]
           /\ buckets \in [IPs -> Requests \cup {NoBucket}]
           /\ window \in [Requests -> [bucket : Requests \cup {NoBucket}, resetAt : Nat]]
           /\ janitor \in [now : Nat, due : Nat, todo : SUBSET IPs, stale : SUBSET IPs]
BY LimiterAssumption DEF LimiterInv, LimiterTypeOK

LEMMA AdmissionStarts == Init => AdmissionInv
<1> SUFFICES ASSUME Init PROVE AdmissionInv
  OBVIOUS
<1>1. /\ clock \in Nat \ {0} /\ Window \in Nat /\ Rate \in Nat \ {0} /\ LimiterInv
  BY LimiterStarts, LimiterAssumption DEF LimiterInv
<1>2. Prompt /\ BucketsBorn /\ Succession
  BY <1>1 DEF Init, LimiterInit, Prompt, BucketsBorn, Succession, Passed
<1>3. JanitorFits /\ WindowsFit /\ WindowsApart
  BY <1>1 DEF Init, LimiterInit, JanitorFits, WindowsFit, WindowsApart
<1>4. WindowsHold
  <2>1. \A b, e : LetIn(b, e) = {}
    BY DEF Init, LimiterInit, LetIn
  <2>2. \A b, e : Cardinality(LetIn(b, e)) = 0
    BY <2>1, FS_EmptySet
  <2>3. \A b \in Requests : heap[b].count = 0
    BY DEF Init, LimiterInit
  <2> QED
    BY <1>1, <2>2, <2>3 DEF WindowsHold
<1> QED
  BY <1>2, <1>3, <1>4 DEF AdmissionInv

\* Steps that take no request further: time, the janitor, the rest of the
\* program.
LEMMA AdmissionRests ==
    ASSUME AsksInv, LimiterInv, AdmissionInv, Prompt', JanitorFits',
           UNCHANGED <<asks, gate, heap, admitted, window, born>>,
           clock' \in Nat, clock <= clock',
           \A ip \in IPs :
              \/ buckets'[ip] = buckets[ip]
              \/ /\ buckets'[ip] = NoBucket
                 /\ buckets[ip] # NoBucket => born[buckets[ip]] + Window <= clock
    PROVE  AdmissionInv'
<1>0. /\ clock \in Nat \ {0} /\ Window \in Nat \ {0, 1} /\ born \in [Requests -> Nat]
      /\ NoBucket \notin Requests /\ buckets \in [IPs -> Requests \cup {NoBucket}]
  BY AdmissionTypes
<1>1. /\ \A r : ClientIP(r)' = ClientIP(r)
      /\ \A r : Counting(r)' = Counting(r)
  BY DEF ClientIP, Counting
<1>2. BucketsBorn'
  <2>1. \A b \in Requests : born[b] <= clock'
    BY <1>0 DEF AdmissionInv, BucketsBorn
  <2>2. \A ip \in IPs : buckets'[ip] # NoBucket => born[buckets'[ip]] # 0
    BY DEF AdmissionInv, BucketsBorn
  <2> QED
    BY <1>1, <2>1, <2>2 DEF AdmissionInv, BucketsBorn
<1>3. Succession'
  <2>1. ASSUME NEW b \in Requests, born[b] # 0
        PROVE  \/ buckets'[ClientIP(b)] = b
               \/ /\ born[b] + Window <= clock'
                  /\ \/ buckets'[ClientIP(b)] = NoBucket
                     \/ born[b] + Window <= born[buckets'[ClientIP(b)]]
    <3> PICK ip \in IPs : ip = ClientIP(b)
      BY <2>1, BucketHasClient
    <3>1. \/ buckets[ip] = b
          \/ /\ born[b] + Window <= clock
             /\ buckets[ip] = NoBucket \/ born[b] + Window <= born[buckets[ip]]
      BY <2>1 DEF AdmissionInv, Succession
    <3>2. \/ buckets'[ip] = buckets[ip]
          \/ /\ buckets'[ip] = NoBucket
             /\ buckets[ip] # NoBucket => born[buckets[ip]] + Window <= clock
      OBVIOUS
    <3>3. born[b] \in Nat /\ b # NoBucket
      BY <1>0
    <3> QED
      BY <1>0, <3>1, <3>2, <3>3
  <2> QED
    BY <1>1, <2>1 DEF AdmissionInv, Succession
<1>4. WindowsFit'
  <2>1. \A r \in Requests : admitted[r] # 0 => admitted[r] <= clock'
    BY <1>0, AdmissionTypes DEF AdmissionInv, WindowsFit
  <2> QED
    BY <1>1, <2>1 DEF AdmissionInv, WindowsFit
<1>5. WindowsApart'
  BY DEF AdmissionInv, WindowsApart
<1>6. WindowsHold'
  <2>1. \A b, e : LetIn(b, e)' = LetIn(b, e)
    BY DEF LetIn
  <2> QED
    BY <2>1 DEF AdmissionInv, WindowsHold
<1> QED
  BY <1>2, <1>3, <1>4, <1>5, <1>6 DEF AdmissionInv

LEMMA ArriveKeepsAdmission ==
    ASSUME AsksInv, LimiterInv, AdmissionInv, NEW r \in Requests, Arrive(r), UNCHANGED <<clock, asks>>
    PROVE  AdmissionInv'
<1>0. /\ clock \in Nat \ {0}
      /\ gate \in [Requests -> [pc : GatePCs, now : Nat, bucket : Requests \cup {NoBucket}]]
  BY AdmissionTypes
<1>1. /\ gate[r].pc = "idle" /\ gate' = [gate EXCEPT ![r].pc = "load", ![r].now = clock]
      /\ UNCHANGED <<buckets, heap, janitor, admitted, window, born>>
  BY DEF Arrive
<1>2. /\ \A q \in Requests : q # r => gate'[q] = gate[q]
      /\ gate'[r].pc = "load" /\ gate'[r].now = clock
  BY <1>0, <1>1
<1>3. \A q : ClientIP(q)' = ClientIP(q)
  BY DEF ClientIP
<1>4. \A q \in Requests : Counting(q)' <=> Counting(q)
  <2> SUFFICES ASSUME NEW q \in Requests PROVE Counting(q)' <=> Counting(q)
    OBVIOUS
  <2> QED
    BY <1>1, <1>2 DEF Counting
<1>5. Prompt'
  BY <1>0, <1>2 DEF AdmissionInv, Prompt
<1>6. \A q \in Requests : gate'[q].pc = "count" => gate'[q] = gate[q]
  BY <1>2
<1>7. BucketsBorn'
  <2>1. \A q \in Requests : gate'[q].pc = "count" => born[gate'[q].bucket] # 0
    BY <1>6 DEF AdmissionInv, BucketsBorn
  <2> QED
    BY <1>1, <1>4, <2>1 DEF AdmissionInv, BucketsBorn
<1>8. Succession'
  <2>1. \A q, c \in Requests :
          /\ gate'[q].pc = "count" /\ born[c] # 0 /\ ClientIP(c) = ClientIP(q)
          /\ born[gate'[q].bucket] < born[c]
          => gate'[q].now <= born[c]
    BY <1>6 DEF AdmissionInv, Succession
  <2> QED
    BY <1>1, <1>3, <2>1 DEF AdmissionInv, Succession
<1>9. JanitorFits' /\ WindowsFit' /\ WindowsApart'
  BY <1>1, <1>3 DEF AdmissionInv, JanitorFits, WindowsFit, WindowsApart
<1>10. WindowsHold'
  <2>1. \A b, e : LetIn(b, e)' = LetIn(b, e)
    BY <1>1 DEF LetIn
  <2> QED
    BY <1>1, <2>1 DEF AdmissionInv, WindowsHold
<1> QED
  BY <1>5, <1>7, <1>8, <1>9, <1>10 DEF AdmissionInv

\* The bucket that a request finds in the map: no later one is there yet.
LEMMA JoinKeepsAdmission ==
    ASSUME AsksInv, LimiterInv, AdmissionInv, NEW r \in Requests, LoadOrStore(r),
           UNCHANGED <<clock, asks>>, buckets[ClientIP(r)] # NoBucket
    PROVE  AdmissionInv'
<1>0. /\ clock \in Nat \ {0} /\ Window \in Nat \ {0, 1} /\ born \in [Requests -> Nat]
      /\ NoBucket \notin Requests /\ buckets \in [IPs -> Requests \cup {NoBucket}]
      /\ gate \in [Requests -> [pc : GatePCs, now : Nat, bucket : Requests \cup {NoBucket}]]
      /\ gate[r].pc = "load" /\ r \in DOMAIN asks
  BY AdmissionTypes DEF LoadOrStore, AsksInv
<1> PICK ip \in IPs : ip = ClientIP(r)
  BY <1>0, ClientIPIsAnIP DEF AsksInv
<1> PICK b \in Requests : b = buckets[ip]
  BY <1>0
<1>1. /\ gate' = [gate EXCEPT ![r].pc = "count", ![r].bucket = b]
      /\ UNCHANGED <<buckets, heap, janitor, admitted, window, born>>
  BY DEF LoadOrStore
<1>2. /\ \A q \in Requests : q # r => gate'[q] = gate[q]
      /\ gate'[r].pc = "count" /\ gate'[r].now = gate[r].now /\ gate'[r].bucket = b
  BY <1>0, <1>1
<1>3. \A q : ClientIP(q)' = ClientIP(q)
  BY DEF ClientIP
<1>4. Prompt'
  BY <1>0, <1>2 DEF AdmissionInv, Prompt
<1>5. born[b] # 0
  BY <1>0 DEF AdmissionInv, BucketsBorn
<1>6. BucketsBorn'
  <2>1. \A q \in Requests : ~Counting(q)' => ~Counting(q)
    BY <1>0, <1>2 DEF Counting
  <2>2. \A q \in Requests : gate'[q].pc = "count" => born[gate'[q].bucket] # 0
    BY <1>2, <1>5 DEF AdmissionInv, BucketsBorn
  <2> QED
    BY <1>1, <2>1, <2>2 DEF AdmissionInv, BucketsBorn
<1>7. ASSUME NEW q \in Requests, NEW c \in Requests,
             gate'[q].pc = "count", born[c] # 0, ClientIP(c) = ClientIP(q),
             born[gate'[q].bucket] < born[c]
      PROVE  gate'[q].now <= born[c]
  <2>1. CASE q = r
    <3>1. b # c /\ ClientIP(c) = ip /\ born[b] < born[c]
      BY <1>0, <1>2, <1>7, <2>1
    <3>2. born[c] + Window <= born[b]
      BY <1>0, <1>7, <3>1 DEF AdmissionInv, Succession
    <3> QED
      BY <1>0, <3>1, <3>2
  <2>2. CASE q # r
    BY <1>2, <1>7, <2>2 DEF AdmissionInv, Succession
  <2> QED
    BY <2>1, <2>2
<1>8. Succession'
  BY <1>1, <1>3, <1>7 DEF AdmissionInv, Succession
<1>9. JanitorFits' /\ WindowsFit' /\ WindowsApart'
  BY <1>1, <1>3 DEF AdmissionInv, JanitorFits, WindowsFit, WindowsApart
<1>10. WindowsHold'
  <2>1. \A d, e : LetIn(d, e)' = LetIn(d, e)
    BY <1>1 DEF LetIn
  <2> QED
    BY <1>1, <2>1 DEF AdmissionInv, WindowsHold
<1> QED
  BY <1>4, <1>6, <1>8, <1>9, <1>10 DEF AdmissionInv

\* A bucket made by a request: those before it have been dropped.
LEMMA MakeKeepsAdmission ==
    ASSUME AsksInv, LimiterInv, AdmissionInv, NEW r \in Requests, LoadOrStore(r),
           UNCHANGED <<clock, asks>>, buckets[ClientIP(r)] = NoBucket
    PROVE  AdmissionInv'
<1>0. /\ clock \in Nat \ {0} /\ Window \in Nat \ {0, 1} /\ born \in [Requests -> Nat]
      /\ NoBucket \notin Requests /\ buckets \in [IPs -> Requests \cup {NoBucket}]
      /\ gate \in [Requests -> [pc : GatePCs, now : Nat, bucket : Requests \cup {NoBucket}]]
      /\ heap \in [Requests -> Bucket] /\ admitted \in [Requests -> Nat]
      /\ gate[r].pc = "load" /\ r \in DOMAIN asks
  BY AdmissionTypes DEF LoadOrStore, AsksInv
<1> PICK ip \in IPs : ip = ClientIP(r)
  BY <1>0, ClientIPIsAnIP DEF AsksInv
<1>1. /\ buckets[ip] = NoBucket
      /\ buckets' = [buckets EXCEPT ![ip] = r]
      /\ heap' = [heap EXCEPT ![r].resetAt = gate[r].now + Window]
      /\ gate' = [gate EXCEPT ![r].pc = "count", ![r].bucket = r]
      /\ born' = [born EXCEPT ![r] = clock]
      /\ UNCHANGED <<janitor, admitted, window>>
  BY DEF LoadOrStore
<1>2. /\ \A q \in Requests : q # r => gate'[q] = gate[q] /\ heap'[q] = heap[q] /\ born'[q] = born[q]
      /\ gate'[r].pc = "count" /\ gate'[r].now = gate[r].now /\ gate'[r].bucket = r
      /\ heap'[r].resetAt = gate[r].now + Window /\ heap'[r].count = heap[r].count
      /\ born'[r] = clock
      /\ buckets'[ip] = r /\ \A j \in IPs : j # ip => buckets'[j] = buckets[j]
  BY <1>0, <1>1 DEF Bucket
<1>3. \A q : ClientIP(q)' = ClientIP(q)
  BY DEF ClientIP
<1>4. /\ born[r] = 0
      /\ gate[r].now \in Nat /\ gate[r].now <= clock /\ clock <= gate[r].now + 1
      /\ \A q \in Requests : born[q] <= clock /\ born[q] \in Nat
  <2>1. ~Counting(r)
    BY <1>0 DEF Counting
  <2> QED
    BY <1>0, <2>1 DEF AdmissionInv, BucketsBorn, Prompt, LimiterInv, CountsCovered
<1>5. \A c \in Requests : born[c] # 0 /\ ClientIP(c) = ip => born[c] + Window <= clock
  <2> SUFFICES ASSUME NEW c \in Requests, born[c] # 0, ClientIP(c) = ip
               PROVE  born[c] + Window <= clock
    OBVIOUS
  <2> QED
    BY <1>0, <1>1 DEF AdmissionInv, Succession
<1>6. \A q \in Requests : gate[q].pc = "count" => gate[q].bucket # r /\ gate[q].bucket \in Requests
  BY <1>0, <1>4 DEF AdmissionInv, BucketsBorn, LimiterInv, BucketsOwned
<1>7. \A q \in Requests : admitted[q] # 0 => window[q].bucket # r /\ window[q].bucket \in Requests
  BY <1>4 DEF AdmissionInv, WindowsFit
<1>8. Prompt'
  BY <1>0, <1>2 DEF AdmissionInv, Prompt
<1>9. BucketsBorn'
  <2>1. ASSUME NEW q \in Requests
        PROVE  /\ born'[q] <= clock
               /\ ~Counting(q)' => born'[q] = 0
               /\ born'[q] # 0 => born'[q] + Window <= heap'[q].resetAt + 1
    <3>1. CASE q = r
      BY <1>0, <1>2, <1>4, <3>1 DEF Counting
    <3>2. CASE q # r
      BY <1>2, <3>2 DEF AdmissionInv, BucketsBorn, Counting
    <3> QED
      BY <3>1, <3>2
  <2>2. ASSUME NEW j \in IPs, buckets'[j] # NoBucket PROVE born'[buckets'[j]] # 0
    <3>1. CASE j = ip
      BY <1>0, <1>2, <3>1
    <3>2. CASE j # ip
      <4>1. buckets'[j] = buckets[j] /\ buckets[j] \in Requests /\ born[buckets[j]] # 0
        BY <1>0, <1>2, <2>2, <3>2 DEF AdmissionInv, BucketsBorn
      <4> QED
        BY <1>2, <1>4, <4>1
    <3> QED
      BY <3>1, <3>2
  <2>3. ASSUME NEW q \in Requests, gate'[q].pc = "count" PROVE born'[gate'[q].bucket] # 0
    <3>1. CASE q = r
      BY <1>0, <1>2, <3>1
    <3>2. CASE q # r
      BY <1>2, <1>6, <2>3, <3>2 DEF AdmissionInv, BucketsBorn
    <3> QED
      BY <3>1, <3>2
  <2> QED
    BY <2>1, <2>2, <2>3 DEF BucketsBorn
<1>10. Succession'
  <2>1. ASSUME NEW a \in Requests, NEW c \in Requests,
               a # c, born'[a] # 0, born'[c] # 0, ClientIP(a) = ClientIP(c)
        PROVE  born'[a] + Window <= born'[c] \/ born'[c] + Window <= born'[a]
    <3>1. CASE a = r
      BY <1>2, <1>5, <2>1, <3>1
    <3>2. CASE c = r
      BY <1>2, <1>5, <2>1, <3>2
    <3>3. CASE a # r /\ c # r
      BY <1>2, <2>1, <3>3 DEF AdmissionInv, Succession
    <3> QED
      BY <3>1, <3>2, <3>3
  <2>2. ASSUME NEW c \in Requests, born'[c] # 0
        PROVE  \/ buckets'[ClientIP(c)] = c
               \/ /\ born'[c] + Window <= clock
                  /\ \/ buckets'[ClientIP(c)] = NoBucket
                     \/ born'[c] + Window <= born'[buckets'[ClientIP(c)]]
    <3>1. CASE c = r
      BY <1>2, <3>1
    <3>2. CASE c # r /\ ClientIP(c) = ip
      BY <1>2, <1>5, <2>2, <3>2
    <3>3. CASE c # r /\ ClientIP(c) # ip
      <4>1. born'[c] = born[c] /\ born[c] # 0
        BY <1>2, <2>2, <3>3
      <4> PICK j \in IPs : j = ClientIP(c)
        BY <4>1, BucketHasClient
      <4>2. buckets'[j] = buckets[j]
        BY <1>2, <3>3
      <4>3. buckets[j] = NoBucket \/ (born[buckets[j]] # 0 /\ buckets[j] \in Requests)
        BY <1>0 DEF AdmissionInv, BucketsBorn
      <4>4. buckets[j] # NoBucket => born'[buckets[j]] = born[buckets[j]]
        BY <1>2, <1>4, <4>3
      <4>5. \/ buckets[j] = c
            \/ /\ born[c] + Window <= clock
               /\ buckets[j] = NoBucket \/ born[c] + Window <= born[buckets[j]]
        BY <4>1 DEF AdmissionInv, Succession
      <4> QED
        BY <4>1, <4>2, <4>4, <4>5
    <3> QED
      BY <3>1, <3>2, <3>3
  <2>3. ASSUME NEW q \in Requests, NEW c \in Requests,
               gate'[q].pc = "count", born'[c] # 0, ClientIP(c) = ClientIP(q),
               born'[gate'[q].bucket] < born'[c]
        PROVE  gate'[q].now <= born'[c]
    <3>1. CASE c = r
      <4>1. gate'[q].now = gate[q].now /\ gate[q].pc \in {"load", "count"}
        BY <1>0, <1>2, <2>3
      <4> QED
        BY <1>2, <3>1, <4>1 DEF LimiterInv, CountsCovered
    <3>2. CASE c # r /\ q = r
      BY <1>0, <1>2, <1>4, <2>3, <3>2
    <3>3. CASE c # r /\ q # r
      BY <1>2, <1>6, <2>3, <3>3 DEF AdmissionInv, Succession
    <3> QED
      BY <3>1, <3>2, <3>3
  <2> QED
    BY <1>3, <2>1, <2>2, <2>3 DEF Succession
<1>11. JanitorFits'
  <2>1. ASSUME NEW j \in janitor.stale
        PROVE  buckets'[j] # NoBucket /\ born'[buckets'[j]] + Window <= clock
    <3>1. /\ j \in IPs /\ buckets[j] # NoBucket /\ born[buckets[j]] + Window <= clock
      BY AdmissionTypes DEF AdmissionInv, JanitorFits
    <3>2. j # ip /\ buckets'[j] = buckets[j] /\ buckets[j] \in Requests /\ born[buckets[j]] # 0
      BY <1>0, <1>1, <1>2, <3>1 DEF AdmissionInv, BucketsBorn
    <3> QED
      BY <1>2, <1>4, <3>1, <3>2
  <2>2. ASSUME NEW j \in janitor.todo PROVE buckets'[j] # NoBucket
    <3>1. j \in IPs /\ buckets[j] # NoBucket
      BY AdmissionTypes DEF AdmissionInv, JanitorFits
    <3> QED
      BY <1>1, <1>2, <3>1
  <2> QED
    BY <1>1, <2>1, <2>2 DEF AdmissionInv, JanitorFits
<1>12. WindowsFit'
  <2> SUFFICES ASSUME NEW q \in Requests, admitted[q] # 0, NEW c \in Requests,
                      born'[c] # 0, ClientIP(c) = ClientIP(q),
                      born'[window[q].bucket] < born'[c]
               PROVE  admitted[q] <= born'[c] + 1
    BY <1>1, <1>2, <1>3, <1>7 DEF AdmissionInv, WindowsFit
  <2>1. admitted[q] <= clock /\ admitted[q] \in Nat
    BY <1>0 DEF AdmissionInv, WindowsFit
  <2>2. CASE c = r
    BY <1>0, <1>2, <2>1, <2>2
  <2>3. CASE c # r
    BY <1>2, <1>7, <2>3 DEF AdmissionInv, WindowsFit
  <2> QED
    BY <2>2, <2>3
<1>13. WindowsApart'
  BY <1>1 DEF AdmissionInv, WindowsApart
<1>14. WindowsHold'
  <2>1. \A d, e : LetIn(d, e)' = LetIn(d, e)
    BY <1>1 DEF LetIn
  <2>2. \A e : LetIn(r, e) = {}
    BY <1>7 DEF LetIn
  <2>3. Cardinality(LetIn(r, heap'[r].resetAt)) = 0 /\ heap'[r].count \in Nat
    BY <1>0, <1>2, <2>2, FS_EmptySet DEF Bucket
  <2> QED
    BY <1>2, <2>1, <2>3 DEF AdmissionInv, WindowsHold
<1> QED
  BY <1>8, <1>9, <1>10, <1>11, <1>12, <1>13, <1>14 DEF AdmissionInv

\* Counting: in the bucket's window, or in a new one that starts after the
\* last one has ended.
LEMMA CountKeepsAdmission ==
    ASSUME AsksInv, LimiterInv, AdmissionInv, NEW r \in Requests, Count(r), UNCHANGED <<clock, asks>>
    PROVE  AdmissionInv'
<1>0. /\ clock \in Nat \ {0} /\ Window \in Nat \ {0, 1} /\ Rate \in Nat \ {0}
      /\ born \in [Requests -> Nat] /\ NoBucket \notin Requests
      /\ gate \in [Requests -> [pc : GatePCs, now : Nat, bucket : Requests \cup {NoBucket}]]
      /\ heap \in [Requests -> Bucket] /\ admitted \in [Requests -> Nat]
      /\ window \in [Requests -> [bucket : Requests \cup {NoBucket}, resetAt : Nat]]
      /\ gate[r].pc = "count" /\ admitted[r] = 0
  BY AdmissionTypes DEF Count, LimiterInv, CountsCovered
<1> PICK b \in Requests, w \in Bucket :
      /\ b = gate[r].bucket
      /\ heap' = [heap EXCEPT ![b] = [count |-> w.count + 1, resetAt |-> w.resetAt]]
      /\ gate' = [gate EXCEPT ![r] = Passed(IF w.count + 1 > Rate THEN "limited" ELSE "admitted")]
      /\ admitted' = [admitted EXCEPT ![r] = IF w.count + 1 > Rate THEN 0 ELSE clock]
      /\ window' = [window EXCEPT ![r] = [bucket |-> b, resetAt |-> w.resetAt]]
      /\ UNCHANGED <<buckets, janitor, born>>
      /\ \/ w = heap[b] /\ gate[r].now <= w.resetAt
         \/ w.count = 0 /\ w.resetAt = gate[r].now + Window /\ heap[b].resetAt < gate[r].now
  BY CountInBucket
<1> PICK n \in Nat, e \in Nat : n = w.count /\ e = w.resetAt
  BY DEF Bucket
<1>1. /\ \A q \in Requests : q # r =>
            gate'[q] = gate[q] /\ admitted'[q] = admitted[q] /\ window'[q] = window[q]
      /\ gate'[r].pc \in {"limited", "admitted"}
      /\ admitted'[r] = IF n + 1 > Rate THEN 0 ELSE clock
      /\ window'[r] = [bucket |-> b, resetAt |-> e]
      /\ \A q \in Requests : q # b => heap'[q] = heap[q]
      /\ heap'[b].count = n + 1 /\ heap'[b].resetAt = e
  BY <1>0 DEF Passed
<1>2. \A q : ClientIP(q)' = ClientIP(q)
  BY DEF ClientIP
<1>3. /\ gate[r].now \in Nat /\ gate[r].now <= clock /\ clock <= gate[r].now + 1
      /\ born[b] # 0 /\ ClientIP(b) = ClientIP(r) /\ born[b] <= clock /\ born[b] \in Nat
      /\ heap[b].resetAt \in Nat /\ born[b] + Window <= heap[b].resetAt + 1
      /\ heap[b].resetAt <= clock + Window
  BY <1>0 DEF AdmissionInv, Prompt, BucketsBorn, LimiterInv, CountsCovered, BucketsOwned, Bucket
<1>4. \/ e = heap[b].resetAt /\ n = heap[b].count /\ gate[r].now <= e
      \/ n = 0 /\ e = gate[r].now + Window /\ heap[b].resetAt < gate[r].now
  OBVIOUS
<1>5. /\ born[b] + Window <= e + 1 /\ clock <= e + 1 /\ e <= clock + Window
      /\ e = heap[b].resetAt \/ heap[b].resetAt + Window < e
  BY <1>0, <1>3, <1>4
<1>6. Prompt'
  BY <1>1 DEF AdmissionInv, Prompt
<1>7. BucketsBorn'
  <2>1. \A q \in Requests : ~Counting(q)' => ~Counting(q)
    BY <1>1 DEF Counting
  <2>2. \A q \in Requests : gate'[q].pc = "count" => born[gate'[q].bucket] # 0
    BY <1>1 DEF AdmissionInv, BucketsBorn
  <2>3. \A q \in Requests : born[q] # 0 => born[q] + Window <= heap'[q].resetAt + 1
    BY <1>1, <1>5 DEF AdmissionInv, BucketsBorn
  <2> QED
    BY <2>1, <2>2, <2>3 DEF AdmissionInv, BucketsBorn
<1>8. Succession'
  <2>1. \A q, c \in Requests :
          /\ gate'[q].pc = "count" /\ born[c] # 0 /\ ClientIP(c) = ClientIP(q)
          /\ born[gate'[q].bucket] < born[c]
          => gate'[q].now <= born[c]
    BY <1>1 DEF AdmissionInv, Succession
  <2> QED
    BY <1>2, <2>1 DEF AdmissionInv, Succession
<1>9. JanitorFits'
  BY DEF AdmissionInv, JanitorFits
<1>10. ASSUME NEW q \in Requests, q # r, admitted[q] # 0, window[q].bucket = b
       PROVE  /\ window[q].resetAt \in Nat
              /\ window[q].resetAt = e \/ window[q].resetAt + Window < e
              /\ e # heap[b].resetAt => window[q].resetAt # e
  <2>1. /\ window[q].resetAt \in Nat
        /\ window[q].resetAt = heap[b].resetAt \/ window[q].resetAt + Window < heap[b].resetAt
    BY <1>0, <1>10 DEF AdmissionInv, WindowsFit
  <2> QED
    BY <1>0, <1>3, <1>5, <2>1
<1>11. WindowsFit'
  <2>1. ASSUME NEW q \in Requests, q # r, admitted'[q] # 0
        PROVE  LET d == window'[q].bucket
                   f == window'[q].resetAt
               IN  /\ d \in Requests /\ born[d] # 0 /\ ClientIP(d) = ClientIP(q)
                   /\ admitted'[q] <= clock
                   /\ born[d] <= admitted'[q] /\ born[d] + Window <= f + 1
                   /\ admitted'[q] <= f + 1 /\ f <= admitted'[q] + Window
                   /\ f = heap'[d].resetAt \/ f + Window < heap'[d].resetAt
                   /\ \A c \in Requests :
                         born[c] # 0 /\ ClientIP(c) = ClientIP(q) /\ born[d] < born[c] =>
                             admitted'[q] <= born[c] + 1
    <3>1. CASE window[q].bucket = b
      BY <1>1, <1>10, <2>1, <3>1 DEF AdmissionInv, WindowsFit
    <3>2. CASE window[q].bucket # b
      BY <1>1, <2>1, <3>2 DEF AdmissionInv, WindowsFit
    <3> QED
      BY <3>1, <3>2
  <2>2. ASSUME admitted'[r] # 0, NEW c \in Requests,
               born[c] # 0, ClientIP(c) = ClientIP(r), born[b] < born[c]
        PROVE  clock <= born[c] + 1
    <3>1. gate[r].now <= born[c]
      BY <1>0, <2>2 DEF AdmissionInv, Succession
    <3> QED
      BY <1>0, <1>3, <3>1
  <2>3. admitted'[r] # 0 => admitted'[r] = clock
    BY <1>1
  <2>4. window'[r].bucket = b /\ window'[r].resetAt = e
    BY <1>1
  <2> QED
    BY <1>0, <1>1, <1>2, <1>3, <1>5, <2>1, <2>2, <2>3, <2>4 DEF WindowsFit
<1>12. WindowsApart'
  <2> SUFFICES ASSUME NEW p \in Requests, NEW q \in Requests,
                      admitted'[p] # 0, admitted'[q] # 0,
                      window'[p].bucket = window'[q].bucket
               PROVE  \/ window'[p].resetAt = window'[q].resetAt
                      \/ window'[p].resetAt + Window < window'[q].resetAt
                      \/ window'[q].resetAt + Window < window'[p].resetAt
    BY DEF WindowsApart
  <2>1. CASE p = r /\ q = r
    BY <2>1
  <2>2. CASE p = r /\ q # r
    BY <1>1, <1>10, <2>2
  <2>3. CASE p # r /\ q = r
    BY <1>1, <1>10, <2>3
  <2>4. CASE p # r /\ q # r
    BY <1>1, <2>4 DEF AdmissionInv, WindowsApart
  <2> QED
    BY <2>1, <2>2, <2>3, <2>4
<1>13. WindowsHold'
  <2>1. Cardinality(LetIn(b, e)) \in Nat /\ IsFiniteSet(LetIn(b, e)) /\ r \notin LetIn(b, e)
    <3>1. LetIn(b, e) \subseteq Requests /\ r \notin LetIn(b, e)
      BY <1>0 DEF LetIn
    <3>2. IsFiniteSet(LetIn(b, e))
      BY <3>1, GateAssumption, FS_Subset
    <3> QED
      BY <3>1, <3>2, FS_CardinalityType
  <2>2. Cardinality(LetIn(b, e)) <= n
    <3>1. CASE e = heap[b].resetAt /\ n = heap[b].count
      BY <3>1 DEF AdmissionInv, WindowsHold
    <3>2. CASE e # heap[b].resetAt
      <4>1. LetIn(b, e) = {}
        BY <1>0, <1>10, <3>2 DEF LetIn
      <4> QED
        BY <4>1, FS_EmptySet
    <3> QED
      BY <1>0, <1>3, <1>4, <3>1, <3>2
  <2>3. ASSUME NEW d, NEW f, d # b \/ f # e \/ n + 1 > Rate
        PROVE  LetIn(d, f)' = LetIn(d, f)
    <3>1. \A q \in Requests : admitted'[q] # 0 /\ window'[q] = [bucket |-> d, resetAt |-> f]
                           <=> admitted[q] # 0 /\ window[q] = [bucket |-> d, resetAt |-> f]
      <4> SUFFICES ASSUME NEW q \in Requests
                   PROVE  admitted'[q] # 0 /\ window'[q] = [bucket |-> d, resetAt |-> f]
                           <=> admitted[q] # 0 /\ window[q] = [bucket |-> d, resetAt |-> f]
        OBVIOUS
      <4>1. CASE q # r
        BY <1>1, <4>1
      <4>2. CASE q = r
        <5>1. [bucket |-> b, resetAt |-> e] = [bucket |-> d, resetAt |-> f] => d = b /\ f = e
          OBVIOUS
        <5> QED
          BY <1>0, <1>1, <2>3, <4>2, <5>1
      <4> QED
        BY <4>1, <4>2
    <3> QED
      BY <3>1 DEF LetIn
  <2>4. Cardinality(LetIn(b, e)') <= n + 1 /\ Cardinality(LetIn(b, e)') <= Rate
    <3>1. CASE n + 1 > Rate
      <4>1. LetIn(b, e)' = LetIn(b, e)
        BY <2>3, <3>1
      <4>2. Cardinality(LetIn(b, e)) <= Rate
        BY DEF AdmissionInv, WindowsHold
      <4> QED
        BY <2>1, <2>2, <4>1, <4>2
    <3>2. CASE ~(n + 1 > Rate)
      <4>1. LetIn(b, e)' = LetIn(b, e) \cup {r}
        <5>1. \A q \in Requests : q # r =>
                (admitted'[q] # 0 /\ window'[q] = [bucket |-> b, resetAt |-> e]
                  <=> admitted[q] # 0 /\ window[q] = [bucket |-> b, resetAt |-> e])
          BY <1>1
        <5>2. admitted'[r] # 0 /\ window'[r] = [bucket |-> b, resetAt |-> e]
          BY <1>0, <1>1, <3>2
        <5> QED
          BY <5>1, <5>2 DEF LetIn
      <4>2. Cardinality(LetIn(b, e)') = Cardinality(LetIn(b, e)) + 1
        BY <2>1, <4>1, FS_AddElement
      <4> QED
        BY <1>0, <2>1, <2>2, <3>2, <4>2
    <3> QED
      BY <3>1, <3>2
  <2>5. ASSUME NEW d \in Requests, NEW f \in Nat PROVE Cardinality(LetIn(d, f)') <= Rate
    <3>1. CASE d = b /\ f = e
      BY <2>4, <3>1
    <3>2. CASE d # b \/ f # e
      <4>1. LetIn(d, f)' = LetIn(d, f)
        BY <2>3, <3>2
      <4> QED
        BY <4>1 DEF AdmissionInv, WindowsHold
    <3> QED
      BY <3>1, <3>2
  <2>6. ASSUME NEW d \in Requests
        PROVE  Cardinality(LetIn(d, heap[d].resetAt)') <= heap'[d].count
    <3>1. CASE d = b
      <4>1. heap'[d].resetAt = e /\ heap'[d].count = n + 1
        BY <1>1, <3>1
      <4>2. LetIn(d, heap[d].resetAt)' = LetIn(b, e)'
        BY <3>1, <4>1 DEF LetIn
      <4> QED
        BY <2>4, <4>1, <4>2
    <3>2. CASE d # b
      <4> PICK f : f = heap[d].resetAt
        OBVIOUS
      <4>1. heap'[d] = heap[d] /\ heap'[d].resetAt = f
        BY <1>1, <3>2
      <4>2. LetIn(d, f)' = LetIn(d, f)
        BY <2>3, <3>2
      <4>3. LetIn(d, heap[d].resetAt)' = LetIn(d, f)'
        BY <4>1 DEF LetIn
      <4> QED
        BY <4>1, <4>2, <4>3 DEF AdmissionInv, WindowsHold
    <3> QED
      BY <3>1, <3>2
  <2> QED
    BY <2>5, <2>6 DEF WindowsHold
<1> QED
  BY <1>6, <1>7, <1>8, <1>9, <1>11, <1>12, <1>13 DEF AdmissionInv

LEMMA LimitKeepsAdmission ==
    ASSUME AsksInv, LimiterInv, AdmissionInv, NEW r \in Requests, Limit(r)
    PROVE  AdmissionInv'
<1>1. UNCHANGED <<clock, asks>>
  BY DEF Limit
<1>2. CASE LoadOrStore(r)
  BY <1>1, <1>2, JoinKeepsAdmission, MakeKeepsAdmission
<1>3. CASE Arrive(r) \/ Count(r)
  BY <1>1, <1>3, ArriveKeepsAdmission, CountKeepsAdmission
<1> QED
  BY <1>2, <1>3 DEF Limit, Middleware

LEMMA JanitorKeepsAdmission ==
    ASSUME AsksInv, LimiterInv, AdmissionInv, Janitor, UNCHANGED <<clock, asks>>
    PROVE  AdmissionInv'
<1>0. /\ clock \in Nat /\ Window \in Nat \ {0, 1} /\ NoBucket \notin Requests
      /\ born \in [Requests -> Nat] /\ heap \in [Requests -> Bucket]
      /\ buckets \in [IPs -> Requests \cup {NoBucket}]
      /\ janitor \in [now : Nat, due : Nat, todo : SUBSET IPs, stale : SUBSET IPs]
  BY AdmissionTypes
<1>1. UNCHANGED <<gate, heap, admitted, window, born>>
  BY DEF Janitor, Sweep, Look, Delete
<1>2. Prompt'
  BY <1>1 DEF AdmissionInv, Prompt
<1>3. ASSUME Sweep PROVE JanitorFits' /\ UNCHANGED buckets
  <2>1. PICK now \in janitor.due..clock :
          janitor' = [now |-> now, due |-> janitor.due + 2 * Window, stale |-> {},
                      todo |-> {ip \in IPs : buckets[ip] # NoBucket}]
    BY <1>3 DEF Sweep
  <2>2. /\ janitor'.now = now /\ janitor'.stale = {} /\ UNCHANGED buckets
        /\ janitor'.todo = {ip \in IPs : buckets[ip] # NoBucket}
    BY <1>3, <2>1 DEF Sweep
  <2>3. now <= clock
    BY <1>0, <2>1
  <2> QED
    BY <2>2, <2>3 DEF JanitorFits
<1>4. ASSUME NEW ip \in IPs, Look(ip) PROVE JanitorFits' /\ UNCHANGED buckets
  <2>1. PICK S : /\ janitor' = [janitor EXCEPT !.todo = janitor.todo \ {ip}, !.stale = S]
                 /\ S = IF Stale(buckets[ip], janitor.now) THEN {ip} ELSE {}
    BY <1>4 DEF Look
  <2>2. /\ janitor'.now = janitor.now /\ janitor'.todo = janitor.todo \ {ip}
        /\ janitor'.stale = S /\ S \subseteq {ip} /\ UNCHANGED buckets
    BY <1>0, <1>4, <2>1 DEF Look
  <2>3. /\ ip \in janitor.todo /\ buckets[ip] # NoBucket /\ buckets[ip] \in Requests
        /\ janitor.now <= clock
    BY <1>0, <1>4 DEF Look, AdmissionInv, JanitorFits
  <2>4. ip \in S => born[buckets[ip]] + Window <= clock
    <3> SUFFICES ASSUME ip \in S PROVE born[buckets[ip]] + Window <= clock
      OBVIOUS
    <3> PICK b \in Requests : b = buckets[ip]
      BY <2>3
    <3>1. heap[b].resetAt < janitor.now
      BY <1>0, <2>1 DEF Stale, Bucket
    <3>2. born[b] # 0 /\ born[b] + Window <= heap[b].resetAt + 1
      BY <2>3 DEF AdmissionInv, BucketsBorn
    <3>3. heap[b].resetAt \in Nat /\ janitor.now \in Nat /\ born[b] \in Nat
      BY <1>0 DEF Bucket
    <3> QED
      BY <1>0, <2>3, <3>1, <3>2, <3>3
  <2> QED
    BY <1>1, <2>2, <2>3, <2>4 DEF AdmissionInv, JanitorFits
<1>5. ASSUME NEW ip \in IPs, Delete(ip)
      PROVE  /\ JanitorFits'
             /\ \A j \in IPs :
                   \/ buckets'[j] = buckets[j]
                   \/ /\ buckets'[j] = NoBucket
                      /\ buckets[j] # NoBucket => born[buckets[j]] + Window <= clock
  <2>1. /\ ip \in janitor.stale /\ ip \notin janitor.todo
        /\ born[buckets[ip]] + Window <= clock /\ janitor.now <= clock
    BY <1>5 DEF Delete, AdmissionInv, JanitorFits
  <2>2. /\ janitor'.now = janitor.now /\ janitor'.todo = janitor.todo /\ janitor'.stale = {}
        /\ buckets'[ip] = NoBucket
        /\ \A j \in IPs : j # ip => buckets'[j] = buckets[j]
    BY <1>0, <1>5 DEF Delete
  <2>3. \A j \in janitor.todo : j \in IPs /\ buckets[j] # NoBucket
    BY <1>0 DEF AdmissionInv, JanitorFits
  <2>4. JanitorFits'
    BY <2>1, <2>2, <2>3 DEF JanitorFits
  <2> QED
    BY <2>1, <2>2, <2>4
<1>6. JanitorFits'
  BY <1>3, <1>4, <1>5 DEF Janitor
<1>7. \A j \in IPs :
         \/ buckets'[j] = buckets[j]
         \/ /\ buckets'[j] = NoBucket
            /\ buckets[j] # NoBucket => born[buckets[j]] + Window <= clock
  BY <1>3, <1>4, <1>5 DEF Janitor
<1>8. clock' \in Nat /\ clock <= clock'
  BY <1>0
<1> QED
  BY <1>1, <1>2, <1>6, <1>7, <1>8, AdmissionRests

LEMMA AdmissionStays == AsksInv /\ LimiterInv /\ AdmissionInv /\ [Next]_gateVars => AdmissionInv'
<1> SUFFICES ASSUME AsksInv, LimiterInv, AdmissionInv, [Next]_gateVars PROVE AdmissionInv'
  OBVIOUS
<1>0. clock \in Nat
  BY DEF LimiterInv
<1>1. ASSUME NEW r \in Requests, Limit(r) PROVE AdmissionInv'
  BY <1>1, LimitKeepsAdmission
<1>2. ASSUME UNCHANGED <<asks, limiterVars>>, Prompt', clock' = clock \/ clock' = clock + 1
      PROVE  AdmissionInv'
  <2>1. UNCHANGED <<gate, buckets, heap, janitor, admitted, window, born>>
    BY <1>2 DEF limiterVars
  <2>2. clock' \in Nat /\ clock <= clock'
    BY <1>0, <1>2
  <2>3. JanitorFits'
    <3>1. janitor.now <= clock'
      BY <1>0, <2>2, AdmissionTypes DEF AdmissionInv, JanitorFits
    <3>2. \A ip \in janitor.stale : born[buckets[ip]] + Window <= clock'
      <4> SUFFICES ASSUME NEW ip \in janitor.stale PROVE born[buckets[ip]] + Window <= clock'
        OBVIOUS
      <4>1. /\ born[buckets[ip]] + Window <= clock
            /\ buckets[ip] # NoBucket /\ ip \in IPs
        BY AdmissionTypes DEF AdmissionInv, JanitorFits
      <4>2. born[buckets[ip]] \in Nat /\ Window \in Nat
        BY <4>1, AdmissionTypes
      <4> QED
        BY <1>0, <2>2, <4>1, <4>2
    <3> QED
      BY <2>1, <3>1, <3>2 DEF AdmissionInv, JanitorFits
  <2> QED
    BY <1>2, <2>1, <2>2, <2>3, AdmissionRests
<1>3. ASSUME UNCHANGED <<clock, asks, limiterVars>> PROVE AdmissionInv'
  <2>1. Prompt'
    BY <1>3 DEF AdmissionInv, Prompt, limiterVars
  <2> QED
    BY <1>2, <1>3, <2>1
<1>4. ASSUME NEW r \in Requests, Handle(r) \/ Check(r) PROVE AdmissionInv'
  BY <1>3, <1>4 DEF Handle, Check
<1>5. ASSUME Janitor, UNCHANGED <<clock, asks, cacheVars>> PROVE AdmissionInv'
  BY <1>5, JanitorKeepsAdmission
<1>6. ASSUME Tick PROVE AdmissionInv'
  <2>1. Prompt'
    <3>1. \A r \in Requests : gate[r].now \in Nat
      BY AdmissionTypes
    <3>2. \A r \in Requests : gate[r].pc \in {"load", "count"} => gate[r].now >= clock
      BY <1>0, <1>6, <3>1 DEF Tick, Lagging
    <3>3. gate' = gate /\ clock' = clock + 1
      BY <1>6 DEF Tick, limiterVars
    <3> QED
      BY <1>0, <3>1, <3>2, <3>3 DEF Prompt
  <2> QED
    BY <1>2, <1>6, <2>1 DEF Tick
<1>7. CASE \/ UNCHANGED gateVars
           \/ \E h \in Followed, a \in Resolutions : Flip(h, a) /\ UNCHANGED <<clock, asks, limiterVars>>
  BY <1>3, <1>7 DEF gateVars
<1> QED
  BY <1>1, <1>4, <1>5, <1>6, <1>7 DEF Next

\* Where and when the requests admitted in a stretch as long as a window
\* counted.
LEMMA StretchFits ==
    ASSUME AsksInv, LimiterInv, AdmissionInv, NEW ip \in IPs, NEW from \in Nat,
           NEW r \in AdmittedIn(ip, from, from + Window)
    PROVE  /\ r \in Requests /\ admitted[r] # 0 /\ admitted[r] \in Nat
           /\ window[r].bucket \in Requests /\ window[r].resetAt \in Nat
           /\ born[window[r].bucket] \in Nat \ {0} /\ ClientIP(window[r].bucket) = ip
           /\ ClientIP(r) = ip
           /\ from <= admitted[r] /\ admitted[r] <= from + Window
           /\ born[window[r].bucket] <= admitted[r]
           /\ born[window[r].bucket] + Window <= window[r].resetAt + 1
           /\ admitted[r] <= window[r].resetAt + 1
           /\ window[r].resetAt <= admitted[r] + Window
<1>1. /\ r \in DOMAIN asks /\ ClientIP(r) = ip /\ admitted[r] # 0
      /\ admitted[r] \in from..(from + Window)
  BY DEF AdmittedIn
<1>2. r \in Requests
  BY <1>1, TrafficTyped DEF AsksInv
<1>3. /\ Window \in Nat /\ admitted \in [Requests -> Nat] /\ born \in [Requests -> Nat]
      /\ window \in [Requests -> [bucket : Requests \cup {NoBucket}, resetAt : Nat]]
  BY AdmissionTypes
<1>4. window[r].resetAt \in Nat /\ admitted[r] \in Nat
  BY <1>2, <1>3
<1>5. /\ window[r].bucket \in Requests /\ born[window[r].bucket] # 0
      /\ ClientIP(window[r].bucket) = ip
      /\ born[window[r].bucket] <= admitted[r]
      /\ born[window[r].bucket] + Window <= window[r].resetAt + 1
      /\ admitted[r] <= window[r].resetAt + 1
      /\ window[r].resetAt <= admitted[r] + Window
  BY <1>1, <1>2 DEF AdmissionInv, WindowsFit
<1>6. admitted[r] <= from + Window /\ from <= admitted[r]
  BY <1>1, <1>3, <1>4
<1> QED
  BY <1>1, <1>2, <1>3, <1>4, <1>5, <1>6

\* Of two buckets, one follows the other by a window, and what counts in the
\* earlier one has arrived by then.
LEMMA BucketsFollow ==
    ASSUME AsksInv, LimiterInv, AdmissionInv, NEW ip \in IPs, NEW from \in Nat,
           NEW q \in AdmittedIn(ip, from, from + Window),
           NEW r \in AdmittedIn(ip, from, from + Window),
           window[q].bucket # window[r].bucket
    PROVE  \/ /\ born[window[q].bucket] + Window <= born[window[r].bucket]
              /\ admitted[q] <= born[window[r].bucket] + 1
           \/ /\ born[window[r].bucket] + Window <= born[window[q].bucket]
              /\ admitted[r] <= born[window[q].bucket] + 1
<1> PICK b \in Requests, c \in Requests : b = window[q].bucket /\ c = window[r].bucket
  BY StretchFits
<1>1. /\ q \in Requests /\ r \in Requests /\ admitted[q] # 0 /\ admitted[r] # 0
      /\ born[b] \in Nat \ {0} /\ born[c] \in Nat \ {0}
      /\ ClientIP(b) = ip /\ ClientIP(c) = ip /\ ClientIP(q) = ip /\ ClientIP(r) = ip
  BY StretchFits
<1>2. born[b] + Window <= born[c] \/ born[c] + Window <= born[b]
  BY <1>1 DEF AdmissionInv, Succession
<1>3. born[b] < born[c] => admitted[q] <= born[c] + 1
  BY <1>1 DEF AdmissionInv, WindowsFit
<1>4. born[c] < born[b] => admitted[r] <= born[b] + 1
  BY <1>1 DEF AdmissionInv, WindowsFit
<1>5. Window \in Nat \ {0, 1}
  BY AdmissionTypes
<1> QED
  BY <1>1, <1>2, <1>3, <1>4, <1>5

\* No more than three buckets take part.
LEMMA ThreeBuckets ==
    ASSUME AsksInv, LimiterInv, AdmissionInv, NEW ip \in IPs, NEW from \in Nat,
           NEW p \in AdmittedIn(ip, from, from + Window),
           NEW q \in AdmittedIn(ip, from, from + Window),
           NEW r \in AdmittedIn(ip, from, from + Window),
           NEW s \in AdmittedIn(ip, from, from + Window)
    PROVE  \/ window[p].bucket \in {window[q].bucket, window[r].bucket, window[s].bucket}
           \/ window[q].bucket \in {window[r].bucket, window[s].bucket}
           \/ window[r].bucket = window[s].bucket
<1>1. Window \in Nat \ {0, 1}
  BY AdmissionTypes
<1>2. \A x \in {p, q, r, s} :
         /\ born[window[x].bucket] \in Nat /\ admitted[x] \in Nat
         /\ from <= admitted[x] /\ admitted[x] <= from + Window
         /\ born[window[x].bucket] <= admitted[x]
  BY StretchFits
<1>3. \A x, y \in {p, q, r, s} :
         window[x].bucket # window[y].bucket =>
           \/ /\ born[window[x].bucket] + Window <= born[window[y].bucket]
              /\ admitted[x] <= born[window[y].bucket] + 1
           \/ /\ born[window[y].bucket] + Window <= born[window[x].bucket]
              /\ admitted[y] <= born[window[x].bucket] + 1
  BY BucketsFollow
<1> QED
  BY <1>1, <1>2, <1>3

\* In one bucket two windows take part at most.
LEMMA TwoWindows ==
    ASSUME AsksInv, LimiterInv, AdmissionInv, NEW ip \in IPs, NEW from \in Nat,
           NEW p \in AdmittedIn(ip, from, from + Window),
           NEW q \in AdmittedIn(ip, from, from + Window),
           NEW r \in AdmittedIn(ip, from, from + Window),
           window[p].bucket = window[q].bucket, window[q].bucket = window[r].bucket
    PROVE  \/ window[p].resetAt \in {window[q].resetAt, window[r].resetAt}
           \/ window[q].resetAt = window[r].resetAt
<1>1. Window \in Nat
  BY AdmissionTypes
<1>2. \A x \in {p, q, r} :
         /\ x \in Requests /\ admitted[x] # 0
         /\ window[x].resetAt \in Nat /\ admitted[x] \in Nat
         /\ from <= window[x].resetAt + 1 /\ window[x].resetAt <= from + 2 * Window
  <2> SUFFICES ASSUME NEW x \in {p, q, r}
               PROVE  /\ x \in Requests /\ admitted[x] # 0
                      /\ window[x].resetAt \in Nat /\ admitted[x] \in Nat
                      /\ from <= window[x].resetAt + 1 /\ window[x].resetAt <= from + 2 * Window
    OBVIOUS
  <2>1. /\ x \in Requests /\ admitted[x] # 0
        /\ window[x].resetAt \in Nat /\ admitted[x] \in Nat
        /\ from <= admitted[x] /\ admitted[x] <= from + Window
        /\ admitted[x] <= window[x].resetAt + 1
        /\ window[x].resetAt <= admitted[x] + Window
    BY StretchFits
  <2> QED
    BY <1>1, <2>1
<1>3. \A x, y \in {p, q, r} :
         \/ window[x].resetAt = window[y].resetAt
         \/ window[x].resetAt + Window < window[y].resetAt
         \/ window[y].resetAt + Window < window[x].resetAt
  BY <1>2 DEF AdmissionInv, WindowsApart
<1> QED
  BY <1>1, <1>2, <1>3

\* And in the last of three buckets only one.
LEMMA LastHasOneWindow ==
    ASSUME AsksInv, LimiterInv, AdmissionInv, NEW ip \in IPs, NEW from \in Nat,
           NEW p \in AdmittedIn(ip, from, from + Window),
           NEW q \in AdmittedIn(ip, from, from + Window),
           NEW r \in AdmittedIn(ip, from, from + Window),
           NEW s \in AdmittedIn(ip, from, from + Window),
           born[window[p].bucket] < born[window[q].bucket],
           born[window[q].bucket] < born[window[r].bucket],
           window[s].bucket = window[r].bucket
    PROVE  window[r].resetAt = window[s].resetAt
<1>1. Window \in Nat \ {0, 1}
  BY AdmissionTypes
<1>2. \A x \in {p, q, r, s} :
         /\ x \in Requests /\ admitted[x] # 0
         /\ born[window[x].bucket] \in Nat /\ admitted[x] \in Nat /\ window[x].resetAt \in Nat
         /\ from <= admitted[x] /\ admitted[x] <= from + Window
         /\ born[window[x].bucket] + Window <= window[x].resetAt + 1
         /\ window[x].resetAt <= admitted[x] + Window
  BY StretchFits
<1>3. /\ born[window[p].bucket] + Window <= born[window[q].bucket]
      /\ admitted[p] <= born[window[q].bucket] + 1
      /\ born[window[q].bucket] + Window <= born[window[r].bucket]
  BY <1>1, <1>2, BucketsFollow
<1>4. \/ window[r].resetAt = window[s].resetAt
      \/ window[r].resetAt + Window < window[s].resetAt
      \/ window[s].resetAt + Window < window[r].resetAt
  BY <1>2 DEF AdmissionInv, WindowsApart
<1> QED
  BY <1>1, <1>2, <1>3, <1>4

\* The requests of a set that counted in a bucket.
OfBucket(S, b) == {r \in S : window[r].bucket = b}

LEMMA LetInHolds ==
    ASSUME LimiterInv, AdmissionInv, NEW b \in Requests, NEW e \in Nat
    PROVE  /\ IsFiniteSet(LetIn(b, e)) /\ Cardinality(LetIn(b, e)) \in Nat
           /\ Cardinality(LetIn(b, e)) <= Rate
<1>1. LetIn(b, e) \in SUBSET Requests
  BY DEF LetIn
<1>2. IsFiniteSet(LetIn(b, e))
  BY <1>1, GateAssumption, FS_Subset
<1>3. Cardinality(LetIn(b, e)) <= Rate
  BY DEF AdmissionInv, WindowsHold
<1> QED
  BY <1>2, <1>3, FS_CardinalityType

\* Those that counted in one window of a bucket.
LEMMA OneWindowHolds ==
    ASSUME AsksInv, LimiterInv, AdmissionInv, NEW ip \in IPs, NEW from \in Nat,
           NEW T, T \subseteq AdmittedIn(ip, from, from + Window),
           NEW b \in Requests, NEW e \in Nat,
           \A r \in T : window[r].bucket = b /\ window[r].resetAt = e
    PROVE  IsFiniteSet(T) /\ Cardinality(T) \in Nat /\ Cardinality(T) <= Rate
<1>1. T \subseteq LetIn(b, e)
  <2> SUFFICES ASSUME NEW r \in T PROVE r \in LetIn(b, e)
    OBVIOUS
  <2>1. r \in Requests /\ admitted[r] # 0
    BY StretchFits
  <2>2. window[r] = [bucket |-> b, resetAt |-> e]
    <3>1. window[r] \in [bucket : Requests \cup {NoBucket}, resetAt : Nat]
      BY <2>1, AdmissionTypes
    <3>2. window[r].bucket = b /\ window[r].resetAt = e
      OBVIOUS
    <3> QED
      BY <3>1, <3>2
  <2> QED
    BY <2>1, <2>2 DEF LetIn
<1>2. IsFiniteSet(T)
  BY <1>1, LetInHolds, FS_Subset
<1>3. Cardinality(T) \in Nat /\ Cardinality(T) <= Cardinality(LetIn(b, e))
  BY <1>1, LetInHolds, WiderHoldsMore
<1>4. Cardinality(LetIn(b, e)) \in Nat /\ Cardinality(LetIn(b, e)) <= Rate /\ Rate \in Nat
  BY LetInHolds, AdmissionTypes
<1> QED
  BY <1>2, <1>3, <1>4

\* The size of two sets together.
LEMMA TogetherHold ==
    ASSUME NEW S, NEW T, IsFiniteSet(S), IsFiniteSet(T)
    PROVE  /\ IsFiniteSet(S \cup T)
           /\ Cardinality(S) \in Nat /\ Cardinality(T) \in Nat /\ Cardinality(S \cup T) \in Nat
           /\ Cardinality(S \cup T) <= Cardinality(S) + Cardinality(T)
<1>1. IsFiniteSet(S \cup T)
      /\ Cardinality(S \cup T) = Cardinality(S) + Cardinality(T) - Cardinality(S \cap T)
  BY FS_Union
<1>2. IsFiniteSet(S \cap T)
  <2>1. S \cap T \in SUBSET S
    OBVIOUS
  <2> QED
    BY <2>1, FS_Subset
<1>3. Cardinality(S) \in Nat /\ Cardinality(T) \in Nat /\ Cardinality(S \cup T) \in Nat
      /\ Cardinality(S \cap T) \in Nat
  BY <1>1, <1>2, FS_CardinalityType
<1> QED
  BY <1>1, <1>3

LEMMA OneBucketHolds ==
    ASSUME AsksInv, LimiterInv, AdmissionInv, NEW ip \in IPs, NEW from \in Nat,
           NEW S, S = AdmittedIn(ip, from, from + Window), NEW b \in Requests
    PROVE  /\ IsFiniteSet(OfBucket(S, b)) /\ Cardinality(OfBucket(S, b)) \in Nat
           /\ Cardinality(OfBucket(S, b)) <= 2 * Rate
<1> DEFINE T == OfBucket(S, b)
<1>0. T \subseteq S /\ (\A r \in T : window[r].bucket = b) /\ Rate \in Nat
  BY AdmissionTypes DEF OfBucket
<1> HIDE DEF T
<1>1. CASE T = {}
  BY <1>0, <1>1, FS_EmptySet DEF T
<1>2. ASSUME NEW p \in T PROVE IsFiniteSet(T) /\ Cardinality(T) \in Nat /\ Cardinality(T) <= 2 * Rate
  <2> PICK d \in Nat : d = window[p].resetAt
    BY <1>0, StretchFits
  <2> DEFINE P == {r \in T : window[r].resetAt = d}
             Q == {r \in T : window[r].resetAt # d}
  <2>1. IsFiniteSet(P) /\ Cardinality(P) \in Nat /\ Cardinality(P) <= Rate
    <3>1. P \subseteq S /\ \A r \in P : window[r].bucket = b /\ window[r].resetAt = d
      BY <1>0
    <3> HIDE DEF P
    <3> QED
      BY <3>1, OneWindowHolds
  <2>2. IsFiniteSet(Q) /\ Cardinality(Q) \in Nat /\ Cardinality(Q) <= Rate
    <3>1. CASE Q = {}
      <4> HIDE DEF Q
      <4> QED
        BY <1>0, <3>1, FS_EmptySet
    <3>2. ASSUME NEW q \in Q PROVE IsFiniteSet(Q) /\ Cardinality(Q) \in Nat /\ Cardinality(Q) <= Rate
      <4> PICK e \in Nat : e = window[q].resetAt
        BY <1>0, StretchFits
      <4>1. ASSUME NEW r \in Q PROVE window[r].resetAt = e
        <5>1. /\ p \in S /\ q \in S /\ r \in S
              /\ window[p].bucket = b /\ window[q].bucket = b /\ window[r].bucket = b
              /\ window[q].resetAt # d /\ window[r].resetAt # d
          BY <1>0
        <5>2. \/ window[p].resetAt \in {window[q].resetAt, window[r].resetAt}
              \/ window[q].resetAt = window[r].resetAt
          BY <5>1, TwoWindows
        <5> QED
          BY <5>1, <5>2
      <4>2. Q \subseteq S /\ \A r \in Q : window[r].bucket = b /\ window[r].resetAt = e
        BY <1>0, <4>1
      <4> HIDE DEF Q
      <4> QED
        BY <4>2, OneWindowHolds
    <3> QED
      BY <3>1, <3>2
  <2>3. T = P \cup Q
    OBVIOUS
  <2> HIDE DEF P, Q
  <2>4. IsFiniteSet(T) /\ Cardinality(T) \in Nat /\ Cardinality(T) <= Cardinality(P) + Cardinality(Q)
    BY <2>1, <2>2, <2>3, TogetherHold
  <2> QED
    BY <1>0, <2>1, <2>2, <2>4
<1> QED
  BY <1>1, <1>2 DEF T

LEMMA LastBucketHolds ==
    ASSUME AsksInv, LimiterInv, AdmissionInv, NEW ip \in IPs, NEW from \in Nat,
           NEW S, S = AdmittedIn(ip, from, from + Window),
           NEW p \in S, NEW q \in S, NEW r \in S,
           born[window[p].bucket] < born[window[q].bucket],
           born[window[q].bucket] < born[window[r].bucket]
    PROVE  Cardinality(OfBucket(S, window[r].bucket)) <= Rate
<1> PICK b \in Requests, e \in Nat : b = window[r].bucket /\ e = window[r].resetAt
  BY StretchFits
<1> DEFINE T == OfBucket(S, b)
<1>1. T \subseteq S /\ \A s \in T : window[s].bucket = b
  BY DEF OfBucket
<1>2. \A s \in T : window[s].resetAt = e
  BY <1>1, LastHasOneWindow
<1> HIDE DEF T
<1>3. Cardinality(T) <= Rate
  BY <1>1, <1>2, OneWindowHolds
<1> QED
  BY <1>3 DEF T

\* One of three different buckets is the last.
LEMMA ThreeBucketsHold ==
    ASSUME AsksInv, LimiterInv, AdmissionInv, NEW ip \in IPs, NEW from \in Nat,
           NEW S, S = AdmittedIn(ip, from, from + Window),
           NEW p \in S, NEW q \in S, NEW r \in S,
           window[p].bucket # window[q].bucket, window[p].bucket # window[r].bucket,
           window[q].bucket # window[r].bucket
    PROVE  Cardinality(OfBucket(S, window[p].bucket)) + Cardinality(OfBucket(S, window[q].bucket))
             + Cardinality(OfBucket(S, window[r].bucket)) <= 5 * Rate
<1> DEFINE P == OfBucket(S, window[p].bucket)
           Q == OfBucket(S, window[q].bucket)
           R == OfBucket(S, window[r].bucket)
           before(x, y) == born[window[x].bucket] < born[window[y].bucket]
<1>1. Rate \in Nat /\ Window \in Nat \ {0}
  BY AdmissionTypes
<1>2. \A x \in {p, q, r} : window[x].bucket \in Requests /\ born[window[x].bucket] \in Nat
  BY StretchFits
<1>3. /\ before(p, q) \/ before(q, p)
      /\ before(p, r) \/ before(r, p)
      /\ before(q, r) \/ before(r, q)
  <2>1. \A x, y \in {p, q, r} : window[x].bucket # window[y].bucket =>
           \/ born[window[x].bucket] + Window <= born[window[y].bucket]
           \/ born[window[y].bucket] + Window <= born[window[x].bucket]
    BY BucketsFollow
  <2> QED
    BY <1>1, <1>2, <2>1
<1>4. /\ Cardinality(P) \in Nat /\ Cardinality(P) <= 2 * Rate
      /\ Cardinality(Q) \in Nat /\ Cardinality(Q) <= 2 * Rate
      /\ Cardinality(R) \in Nat /\ Cardinality(R) <= 2 * Rate
  BY <1>2, OneBucketHolds
<1>5. /\ before(p, q) /\ before(q, r) => Cardinality(R) <= Rate
      /\ before(q, p) /\ before(p, r) => Cardinality(R) <= Rate
      /\ before(p, r) /\ before(r, q) => Cardinality(Q) <= Rate
      /\ before(r, p) /\ before(p, q) => Cardinality(Q) <= Rate
      /\ before(q, r) /\ before(r, p) => Cardinality(P) <= Rate
      /\ before(r, q) /\ before(q, p) => Cardinality(P) <= Rate
  BY LastBucketHolds
<1>6. Cardinality(P) <= Rate \/ Cardinality(Q) <= Rate \/ Cardinality(R) <= Rate
  <2> HIDE DEF P, Q, R
  <2> QED
    BY <1>2, <1>3, <1>5
<1> HIDE DEF P, Q, R
<1>7. Cardinality(P) + Cardinality(Q) + Cardinality(R) <= 5 * Rate
  BY <1>1, <1>4, <1>6
<1> QED
  BY <1>7 DEF P, Q, R

LEMMA TwoOfThem ==
    ASSUME NEW a, NEW b, a # b
    PROVE  IsFiniteSet({a, b}) /\ Cardinality({a, b}) = 2
<1>1. IsFiniteSet({a}) /\ Cardinality({a}) = 1
  BY FS_Singleton
<1>2. {a, b} = {a} \cup {b} /\ b \notin {a}
  OBVIOUS
<1>3. IsFiniteSet({a} \cup {b}) /\ Cardinality({a} \cup {b}) = Cardinality({a}) + 1
  BY <1>1, <1>2, FS_AddElement
<1>4. Cardinality({a}) + 1 = 2
  BY <1>1
<1> QED
  BY <1>2, <1>3, <1>4

AreThree(T, a, b, c) == T = {a, b, c} /\ a # b /\ a # c /\ b # c

LEMMA ThreeOfThem ==
    ASSUME NEW T, NEW a, NEW b, NEW c, AreThree(T, a, b, c)
    PROVE  Cardinality(T) = 3
<1> PICK P : P = {a, b}
  OBVIOUS
<1>1. T = P \cup {c} /\ c \notin P
  BY DEF AreThree
<1>2. IsFiniteSet(P) /\ Cardinality(P) = 2
  BY TwoOfThem DEF AreThree
<1>3. Cardinality(P \cup {c}) = Cardinality(P) + 1
  BY <1>1, <1>2, FS_AddElement
<1>4. Cardinality(P) + 1 = 3
  BY <1>2
<1> QED
  BY <1>1, <1>3, <1>4

LEMMA StretchHolds ==
    ASSUME AsksInv, LimiterInv, AdmissionInv, NEW ip \in IPs, NEW from \in Nat,
           NEW S, S = AdmittedIn(ip, from, from + Window),
           NEW B, B = {window[r].bucket : r \in S}
    PROVE  /\ Cardinality(S) <= 2 * Rate * Cardinality(B)
           /\ Cardinality(B) <= 3
           /\ Cardinality(S) <= 5 * Rate
<1> DEFINE Goal == /\ Cardinality(S) <= 2 * Rate * Cardinality(B)
                   /\ Cardinality(B) <= 3
                   /\ Cardinality(S) <= 5 * Rate
           Differ(x, y) == window[x].bucket # window[y].bucket
<1>0. Rate \in Nat
  BY AdmissionTypes
<1>1. \A x \in S :
        /\ window[x].bucket \in Requests
        /\ IsFiniteSet(OfBucket(S, window[x].bucket))
        /\ Cardinality(OfBucket(S, window[x].bucket)) \in Nat
        /\ Cardinality(OfBucket(S, window[x].bucket)) <= 2 * Rate
  BY StretchFits, OneBucketHolds
<1>2. ASSUME S = {} PROVE Goal
  <2>1. B = {}
    BY <1>2
  <2>2. Cardinality(S) = 0 /\ Cardinality(B) = 0
    BY <1>2, <2>1, FS_EmptySet
  <2> QED
    BY <1>0, <2>2
<1>3. ASSUME NEW p \in S, \A x \in S : ~Differ(x, p)
      PROVE  Goal
  <2>1. S = OfBucket(S, window[p].bucket)
    BY <1>3 DEF OfBucket
  <2>2. B = {window[p].bucket}
    BY <1>3
  <2>3. Cardinality(B) = 1
    BY <2>2, FS_Singleton
  <2>4. Cardinality(S) \in Nat /\ Cardinality(S) <= 2 * Rate
    BY <1>1, <2>1
  <2> QED
    BY <1>0, <2>3, <2>4
<1>4. ASSUME NEW p \in S, NEW q \in S, Differ(p, q), \A x \in S : ~Differ(x, p) \/ ~Differ(x, q)
      PROVE  Goal
  <2> DEFINE P == OfBucket(S, window[p].bucket)
             Q == OfBucket(S, window[q].bucket)
  <2>1. S = P \cup Q
    BY <1>4 DEF OfBucket
  <2>2. B = {window[p].bucket, window[q].bucket}
    BY <1>4
  <2>3. Cardinality(B) = 2
    BY <1>4, <2>2, TwoOfThem
  <2>4. /\ IsFiniteSet(P) /\ Cardinality(P) \in Nat /\ Cardinality(P) <= 2 * Rate
        /\ IsFiniteSet(Q) /\ Cardinality(Q) \in Nat /\ Cardinality(Q) <= 2 * Rate
    BY <1>1
  <2> HIDE DEF P, Q
  <2>5. Cardinality(S) \in Nat /\ Cardinality(S) <= Cardinality(P) + Cardinality(Q)
    BY <2>1, <2>4, TogetherHold
  <2>6. Cardinality(S) <= 4 * Rate
    BY <1>0, <2>4, <2>5
  <2> QED
    BY <1>0, <2>3, <2>5, <2>6
<1>5. ASSUME NEW p \in S, NEW q \in S, NEW r \in S, Differ(p, q), Differ(p, r), Differ(q, r)
      PROVE  Goal
  <2> DEFINE P == OfBucket(S, window[p].bucket)
             Q == OfBucket(S, window[q].bucket)
             R == OfBucket(S, window[r].bucket)
  <2>1. \A x \in S : window[x].bucket \in {window[p].bucket, window[q].bucket, window[r].bucket}
    <3> SUFFICES ASSUME NEW x \in S
                 PROVE  window[x].bucket \in {window[p].bucket, window[q].bucket, window[r].bucket}
      OBVIOUS
    <3>1. \/ window[x].bucket \in {window[p].bucket, window[q].bucket, window[r].bucket}
          \/ window[p].bucket \in {window[q].bucket, window[r].bucket}
          \/ window[q].bucket = window[r].bucket
      BY ThreeBuckets
    <3> QED
      BY <1>5, <3>1
  <2>2. S = (P \cup Q) \cup R
    BY <2>1 DEF OfBucket
  <2>3. B = {window[p].bucket, window[q].bucket, window[r].bucket}
    BY <2>1
  <2>4. Cardinality(B) = 3
    <3>1. AreThree(B, window[p].bucket, window[q].bucket, window[r].bucket)
      BY <1>5, <2>3 DEF AreThree
    <3> QED
      BY <3>1, ThreeOfThem
  <2>5. /\ IsFiniteSet(P) /\ Cardinality(P) \in Nat /\ Cardinality(P) <= 2 * Rate
        /\ IsFiniteSet(Q) /\ Cardinality(Q) \in Nat /\ Cardinality(Q) <= 2 * Rate
        /\ IsFiniteSet(R) /\ Cardinality(R) \in Nat /\ Cardinality(R) <= 2 * Rate
    BY <1>1
  <2>6. Cardinality(P) + Cardinality(Q) + Cardinality(R) <= 5 * Rate
    BY <1>5, ThreeBucketsHold
  <2> HIDE DEF P, Q, R
  <2>7. /\ IsFiniteSet(P \cup Q) /\ Cardinality(P \cup Q) \in Nat
        /\ Cardinality(P \cup Q) <= Cardinality(P) + Cardinality(Q)
    BY <2>5, TogetherHold
  <2>8. Cardinality(S) \in Nat /\ Cardinality(S) <= Cardinality(P \cup Q) + Cardinality(R)
    BY <2>2, <2>5, <2>7, TogetherHold
  <2>9. Cardinality(S) <= 5 * Rate
    BY <1>0, <2>5, <2>6, <2>7, <2>8
  <2>10. 5 * Rate <= 2 * Rate * 3
    BY <1>0
  <2>11. Cardinality(S) <= 2 * Rate * 3
    BY <1>0, <2>8, <2>9, <2>10
  <2> QED
    BY <2>4, <2>9, <2>11
<1>6. ASSUME NEW p \in S PROVE Goal
  <2>1. CASE \A x \in S : ~Differ(x, p)
    BY <1>3, <2>1
  <2>2. ASSUME NEW q \in S, Differ(q, p) PROVE Goal
    <3>1. CASE \A x \in S : ~Differ(x, p) \/ ~Differ(x, q)
      BY <1>4, <2>2, <3>1
    <3>2. ASSUME NEW r \in S, Differ(r, p), Differ(r, q) PROVE Goal
      BY <1>5, <2>2, <3>2
    <3> HIDE DEF Goal
    <3> QED
      BY <3>1, <3>2
  <2> HIDE DEF Goal
  <2> QED
    BY <2>1, <2>2
<1> HIDE DEF Goal
<1>7. Goal
  BY <1>2, <1>6
<1> QED
  BY <1>7 DEF Goal

LEMMA AdmissionHolds == Spec => [](AsksInv /\ LimiterInv /\ AdmissionInv)
<1>1. Init => AdmissionInv
  BY AdmissionStarts
<1>2. AsksInv /\ LimiterInv /\ AdmissionInv /\ [Next]_gateVars => AdmissionInv'
  BY AdmissionStays
<1> QED
  BY <1>1, <1>2, GateHolds, PTL DEF Spec

\* ratelimit.go:12: in any stretch of a window's length an address gets five
\* times its rate at most, whatever the janitor drops and however late it
\* comes: three buckets take part at most, and the last one with one window.
THEOREM AdmissionsAddUp == Spec => []AdmissionBounded
<1>1. AsksInv /\ LimiterInv /\ AdmissionInv => AdmissionBounded
  <2> SUFFICES ASSUME AsksInv, LimiterInv, AdmissionInv, NEW ip \in IPs, NEW from \in TTL..clock
               PROVE  LET A == AdmittedIn(ip, from, from + Window)
                          B == {window[r].bucket : r \in A}
                      IN  /\ Cardinality(A) <= 2 * Rate * Cardinality(B)
                          /\ Cardinality(B) <= 3
                          /\ Cardinality(A) <= 5 * Rate
    BY DEF AdmissionBounded
  <2>1. from \in Nat
    BY CacheAssumption
  <2> QED
    BY <2>1, StretchHolds
<1> QED
  BY <1>1, AdmissionHolds, PTL
===============================================================================
