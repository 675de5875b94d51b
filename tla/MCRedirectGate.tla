---------------------------- MODULE MCRedirectGate ----------------------------
(***************************************************************************)
(* Instances of RedirectGate: what the clients send.                       *)
(***************************************************************************)
EXTENDS RedirectGate, TLC

CONSTANTS i1, i2, i3, h1, h2

\* Behind the proxy every connection is the proxy's, i3.
From(ip, pool) == [Remote |-> i3, Forwarded |-> <<i3, ip, NotAnIP>>, Pool |-> pool]

\* One client in a hurry; the links it asks for are on the deny list.
Burst == [r \in Requests |-> From(i1, {})]

\* Two clients with a bucket each follow links to the hosts.
Crowd == {t \in UNION {[S -> {From(ip, Hosts) : ip \in {i1, i2}}] : S \in SUBSET Requests} :
            /\ Cardinality(DOMAIN t) = 2
            /\ \A q, r \in DOMAIN t : q # r => t[q] # t[r]}

BurstOrCrowd == {Burst} \cup Crowd

\* Four windows for the burst, one for the crowd.
FourOrOne == [t \in BurstOrCrowd |-> IF t = Burst THEN 4 * Window ELSE Window]

\* Requests are interchangeable, and so are hosts.
Symmetry == Permutations(Requests) \cup Permutations(Hosts)
===============================================================================
