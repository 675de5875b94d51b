-------------------------- MODULE StreamServiceProofs --------------------------
(***************************************************************************)
(* Proofs about StreamService, for any number of clients, redirects and    *)
(* codes and any size of the buffers: what a client has been shown and     *)
(* what lies in its buffer, read as one sequence, are the clicks published *)
(* for its code while it watches, once each, but for those it dropped.     *)
(***************************************************************************)
EXTENDS StreamService, SequenceTheorems, TLAPS

\* What a client hears: what it was shown, then what waits in its buffer.
Got(s) == shown[s] \o sub[s].ch

Subscription == [code : Codes \cup {NoCode}, ch : Seq(Clicks), closed : BOOLEAN]

Typed ==
    /\ subs \subseteq Clients
    /\ sub \in [Clients -> Subscription]
    /\ publish \in [Clicks -> [begun : BOOLEAN, todo : SUBSET Clients]]
    /\ owed \in [Clients -> SUBSET Clicks]
    /\ dropped \in [Clients -> SUBSET Clicks]
    /\ client \in [Clients -> [pc : HandlerPCs, code : Codes \cup {NoCode}]]
    /\ shown \in [Clients -> Seq(Clicks)]
    /\ redirect \in [Clicks -> Codes \cup {NoCode}]

\* Where a handler is says what it has subscribed to.  The registry holds
\* every subscription that is open; before its own a client has heard nothing.
HandlersFit ==
    \A s \in Clients :
        /\ client[s].pc = "connected" => client[s].code \in Codes
        /\ client[s].pc \in {"idle", "connected"} => sub[s].code = NoCode
        /\ client[s].pc \in {"streaming", "leaving"} <=> sub[s].code # NoCode /\ ~sub[s].closed
        /\ client[s].pc \in {"streaming", "leaving"} => s \in subs
        /\ sub[s].code = NoCode =>
             /\ s \notin subs
             /\ sub[s].ch = <<>> /\ shown[s] = <<>>
             /\ owed[s] = {} /\ dropped[s] = {}

\* A Publish is for the code of its redirect, and so is everyone it has yet
\* to reach.
PublishFits ==
    \A e \in Clicks :
        /\ publish[e].begun => redirect[e] # NoCode
        /\ \A s \in publish[e].todo : publish[e].begun /\ redirect[e] = sub[s].code

\* A client hears a click once, and only of its code; who has heard it is
\* not still to be reached.
HeardBy(s) ==
    /\ \A i, k \in 1..Len(Got(s)) : Got(s)[i] = Got(s)[k] => i = k
    /\ \A i \in 1..Len(Got(s)) :
          /\ publish[Got(s)[i]].begun
          /\ s \notin publish[Got(s)[i]].todo
          /\ redirect[Got(s)[i]] = sub[s].code

\* Who is owed a click will be reached, was too slow or has heard it.
OwedTo(s) ==
    ~sub[s].closed =>
        \A e \in owed[s] :
            /\ publish[e].begun
            /\ \/ s \in publish[e].todo
               \/ e \in dropped[s]
               \/ \E i \in 1..Len(Got(s)) : Got(s)[i] = e

StreamInv ==
    /\ Typed /\ HandlersFit /\ PublishFits
    /\ \A s \in Clients : HeardBy(s) /\ OwedTo(s)

----------------------------------------------------------------------------
(* What is heard, as a sequence. *)

LEMMA ReadMoves ==
    ASSUME NEW S, NEW x \in Seq(S), NEW y \in Seq(S), y # <<>>
    PROVE  Append(x, Head(y)) \o Tail(y) = x \o y
<1>1. /\ Head(y) \in S /\ Tail(y) \in Seq(S) /\ Head(y) = y[1]
      /\ Len(y) \in Nat \ {0} /\ Len(Tail(y)) = Len(y) - 1
      /\ \A i \in 1..Len(Tail(y)) : Tail(y)[i] = y[i + 1]
  OBVIOUS
<1> PICK h, t : h = Head(y) /\ t = Tail(y)
  OBVIOUS
<1> PICK x1 : x1 = Append(x, h)
  OBVIOUS
<1>2. /\ x1 \in Seq(S) /\ Len(x1) = Len(x) + 1 /\ x1[Len(x) + 1] = h
      /\ \A i \in 1..Len(x) : x1[i] = x[i]
  BY <1>1
<1> PICK u, v : u = x1 \o t /\ v = x \o y
  OBVIOUS
<1>3. /\ u \in Seq(S) /\ v \in Seq(S)
      /\ Len(u) = Len(x) + Len(y) /\ Len(v) = Len(x) + Len(y)
  BY <1>1, <1>2, ConcatProperties
<1>4. ASSUME NEW i \in 1..Len(u) PROVE u[i] = v[i]
  <2>1. /\ u[i] = IF i <= Len(x1) THEN x1[i] ELSE t[i - Len(x1)]
        /\ v[i] = IF i <= Len(x) THEN x[i] ELSE y[i - Len(x)]
    BY <1>1, <1>2, <1>3, ConcatProperties
  <2> QED
    BY <1>1, <1>2, <1>3, <2>1
<1> QED
  BY <1>3, <1>4, SeqEqual

\* h is g with e behind it.
Extended(g, h, e) ==
    /\ Len(h) = Len(g) + 1 /\ h[Len(g) + 1] = e
    /\ \A i \in 1..Len(g) : h[i] = g[i]

LEMMA SendAppends ==
    ASSUME NEW S, NEW x \in Seq(S), NEW y \in Seq(S), NEW e \in S
    PROVE  Extended(x \o y, x \o Append(y, e), e)
<1> PICK z : z = Append(y, e)
  OBVIOUS
<1>1. /\ z \in Seq(S) /\ Len(z) = Len(y) + 1 /\ z[Len(y) + 1] = e
      /\ \A i \in 1..Len(y) : z[i] = y[i]
  OBVIOUS
<1> PICK g, h : g = x \o y /\ h = x \o z
  OBVIOUS
<1>2. /\ Len(g) = Len(x) + Len(y) /\ Len(h) = Len(x) + Len(y) + 1
      /\ Len(x) \in Nat /\ Len(y) \in Nat
  BY <1>1, ConcatProperties
<1>3. /\ \A i \in 1..Len(g) : g[i] = IF i <= Len(x) THEN x[i] ELSE y[i - Len(x)]
      /\ \A i \in 1..Len(h) : h[i] = IF i <= Len(x) THEN x[i] ELSE z[i - Len(x)]
  <2>1. Len(x) + Len(z) = Len(h)
    BY <1>1, <1>2
  <2>2. \A i \in 1..Len(x) + Len(z) : h[i] = IF i <= Len(x) THEN x[i] ELSE z[i - Len(x)]
    BY <1>1, ConcatProperties
  <2>3. \A i \in 1..Len(x) + Len(y) : g[i] = IF i <= Len(x) THEN x[i] ELSE y[i - Len(x)]
    BY ConcatProperties
  <2> QED
    BY <1>2, <2>1, <2>2, <2>3
<1>4. ASSUME NEW i \in 1..Len(g) PROVE h[i] = g[i]
  BY <1>1, <1>2, <1>3
<1>5. h[Len(g) + 1] = e
  <2>1. Len(g) + 1 \in 1..Len(h) /\ ~(Len(g) + 1 <= Len(x)) /\ Len(g) + 1 - Len(x) = Len(y) + 1
    BY <1>2
  <2> QED
    BY <1>1, <1>3, <2>1
<1> QED
  BY <1>2, <1>4, <1>5 DEF Extended

LEMMA EmptyBuffer ==
    ASSUME NEW S, NEW x \in Seq(S), NEW y \in Seq(S)
    PROVE  /\ x \o <<>> = x
           /\ Len(x) \in Nat /\ Len(x \o y) \in Nat /\ Len(x) <= Len(x \o y)
           /\ \A i \in 1..Len(x) : (x \o y)[i] = x[i]
<1>1. x \o <<>> = x
  BY ConcatEmptySeq
<1>2. Len(x \o y) = Len(x) + Len(y) /\ Len(x) \in Nat /\ Len(y) \in Nat
  BY ConcatProperties
<1> QED
  BY <1>1, <1>2, ConcatProperties
----------------------------------------------------------------------------
(* What one step does to a client. *)

\* Its subscription is for the code it was for, and open if it was; it has
\* heard what it had, and every Publish that had to reach it still has.
Unaffected(s) ==
    /\ sub'[s].code = sub[s].code /\ sub'[s].closed = sub[s].closed
    /\ Got(s)' = Got(s)
    /\ dropped'[s] = dropped[s]
    /\ \A e \in Clicks : publish[e].begun =>
          /\ publish'[e].begun /\ redirect'[e] = redirect[e]
          /\ s \in publish'[e].todo <=> s \in publish[e].todo

LEMMA GotTyped ==
    ASSUME StreamInv, NEW s \in Clients
    PROVE  /\ Got(s) \in Seq(Clicks) /\ Len(Got(s)) \in Nat
           /\ shown[s] \in Seq(Clicks) /\ sub[s].ch \in Seq(Clicks)
           /\ \A i \in 1..Len(Got(s)) : Got(s)[i] \in Clicks
<1>1. shown[s] \in Seq(Clicks) /\ sub[s].ch \in Seq(Clicks)
  BY DEF StreamInv, Typed, Subscription
<1> PICK g : g = Got(s)
  OBVIOUS
<1>2. g \in Seq(Clicks)
  BY <1>1, ConcatProperties DEF Got
<1>3. Len(g) \in Nat /\ \A i \in 1..Len(g) : g[i] \in Clicks
  BY <1>2
<1> QED
  BY <1>1, <1>2, <1>3

LEMMA StillHeard ==
    ASSUME StreamInv, NEW s \in Clients, Unaffected(s)
    PROVE  HeardBy(s)'
<1> PICK g : g = Got(s)
  OBVIOUS
<1>1. Got(s)' = g /\ \A i \in 1..Len(g) : g[i] \in Clicks
  BY GotTyped DEF Unaffected
<1>2. /\ \A i, k \in 1..Len(g) : g[i] = g[k] => i = k
      /\ \A i \in 1..Len(g) :
            publish[g[i]].begun /\ s \notin publish[g[i]].todo /\ redirect[g[i]] = sub[s].code
  BY DEF StreamInv, HeardBy
<1>3. \A i \in 1..Len(g) :
         publish'[g[i]].begun /\ s \notin publish'[g[i]].todo /\ redirect'[g[i]] = sub'[s].code
  BY <1>1, <1>2 DEF Unaffected
<1> QED
  BY <1>1, <1>2, <1>3 DEF HeardBy

LEMMA StillOwed ==
    ASSUME StreamInv, NEW s \in Clients, Unaffected(s), owed'[s] = owed[s]
    PROVE  OwedTo(s)'
<1> SUFFICES ASSUME ~sub'[s].closed, NEW e \in owed'[s]
             PROVE  /\ publish'[e].begun
                    /\ \/ s \in publish'[e].todo
                       \/ e \in dropped'[s]
                       \/ \E i \in 1..Len(Got(s)') : Got(s)'[i] = e
  BY DEF OwedTo
<1>1. e \in Clicks /\ ~sub[s].closed /\ e \in owed[s]
  BY DEF StreamInv, Typed, Unaffected
<1>2. /\ publish[e].begun
      /\ \/ s \in publish[e].todo
         \/ e \in dropped[s]
         \/ \E i \in 1..Len(Got(s)) : Got(s)[i] = e
  BY <1>1 DEF StreamInv, OwedTo
<1> QED
  BY <1>1, <1>2 DEF Unaffected

LEMMA Unheard ==
    ASSUME StreamInv, NEW s \in Clients, NEW e \in Clicks,
           ~publish[e].begun \/ s \in publish[e].todo
    PROVE  \A i \in 1..Len(Got(s)) : Got(s)[i] # e
BY DEF StreamInv, HeardBy

LEMMA PublishKept ==
    ASSUME StreamInv, UNCHANGED publish,
           \A e \in Clicks : publish[e].begun => redirect'[e] = redirect[e],
           \A s \in Clients : sub[s].code # NoCode => sub'[s].code = sub[s].code
    PROVE  PublishFits'
<1> SUFFICES ASSUME NEW e \in Clicks
             PROVE  /\ publish[e].begun => redirect'[e] # NoCode
                    /\ \A s \in publish[e].todo :
                          publish[e].begun /\ redirect'[e] = sub'[s].code
  BY DEF PublishFits
<1>1. publish[e].begun => redirect[e] # NoCode /\ redirect'[e] = redirect[e]
  BY DEF StreamInv, PublishFits
<1>2. ASSUME NEW s \in publish[e].todo
      PROVE  publish[e].begun /\ redirect'[e] = sub'[s].code
  <2>1. s \in Clients
    BY DEF StreamInv, Typed
  <2>2. publish[e].begun /\ redirect[e] = sub[s].code
    BY DEF StreamInv, PublishFits
  <2> QED
    BY <1>1, <2>1, <2>2
<1> QED
  BY <1>1, <1>2

----------------------------------------------------------------------------
(* The steps. *)

\* Links come and go, a click is recorded: no stream sees it.
LEMMA ElsewhereStep ==
    ASSUME StreamInv,
           \/ \E c \in Codes : Claim(c) \/ Delete(c)
           \/ \E e \in Clicks : \E c \in Codes : Record(e, c)
           \/ UNCHANGED vars
    PROVE  StreamInv'
<1>1. /\ UNCHANGED <<streamVars, client, shown>>
      /\ redirect' = redirect \/ \E e \in Clicks : \E c \in Codes :
            redirect[e] = NoCode /\ redirect' = [redirect EXCEPT ![e] = c]
  BY DEF Claim, Delete, Record, vars
<1>2. /\ redirect' \in [Clicks -> Codes \cup {NoCode}]
      /\ \A e \in Clicks : publish[e].begun => redirect'[e] = redirect[e]
  BY <1>1 DEF StreamInv, Typed, PublishFits
<1>3. Typed' /\ HandlersFit'
  BY <1>1, <1>2 DEF StreamInv, Typed, HandlersFit, streamVars
<1>4. \A s \in Clients : Unaffected(s) /\ owed'[s] = owed[s]
  BY <1>1, <1>2 DEF Unaffected, Got, streamVars
<1>5. PublishFits'
  BY <1>1, <1>2, PublishKept DEF streamVars
<1> QED
  BY <1>3, <1>4, <1>5, StillHeard, StillOwed DEF StreamInv

\* A handler moves on; its subscription stays.
LEMMA HandlerStep ==
    ASSUME StreamInv, NEW s \in Clients,
           Reject(s) \/ Leave(s) \/ \E c \in Codes : Connect(s, c)
    PROVE  StreamInv'
<1>1. /\ UNCHANGED <<streamVars, shown, redirect>>
      /\ \A r \in Clients : r # s => client'[r] = client[r]
  BY DEF Reject, Leave, Connect, MoveTo, StreamInv, Typed
<1>2. client' \in [Clients -> [pc : HandlerPCs, code : Codes \cup {NoCode}]]
  <2>1. ASSUME NEW pc \in HandlerPCs, MoveTo(s, pc)
        PROVE  client' \in [Clients -> [pc : HandlerPCs, code : Codes \cup {NoCode}]]
    BY <2>1 DEF MoveTo, StreamInv, Typed
  <2>2. ASSUME NEW c \in Codes, Connect(s, c)
        PROVE  client' \in [Clients -> [pc : HandlerPCs, code : Codes \cup {NoCode}]]
    <3>1. [pc |-> "connected", code |-> c] \in [pc : HandlerPCs, code : Codes \cup {NoCode}]
      BY DEF HandlerPCs
    <3> QED
      BY <2>2, <3>1 DEF Connect, StreamInv, Typed
  <2>3. "done" \in HandlerPCs /\ "leaving" \in HandlerPCs
    BY DEF HandlerPCs
  <2> QED
    BY <2>1, <2>2, <2>3 DEF Reject, Leave
<1>3. Typed'
  BY <1>1, <1>2 DEF StreamInv, Typed, streamVars
<1>4. HandlersFit'
  <2>1. CASE Reject(s)
    <3>1. client[s].pc = "idle" /\ client'[s].pc = "done"
      BY <2>1 DEF Reject, MoveTo, StreamInv, Typed
    <3> QED
      BY <1>1, <3>1 DEF StreamInv, HandlersFit, streamVars
  <2>2. CASE Leave(s)
    <3>1. client[s].pc = "streaming" /\ client'[s].pc = "leaving"
      BY <2>2 DEF Leave, MoveTo, StreamInv, Typed
    <3> QED
      BY <1>1, <3>1 DEF StreamInv, HandlersFit, streamVars
  <2>3. ASSUME NEW c \in Codes, Connect(s, c) PROVE HandlersFit'
    <3>1. client[s].pc = "idle" /\ client'[s].pc = "connected" /\ client'[s].code = c
      BY <2>3 DEF Connect, StreamInv, Typed
    <3> QED
      BY <1>1, <3>1 DEF StreamInv, HandlersFit, streamVars
  <2> QED
    BY <2>1, <2>2, <2>3
<1>5. \A r \in Clients : Unaffected(r) /\ owed'[r] = owed[r]
  BY <1>1 DEF Unaffected, Got, streamVars
<1>6. PublishFits'
  BY <1>1, PublishKept DEF streamVars
<1> QED
  BY <1>3, <1>4, <1>5, <1>6, StillHeard, StillOwed DEF StreamInv
LEMMA NewSubscription ==
    ASSUME NEW n, n = [code |-> n.code, ch |-> n.ch, closed |-> n.closed], NEW c
    PROVE  [n EXCEPT !.code = c] = [code |-> c, ch |-> n.ch, closed |-> n.closed]
OBVIOUS

LEMMA StartStreamStep ==
    ASSUME StreamInv, NEW s \in Clients, StartStream(s)
    PROVE  StreamInv'
<1> PICK c : c = client[s].code
  OBVIOUS
<1> PICK new : new = [code |-> c, ch |-> <<>>, closed |-> FALSE]
  OBVIOUS
<1>1. /\ client[s].pc = "connected" /\ sub' = [sub EXCEPT ![s] = new]
      /\ subs' = subs \cup {s} /\ client' = [client EXCEPT ![s].pc = "streaming"]
      /\ UNCHANGED <<publish, owed, dropped, shown, redirect>>
  <2>1. [NoSub EXCEPT !.code = c] = new
    <3> PICK n : n = NoSub
      OBVIOUS
    <3>1. /\ n = [code |-> n.code, ch |-> n.ch, closed |-> n.closed]
          /\ n.ch = <<>> /\ n.closed = FALSE
      BY DEF NoSub
    <3>2. [n EXCEPT !.code = c] = [code |-> c, ch |-> n.ch, closed |-> n.closed]
      BY <3>1, NewSubscription
    <3> QED
      BY <3>1, <3>2, Zenon
  <2>2. sub' = [sub EXCEPT ![s] = [NoSub EXCEPT !.code = c]]
    BY Zenon DEF StartStream, Subscribe
  <2>3. /\ client[s].pc = "connected" /\ subs' = subs \cup {s}
        /\ client' = [client EXCEPT ![s].pc = "streaming"]
        /\ UNCHANGED <<publish, owed, dropped, shown, redirect>>
    BY DEF StartStream, Subscribe, MoveTo
  <2> QED
    BY <2>1, <2>2, <2>3, Zenon
<1>2. /\ c \in Codes /\ c # NoCode /\ sub[s].code = NoCode
      /\ sub[s].ch = <<>> /\ shown[s] = <<>> /\ owed[s] = {} /\ dropped[s] = {}
  BY <1>1, StreamAssumption DEF StreamInv, HandlersFit
<1>3. new \in Subscription /\ new.code = c /\ new.ch = <<>> /\ ~new.closed
  <2>1. <<>> \in Seq(Clicks)
    BY EmptySeq
  <2> QED
    BY <1>2, <2>1 DEF Subscription
<1>4. /\ sub' \in [Clients -> Subscription] /\ sub'[s] = new
      /\ \A r \in Clients : r # s => sub'[r] = sub[r]
  BY <1>1, <1>3 DEF StreamInv, Typed
<1>5. /\ client' \in [Clients -> [pc : HandlerPCs, code : Codes \cup {NoCode}]]
      /\ client'[s].pc = "streaming"
      /\ \A r \in Clients : r # s => client'[r] = client[r]
  BY <1>1 DEF StreamInv, Typed, HandlerPCs
<1>6. Typed'
  BY <1>1, <1>4, <1>5 DEF StreamInv, Typed
<1>7. HandlersFit'
  BY <1>1, <1>2, <1>3, <1>4, <1>5 DEF StreamInv, HandlersFit
<1>8. PublishFits'
  BY <1>1, <1>2, <1>4, PublishKept
<1>9. ASSUME NEW r \in Clients, r # s PROVE HeardBy(r)' /\ OwedTo(r)'
  <2>1. Unaffected(r) /\ owed'[r] = owed[r]
    BY <1>1, <1>4, <1>9 DEF Unaffected, Got
  <2> QED
    BY <2>1, StillHeard, StillOwed
<1>a. HeardBy(s)' /\ OwedTo(s)'
  <2>1. Got(s)' = <<>>
    BY <1>1, <1>2, <1>3, <1>4 DEF Got
  <2>2. Len(<<>>) = 0 /\ owed'[s] = {}
    BY <1>1, <1>2
  <2> QED
    BY <2>1, <2>2 DEF HeardBy, OwedTo
<1> QED
  BY <1>6, <1>7, <1>8, <1>9, <1>a DEF StreamInv

LEMMA ShowStep ==
    ASSUME StreamInv, NEW s \in Clients, Show(s)
    PROVE  StreamInv'
<1> PICK x, y : x = shown[s] /\ y = sub[s].ch
  OBVIOUS
<1>1. /\ y # <<>> /\ client[s].pc = "streaming"
      /\ sub' = [sub EXCEPT ![s].ch = Tail(y)] /\ shown' = [shown EXCEPT ![s] = Append(x, Head(y))]
      /\ UNCHANGED <<subs, publish, owed, dropped, client, redirect>>
  BY DEF Show, Read
<1>2. x \in Seq(Clicks) /\ y \in Seq(Clicks)
  BY GotTyped
<1>3. Append(x, Head(y)) \in Seq(Clicks) /\ Tail(y) \in Seq(Clicks)
  BY <1>1, <1>2
<1>4. /\ sub' \in [Clients -> Subscription] /\ sub'[s].ch = Tail(y)
      /\ sub'[s].code = sub[s].code /\ sub'[s].closed = sub[s].closed
      /\ \A r \in Clients : r # s => sub'[r] = sub[r]
  BY <1>1, <1>3 DEF StreamInv, Typed, Subscription
<1>5. /\ shown' \in [Clients -> Seq(Clicks)] /\ shown'[s] = Append(x, Head(y))
      /\ \A r \in Clients : r # s => shown'[r] = shown[r]
  BY <1>1, <1>3 DEF StreamInv, Typed
<1>6. Typed'
  BY <1>1, <1>4, <1>5 DEF StreamInv, Typed
<1>7. HandlersFit'
  <2>1. sub[s].code # NoCode
    BY <1>1 DEF StreamInv, HandlersFit
  <2> QED
    BY <1>1, <1>4, <1>5, <2>1 DEF StreamInv, HandlersFit
<1>8. PublishFits'
  <2>1. \A r \in Clients : sub'[r].code = sub[r].code
    BY <1>4
  <2> QED
    BY <1>1, <2>1, PublishKept
<1>9. Got(s)' = Got(s)
  <2>1. Append(x, Head(y)) \o Tail(y) = x \o y
    BY <1>1, <1>2, ReadMoves
  <2> QED
    BY <1>4, <1>5, <2>1 DEF Got
<1>a. \A r \in Clients : Unaffected(r) /\ owed'[r] = owed[r]
  BY <1>1, <1>4, <1>5, <1>9 DEF Unaffected, Got
<1> QED
  BY <1>6, <1>7, <1>8, <1>a, StillHeard, StillOwed DEF StreamInv

LEMMA CloseStep ==
    ASSUME StreamInv, NEW s \in Clients, client[s].pc = "leaving", CloseChannel(s),
           MoveTo(s, "closed"), UNCHANGED <<links, claims, shown, redirect>>
    PROVE  StreamInv'
<1> PICK x, y : x = shown[s] /\ y = sub[s].ch
  OBVIOUS
<1>0. x \in Seq(Clicks) /\ y \in Seq(Clicks) /\ sub[s].code # NoCode
  BY GotTyped DEF StreamInv, HandlersFit
<1>1. /\ client' = [client EXCEPT ![s].pc = "closed"]
      /\ sub' = [sub EXCEPT ![s] = [sub[s] EXCEPT !.closed = TRUE, !.ch = <<>>]]
      /\ owed' = [owed EXCEPT ![s] = {}] /\ dropped' = [dropped EXCEPT ![s] = {}]
      /\ UNCHANGED <<subs, publish, shown, redirect>>
  BY DEF CloseChannel, MoveTo
<1>2. /\ sub' \in [Clients -> Subscription] /\ sub'[s].ch = <<>> /\ sub'[s].closed
      /\ sub'[s].code = sub[s].code
      /\ \A r \in Clients : r # s => sub'[r] = sub[r]
  <2>1. <<>> \in Seq(Clicks)
    BY EmptySeq
  <2> QED
    BY <1>1, <2>1 DEF StreamInv, Typed, Subscription
<1>3. /\ client' \in [Clients -> [pc : HandlerPCs, code : Codes \cup {NoCode}]]
      /\ client'[s].pc = "closed"
      /\ \A r \in Clients : r # s => client'[r] = client[r]
  BY <1>1 DEF StreamInv, Typed, HandlerPCs
<1>4. Typed'
  BY <1>1, <1>2, <1>3 DEF StreamInv, Typed
<1>5. HandlersFit'
  BY <1>0, <1>1, <1>2, <1>3 DEF StreamInv, HandlersFit, Typed
<1>6. PublishFits'
  <2>1. \A r \in Clients : sub'[r].code = sub[r].code
    BY <1>2
  <2> QED
    BY <1>1, <2>1, PublishKept
<1>7. ASSUME NEW r \in Clients, r # s PROVE HeardBy(r)' /\ OwedTo(r)'
  <2>1. Unaffected(r) /\ owed'[r] = owed[r]
    BY <1>1, <1>2, <1>7 DEF Unaffected, Got, StreamInv, Typed
  <2> QED
    BY <2>1, StillHeard, StillOwed
<1>8. HeardBy(s)'
  <2> PICK g : g = Got(s)
    OBVIOUS
  <2>1. Got(s)' = x
    BY <1>0, <1>1, <1>2, EmptyBuffer DEF Got
  <2>2. /\ Len(x) \in Nat /\ Len(g) \in Nat /\ Len(x) <= Len(g)
        /\ \A i \in 1..Len(x) : g[i] = x[i]
    BY <1>0, EmptyBuffer DEF Got
  <2>3. /\ \A i, k \in 1..Len(g) : g[i] = g[k] => i = k
        /\ \A i \in 1..Len(g) :
              publish[g[i]].begun /\ s \notin publish[g[i]].todo /\ redirect[g[i]] = sub[s].code
    BY DEF StreamInv, HeardBy
  <2>4. \A i \in 1..Len(x) : i \in 1..Len(g)
    BY <2>2
  <2>5. /\ \A i, k \in 1..Len(x) : x[i] = x[k] => i = k
        /\ \A i \in 1..Len(x) :
              publish[x[i]].begun /\ s \notin publish[x[i]].todo /\ redirect[x[i]] = sub[s].code
    BY <2>2, <2>3, <2>4
  <2> QED
    BY <1>1, <1>2, <2>1, <2>5 DEF HeardBy
<1>9. OwedTo(s)'
  BY <1>2 DEF OwedTo
<1> QED
  BY <1>4, <1>5, <1>6, <1>7, <1>8, <1>9 DEF StreamInv

LEMMA UnsubscribeStep ==
    ASSUME StreamInv, NEW s \in Clients, client[s].pc = "closed", unsubscribe(s),
           MoveTo(s, "done"), UNCHANGED <<links, claims, shown, redirect>>
    PROVE  StreamInv'
<1>1. /\ client' = [client EXCEPT ![s].pc = "done"] /\ subs' = subs \ {s}
      /\ UNCHANGED <<sub, publish, owed, dropped, shown, redirect>>
  BY DEF unsubscribe, MoveTo
<1>2. /\ client' \in [Clients -> [pc : HandlerPCs, code : Codes \cup {NoCode}]]
      /\ client'[s].pc = "done"
      /\ \A r \in Clients : r # s => client'[r] = client[r]
  BY <1>1 DEF StreamInv, Typed, HandlerPCs
<1>3. Typed'
  BY <1>1, <1>2 DEF StreamInv, Typed
<1>4. HandlersFit'
  BY <1>1, <1>2 DEF StreamInv, HandlersFit
<1>5. PublishFits'
  BY <1>1, PublishKept
<1>6. \A r \in Clients : Unaffected(r) /\ owed'[r] = owed[r]
  BY <1>1 DEF Unaffected, Got
<1> QED
  BY <1>3, <1>4, <1>5, <1>6, StillHeard, StillOwed DEF StreamInv
LEMMA SnapshotStep ==
    ASSUME StreamInv, NEW e \in Clicks, redirect[e] # NoCode, Snapshot(e, redirect[e]),
           UNCHANGED <<links, claims, client, shown, redirect>>
    PROVE  StreamInv'
<1> PICK c : c = redirect[e]
  OBVIOUS
<1> PICK T : T = {s \in subs : sub[s].code = c}
  OBVIOUS
<1> PICK new : new = [begun |-> TRUE, todo |-> T]
  OBVIOUS
<1>1. /\ ~publish[e].begun /\ publish' = [publish EXCEPT ![e] = new]
      /\ owed' = [s \in Clients |-> IF Open(s, c) THEN owed[s] \cup {e} ELSE owed[s]]
      /\ UNCHANGED <<subs, sub, dropped, client, shown, redirect>>
  BY DEF Snapshot
<1>2. c # NoCode /\ c \in Codes
  BY DEF StreamInv, Typed
<1>3. T \subseteq Clients /\ new.begun = TRUE /\ new.todo = T
  BY DEF StreamInv, Typed
<1>4. /\ publish' \in [Clicks -> [begun : BOOLEAN, todo : SUBSET Clients]]
      /\ publish'[e].begun /\ publish'[e].todo = T
      /\ \A f \in Clicks : f # e => publish'[f] = publish[f]
  BY <1>1, <1>3 DEF StreamInv, Typed
<1>5. owed' \in [Clients -> SUBSET Clicks]
  BY <1>1 DEF StreamInv, Typed
<1>6. Typed'
  BY <1>1, <1>4, <1>5 DEF StreamInv, Typed
<1>7. HandlersFit'
  <2>1. \A s \in Clients : sub[s].code = NoCode => owed'[s] = owed[s]
    BY <1>1, <1>2 DEF Open
  <2> QED
    BY <1>1, <2>1 DEF StreamInv, HandlersFit
<1>8. PublishFits'
  <2>1. \A s \in T : sub[s].code = c
    OBVIOUS
  <2>2. \A f \in Clicks : f # e =>
           /\ publish'[f].begun => redirect'[f] # NoCode
           /\ \A s \in publish'[f].todo : publish'[f].begun /\ redirect'[f] = sub'[s].code
    BY <1>1, <1>4 DEF StreamInv, PublishFits
  <2> QED
    BY <1>1, <1>2, <1>4, <2>1, <2>2 DEF PublishFits
<1>9. ASSUME NEW s \in Clients PROVE HeardBy(s)' /\ OwedTo(s)'
  <2>1. Unaffected(s)
    BY <1>1, <1>4 DEF Unaffected, Got
  <2>2. CASE owed'[s] = owed[s]
    BY <2>1, <2>2, StillHeard, StillOwed
  <2>3. CASE owed'[s] # owed[s]
    <3>1. Open(s, c) /\ owed'[s] = owed[s] \cup {e}
      BY <1>1, <2>3
    <3>2. s \in publish'[e].todo
      BY <1>2, <1>4, <3>1 DEF Open, StreamInv, HandlersFit
    <3>3. ASSUME NEW f \in owed[s]
          PROVE  /\ publish'[f].begun
                 /\ \/ s \in publish'[f].todo
                    \/ f \in dropped[s]
                    \/ \E i \in 1..Len(Got(s)) : Got(s)[i] = f
      <4>1. f \in Clicks /\ ~sub[s].closed
        BY <3>1 DEF StreamInv, Typed, Open
      <4> QED
        BY <1>1, <1>4, <4>1 DEF StreamInv, OwedTo
    <3>4. Got(s)' = Got(s) /\ dropped'[s] = dropped[s]
      BY <2>1 DEF Unaffected
    <3> QED
      BY <1>4, <2>1, <3>1, <3>2, <3>3, <3>4, StillHeard DEF OwedTo
  <2> QED
    BY <2>2, <2>3
<1> QED
  BY <1>6, <1>7, <1>8, <1>9 DEF StreamInv

\* A send that goes into the buffer is heard, one that does not is dropped.
LEMMA TrySendStep ==
    ASSUME StreamInv, NEW e \in Clicks, NEW s \in Clients, trySend(e, s),
           UNCHANGED <<links, claims, client, shown, redirect>>
    PROVE  StreamInv'
<1> PICK x, y : x = shown[s] /\ y = sub[s].ch
  OBVIOUS
<1> PICK T : T = publish[e].todo \ {s}
  OBVIOUS
<1>0. /\ x \in Seq(Clicks) /\ y \in Seq(Clicks)
      /\ s \in publish[e].todo /\ publish[e].begun /\ redirect[e] = sub[s].code
      /\ sub[s].code # NoCode
  BY GotTyped DEF trySend, StreamInv, PublishFits
<1>1. /\ publish' = [publish EXCEPT ![e].todo = T]
      /\ UNCHANGED <<subs, owed, client, shown, redirect>>
  BY DEF trySend
<1>2. /\ publish' \in [Clicks -> [begun : BOOLEAN, todo : SUBSET Clients]]
      /\ publish'[e].begun /\ publish'[e].todo = T
      /\ \A f \in Clicks : f # e => publish'[f] = publish[f]
  BY <1>0, <1>1 DEF StreamInv, Typed
<1>3. /\ dropped' \in [Clients -> SUBSET Clicks] /\ dropped[s] \subseteq dropped'[s]
      /\ \A r \in Clients : r # s => dropped'[r] = dropped[r]
  BY DEF trySend, StreamInv, Typed
<1>4. /\ sub' \in [Clients -> Subscription]
      /\ sub'[s].code = sub[s].code /\ sub'[s].closed = sub[s].closed
      /\ \A r \in Clients : r # s => sub'[r] = sub[r]
      /\ sub'[s].ch = IF sub[s].closed \/ Full(s) THEN y ELSE Append(y, e)
  <2> PICK z : z = Append(y, e)
    OBVIOUS
  <2>1. z \in Seq(Clicks)
    BY <1>0
  <2>2. sub' = IF sub[s].closed \/ Full(s) THEN sub ELSE [sub EXCEPT ![s].ch = z]
    BY DEF trySend
  <2> QED
    BY <2>1, <2>2 DEF StreamInv, Typed, Subscription
<1>5. Typed'
  BY <1>1, <1>2, <1>3, <1>4 DEF StreamInv, Typed
<1>6. HandlersFit'
  BY <1>0, <1>1, <1>3, <1>4 DEF StreamInv, HandlersFit
<1>7. PublishFits'
  <2>1. \A r \in Clients : sub'[r].code = sub[r].code
    BY <1>4
  <2>2. \A f \in Clicks : publish'[f].begun = publish[f].begun /\ publish'[f].todo \subseteq publish[f].todo
    BY <1>0, <1>2
  <2>3. \A f \in Clicks : \A r \in publish[f].todo : r \in Clients
    BY DEF StreamInv, Typed
  <2> QED
    BY <1>1, <2>1, <2>2, <2>3 DEF StreamInv, PublishFits
<1>8. ASSUME NEW r \in Clients, r # s PROVE HeardBy(r)' /\ OwedTo(r)'
  <2>1. Unaffected(r) /\ owed'[r] = owed[r]
    BY <1>0, <1>1, <1>2, <1>3, <1>4, <1>8 DEF Unaffected, Got
  <2> QED
    BY <2>1, StillHeard, StillOwed
<1> PICK g : g = Got(s)
  OBVIOUS
<1> PICK h : h = Got(s)'
  OBVIOUS
<1>9. /\ Len(g) \in Nat /\ \A i \in 1..Len(g) : g[i] \in Clicks /\ g[i] # e
      /\ \A i, k \in 1..Len(g) : g[i] = g[k] => i = k
      /\ \A i \in 1..Len(g) :
            publish[g[i]].begun /\ s \notin publish[g[i]].todo /\ redirect[g[i]] = sub[s].code
  BY <1>0, GotTyped, Unheard DEF StreamInv, HeardBy
<1>a. \/ h = g
      \/ /\ Len(h) = Len(g) + 1 /\ h[Len(g) + 1] = e
         /\ \A i \in 1..Len(g) : h[i] = g[i]
  <2>1. CASE sub[s].closed \/ Full(s)
    BY <1>1, <1>4, <2>1 DEF Got
  <2>2. CASE ~(sub[s].closed \/ Full(s))
    <3>1. g = x \o y /\ h = x \o Append(y, e)
      BY <1>1, <1>4, <2>2 DEF Got
    <3>2. Extended(g, h, e)
      BY <1>0, <3>1, SendAppends, Zenon
    <3> QED
      BY <3>2 DEF Extended
  <2> QED
    BY <2>1, <2>2
<1>b. HeardBy(s)'
  <2>1. /\ \A i, k \in 1..Len(h) : h[i] = h[k] => i = k
        /\ \A i \in 1..Len(h) : h[i] \in Clicks /\ (h[i] = e \/
              (publish[h[i]].begun /\ s \notin publish[h[i]].todo /\ redirect[h[i]] = sub[s].code))
    BY <1>9, <1>a
  <2>2. \A f \in Clicks :
           f = e \/ (publish[f].begun /\ s \notin publish[f].todo /\ redirect[f] = sub[s].code)
           => publish'[f].begun /\ s \notin publish'[f].todo /\ redirect'[f] = sub'[s].code
    BY <1>0, <1>1, <1>2, <1>4
  <2>3. \A i \in 1..Len(h) :
           publish'[h[i]].begun /\ s \notin publish'[h[i]].todo /\ redirect'[h[i]] = sub'[s].code
    BY <2>1, <2>2
  <2> QED
    BY <2>1, <2>3 DEF HeardBy
<1>c. OwedTo(s)'
  <2> SUFFICES ASSUME ~sub'[s].closed, NEW f \in owed'[s]
               PROVE  /\ publish'[f].begun
                      /\ \/ s \in publish'[f].todo
                         \/ f \in dropped'[s]
                         \/ \E i \in 1..Len(h) : h[i] = f
    BY DEF OwedTo
  <2>1. f \in Clicks /\ ~sub[s].closed /\ f \in owed[s]
    BY <1>1, <1>4 DEF StreamInv, Typed
  <2>2. /\ publish[f].begun
        /\ s \in publish[f].todo \/ f \in dropped[s] \/ \E i \in 1..Len(g) : g[i] = f
    BY <2>1 DEF StreamInv, OwedTo
  <2>3. (\E i \in 1..Len(g) : g[i] = f) => \E i \in 1..Len(h) : h[i] = f
    BY <1>9, <1>a
  <2>4. f = e => f \in dropped'[s] \/ \E i \in 1..Len(h) : h[i] = f
    <3>1. CASE Full(s)
      BY <2>1, <3>1 DEF trySend, StreamInv, Typed
    <3>2. CASE ~Full(s)
      <4>1. h = x \o Append(y, e) /\ g = x \o y
        BY <1>1, <1>4, <2>1, <3>2 DEF Got
      <4>2. Len(h) = Len(g) + 1 /\ h[Len(g) + 1] = e
        <5>1. Extended(g, h, e)
          BY <1>0, <4>1, SendAppends, Zenon
        <5> QED
          BY <5>1 DEF Extended
      <4>3. Len(g) + 1 \in 1..Len(h)
        BY <1>9, <4>2
      <4> QED
        BY <4>2, <4>3
    <3> QED
      BY <3>1, <3>2
  <2> QED
    BY <1>2, <1>3, <2>1, <2>2, <2>3, <2>4
<1> QED
  BY <1>5, <1>6, <1>7, <1>8, <1>b, <1>c DEF StreamInv
LEMMA StreamInvInit == Init => StreamInv
<1> SUFFICES ASSUME Init PROVE StreamInv
  OBVIOUS
<1>1. /\ subs = {} /\ shown = [s \in Clients |-> <<>>]
      /\ sub = [s \in Clients |-> [code |-> NoCode, ch |-> <<>>, closed |-> FALSE]]
      /\ client = [s \in Clients |-> [pc |-> "idle", code |-> NoCode]]
      /\ publish = [e \in Clicks |-> [begun |-> FALSE, todo |-> {}]]
      /\ owed = [s \in Clients |-> {}] /\ dropped = [s \in Clients |-> {}]
      /\ redirect = [e \in Clicks |-> NoCode]
  BY DEF Init, StreamInit, NoSub
<1>2. <<>> \in Seq(Clicks) /\ Len(<<>>) = 0
  BY EmptySeq
<1>3. Typed
  <2>1. shown \in [Clients -> Seq(Clicks)] /\ sub \in [Clients -> Subscription]
    BY <1>1, <1>2 DEF Subscription
  <2>2. client \in [Clients -> [pc : HandlerPCs, code : Codes \cup {NoCode}]]
    BY <1>1 DEF HandlerPCs
  <2> QED
    BY <1>1, <2>1, <2>2 DEF Typed
<1>4. HandlersFit
  BY <1>1 DEF HandlersFit
<1>5. PublishFits
  BY <1>1 DEF PublishFits
<1>6. ASSUME NEW s \in Clients PROVE HeardBy(s) /\ OwedTo(s)
  <2>1. Got(s) = <<>>
    BY <1>1, <1>2, ConcatEmptySeq DEF Got
  <2>2. owed[s] = {}
    BY <1>1
  <2> QED
    BY <1>2, <2>1, <2>2 DEF HeardBy, OwedTo
<1> QED
  BY <1>3, <1>4, <1>5, <1>6 DEF StreamInv

LEMMA StreamInvNext == StreamInv /\ [Next]_vars => StreamInv'
<1> SUFFICES ASSUME StreamInv, [Next]_vars PROVE StreamInv'
  OBVIOUS
<1>1. ASSUME NEW s \in Clients, CloseStream(s) PROVE StreamInv'
  BY <1>1, CloseStep, UnsubscribeStep DEF CloseStream
<1>2. ASSUME NEW s \in Clients,
             Reject(s) \/ StartStream(s) \/ Show(s) \/ Leave(s) \/ \E c \in Codes : Connect(s, c)
      PROVE  StreamInv'
  BY <1>2, HandlerStep, StartStreamStep, ShowStep
<1>3. ASSUME NEW e \in Clicks, FanOut(e) PROVE StreamInv'
  <2>1. CASE Snapshot(e, redirect[e])
    BY <1>3, <2>1, SnapshotStep DEF FanOut
  <2>2. ASSUME NEW s \in Clients, trySend(e, s) PROVE StreamInv'
    BY <1>3, <2>2, TrySendStep DEF FanOut
  <2> QED
    BY <1>3, <2>1, <2>2 DEF FanOut, Publish
<1>4. CASE \/ \E c \in Codes : Claim(c) \/ Delete(c)
           \/ \E e \in Clicks : \E c \in Codes : Record(e, c)
           \/ UNCHANGED vars
  BY <1>4, ElsewhereStep
<1> QED
  BY <1>1, <1>2, <1>3, <1>4 DEF Next

\* Handlers, subscriptions and the Publish calls fit together, whatever the
\* order in which they run.
THEOREM StreamInvariant == Spec => []StreamInv
BY StreamInvInit, StreamInvNext, PTL DEF Spec

\* A client that is subscribed gets every click published for its code, once,
\* but for those that found its own buffer full, and it gets no other
\* (clickstream.go:80 and :109).
THEOREM EverySubscriberHears == Spec => []SubscribersHear
<1>1. ASSUME StreamInv PROVE SubscribersHear
  <2> SUFFICES ASSUME NEW s \in Clients
               PROVE  LET got == Got(s)
                      IN  /\ \A i, k \in 1..Len(got) : got[i] = got[k] => i = k
                          /\ \A i \in 1..Len(got) : redirect[got[i]] = sub[s].code
                          /\ ~sub[s].closed => \A e \in owed[s] : Published(e) =>
                                e \in dropped[s] \/ \E i \in 1..Len(got) : got[i] = e
    BY DEF SubscribersHear, Got
  <2>1. HeardBy(s) /\ OwedTo(s)
    BY <1>1 DEF StreamInv
  <2> QED
    BY <2>1 DEF HeardBy, OwedTo, Published
<1> QED
  BY <1>1, StreamInvariant, PTL
==============================================================================
