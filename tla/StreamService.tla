----------------------------- MODULE StreamService -----------------------------
(***************************************************************************)
(* handlers/stream.go and the end of handlers/redirect.go: owners watch    *)
(* their links in event streams while redirects record and publish clicks. *)
(* The link is looked up once, when the stream opens; it may be deleted    *)
(* and its code claimed again while the stream goes on.                    *)
(***************************************************************************)
EXTENDS ClickStream

CONSTANT MaxClaims   \* bound: links created

VARIABLES
    links,       \* codes in use
    claims,
    client,      \* Clients -> where its handler is
    shown,       \* Clients -> clicks written to the response, in order
    redirect     \* Clicks -> the code it was recorded for, NoCode before

vars == <<streamVars, links, claims, client, shown, redirect>>

HandlerPCs == {"idle", "connected", "streaming", "leaving", "closed", "done"}

Init ==
    /\ StreamInit
    /\ links = {}
    /\ claims = 0
    /\ client = [s \in Clients |-> [pc |-> "idle", code |-> NoCode]]
    /\ shown = [s \in Clients |-> <<>>]
    /\ redirect = [e \in Clicks |-> NoCode]

----------------------------------------------------------------------------
(* Links. *)

Claim(c) ==
    /\ c \notin links
    /\ claims < MaxClaims
    /\ links' = links \cup {c}
    /\ claims' = claims + 1
    /\ UNCHANGED <<streamVars, client, shown, redirect>>

Delete(c) ==
    /\ c \in links
    /\ links' = links \ {c}
    /\ UNCHANGED <<streamVars, claims, client, shown, redirect>>

----------------------------------------------------------------------------
(* StreamHandler.ServeHTTP. *)

MoveTo(s, pc) == client' = [client EXCEPT ![s].pc = pc]

\* Get finds no link, or the token is not its owner's.
Reject(s) ==
    /\ client[s].pc = "idle"
    /\ MoveTo(s, "done")
    /\ UNCHANGED <<streamVars, links, claims, shown, redirect>>

\* The response begins before the subscription does.
Connect(s, c) ==
    /\ client[s].pc = "idle"
    /\ c \in links
    /\ client' = [client EXCEPT ![s] = [pc |-> "connected", code |-> c]]
    /\ UNCHANGED <<streamVars, links, claims, shown, redirect>>

StartStream(s) ==
    /\ client[s].pc = "connected"
    /\ Subscribe(s, client[s].code)
    /\ MoveTo(s, "streaming")
    /\ UNCHANGED <<links, claims, shown, redirect>>

Show(s) ==
    /\ client[s].pc = "streaming"
    /\ Read(s)
    /\ shown' = [shown EXCEPT ![s] = Append(@, Head(sub[s].ch))]
    /\ UNCHANGED <<links, claims, client, redirect>>

\* The client is gone: the request's context ends, or a write (of an event or
\* of a heartbeat) fails.  The deferred Close follows.
Leave(s) ==
    /\ client[s].pc = "streaming"
    /\ MoveTo(s, "leaving")
    /\ UNCHANGED <<streamVars, links, claims, shown, redirect>>

CloseStream(s) ==
    \/ /\ client[s].pc = "leaving"
       /\ CloseChannel(s)
       /\ MoveTo(s, "closed")
       /\ UNCHANGED <<links, claims, shown, redirect>>
    \/ /\ client[s].pc = "closed"
       /\ unsubscribe(s)
       /\ MoveTo(s, "done")
       /\ UNCHANGED <<links, claims, shown, redirect>>

----------------------------------------------------------------------------
(* The end of RedirectHandler.ServeHTTP. *)

\* RecordClick; a link that is gone fails it, and nothing is published.
Record(e, c) ==
    /\ redirect[e] = NoCode
    /\ c \in links
    /\ redirect' = [redirect EXCEPT ![e] = c]
    /\ UNCHANGED <<streamVars, links, claims, client, shown>>

FanOut(e) ==
    /\ redirect[e] # NoCode
    /\ Publish(e, redirect[e])
    /\ UNCHANGED <<links, claims, client, shown, redirect>>

----------------------------------------------------------------------------

Next ==
    \/ \E c \in Codes : Claim(c) \/ Delete(c)
    \/ \E s \in Clients :
          \/ Reject(s) \/ StartStream(s) \/ Show(s) \/ Leave(s) \/ CloseStream(s)
          \/ \E c \in Codes : Connect(s, c)
    \/ \E e \in Clicks : FanOut(e) \/ \E c \in Codes : Record(e, c)

Spec == Init /\ [][Next]_vars

\* The goroutines of redirects run on, and so does a handler whose client has
\* gone.  A client need not read, and need not ever go.
FairSpec ==
    /\ Spec
    /\ \A e \in Clicks : WF_vars(FanOut(e))
    /\ \A s \in Clients : WF_vars(CloseStream(s))

----------------------------------------------------------------------------
(* Properties. *)

\* clickstream.go:80, clickstream.go:109: while a client is subscribed it gets
\* every click that is published for its code, once, but for those that found
\* its own buffer full; and it gets no other click.
SubscribersHear ==
    \A s \in Clients :
        LET got == shown[s] \o sub[s].ch
        IN  /\ \A i, k \in 1..Len(got) : got[i] = got[k] => i = k
            /\ \A i \in 1..Len(got) : redirect[got[i]] = sub[s].code
            /\ ~sub[s].closed => \A e \in owed[s] : Published(e) =>
                  e \in dropped[s] \/ \E i \in 1..Len(got) : got[i] = e

\* clickstream.go:18: a subscriber that reads nothing stalls no redirect:
\* whatever the clients do, a Publish that has begun ends.
PublishersFinish ==
    \A e \in Clicks : publish[e].begun ~> Published(e)

\* clickstream.go:33: a client that leaves is forgotten, also one that leaves
\* in the middle of a Publish.
LeaversForgotten ==
    \A s \in Clients : client[s].pc = "leaving" ~> s \notin subs
===============================================================================
