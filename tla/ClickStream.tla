------------------------------ MODULE ClickStream ------------------------------
(***************************************************************************)
(* services/clickstream.go: the publish-subscribe hub between redirects    *)
(* and open event streams.  The registry's lock covers one lookup or one   *)
(* change, each subscription has a lock of its own, and no goroutine holds *)
(* both: Publish sends to a snapshot of the registry that may be stale,    *)
(* and Close closes the channel before it leaves the registry.             *)
(***************************************************************************)
EXTENDS Naturals, Sequences, FiniteSets

CONSTANTS
    Codes,
    Clicks,      \* click events, each published at most once
    Clients,     \* event streams, each subscribed at most once
    NoCode,
    BufferSize   \* of a subscription's channel

VARIABLES
    subs,        \* the registry: clients whose subscription it holds
    sub,         \* Clients -> the subscription
    publish,     \* Clicks -> the Publish call
    \* History variables: nothing below reads them.
    owed,        \* Clients -> clicks published while the client was subscribed
    dropped      \* Clients -> clicks that found its buffer full

streamVars == <<subs, sub, publish, owed, dropped>>

ASSUME StreamAssumption ==
    /\ BufferSize \in Nat \ {0}
    /\ NoCode \notin Codes

NoSub == [code |-> NoCode, ch |-> <<>>, closed |-> FALSE]

StreamInit ==
    /\ subs = {}
    /\ sub = [s \in Clients |-> NoSub]
    /\ publish = [e \in Clicks |-> [begun |-> FALSE, todo |-> {}]]
    /\ owed = [s \in Clients |-> {}]
    /\ dropped = [s \in Clients |-> {}]

Subscribe(s, c) ==
    /\ sub' = [sub EXCEPT ![s] = [NoSub EXCEPT !.code = c]]
    /\ subs' = subs \cup {s}
    /\ UNCHANGED <<publish, owed, dropped>>

----------------------------------------------------------------------------
(* Publish. *)

Open(s, c) == sub[s].code = c /\ ~sub[s].closed

\* The snapshot, under the registry's lock.
Snapshot(e, c) ==
    /\ ~publish[e].begun
    /\ publish' = [publish EXCEPT ![e] = [begun |-> TRUE,
                                          todo  |-> {s \in subs : sub[s].code = c}]]
    /\ owed' = [s \in Clients |-> IF Open(s, c) THEN owed[s] \cup {e} ELSE owed[s]]
    /\ UNCHANGED <<subs, sub, dropped>>

Full(s) == Len(sub[s].ch) = BufferSize

\* Mutant: a full buffer blocks the send until the client has read.
trySendWaits(e, s) ==
    /\ s \in publish[e].todo
    /\ sub[s].closed \/ ~Full(s)
    /\ publish' = [publish EXCEPT ![e].todo = @ \ {s}]
    /\ sub' = IF sub[s].closed THEN sub ELSE [sub EXCEPT ![s].ch = Append(@, e)]
    /\ UNCHANGED <<subs, owed, dropped>>

\* Mutant: a subscriber that has left ends the round.
trySendGivesUp(e, s) ==
    /\ s \in publish[e].todo
    /\ publish' = [publish EXCEPT ![e].todo = IF sub[s].closed THEN {} ELSE @ \ {s}]
    /\ sub' = IF sub[s].closed \/ Full(s) THEN sub ELSE [sub EXCEPT ![s].ch = Append(@, e)]
    /\ dropped' = [dropped EXCEPT ![s] = IF ~sub[s].closed /\ Full(s) THEN @ \cup {e} ELSE @]
    /\ UNCHANGED <<subs, owed>>

\* One subscription, under its lock: closed since, full, or sent to.
trySend(e, s) ==
    /\ s \in publish[e].todo
    /\ publish' = [publish EXCEPT ![e].todo = @ \ {s}]
    /\ sub' = IF sub[s].closed \/ Full(s) THEN sub ELSE [sub EXCEPT ![s].ch = Append(@, e)]
    /\ dropped' = [dropped EXCEPT ![s] = IF ~sub[s].closed /\ Full(s) THEN @ \cup {e} ELSE @]
    /\ UNCHANGED <<subs, owed>>

Publish(e, c) == Snapshot(e, c) \/ \E s \in Clients : trySend(e, s)

Published(e) == publish[e].begun /\ publish[e].todo = {}

----------------------------------------------------------------------------
(* Subscription.Close: the channel first, then the registry. *)

\* The handler has returned: nobody reads what is left in the channel.
CloseChannel(s) ==
    /\ ~sub[s].closed
    /\ sub' = [sub EXCEPT ![s] = [@ EXCEPT !.closed = TRUE, !.ch = <<>>]]
    /\ owed' = [owed EXCEPT ![s] = {}]
    /\ dropped' = [dropped EXCEPT ![s] = {}]
    /\ UNCHANGED <<subs, publish>>

\* Mutant: the registry is left alone.
unsubscribeNot(s) == UNCHANGED streamVars

unsubscribe(s) ==
    /\ subs' = subs \ {s}
    /\ UNCHANGED <<sub, publish, owed, dropped>>

Read(s) ==
    /\ sub[s].ch # <<>>
    /\ sub' = [sub EXCEPT ![s].ch = Tail(@)]
    /\ UNCHANGED <<subs, publish, owed, dropped>>
===============================================================================
