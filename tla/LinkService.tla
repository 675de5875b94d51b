----------------------------- MODULE LinkService -----------------------------
(***************************************************************************)
(* The link service: every mutating handler over one MemoryStore, with the *)
(* cleanup goroutine and the passage of time.                              *)
(***************************************************************************)
EXTENDS RedirectHandler, PatchHandler, OwnerHandlers, APIKeyHandler

CONSTANTS
    Endpoints,   \* the endpoints clients call in this instance
    MaxClock     \* bound: ticks of the clock

vars == <<storeVars, req, minted, started, fanOutVars, clock>>

ASSUME LinkServiceAssumption ==
    /\ Endpoints \subseteq {"shorten", "redirect", "patch", "rotate", "delete", "keys"}
    /\ MaxClock \in Nat

Init ==
    /\ NewMemoryStore
    /\ RequestsInit
    /\ clock = 1

\* A step of the handler that the goroutine p runs.
Handle(p) ==
    \/ "shorten" \in Endpoints /\ Shorten(p)
    \/ "redirect" \in Endpoints /\ Redirect(p)
    \/ "patch" \in Endpoints /\ Patch(p)
    \/ "rotate" \in Endpoints /\ Rotate(p)
    \/ "delete" \in Endpoints /\ DeleteURL(p)
    \/ "keys" \in Endpoints /\ APIKeyRequest(p)
    \/ Audit(p)

Cleanup ==
    /\ cleanupExpired
    /\ UNCHANGED <<req, minted, started, fanOutVars, clock>>

Tick ==
    /\ clock < MaxClock
    /\ clock' = clock + 1
    /\ UNCHANGED <<storeVars, req, minted, started, fanOutVars>>

Next ==
    \/ \E p \in Procs : Handle(p)
    \/ Cleanup
    \/ Tick

Spec == Init /\ [][Next]_vars

\* A handler that has begun keeps running, the ticker keeps firing and time
\* keeps passing; nothing makes a client send a request.
Fairness ==
    /\ \A p \in Procs : WF_vars(req[p].pc # "idle" /\ Handle(p))
    /\ WF_vars(Cleanup)
    /\ WF_vars(Tick)

FairSpec == Spec /\ Fairness

TypeOK == StoreTypeOK /\ RequestsTypeOK

----------------------------------------------------------------------------
(* The click cap. *)

\* The redirects that read the row under its cap and have yet to record.
Passed(c) ==
    {p \in Procs : /\ req[p].code = c
                   /\ req[p].pc \in {"redirect.Check", "redirect.RecordClick"}}

\* How many clicks the row may count: its cap, or what it had already
\* counted when that cap was written.
Allowance(c) ==
    IF urls[c].MaxClicks > capBase[c] THEN urls[c].MaxClicks ELSE capBase[c]

\* MaxClicks is checked on a snapshot and the click recorded later
\* (redirect.go:91 and :172), so concurrent redirects overshoot the cap, but
\* never by more than one for each other request in flight.
OvershootBounded ==
    \A c \in Codes :
        Exists(c) /\ urls[c].MaxClicks > 0
            => urls[c].ClickCount < Allowance(c) + Cardinality(Procs)

----------------------------------------------------------------------------
(* The click count and the click log. *)

\* storage.go:27: the count and the log of a link never drift apart, so that
\* the count can be reconciled with the log's length, up to the ring's
\* capacity: a link has its own clicks in its log and no earlier link's.
LedgerAgrees ==
    \A c \in Codes :
        Exists(c) =>
            Len(events[c]) =
                IF urls[c].ClickCount > ClickCap THEN ClickCap ELSE urls[c].ClickCount

\* redirect.go:175: subscribers and webhook receivers never see a click that
\* the store did not record, and at rest none is missing from the stream.
FanOutFollowsRecord ==
    \A c \in Codes :
        /\ recorded[c] = published[c] +
               Cardinality({p \in Procs : req[p].pc = "redirect.Publish" /\ req[p].code = c})
        /\ enqueued[c] <= published[c]

----------------------------------------------------------------------------
(* Owners, API keys, webhooks. *)

\* The service implements LinkLifecycle.
Lifecycle ==
    INSTANCE LinkLifecycle WITH
        link <- [c \in Codes |->
                   IF Exists(c)
                   THEN [owner |-> urls[c].OwnerTokenHash, clicks |-> urls[c].ClickCount]
                   ELSE [owner |-> 0, clicks |-> 0]],
        drawn <- minted

ImplementsLifecycle == Lifecycle!LifecycleSpec

\* storage.go:119: a webhook URL and its secret come and go as a pair.
WebhookPaired ==
    \A c \in Codes :
        Exists(c) => (urls[c].WebhookURL = NoURL <=> urls[c].WebhookSecret = 0)

\* patch.go:222: a PATCH that replaces the webhook URL without asking for a
\* rotation preserves the existing secret.
PatchKeepsSecret ==
    [][\A p \in Procs, c \in Codes :
          /\ req[p].pc = "patch.Update" /\ req'[p].pc = "patch.Get"
          /\ req[p].code = c
          /\ req[p].fields.WebhookSecret = req[p].snap.WebhookSecret
          => urls'[c].WebhookSecret = urls[c].WebhookSecret]_vars

----------------------------------------------------------------------------
(* The audit log. *)

\* Requests whose change is in the store and whose audit event is not.
Unaudited(p) ==
    req[p].pc \in {"patch.Get", "patch.resolveActor", "delete.resolveActor", "audit"}

\* Every change is followed by its audit event, except that of a PATCH whose
\* row is deleted or expires before the handler reads it back for the
\* response (patch.go:271 returns before logAuditBestEffort).
AuditedOrUnread ==
    [][\A p \in Procs :
          Unaudited(p) /\ req'[p].pc = "idle" =>
              nextAuditID' = nextAuditID + 1 \/ (req[p].pc = "patch.Get" /\ ~GetOK(req[p].code))]_vars

\* Whom a request that authorizeAccess let pass can be charged to, by what the
\* audit log says of it: the holder of the owner token, the key that the row
\* was bound to, or nobody if that very key is gone.
ChargedTo(p, entry) ==
    CASE entry.ActorKind = "admin_token" -> authorizeOwner(req[p].bearer, req[p].snap.OwnerTokenHash)
      [] entry.ActorKind = "apikey"      -> entry.ActorID = req[p].snap.APIKeyID
      [] entry.ActorKind = "anon"        -> req[p].snap.APIKeyID \in (1..nextKeyID) \ KeyIDs

\* delete.go:68: a delete or a patch is attributed to the credential that
\* authorised it.  The handler looks the API key up again when the change is
\* done (auth.go:115), after keys have come and gone: it finds the key that
\* authorised the change or none, and none only if that key has been revoked
\* in between.
ActorsAttributed ==
    [][\A p \in Procs :
          /\ req[p].pc \in {"patch.resolveActor", "delete.resolveActor"}
          /\ req'[p].pc = "audit"
          => ChargedTo(p, req'[p].entry)]_vars

----------------------------------------------------------------------------
(* Progress. *)

\* Every request is answered: no path through a handler is stuck.
RequestsComplete ==
    \A p \in Procs : req[p].pc # "idle" ~> req[p].pc = "idle"

\* A link that has expired is extended by a late PATCH or reaped.
ExpiredReaped ==
    \A c \in Codes :
        (Exists(c) /\ Expired(urls[c])) ~> ~(Exists(c) /\ Expired(urls[c]))
==============================================================================
