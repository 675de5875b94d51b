---------------------------- MODULE PatchHandler ----------------------------
(***************************************************************************)
(* handlers/patch.go: PATCH /api/url/{code}.  The new field values are    *)
(* computed from the body and from the snapshot the handler read at the    *)
(* start; Update writes them into whatever the row is by then.             *)
(***************************************************************************)
EXTENDS ShortenHandler

CONSTANT PatchBodies

\* A field left out of the JSON is Keep.  ExpirationMins 0, HasPassword FALSE
\* and WebhookURL NoURL ask for removal.
PatchBody ==
    [ URL            : URLs \cup {Keep},
      ExpirationMins : Nat \cup {Keep},
      MaxClicks      : Nat \cup {Keep},
      HasPassword    : BOOLEAN \cup {Keep},
      WebhookURL     : URLs \cup {NoURL, Keep},
      RotateWebhook  : BOOLEAN ]

NoPatch == [ URL |-> Keep, ExpirationMins |-> Keep, MaxClicks |-> Keep,
             HasPassword |-> Keep, WebhookURL |-> Keep, RotateWebhook |-> FALSE ]

\* An empty patch is refused before anything is read.
ASSUME PatchAssumption == PatchBodies \subseteq PatchBody \ {NoPatch}

\* A cap the snapshot has already met is refused, and so is rotating the
\* secret of a webhook the snapshot does not have.
PatchAccepted(b, m) ==
    /\ b.MaxClicks # Keep /\ b.MaxClicks > 0 => b.MaxClicks > m.ClickCount
    /\ b.RotateWebhook /\ b.WebhookURL = Keep => m.WebhookURL # NoURL

\* A secret is drawn for a webhook URL that had none, or on request.
DrawsSecret(b, m) ==
    IF b.WebhookURL = Keep
    THEN b.RotateWebhook
    ELSE b.WebhookURL # NoURL /\ (m.WebhookSecret = 0 \/ b.RotateWebhook)

\* Mutant: a new webhook URL relies on the secret the row has by then.
PatchFieldsNoSecret(b, m, secret) ==
    [ OriginalURL |-> b.URL,
      ExpiresAt   |-> CASE b.ExpirationMins = Keep -> Keep
                        [] b.ExpirationMins = 0    -> 0
                        [] OTHER                   -> Expiry(b.ExpirationMins),
      MaxClicks   |-> b.MaxClicks,
      HasPassword |-> b.HasPassword,
      WebhookURL  |-> IF b.WebhookURL = Keep /\ b.RotateWebhook
                      THEN m.WebhookURL ELSE b.WebhookURL,
      WebhookSecret |-> IF DrawsSecret(b, m) THEN secret ELSE Keep ]

\* The payload.  A webhook URL always travels with a secret: the drawn one,
\* or the snapshot's, passed back so that the update does not null it out;
\* a rotation on its own passes the snapshot's URL back in the same way.
PatchFields(b, m, secret) ==
    [ OriginalURL |-> b.URL,
      ExpiresAt   |-> CASE b.ExpirationMins = Keep -> Keep
                        [] b.ExpirationMins = 0    -> 0
                        [] OTHER                   -> Expiry(b.ExpirationMins),
      MaxClicks   |-> b.MaxClicks,
      HasPassword |-> b.HasPassword,
      WebhookURL  |-> IF b.WebhookURL = Keep /\ b.RotateWebhook
                      THEN m.WebhookURL ELSE b.WebhookURL,
      WebhookSecret |->
          CASE DrawsSecret(b, m)           -> secret
            [] ~DrawsSecret(b, m) /\ b.WebhookURL \notin {Keep, NoURL}
                                           -> m.WebhookSecret
            [] OTHER                       -> Keep ]

PatchGet(p) ==
    \E c \in Codes, bearer \in Bearers :
        /\ GetOK(c)
        /\ Arrive(p, [Idle EXCEPT !.pc = "patch.authorize", !.code = c,
                                  !.bearer = bearer, !.snap = urls[c]])
        /\ UNCHANGED <<storeVars, minted, fanOutVars, clock>>

\* 404 or 410.
PatchMissing(p) ==
    \E c \in Codes :
        /\ ~GetOK(c)
        /\ Arrive(p, Idle)
        /\ UNCHANGED <<storeVars, minted, fanOutVars, clock>>

\* 401, or 400.  Besides the refusals modelled, a body can always fail a
\* validation (its host, its tags), so this is possible in every state.
PatchRefused(p) ==
    /\ Proceed(p, "patch.authorize", Idle)
    /\ UNCHANGED <<storeVars, minted, fanOutVars, clock>>

\* Authorised and valid: the payload is fixed here.
PatchPrepare(p) ==
    LET m == req[p].snap IN
    \E b \in PatchBodies :
        /\ Proceed(p, "patch.authorize",
             [req[p] EXCEPT !.pc = "patch.Update", !.fields = PatchFields(b, m, minted + 1)])
        /\ authorizeAccess(req[p].bearer, m)
        /\ PatchAccepted(b, m)
        /\ IF DrawsSecret(b, m) THEN Mint ELSE UNCHANGED minted
        /\ UNCHANGED <<storeVars, fanOutVars, clock>>

PatchUpdate(p) ==
    /\ Proceed(p, "patch.Update", [req[p] EXCEPT !.pc = "patch.Get", !.fields = NoFields])
    /\ Update(req[p].code, req[p].fields)
    /\ UNCHANGED <<minted, fanOutVars, clock>>

\* Mutant: the update is retried until the row is there.
PatchRetries(p) ==
    /\ Proceed(p, "patch.Update", req[p])
    /\ ~Exists(req[p].code)
    /\ UNCHANGED <<storeVars, minted, fanOutVars, clock>>

\* ErrNotFound: the row went away since Get.
PatchGone(p) ==
    /\ Proceed(p, "patch.Update", Idle)
    /\ ~Exists(req[p].code)
    /\ UNCHANGED <<storeVars, minted, fanOutVars, clock>>

\* The row is read again for the response.
PatchReread(p) ==
    /\ Proceed(p, "patch.Get", [req[p] EXCEPT !.pc = "patch.resolveActor"])
    /\ GetOK(req[p].code)
    /\ UNCHANGED <<storeVars, minted, fanOutVars, clock>>

\* The row is already gone again, or has expired: 500, and no audit event.
PatchRereadFails(p) ==
    /\ Proceed(p, "patch.Get", Idle)
    /\ ~GetOK(req[p].code)
    /\ UNCHANGED <<storeVars, minted, fanOutVars, clock>>

PatchResolveActor(p) ==
    /\ Proceed(p, "patch.resolveActor",
         [Idle EXCEPT !.pc = "audit",
             !.entry = Entry(resolveActor(req[p].bearer, req[p].snap), "url.patch", req[p].code)])
    /\ UNCHANGED <<storeVars, minted, fanOutVars, clock>>

Patch(p) ==
    \/ PatchGet(p)
    \/ PatchMissing(p)
    \/ PatchRefused(p)
    \/ PatchPrepare(p)
    \/ PatchUpdate(p)
    \/ PatchGone(p)
    \/ PatchReread(p)
    \/ PatchRereadFails(p)
    \/ PatchResolveActor(p)
=============================================================================
