--------------------------- MODULE ShortenHandler ---------------------------
(***************************************************************************)
(* handlers/shorten.go: POST /api/shorten creates a row.  The handler asks *)
(* Exists before it validates anything else and only then calls Set, so    *)
(* two requests can both find the same code free.                          *)
(*                                                                         *)
(* The unfurler is nil here, as it is unless UNFURL_ENABLED is set.        *)
(***************************************************************************)
EXTENDS Requests

CONSTANTS
    LinkBodies,             \* what POST /api/shorten may ask for
    MaxExpirationMinutes

LinkBody ==
    [ URL : URLs, ExpirationMins : Nat, MaxClicks : Nat,
      HasPassword : BOOLEAN, WebhookURL : URLs \cup {NoURL} ]

ASSUME ShortenAssumption ==
    /\ LinkBodies \subseteq LinkBody
    /\ MaxExpirationMinutes \in Nat

\* A requested lifetime is silently clipped, then added to time.Now().
Expiry(mins) ==
    clock + (IF mins > MaxExpirationMinutes THEN MaxExpirationMinutes ELSE mins)

\* The mapping shortenOne builds; its owner token is the value minted next,
\* its webhook secret, if it has a webhook, the one after.
NewMapping(b, keyID) ==
    [ OriginalURL    |-> b.URL,
      ExpiresAt      |-> IF b.ExpirationMins > 0 THEN Expiry(b.ExpirationMins) ELSE 0,
      ClickCount     |-> 0,
      OwnerTokenHash |-> minted + 1,
      MaxClicks      |-> b.MaxClicks,
      HasPassword    |-> b.HasPassword,
      WebhookURL     |-> b.WebhookURL,
      WebhookSecret  |-> IF b.WebhookURL = NoURL THEN 0 ELSE minted + 2,
      APIKeyID       |-> keyID ]

\* detectAPIKey: a bearer that matches no key is not an error.
ShortenDetectAPIKey(p) ==
    \E b \in Bearers :
        /\ Arrive(p, [Idle EXCEPT !.pc = "shorten.Exists", !.keyID = LookupAPIKey(b)])
        /\ UNCHANGED <<storeVars, minted, fanOutVars, clock>>

\* A custom code, or one GenerateShortCode drew, is free at this moment.
ShortenExists(p) ==
    \E c \in Codes :
        /\ ~Exists(c)
        /\ Proceed(p, "shorten.Exists", [req[p] EXCEPT !.pc = "shorten.Set", !.code = c])
        /\ UNCHANGED <<storeVars, minted, fanOutVars, clock>>

\* 409 for a taken custom code, 500 when five drawn codes in a row are
\* taken, 400 when a validation refuses the body.
ShortenRefused(p) ==
    /\ Proceed(p, "shorten.Exists", Idle)
    /\ UNCHANGED <<storeVars, minted, fanOutVars, clock>>

\* Who created it: the key found at the start, whatever became of it since.
Creator(keyID) ==
    IF keyID > 0 THEN [kind |-> "apikey", id |-> keyID] ELSE [kind |-> "anon", id |-> 0]

ShortenSet(p) ==
    LET c == req[p].code IN
    \E b \in LinkBodies :
        /\ Proceed(p, "shorten.Set",
             [Idle EXCEPT !.pc = "audit", !.token = minted + 1,
                          !.entry = Entry(Creator(req[p].keyID), "url.create", c)])
        /\ Set(c, NewMapping(b, req[p].keyID))
        /\ minted' = minted + (IF b.WebhookURL = NoURL THEN 1 ELSE 2)
        /\ UNCHANGED <<fanOutVars, clock>>

\* ErrCodeConflict: another request claimed the code since Exists.
ShortenConflict(p) ==
    /\ Proceed(p, "shorten.Set", Idle)
    /\ Exists(req[p].code)
    /\ UNCHANGED <<storeVars, minted, fanOutVars, clock>>

Shorten(p) ==
    \/ ShortenDetectAPIKey(p)
    \/ ShortenExists(p)
    \/ ShortenRefused(p)
    \/ ShortenSet(p)
    \/ ShortenConflict(p)
=============================================================================
