---------------------------- MODULE MemoryStore ----------------------------
(***************************************************************************)
(* services.MemoryStore: the in-memory Store behind every handler.         *)
(*                                                                         *)
(* Every method of the store runs under one mutex, so each is one atomic   *)
(* operator here: an operator with primes for a method that writes, a      *)
(* plain operator for one that only reads.  Handlers interleave BETWEEN    *)
(* these calls; the modules that extend this one say how.                  *)
(*                                                                         *)
(* Data that no property tells apart is abstracted: a token, its SHA-256   *)
(* hash and a webhook secret are one natural number (crypto/rand never     *)
(* repeats one, 0 is "none"), a click event is its At stamp, an API key is *)
(* its ID and hash.  Tags, Destinations and the Preview fields are         *)
(* replaced whole exactly as OriginalURL is, which stands for them.        *)
(***************************************************************************)
EXTENDS Naturals, Sequences

CONSTANTS
    Codes,      \* short codes
    URLs,       \* destination and webhook URLs
    NoURL,      \* the empty WebhookURL
    NoRow,      \* "no entry in the map"
    Keep,       \* a nil pointer in UpdateFields: leave the field alone
    ClickCap,   \* memoryClickCapPerCode
    AuditCap    \* memoryAuditCap

VARIABLES
    urls,        \* code -> mapping, NoRow where the Go map has no entry
    events,      \* code -> click log, oldest first (a nil slice is <<>>)
    apiKeys,     \* the API keys
    nextKeyID,
    audit,       \* the audit ring, oldest first
    nextAuditID,
    clock,       \* what time.Now() returns
    \* History variables: nothing below reads them.
    recorded,    \* code -> clicks RecordClick ever accepted for it
    capBase      \* code -> ClickCount when its MaxClicks was last written

keyVars   == <<apiKeys, nextKeyID>>
auditVars == <<audit, nextAuditID>>
linkVars  == <<urls, events, recorded, capBase>>
storeVars == <<urls, events, recorded, capBase, apiKeys, nextKeyID, audit, nextAuditID>>

----------------------------------------------------------------------------
(* The stored types. *)

URLMapping ==
    [ OriginalURL    : URLs,
      ExpiresAt      : Nat,               \* 0 is nil: never expires
      ClickCount     : Nat,
      OwnerTokenHash : Nat,
      MaxClicks      : Nat,               \* 0 is unlimited
      HasPassword    : BOOLEAN,
      WebhookURL     : URLs \cup {NoURL},
      WebhookSecret  : Nat,               \* 0 is nil
      APIKeyID       : Nat ]              \* 0 is unbound

\* The patch payload.  ExpiresAt 0 is ClearExpiration, HasPassword FALSE is
\* ClearPassword, WebhookURL NoURL is ClearWebhook.
UpdateFields ==
    [ OriginalURL   : URLs \cup {Keep},
      ExpiresAt     : Nat \cup {Keep},
      MaxClicks     : Nat \cup {Keep},
      HasPassword   : BOOLEAN \cup {Keep},
      WebhookURL    : URLs \cup {NoURL, Keep},
      WebhookSecret : Nat \cup {Keep} ]

APIKey == [ID : Nat, TokenHash : Nat]

ActorKinds   == {"anon", "admin_token", "apikey"}
AuditActions == {"url.create", "url.patch", "url.delete", "url.token_rotated",
                 "api_key.create", "api_key.label_updated", "api_key.revoke"}

\* What a handler passes to LogAudit.  ActorID is the key's ID for an
\* "apikey" actor and 0 otherwise; TargetID is a code or a key's ID.
AuditEntry ==
    [ ActorKind : ActorKinds, ActorID : Nat,
      Action : AuditActions, TargetID : Codes \cup Nat ]

AuditEvent ==
    [ ID : Nat, ActorKind : ActorKinds, ActorID : Nat,
      Action : AuditActions, TargetID : Codes \cup Nat ]

ASSUME StoreAssumption ==
    /\ ClickCap \in Nat \ {0}
    /\ AuditCap \in Nat \ {0}
    /\ NoURL \notin URLs
    /\ Keep \notin URLs \cup {NoURL}
    /\ Keep \notin Nat
    /\ Keep \notin BOOLEAN
    /\ NoRow \notin URLMapping

NewMemoryStore ==
    /\ urls = [c \in Codes |-> NoRow]
    /\ events = [c \in Codes |-> <<>>]
    /\ apiKeys = {}
    /\ nextKeyID = 0
    /\ audit = <<>>
    /\ nextAuditID = 0
    /\ recorded = [c \in Codes |-> 0]
    /\ capBase = [c \in Codes |-> 0]

----------------------------------------------------------------------------
(* Reads. *)

Exists(code) == urls[code] # NoRow

\* now.After(*m.ExpiresAt), with nil never expiring.
Expired(m) == m.ExpiresAt # 0 /\ clock > m.ExpiresAt

\* Get succeeds: the row is there and has not expired.  The snapshot it
\* returns is urls[code]; otherwise it returns ErrNotFound or ErrExpired.
GetOK(code) == Exists(code) /\ ~Expired(urls[code])

KeyIDs == {k.ID : k \in apiKeys}

\* The ID of the key whose hash matches, 0 for ErrNotFound.
LookupAPIKey(hash) ==
    IF \E k \in apiKeys : k.TokenHash = hash
    THEN (CHOOSE k \in apiKeys : k.TokenHash = hash).ID
    ELSE 0

----------------------------------------------------------------------------
(* Writes.  Each assigns all of storeVars; a call that returns ErrNotFound *)
(* or ErrCodeConflict changes nothing, so callers write UNCHANGED there.   *)

\* Mutant: the oldest entry is dropped one append too late.
PushLate(ring, cap, x) ==
    Append(IF Len(ring) > cap THEN Tail(ring) ELSE ring, x)

\* Mutant: the oldest entry is dropped one append too early.
PushEarly(ring, cap, x) ==
    Append(IF Len(ring) + 1 >= cap /\ ring # <<>> THEN Tail(ring) ELSE ring, x)

\* The bounded FIFO log both rings use: drop the oldest at the cap.
Push(ring, cap, x) ==
    Append(IF Len(ring) >= cap THEN Tail(ring) ELSE ring, x)

\* Mutant: the second of two conflicting claims wins.
SetOverwrites(code, m) ==
    /\ urls' = [urls EXCEPT ![code] = m]
    /\ capBase' = [capBase EXCEPT ![code] = 0]
    /\ UNCHANGED <<events, recorded, keyVars, auditVars>>

Set(code, m) ==
    /\ ~Exists(code)
    /\ urls' = [urls EXCEPT ![code] = m]
    /\ capBase' = [capBase EXCEPT ![code] = 0]
    /\ UNCHANGED <<events, recorded, keyVars, auditVars>>

\* Mutant: the row goes, its click log stays.
DeleteRowOnly(code) ==
    /\ Exists(code)
    /\ urls' = [urls EXCEPT ![code] = NoRow]
    /\ UNCHANGED <<events, recorded, capBase, keyVars, auditVars>>

Delete(code) ==
    /\ Exists(code)
    /\ urls' = [urls EXCEPT ![code] = NoRow]
    /\ events' = [events EXCEPT ![code] = <<>>]
    /\ UNCHANGED <<recorded, capBase, keyVars, auditVars>>

RotateToken(code, newHash) ==
    /\ Exists(code)
    /\ urls' = [urls EXCEPT ![code].OwnerTokenHash = newHash]
    /\ UNCHANGED <<events, recorded, capBase, keyVars, auditVars>>

\* Mutant: an absent field is written too.
MergeAlways(old, new) == new

\* One field of a row after an update.
Merge(old, new) == IF new = Keep THEN old ELSE new

\* A webhook URL that arrives without a secret leaves the secret alone;
\* clearing the webhook drops both.
MergeSecret(m, f) ==
    CASE f.WebhookURL = Keep  -> m.WebhookSecret
      [] f.WebhookURL = NoURL -> 0
      [] OTHER                -> Merge(m.WebhookSecret, f.WebhookSecret)

Updated(m, f) ==
    [m EXCEPT !.OriginalURL   = Merge(@, f.OriginalURL),
              !.ExpiresAt     = Merge(@, f.ExpiresAt),
              !.MaxClicks     = Merge(@, f.MaxClicks),
              !.HasPassword   = Merge(@, f.HasPassword),
              !.WebhookURL    = Merge(@, f.WebhookURL),
              !.WebhookSecret = MergeSecret(m, f)]

Update(code, f) ==
    /\ Exists(code)
    /\ urls' = [urls EXCEPT ![code] = Updated(@, f)]
    /\ capBase' = [capBase EXCEPT ![code] =
                     IF f.MaxClicks = Keep THEN @ ELSE urls[code].ClickCount]
    /\ UNCHANGED <<events, recorded, keyVars, auditVars>>

RecordClick(code, at) ==
    /\ Exists(code)
    /\ urls' = [urls EXCEPT ![code].ClickCount = @ + 1]
    /\ events' = [events EXCEPT ![code] = Push(@, ClickCap, at)]
    /\ recorded' = [recorded EXCEPT ![code] = @ + 1]
    /\ UNCHANGED <<capBase, keyVars, auditVars>>

\* Mutant: a new key takes the smallest ID that is free.
CreateAPIKeyFirstFree(tokenHash) ==
    /\ nextKeyID' = nextKeyID + 1
    /\ LET free == (1..nextKeyID + 1) \ KeyIDs
           id   == CHOOSE i \in free : \A j \in free : i <= j
       IN  apiKeys' = apiKeys \cup {[ID |-> id, TokenHash |-> tokenHash]}
    /\ UNCHANGED <<linkVars, auditVars>>

CreateAPIKey(tokenHash) ==
    /\ nextKeyID' = nextKeyID + 1
    /\ apiKeys' = apiKeys \cup {[ID |-> nextKeyID + 1, TokenHash |-> tokenHash]}
    /\ UNCHANGED <<linkVars, auditVars>>

DeleteAPIKey(id) ==
    /\ id \in KeyIDs
    /\ apiKeys' = {k \in apiKeys : k.ID # id}
    /\ urls' = [c \in Codes |->
                  IF Exists(c) /\ urls[c].APIKeyID = id
                  THEN [urls[c] EXCEPT !.APIKeyID = 0]
                  ELSE urls[c]]
    /\ UNCHANGED <<nextKeyID, events, recorded, capBase, auditVars>>

WithID(id, e) ==
    [ID |-> id, ActorKind |-> e.ActorKind, ActorID |-> e.ActorID,
     Action |-> e.Action, TargetID |-> e.TargetID]

LogAudit(e) ==
    /\ nextAuditID' = nextAuditID + 1
    /\ audit' = Push(audit, AuditCap, WithID(nextAuditID + 1, e))
    /\ UNCHANGED <<linkVars, keyVars>>

\* Mutant: only links that were never clicked are reaped.
cleanupUnused ==
    /\ \E c \in Codes : Exists(c) /\ Expired(urls[c]) /\ urls[c].ClickCount = 0
    /\ urls' = [c \in Codes |->
                  IF Exists(c) /\ Expired(urls[c]) /\ urls[c].ClickCount = 0
                  THEN NoRow ELSE urls[c]]
    /\ UNCHANGED <<events, recorded, capBase, keyVars, auditVars>>

\* One tick of the cleanup goroutine.  It deletes rows, never their logs.
\* A tick that finds nothing expired changes nothing and is left out.
cleanupExpired ==
    /\ \E c \in Codes : Exists(c) /\ Expired(urls[c])
    /\ urls' = [c \in Codes |->
                  IF Exists(c) /\ Expired(urls[c]) THEN NoRow ELSE urls[c]]
    /\ UNCHANGED <<events, recorded, capBase, keyVars, auditVars>>

----------------------------------------------------------------------------

StoreTypeOK ==
    /\ urls \in [Codes -> URLMapping \cup {NoRow}]
    /\ events \in [Codes -> Seq(Nat)]
    /\ apiKeys \in SUBSET APIKey
    /\ nextKeyID \in Nat
    /\ audit \in Seq(AuditEvent)
    /\ nextAuditID \in Nat
    /\ clock \in Nat
    /\ recorded \in [Codes -> Nat]
    /\ capBase \in [Codes -> Nat]

----------------------------------------------------------------------------
(* What the store promises whatever its callers do. *)

\* What holds even when links expire: the ring never outgrows its capacity
\* and never loses a click of the link that is live.
LogCoversCount ==
    \A c \in Codes :
        /\ Len(events[c]) <= ClickCap
        /\ Exists(c) => \/ Len(events[c]) >= urls[c].ClickCount
                        \/ Len(events[c]) = ClickCap

\* The ring holds the newest events there were, in order and without gaps.
AuditRing ==
    /\ Len(audit) = IF nextAuditID > AuditCap THEN AuditCap ELSE nextAuditID
    /\ \A i \in 1..Len(audit) : audit[i].ID = nextAuditID - Len(audit) + i

\* A key's ID is never given out twice (storage.go:157), so a link still
\* bound to a revoked key can never fall to the holder of another one.
RevokedKeysStayDead ==
    [][\A id \in 1..nextKeyID : id \notin KeyIDs => id \notin KeyIDs']_keyVars
============================================================================
