------------------------------ MODULE Requests ------------------------------
(***************************************************************************)
(* What the HTTP handlers share: the goroutine that serves a request, the  *)
(* credentials it carries (handlers/auth.go) and the audit write that ends *)
(* every successful change.                                                *)
(*                                                                         *)
(* net/http runs each request on a goroutine of its own.  Procs is the set *)
(* of requests that can be in flight at once; a handler is a sequence of   *)
(* actions, one per store call, and everything a handler does between two  *)
(* store calls touches only its own locals, so it belongs to the action of *)
(* the call before it.  Arriving and making the first store call is one    *)
(* action: nothing can tell the two apart.                                 *)
(***************************************************************************)
EXTENDS MemoryStore, FiniteSets

CONSTANTS
    Procs,        \* request goroutines
    NoCode,       \* "no short code"
    MaxRequests   \* bound: requests a behaviour may serve

VARIABLES
    req,        \* Procs -> the locals of the handler it runs
    minted,     \* random values drawn so far: tokens and webhook secrets
    started,    \* requests begun
    published,  \* code -> calls of ClickStream.Publish
    enqueued    \* code -> calls of WebhookDispatcher.Enqueue

fanOutVars == <<published, enqueued>>

NoEntry == [ActorKind |-> "anon", ActorID |-> 0, Action |-> "url.create", TargetID |-> 0]

NoFields == [ OriginalURL |-> Keep, ExpiresAt |-> Keep, MaxClicks |-> Keep,
              HasPassword |-> Keep, WebhookURL |-> Keep, WebhookSecret |-> Keep ]

PCs == {"idle", "audit",
        "shorten.Exists", "shorten.Set",
        "redirect.Check", "redirect.RecordClick", "redirect.Publish", "redirect.Enqueue",
        "patch.authorize", "patch.Update", "patch.Get", "patch.resolveActor",
        "rotate.RotateToken",
        "delete.authorize", "delete.Delete", "delete.resolveActor",
        "apikey.UpdateLabel", "apikey.Delete"}

Locals ==
    [ pc     : PCs,
      code   : Codes \cup {NoCode},
      bearer : Nat,                      \* hash of the bearer token, 0 is none
      snap   : URLMapping \cup {NoRow},  \* what Get returned
      keyID  : Nat,                      \* what LookupAPIKey returned
      token  : Nat,                      \* drawn by this request, not yet answered
      at     : Nat,                      \* ev.At
      fields : UpdateFields,
      entry  : AuditEntry ]

\* Where a handler has no row in hand, and where it holds no snapshot of one.
NoRowYet  == {"idle", "audit", "shorten.Exists", "apikey.UpdateLabel", "apikey.Delete"}
NoSnapYet == NoRowYet \cup {"shorten.Set", "rotate.RotateToken"}

Request ==
    {r \in Locals : /\ r.pc \notin NoRowYet => r.code \in Codes
                    /\ r.pc \notin NoSnapYet => r.snap \in URLMapping}

Idle ==
    [ pc |-> "idle", code |-> NoCode, bearer |-> 0, snap |-> NoRow, keyID |-> 0,
      token |-> 0, at |-> 0, fields |-> NoFields, entry |-> NoEntry ]

ASSUME RequestsAssumption ==
    /\ IsFiniteSet(Procs)
    /\ Procs # {}
    /\ MaxRequests \in Nat
    /\ NoCode \notin Codes

\* The goroutine p takes a new request and is left at r by its first step.
Arrive(p, r) ==
    /\ req[p] = Idle
    /\ started < MaxRequests
    /\ started' = started + 1
    /\ req' = [req EXCEPT ![p] = r]

\* The goroutine p, stopped at label pc, goes on to r.
Proceed(p, pc, r) ==
    /\ req[p].pc = pc
    /\ req' = [req EXCEPT ![p] = r]
    /\ UNCHANGED started

\* Draw a random value: a new token or secret, never seen before.
Mint == minted' = minted + 1

\* The bearers worth presenting: none, or the token of a live row or key
\* that some response has already handed out.  A token the store no longer
\* knows is refused exactly where an absent one is.
Bearers ==
    {0} \cup
    ( ({urls[c].OwnerTokenHash : c \in {d \in Codes : Exists(d)}}
       \cup {k.TokenHash : k \in apiKeys})
      \ {req[p].token : p \in Procs} )

----------------------------------------------------------------------------
(* handlers/auth.go *)

authorizeOwner(bearer, hash) == bearer # 0 /\ bearer = hash

\* The owner token opens the row; so does the API key the row is bound to.
authorizeAccess(bearer, m) ==
    \/ authorizeOwner(bearer, m.OwnerTokenHash)
    \/ /\ bearer # 0
       /\ m.APIKeyID # 0
       /\ LookupAPIKey(bearer) = m.APIKeyID

\* Mutant: only API keys are looked for.
resolveActorKeysOnly(bearer, m) ==
    IF LookupAPIKey(bearer) # 0
    THEN [kind |-> "apikey", id |-> LookupAPIKey(bearer)]
    ELSE [kind |-> "anon", id |-> 0]

\* Who the audit log says did it.  m is the snapshot the handler holds, but
\* the API key is looked up again, now.
resolveActor(bearer, m) ==
    IF authorizeOwner(bearer, m.OwnerTokenHash)
    THEN [kind |-> "admin_token", id |-> 0]
    ELSE IF LookupAPIKey(bearer) # 0
    THEN [kind |-> "apikey", id |-> LookupAPIKey(bearer)]
    ELSE [kind |-> "anon", id |-> 0]

Entry(actor, action, target) ==
    [ActorKind |-> actor.kind, ActorID |-> actor.id, Action |-> action, TargetID |-> target]

\* logAuditBestEffort, then the response.
Audit(p) ==
    /\ Proceed(p, "audit", Idle)
    /\ LogAudit(req[p].entry)
    /\ UNCHANGED <<minted, fanOutVars, clock>>

RequestsInit ==
    /\ req = [p \in Procs |-> Idle]
    /\ minted = 0
    /\ started = 0
    /\ published = [c \in Codes |-> 0]
    /\ enqueued = [c \in Codes |-> 0]

RequestsTypeOK ==
    /\ req \in [Procs -> Request]
    /\ minted \in Nat
    /\ started \in Nat
    /\ published \in [Codes -> Nat]
    /\ enqueued \in [Codes -> Nat]
=============================================================================
