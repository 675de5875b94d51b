-------------------------- MODULE LinkServiceProofs --------------------------
(*************************************************************************)
(* Theorems about LinkService and the store under it, for any number of  *)
(* codes, requests, keys and clock ticks.                                *)
(*************************************************************************)
EXTENDS LinkService, FiniteSetTheorems, TLAPS

(*************************************************************************)
(* The store by itself: what it guarantees whatever its callers do.      *)
(* StoreNext is one call of it, with any arguments of the right type.    *)
(*************************************************************************)

StoreNext ==
    \/ \E c \in Codes, m \in URLMapping : m.ClickCount = 0 /\ Set(c, m)
    \/ \E c \in Codes : Delete(c)
    \/ \E c \in Codes, h \in Nat : RotateToken(c, h)
    \/ \E c \in Codes, f \in UpdateFields : Update(c, f)
    \/ \E c \in Codes, at \in Nat : RecordClick(c, at)
    \/ \E h \in Nat : CreateAPIKey(h)
    \/ \E id \in Nat : DeleteAPIKey(id)
    \/ \E e \in AuditEntry : LogAudit(e)
    \/ cleanupExpired

----------------------------------------------------------------------------
(* The ring. *)

\* The oldest element is dropped at the cap.
Dropped(ring, cap) == IF Len(ring) >= cap THEN 1 ELSE 0

\* Pushing keeps the element type, never exceeds the cap, loses nothing but
\* the oldest element and puts the new one last.
LEMMA PushLemma ==
    ASSUME NEW S, NEW ring \in Seq(S), NEW cap \in Nat \ {0}, NEW x \in S
    PROVE  /\ Push(ring, cap, x) \in Seq(S)
           /\ Len(Push(ring, cap, x)) = Len(ring) + 1 - Dropped(ring, cap)
           /\ \A i \in 1..Len(ring) - Dropped(ring, cap) :
                 Push(ring, cap, x)[i] = ring[i + Dropped(ring, cap)]
           /\ Push(ring, cap, x)[Len(ring) + 1 - Dropped(ring, cap)] = x
<1> DEFINE kept == IF Len(ring) >= cap THEN Tail(ring) ELSE ring
<1>1. /\ kept \in Seq(S)
      /\ Len(kept) = Len(ring) - Dropped(ring, cap)
      /\ \A i \in 1..Len(ring) - Dropped(ring, cap) :
            kept[i] = ring[i + Dropped(ring, cap)]
  <2>1. CASE Len(ring) >= cap
    <3>1. ring # <<>>
      BY <2>1
    <3> QED
      BY <2>1, <3>1 DEF Dropped
  <2>2. CASE ~(Len(ring) >= cap)
    BY <2>2 DEF Dropped
  <2> QED
    BY <2>1, <2>2
<1>2. Push(ring, cap, x) = Append(kept, x)
  BY DEF Push
<1> HIDE DEF kept
<1>3. Dropped(ring, cap) \in {0, 1} /\ Dropped(ring, cap) <= Len(ring)
  BY DEF Dropped
<1> QED
  BY <1>1, <1>2, <1>3

----------------------------------------------------------------------------
(* Types. *)

\* Update keeps a row a row, whatever the payload.
LEMMA UpdatedType ==
    ASSUME NEW m \in URLMapping, NEW f \in UpdateFields
    PROVE  /\ Updated(m, f) \in URLMapping
           /\ Updated(m, f).ClickCount = m.ClickCount
           /\ Updated(m, f).OwnerTokenHash = m.OwnerTokenHash
           /\ Updated(m, f).APIKeyID = m.APIKeyID
           /\ Updated(m, f).MaxClicks = Merge(m.MaxClicks, f.MaxClicks)
           /\ Updated(m, f).WebhookURL = Merge(m.WebhookURL, f.WebhookURL)
           /\ Updated(m, f).WebhookSecret = MergeSecret(m, f)
<1>1. /\ Merge(m.OriginalURL, f.OriginalURL) \in URLs
      /\ Merge(m.ExpiresAt, f.ExpiresAt) \in Nat
      /\ Merge(m.MaxClicks, f.MaxClicks) \in Nat
      /\ Merge(m.HasPassword, f.HasPassword) \in BOOLEAN
      /\ Merge(m.WebhookURL, f.WebhookURL) \in URLs \cup {NoURL}
  BY DEF Merge, URLMapping, UpdateFields
<1>2. MergeSecret(m, f) \in Nat
  BY DEF MergeSecret, Merge, URLMapping, UpdateFields
<1> QED
  BY <1>1, <1>2 DEF Updated, URLMapping

\* Every call keeps the store well-typed.
LEMMA StoreTypeStep ==
    ASSUME StoreTypeOK, StoreNext, clock' \in Nat
    PROVE  StoreTypeOK'
<1> USE DEF StoreTypeOK, Exists, keyVars, auditVars, linkVars
<1>1. ASSUME NEW c \in Codes, NEW m \in URLMapping, Set(c, m)
      PROVE  StoreTypeOK'
  BY <1>1 DEF Set
<1>2. ASSUME NEW c \in Codes, Delete(c)
      PROVE  StoreTypeOK'
  BY <1>2 DEF Delete
<1>3. ASSUME NEW c \in Codes, NEW h \in Nat, RotateToken(c, h)
      PROVE  StoreTypeOK'
  <2>1. [urls[c] EXCEPT !.OwnerTokenHash = h] \in URLMapping
    BY <1>3 DEF RotateToken, URLMapping
  <2> QED
    BY <1>3, <2>1 DEF RotateToken
<1>4. ASSUME NEW c \in Codes, NEW f \in UpdateFields, Update(c, f)
      PROVE  StoreTypeOK'
  <2>1. urls[c] \in URLMapping
    BY <1>4 DEF Update
  <2>2. Updated(urls[c], f) \in URLMapping /\ urls[c].ClickCount \in Nat
    BY <2>1, UpdatedType DEF URLMapping
  <2> QED
    BY <1>4, <2>2 DEF Update
<1>5. ASSUME NEW c \in Codes, NEW at \in Nat, RecordClick(c, at)
      PROVE  StoreTypeOK'
  <2>0. urls[c] \in URLMapping
    BY <1>5 DEF RecordClick
  <2>1. [urls[c] EXCEPT !.ClickCount = @ + 1] \in URLMapping
    <3>1. \A n \in Nat : [urls[c] EXCEPT !.ClickCount = n] \in URLMapping
      BY <2>0 DEF URLMapping
    <3>2. urls[c].ClickCount + 1 \in Nat
      BY <2>0 DEF URLMapping
    <3> QED
      BY <3>1, <3>2
  <2>2. Push(events[c], ClickCap, at) \in Seq(Nat)
    BY PushLemma, StoreAssumption
  <2> QED
    BY <1>5, <2>1, <2>2 DEF RecordClick
<1>6. ASSUME NEW h \in Nat, CreateAPIKey(h)
      PROVE  StoreTypeOK'
  BY <1>6 DEF CreateAPIKey, APIKey
<1>7. ASSUME NEW id \in Nat, DeleteAPIKey(id)
      PROVE  StoreTypeOK'
  <2>1. \A c \in Codes : urls[c] \in URLMapping
                            => [urls[c] EXCEPT !.APIKeyID = 0] \in URLMapping
    BY DEF URLMapping
  <2> QED
    BY <1>7, <2>1 DEF DeleteAPIKey
<1>8. ASSUME NEW e \in AuditEntry, LogAudit(e)
      PROVE  StoreTypeOK'
  <2>1. WithID(nextAuditID + 1, e) \in AuditEvent
    BY DEF WithID, AuditEntry, AuditEvent
  <2>2. Push(audit, AuditCap, WithID(nextAuditID + 1, e)) \in Seq(AuditEvent)
    BY <2>1, PushLemma, StoreAssumption
  <2> QED
    BY <1>8, <2>2 DEF LogAudit
<1>9. CASE cleanupExpired
  BY <1>9 DEF cleanupExpired
<1> QED
  BY <1>1, <1>2, <1>3, <1>4, <1>5, <1>6, <1>7, <1>8, <1>9 DEF StoreNext

----------------------------------------------------------------------------
(* The click log. *)

\* No call makes a click log outgrow its ring or lose a click its link counts.
LEMMA LogCoversCountStep ==
    ASSUME StoreTypeOK, LogCoversCount, StoreNext
    PROVE  LogCoversCount'
<1> USE DEF StoreTypeOK, LogCoversCount, Exists, keyVars, auditVars, linkVars
<1>1. ASSUME NEW c \in Codes, NEW m \in URLMapping, m.ClickCount = 0, Set(c, m)
      PROVE  LogCoversCount'
  BY <1>1 DEF Set
<1>2. ASSUME NEW c \in Codes, Delete(c)
      PROVE  LogCoversCount'
  BY <1>2, StoreAssumption DEF Delete
<1>3. ASSUME NEW c \in Codes, NEW h \in Nat, RotateToken(c, h)
      PROVE  LogCoversCount'
  <2>1. /\ urls[c] \in URLMapping
        /\ urls'[c].ClickCount = urls[c].ClickCount
    BY <1>3 DEF RotateToken, URLMapping
  <2> QED
    BY <1>3, <2>1 DEF RotateToken
<1>4. ASSUME NEW c \in Codes, NEW f \in UpdateFields, Update(c, f)
      PROVE  LogCoversCount'
  <2>1. urls[c] \in URLMapping
    BY <1>4 DEF Update
  <2>2. urls'[c].ClickCount = urls[c].ClickCount
    BY <1>4, <2>1, UpdatedType DEF Update
  <2> QED
    BY <1>4, <2>1, <2>2 DEF Update
<1>5. ASSUME NEW c \in Codes, NEW at \in Nat, RecordClick(c, at)
      PROVE  LogCoversCount'
  <2>1. urls[c] \in URLMapping /\ urls[c].ClickCount \in Nat
    BY <1>5 DEF RecordClick, URLMapping
  <2>2. urls'[c].ClickCount = urls[c].ClickCount + 1
    BY <1>5, <2>1 DEF RecordClick, URLMapping
  <2>3. /\ Len(events'[c]) = Len(events[c]) + 1 - Dropped(events[c], ClickCap)
        /\ events[c] \in Seq(Nat)
    BY <1>5, PushLemma, StoreAssumption DEF RecordClick
  <2>4. /\ Len(events'[c]) <= ClickCap
        /\ \/ Len(events'[c]) >= urls'[c].ClickCount
           \/ Len(events'[c]) = ClickCap
    BY <2>1, <2>2, <2>3, <1>5, StoreAssumption DEF Dropped, RecordClick
  <2> QED
    BY <1>5, <2>4 DEF RecordClick
<1>6. ASSUME NEW h \in Nat, CreateAPIKey(h)
      PROVE  LogCoversCount'
  BY <1>6 DEF CreateAPIKey
<1>7. ASSUME NEW id \in Nat, DeleteAPIKey(id)
      PROVE  LogCoversCount'
  <2>1. \A c \in Codes :
          /\ Exists(c)' => Exists(c)
          /\ Exists(c) => urls'[c].ClickCount = urls[c].ClickCount
    BY <1>7 DEF DeleteAPIKey, URLMapping
  <2> QED
    BY <1>7, <2>1 DEF DeleteAPIKey
<1>8. ASSUME NEW e \in AuditEntry, LogAudit(e)
      PROVE  LogCoversCount'
  BY <1>8 DEF LogAudit
<1>9. CASE cleanupExpired
  BY <1>9 DEF cleanupExpired
<1> QED
  BY <1>1, <1>2, <1>3, <1>4, <1>5, <1>6, <1>7, <1>8, <1>9 DEF StoreNext

----------------------------------------------------------------------------
(* The audit ring. *)

\* LogAudit is the only call that touches the ring.
LEMMA AuditFrame ==
    ASSUME StoreNext
    PROVE  (\E e \in AuditEntry : LogAudit(e)) \/ UNCHANGED auditVars
BY DEF StoreNext, Set, Delete, RotateToken, Update, RecordClick, CreateAPIKey,
       DeleteAPIKey, cleanupExpired

\* The ring keeps holding the newest events, in order and without gaps.
LEMMA AuditRingStep ==
    ASSUME StoreTypeOK, AuditRing, StoreNext
    PROVE  AuditRing'
<1>1. ASSUME NEW e \in AuditEntry, LogAudit(e)
      PROVE  AuditRing'
  <2> DEFINE ev == WithID(nextAuditID + 1, e)
             d  == Dropped(audit, AuditCap)
  <2>1. /\ nextAuditID \in Nat
        /\ audit \in Seq(AuditEvent)
        /\ AuditCap \in Nat \ {0}
        /\ nextAuditID' = nextAuditID + 1
        /\ audit' = Push(audit, AuditCap, ev)
    BY <1>1, StoreAssumption DEF StoreTypeOK, LogAudit
  <2>2. ev \in AuditEvent /\ ev.ID = nextAuditID + 1
    BY <2>1 DEF WithID, AuditEntry, AuditEvent
  <2> HIDE DEF ev
  <2>3. /\ Len(audit') = Len(audit) + 1 - d
        /\ \A i \in 1..Len(audit) - d : audit'[i] = audit[i + d]
        /\ audit'[Len(audit) + 1 - d] = ev
    <3>1. audit \in Seq(AuditEvent) /\ ev \in AuditEvent /\ AuditCap \in Nat \ {0}
      BY <2>1, <2>2
    <3>2. /\ Len(Push(audit, AuditCap, ev)) = Len(audit) + 1 - d
          /\ \A i \in 1..Len(audit) - d : Push(audit, AuditCap, ev)[i] = audit[i + d]
          /\ Push(audit, AuditCap, ev)[Len(audit) + 1 - d] = ev
      BY <3>1, PushLemma
    <3> QED
      BY <2>1, <3>2
  <2>4. d \in {0, 1} /\ (d = 1 <=> Len(audit) >= AuditCap) /\ Len(audit) \in Nat
    BY <2>1 DEF Dropped
  <2> HIDE DEF d
  <2>5. Len(audit') = IF nextAuditID' > AuditCap THEN AuditCap ELSE nextAuditID'
    BY <2>1, <2>3, <2>4 DEF AuditRing
  <2>6. ASSUME NEW i \in 1..Len(audit')
        PROVE  audit'[i].ID = nextAuditID' - Len(audit') + i
    <3>1. CASE i = Len(audit) + 1 - d
      BY <2>1, <2>2, <2>3, <2>4, <3>1
    <3>2. CASE i # Len(audit) + 1 - d
      <4>1. i \in 1..Len(audit) - d /\ i + d \in 1..Len(audit)
        BY <2>3, <2>4, <2>6, <3>2
      <4>2. audit'[i] = audit[i + d]
        BY <2>3, <4>1
      <4>3. audit[i + d].ID = nextAuditID - Len(audit) + (i + d)
        BY <4>1 DEF AuditRing
      <4> QED
        BY <2>1, <2>3, <2>4, <4>1, <4>2, <4>3
    <3> QED
      BY <3>1, <3>2
  <2> QED
    BY <2>5, <2>6 DEF AuditRing
<1>2. CASE UNCHANGED auditVars
  BY <1>2 DEF AuditRing, auditVars
<1> QED
  BY <1>1, <1>2, AuditFrame

----------------------------------------------------------------------------
(* API keys. *)

\* Every key's ID was given out by the counter, and to that key alone.
KeyIDsGiven ==
    /\ \A k \in apiKeys : k.ID \in 1..nextKeyID
    /\ \A k, l \in apiKeys : k.ID = l.ID => k = l

LEMMA KeyIDsGivenStep ==
    ASSUME StoreTypeOK, KeyIDsGiven, StoreNext
    PROVE  KeyIDsGiven'
<1>1. ASSUME NEW h \in Nat, CreateAPIKey(h)
      PROVE  KeyIDsGiven'
  BY <1>1 DEF CreateAPIKey, KeyIDsGiven, StoreTypeOK
<1>2. ASSUME NEW id \in Nat, DeleteAPIKey(id)
      PROVE  KeyIDsGiven'
  BY <1>2 DEF DeleteAPIKey, KeyIDsGiven
<1>3. CASE UNCHANGED keyVars
  BY <1>3 DEF keyVars, KeyIDsGiven
<1> QED
  BY <1>1, <1>2, <1>3
     DEF StoreNext, Set, Delete, RotateToken, Update, RecordClick, LogAudit, cleanupExpired

\* The ID of a key that is gone is never given out again.
LEMMA RevokedKeysStep ==
    ASSUME StoreTypeOK, KeyIDsGiven, StoreNext
    PROVE  \A id \in 1..nextKeyID : id \notin KeyIDs => id \notin KeyIDs'
<1>1. ASSUME NEW h \in Nat, CreateAPIKey(h)
      PROVE  \A id \in 1..nextKeyID : id \notin KeyIDs => id \notin KeyIDs'
  BY <1>1 DEF CreateAPIKey, KeyIDs, StoreTypeOK
<1>2. ASSUME NEW id \in Nat, DeleteAPIKey(id)
      PROVE  \A j \in 1..nextKeyID : j \notin KeyIDs => j \notin KeyIDs'
  BY <1>2 DEF DeleteAPIKey, KeyIDs
<1>3. CASE UNCHANGED keyVars
  BY <1>3 DEF keyVars, KeyIDs
<1> QED
  BY <1>1, <1>2, <1>3
     DEF StoreNext, Set, Delete, RotateToken, Update, RecordClick, LogAudit, cleanupExpired

----------------------------------------------------------------------------
(*************************************************************************)
(* The handlers over the store: types, and the event log.                *)
(*************************************************************************)

(* Types of what the handlers compute. *)

LEMMA IdleType == Idle \in Request /\ Idle \in Locals
<1>1. NoFields \in UpdateFields
  BY DEF NoFields, UpdateFields
<1>2. NoEntry \in AuditEntry
  BY DEF NoEntry, AuditEntry, ActorKinds, AuditActions
<1>3. Idle \in Locals
  BY <1>1, <1>2 DEF Idle, Locals, PCs
<1>4. Idle.pc = "idle"
  BY DEF Idle
<1> QED
  BY <1>3, <1>4 DEF Request, NoRowYet, NoSnapYet

\* The locals of a handler that has only its audit event left to write.
LEMMA AuditingType ==
    ASSUME NEW e \in AuditEntry, NEW t \in Nat
    PROVE  /\ [Idle EXCEPT !.pc = "audit", !.entry = e] \in Request
           /\ [Idle EXCEPT !.pc = "audit", !.token = t, !.entry = e] \in Request
BY IdleType DEF Request, Locals, PCs, NoRowYet, NoSnapYet

LEMMA LookupType ==
    ASSUME StoreTypeOK, NEW h
    PROVE  LookupAPIKey(h) \in Nat
BY DEF StoreTypeOK, LookupAPIKey, APIKey

LEMMA BearersType ==
    ASSUME StoreTypeOK
    PROVE  Bearers \subseteq Nat
<1>1. \A c \in Codes : Exists(c) => urls[c].OwnerTokenHash \in Nat
  BY DEF StoreTypeOK, Exists, URLMapping
<1>2. \A k \in apiKeys : k.TokenHash \in Nat
  BY DEF StoreTypeOK, APIKey
<1> QED
  BY <1>1, <1>2 DEF Bearers

LEMMA ActorType ==
    ASSUME StoreTypeOK, NEW b, NEW m
    PROVE  resolveActor(b, m) \in [kind : ActorKinds, id : Nat]
BY LookupType DEF resolveActor, ActorKinds

LEMMA EntryType ==
    ASSUME NEW a \in [kind : ActorKinds, id : Nat], NEW act \in AuditActions,
           NEW t \in Codes \cup Nat
    PROVE  Entry(a, act, t) \in AuditEntry
BY DEF Entry, AuditEntry

LEMMA SnapshotType ==
    ASSUME StoreTypeOK, NEW c \in Codes, Exists(c)
    PROVE  urls[c] \in URLMapping
BY DEF StoreTypeOK, Exists

LEMMA ExpiryType ==
    ASSUME StoreTypeOK, NEW n \in Nat
    PROVE  Expiry(n) \in Nat
BY ShortenAssumption DEF StoreTypeOK, Expiry

\* The payload a PATCH computes is one Update accepts.
LEMMA PatchFieldsType ==
    ASSUME StoreTypeOK, NEW b \in PatchBody, NEW m \in URLMapping, NEW s \in Nat
    PROVE  PatchFields(b, m, s) \in UpdateFields
<1>1. b.ExpirationMins # Keep => Expiry(b.ExpirationMins) \in Nat
  BY ExpiryType DEF PatchBody
<1> QED
  BY <1>1 DEF PatchFields, PatchBody, UpdateFields, URLMapping

\* A goroutine that arrives at, or goes on to, well-typed locals.
LEMMA MoveType ==
    ASSUME RequestsTypeOK, NEW p \in Procs, NEW r \in Request,
           Arrive(p, r) \/ \E pc \in PCs : Proceed(p, pc, r)
    PROVE  req' \in [Procs -> Request] /\ started' \in Nat
BY DEF RequestsTypeOK, Arrive, Proceed

----------------------------------------------------------------------------
(* Every step of a handler makes at most one call of the store, with       *)
(* arguments of the right type, and leaves every goroutine well-typed.     *)

WellTypedStep ==
    /\ StoreNext \/ UNCHANGED storeVars
    /\ RequestsTypeOK'
    /\ clock' = clock

\* The labels, and what must be in hand at each.
USE DEF PCs, NoRowYet, NoSnapYet

LEMMA AuditStep ==
    ASSUME TypeOK, NEW p \in Procs, Audit(p)
    PROVE  WellTypedStep
<1>1. req[p] \in Request /\ req[p].entry \in AuditEntry
  BY DEF TypeOK, RequestsTypeOK, Request, Locals
<1>2. req' \in [Procs -> Request] /\ started' \in Nat
  BY IdleType, MoveType DEF Audit, TypeOK
<1> QED
  BY <1>1, <1>2 DEF Audit, WellTypedStep, StoreNext, TypeOK, RequestsTypeOK, fanOutVars

LEMMA ShortenStep ==
    ASSUME TypeOK, NEW p \in Procs, Shorten(p)
    PROVE  WellTypedStep
<1> USE DEF TypeOK, WellTypedStep
<1>0. req[p] \in Request /\ minted \in Nat /\ req[p].keyID \in Nat
  BY DEF RequestsTypeOK, Request, Locals
<1>1. CASE ShortenDetectAPIKey(p)
  <2>1. PICK b \in Bearers :
            Arrive(p, [Idle EXCEPT !.pc = "shorten.Exists", !.keyID = LookupAPIKey(b)])
    BY <1>1 DEF ShortenDetectAPIKey
  <2>2. [Idle EXCEPT !.pc = "shorten.Exists", !.keyID = LookupAPIKey(b)] \in Request
    BY IdleType, LookupType DEF Request, Locals
  <2> QED
    BY <1>1, <2>1, <2>2, MoveType DEF ShortenDetectAPIKey, RequestsTypeOK, fanOutVars
<1>2. CASE ShortenExists(p)
  <2>1. PICK c \in Codes :
            Proceed(p, "shorten.Exists", [req[p] EXCEPT !.pc = "shorten.Set", !.code = c])
    BY <1>2 DEF ShortenExists
  <2>2. [req[p] EXCEPT !.pc = "shorten.Set", !.code = c] \in Request
    BY <1>0 DEF Request, Locals
  <2>3. req' \in [Procs -> Request] /\ started' \in Nat
    BY <2>1, <2>2, MoveType
  <2> QED
    BY <1>2, <2>3 DEF ShortenExists, RequestsTypeOK, fanOutVars
<1>3. CASE ShortenRefused(p)
  <2>1. req' \in [Procs -> Request] /\ started' \in Nat
    BY <1>3, IdleType, MoveType DEF ShortenRefused
  <2> QED
    BY <1>3, <2>1 DEF ShortenRefused, RequestsTypeOK, fanOutVars
<1>4. CASE ShortenSet(p)
  <2> DEFINE c == req[p].code
             e == Entry(Creator(req[p].keyID), "url.create", c)
             r == [Idle EXCEPT !.pc = "audit", !.token = minted + 1, !.entry = e]
  <2>1. PICK b \in LinkBodies :
            /\ Proceed(p, "shorten.Set", r)
            /\ Set(c, NewMapping(b, req[p].keyID))
            /\ minted' = minted + (IF b.WebhookURL = NoURL THEN 1 ELSE 2)
    BY <1>4 DEF ShortenSet
  <2>2. c \in Codes
    BY <1>0, <2>1 DEF Proceed, Request
  <2>3. e \in AuditEntry
    BY <1>0, <2>2, EntryType DEF Creator, ActorKinds, AuditActions
  <2>4. minted + 1 \in Nat
    BY <1>0
  <2>5. r \in Request
    BY <2>3, <2>4, AuditingType
  <2>6. req' \in [Procs -> Request] /\ started' \in Nat
    BY <2>1, <2>5, MoveType
  <2>7. NewMapping(b, req[p].keyID) \in URLMapping
    <3>1. b \in LinkBody
      BY ShortenAssumption
    <3> QED
      BY <1>0, <3>1, ExpiryType DEF NewMapping, LinkBody, URLMapping
  <2>8. NewMapping(b, req[p].keyID).ClickCount = 0
    BY DEF NewMapping
  <2>9. StoreNext
    BY <2>1, <2>2, <2>7, <2>8 DEF StoreNext
  <2> QED
    BY <1>0, <1>4, <2>1, <2>6, <2>9 DEF ShortenSet, RequestsTypeOK, fanOutVars
<1>5. CASE ShortenConflict(p)
  <2>1. req' \in [Procs -> Request] /\ started' \in Nat
    BY <1>5, IdleType, MoveType DEF ShortenConflict
  <2> QED
    BY <1>5, <2>1 DEF ShortenConflict, RequestsTypeOK, fanOutVars
<1> QED
  BY <1>1, <1>2, <1>3, <1>4, <1>5 DEF Shorten

LEMMA RedirectStep ==
    ASSUME TypeOK, NEW p \in Procs, Redirect(p)
    PROVE  WellTypedStep
<1> USE DEF TypeOK, WellTypedStep
<1>0. /\ req[p] \in Request /\ req[p].at \in Nat /\ clock \in Nat
      /\ req[p].pc \notin NoRowYet => req[p].code \in Codes
  BY DEF RequestsTypeOK, Request, Locals, StoreTypeOK
<1>1. CASE RedirectGet(p)
  <2>1. PICK c \in Codes :
            /\ GetOK(c)
            /\ Arrive(p, [Idle EXCEPT !.pc = "redirect.Check", !.code = c, !.snap = urls[c]])
    BY <1>1 DEF RedirectGet
  <2>2. [Idle EXCEPT !.pc = "redirect.Check", !.code = c, !.snap = urls[c]] \in Request
    BY <2>1, IdleType, SnapshotType DEF Request, Locals, GetOK
  <2> QED
    BY <1>1, <2>1, <2>2, MoveType DEF RedirectGet, RequestsTypeOK, fanOutVars
<1>2. CASE RedirectRefused(p)
  BY <1>2, IdleType, MoveType DEF RedirectRefused, RequestsTypeOK, fanOutVars
<1>3. CASE RedirectUnavailable(p)
  <2>1. req' \in [Procs -> Request] /\ started' \in Nat
    BY <1>3, IdleType, MoveType DEF RedirectUnavailable
  <2> QED
    BY <1>3, <2>1 DEF RedirectUnavailable, RequestsTypeOK, fanOutVars
<1>4. CASE RedirectStamp(p)
  <2>1. [req[p] EXCEPT !.pc = "redirect.RecordClick", !.at = clock] \in Request
    BY <1>0, <1>4 DEF RedirectStamp, Proceed, Request, Locals
  <2>2. req' \in [Procs -> Request] /\ started' \in Nat
    BY <1>4, <2>1, MoveType DEF RedirectStamp
  <2> QED
    BY <1>4, <2>2 DEF RedirectStamp, RequestsTypeOK, fanOutVars
<1>5. CASE RedirectRecordClick(p)
  <2>1. [req[p] EXCEPT !.pc = "redirect.Publish"] \in Request
    BY <1>0, <1>5 DEF RedirectRecordClick, Proceed, Request, Locals
  <2>2. req' \in [Procs -> Request] /\ started' \in Nat
    BY <1>5, <2>1, MoveType DEF RedirectRecordClick
  <2>3. StoreNext
    BY <1>0, <1>5 DEF RedirectRecordClick, Proceed, StoreNext
  <2> QED
    BY <1>5, <2>2, <2>3 DEF RedirectRecordClick, RequestsTypeOK, fanOutVars
<1>6. CASE RedirectNotRecorded(p)
  <2>1. req' \in [Procs -> Request] /\ started' \in Nat
    BY <1>6, IdleType, MoveType DEF RedirectNotRecorded
  <2> QED
    BY <1>6, <2>1 DEF RedirectNotRecorded, RequestsTypeOK, fanOutVars
<1>7. CASE RedirectPublish(p)
  <2>1. [req[p] EXCEPT !.pc = "redirect.Enqueue"] \in Request
    BY <1>0, <1>7 DEF RedirectPublish, Proceed, Request, Locals
  <2>2. req' \in [Procs -> Request] /\ started' \in Nat
    BY <1>7, <2>1, IdleType, MoveType DEF RedirectPublish
  <2>3. published' \in [Codes -> Nat]
    BY <1>0, <1>7 DEF RedirectPublish, Proceed, RequestsTypeOK
  <2> QED
    BY <1>7, <2>2, <2>3 DEF RedirectPublish, RequestsTypeOK
<1>8. CASE RedirectEnqueue(p)
  <2>1. req' \in [Procs -> Request] /\ started' \in Nat
    BY <1>8, IdleType, MoveType DEF RedirectEnqueue
  <2>2. enqueued' \in [Codes -> Nat]
    BY <1>0, <1>8 DEF RedirectEnqueue, Proceed, RequestsTypeOK
  <2> QED
    BY <1>8, <2>1, <2>2 DEF RedirectEnqueue, RequestsTypeOK
<1> QED
  BY <1>1, <1>2, <1>3, <1>4, <1>5, <1>6, <1>7, <1>8 DEF Redirect

LEMMA PatchStep ==
    ASSUME TypeOK, NEW p \in Procs, Patch(p)
    PROVE  WellTypedStep
<1> USE DEF TypeOK, WellTypedStep
<1>0. /\ req[p] \in Request /\ minted \in Nat /\ req[p].fields \in UpdateFields
      /\ req[p].pc \notin NoRowYet => req[p].code \in Codes
      /\ req[p].pc \notin NoSnapYet => req[p].snap \in URLMapping
  BY DEF RequestsTypeOK, Request, Locals
<1>1. CASE PatchGet(p)
  <2>1. PICK c \in Codes, b \in Bearers :
            /\ GetOK(c)
            /\ Arrive(p, [Idle EXCEPT !.pc = "patch.authorize", !.code = c,
                                      !.bearer = b, !.snap = urls[c]])
    BY <1>1 DEF PatchGet
  <2>2. [Idle EXCEPT !.pc = "patch.authorize", !.code = c,
                     !.bearer = b, !.snap = urls[c]] \in Request
    BY <2>1, IdleType, SnapshotType, BearersType DEF Request, Locals, GetOK
  <2> QED
    BY <1>1, <2>1, <2>2, MoveType DEF PatchGet, RequestsTypeOK, fanOutVars
<1>2. CASE PatchMissing(p)
  BY <1>2, IdleType, MoveType DEF PatchMissing, RequestsTypeOK, fanOutVars
<1>3. CASE PatchRefused(p)
  <2>1. req' \in [Procs -> Request] /\ started' \in Nat
    BY <1>3, IdleType, MoveType DEF PatchRefused
  <2> QED
    BY <1>3, <2>1 DEF PatchRefused, RequestsTypeOK, fanOutVars
<1>4. CASE PatchPrepare(p)
  <2> DEFINE m == req[p].snap
  <2>1. PICK b \in PatchBodies :
            /\ Proceed(p, "patch.authorize",
                 [req[p] EXCEPT !.pc = "patch.Update", !.fields = PatchFields(b, m, minted + 1)])
            /\ IF DrawsSecret(b, m) THEN Mint ELSE UNCHANGED minted
    BY <1>4 DEF PatchPrepare
  <2>2. /\ m \in URLMapping
        /\ minted + 1 \in Nat
        /\ req[p].pc = "patch.authorize"
    BY <1>0, <2>1 DEF Proceed
  <2>3. PatchFields(b, m, minted + 1) \in UpdateFields
    BY <2>2, PatchFieldsType, PatchAssumption
  <2>4. [req[p] EXCEPT !.pc = "patch.Update", !.fields = PatchFields(b, m, minted + 1)]
            \in Request
    BY <1>0, <2>2, <2>3 DEF Request, Locals
  <2>5. req' \in [Procs -> Request] /\ started' \in Nat
    BY <2>1, <2>4, MoveType
  <2>6. minted' \in Nat
    BY <1>0, <2>1 DEF Mint
  <2> QED
    BY <1>4, <2>5, <2>6 DEF PatchPrepare, RequestsTypeOK, fanOutVars
<1>5. CASE PatchUpdate(p)
  <2>1. [req[p] EXCEPT !.pc = "patch.Get", !.fields = NoFields] \in Request
    BY <1>0, <1>5 DEF PatchUpdate, Proceed, Request, Locals, NoFields, UpdateFields
  <2>2. req' \in [Procs -> Request] /\ started' \in Nat
    BY <1>5, <2>1, MoveType DEF PatchUpdate
  <2>3. StoreNext
    BY <1>0, <1>5 DEF PatchUpdate, Proceed, StoreNext
  <2> QED
    BY <1>5, <2>2, <2>3 DEF PatchUpdate, RequestsTypeOK, fanOutVars
<1>6. CASE PatchGone(p)
  <2>1. req' \in [Procs -> Request] /\ started' \in Nat
    BY <1>6, IdleType, MoveType DEF PatchGone
  <2> QED
    BY <1>6, <2>1 DEF PatchGone, RequestsTypeOK, fanOutVars
<1>7. CASE PatchReread(p)
  <2>1. [req[p] EXCEPT !.pc = "patch.resolveActor"] \in Request
    BY <1>0, <1>7 DEF PatchReread, Proceed, Request, Locals
  <2>2. req' \in [Procs -> Request] /\ started' \in Nat
    BY <1>7, <2>1, MoveType DEF PatchReread
  <2> QED
    BY <1>7, <2>2 DEF PatchReread, RequestsTypeOK, fanOutVars
<1>8. CASE PatchRereadFails(p)
  <2>1. req' \in [Procs -> Request] /\ started' \in Nat
    BY <1>8, IdleType, MoveType DEF PatchRereadFails
  <2> QED
    BY <1>8, <2>1 DEF PatchRereadFails, RequestsTypeOK, fanOutVars
<1>9. CASE PatchResolveActor(p)
  <2> DEFINE e == Entry(resolveActor(req[p].bearer, req[p].snap), "url.patch", req[p].code)
  <2>1. e \in AuditEntry
    BY <1>0, <1>9, ActorType, EntryType DEF PatchResolveActor, Proceed, AuditActions
  <2>2. Proceed(p, "patch.resolveActor", [Idle EXCEPT !.pc = "audit", !.entry = e])
    BY <1>9 DEF PatchResolveActor
  <2>3. req' \in [Procs -> Request] /\ started' \in Nat
    BY <2>1, <2>2, AuditingType, MoveType
  <2> QED
    BY <1>9, <2>3 DEF PatchResolveActor, RequestsTypeOK, fanOutVars
<1> QED
  BY <1>1, <1>2, <1>3, <1>4, <1>5, <1>6, <1>7, <1>8, <1>9 DEF Patch

LEMMA RotateStep ==
    ASSUME TypeOK, NEW p \in Procs, Rotate(p)
    PROVE  WellTypedStep
<1> USE DEF TypeOK, WellTypedStep
<1>0. /\ req[p] \in Request /\ minted + 1 \in Nat
      /\ req[p].pc \notin NoRowYet => req[p].code \in Codes
  BY DEF RequestsTypeOK, Request, Locals
<1>1. CASE RotateGet(p)
  <2>1. PICK c \in Codes, b \in Bearers :
            Arrive(p, [Idle EXCEPT !.pc = "rotate.RotateToken", !.code = c, !.bearer = b])
    BY <1>1 DEF RotateGet
  <2>2. [Idle EXCEPT !.pc = "rotate.RotateToken", !.code = c, !.bearer = b] \in Request
    BY IdleType, BearersType DEF Request, Locals
  <2> QED
    BY <1>1, <2>1, <2>2, MoveType DEF RotateGet, RequestsTypeOK, fanOutVars
<1>2. CASE RotateRefused(p)
  BY <1>2, IdleType, MoveType DEF RotateRefused, RequestsTypeOK, fanOutVars
<1>3. CASE RotateToken_(p)
  <2> DEFINE c == req[p].code
             e == Entry([kind |-> "admin_token", id |-> 0], "url.token_rotated", c)
  <2>1. /\ Proceed(p, "rotate.RotateToken",
              [Idle EXCEPT !.pc = "audit", !.token = minted + 1, !.entry = e])
        /\ RotateToken(c, minted + 1)
        /\ minted' = minted + 1
    BY <1>3 DEF RotateToken_, Mint
  <2>2. c \in Codes
    BY <1>0, <2>1 DEF Proceed
  <2>3. e \in AuditEntry
    BY <2>2, EntryType DEF ActorKinds, AuditActions
  <2>4. req' \in [Procs -> Request] /\ started' \in Nat
    BY <1>0, <2>1, <2>3, AuditingType, MoveType
  <2>5. StoreNext
    BY <1>0, <2>1, <2>2 DEF StoreNext
  <2> QED
    BY <1>0, <1>3, <2>1, <2>4, <2>5 DEF RotateToken_, RequestsTypeOK, fanOutVars
<1>4. CASE RotateGone(p)
  <2>1. req' \in [Procs -> Request] /\ started' \in Nat
    BY <1>4, IdleType, MoveType DEF RotateGone
  <2> QED
    BY <1>4, <2>1 DEF RotateGone, RequestsTypeOK, fanOutVars
<1> QED
  BY <1>1, <1>2, <1>3, <1>4 DEF Rotate

LEMMA DeleteStep ==
    ASSUME TypeOK, NEW p \in Procs, DeleteURL(p)
    PROVE  WellTypedStep
<1> USE DEF TypeOK, WellTypedStep
<1>0. /\ req[p] \in Request
      /\ req[p].pc \notin NoRowYet => req[p].code \in Codes
  BY DEF RequestsTypeOK, Request, Locals
<1>1. CASE DeleteGet(p)
  <2>1. PICK c \in Codes, b \in Bearers :
            /\ GetOK(c)
            /\ Arrive(p, [Idle EXCEPT !.pc = "delete.authorize", !.code = c,
                                      !.bearer = b, !.snap = urls[c]])
    BY <1>1 DEF DeleteGet
  <2>2. [Idle EXCEPT !.pc = "delete.authorize", !.code = c,
                     !.bearer = b, !.snap = urls[c]] \in Request
    BY <2>1, IdleType, SnapshotType, BearersType DEF Request, Locals, GetOK
  <2> QED
    BY <1>1, <2>1, <2>2, MoveType DEF DeleteGet, RequestsTypeOK, fanOutVars
<1>2. CASE DeleteMissing(p)
  BY <1>2, IdleType, MoveType DEF DeleteMissing, RequestsTypeOK, fanOutVars
<1>3. CASE DeleteUnauthorized(p)
  <2>1. req' \in [Procs -> Request] /\ started' \in Nat
    BY <1>3, IdleType, MoveType DEF DeleteUnauthorized
  <2> QED
    BY <1>3, <2>1 DEF DeleteUnauthorized, RequestsTypeOK, fanOutVars
<1>4. CASE DeleteAuthorized(p)
  <2>1. [req[p] EXCEPT !.pc = "delete.Delete"] \in Request
    BY <1>0, <1>4 DEF DeleteAuthorized, Proceed, Request, Locals
  <2>2. req' \in [Procs -> Request] /\ started' \in Nat
    BY <1>4, <2>1, MoveType DEF DeleteAuthorized
  <2> QED
    BY <1>4, <2>2 DEF DeleteAuthorized, RequestsTypeOK, fanOutVars
<1>5. CASE DeleteDelete(p)
  <2>1. [req[p] EXCEPT !.pc = "delete.resolveActor"] \in Request
    BY <1>0, <1>5 DEF DeleteDelete, Proceed, Request, Locals
  <2>2. req' \in [Procs -> Request] /\ started' \in Nat
    BY <1>5, <2>1, MoveType DEF DeleteDelete
  <2>3. StoreNext
    BY <1>0, <1>5 DEF DeleteDelete, Proceed, StoreNext
  <2> QED
    BY <1>5, <2>2, <2>3 DEF DeleteDelete, RequestsTypeOK, fanOutVars
<1>6. CASE DeleteGone(p)
  <2>1. req' \in [Procs -> Request] /\ started' \in Nat
    BY <1>6, IdleType, MoveType DEF DeleteGone
  <2> QED
    BY <1>6, <2>1 DEF DeleteGone, RequestsTypeOK, fanOutVars
<1>7. CASE DeleteResolveActor(p)
  <2> DEFINE e == Entry(resolveActor(req[p].bearer, req[p].snap), "url.delete", req[p].code)
  <2>1. e \in AuditEntry
    BY <1>0, <1>7, ActorType, EntryType DEF DeleteResolveActor, Proceed, AuditActions
  <2>2. Proceed(p, "delete.resolveActor", [Idle EXCEPT !.pc = "audit", !.entry = e])
    BY <1>7 DEF DeleteResolveActor
  <2>3. req' \in [Procs -> Request] /\ started' \in Nat
    BY <2>1, <2>2, AuditingType, MoveType
  <2> QED
    BY <1>7, <2>3 DEF DeleteResolveActor, RequestsTypeOK, fanOutVars
<1> QED
  BY <1>1, <1>2, <1>3, <1>4, <1>5, <1>6, <1>7 DEF DeleteURL

LEMMA KeyStep ==
    ASSUME TypeOK, NEW p \in Procs, APIKeyRequest(p)
    PROVE  WellTypedStep
<1> USE DEF TypeOK, WellTypedStep
<1>0. /\ req[p] \in Request /\ req[p].keyID \in Nat
      /\ minted + 1 \in Nat /\ nextKeyID + 1 \in Nat
  BY DEF RequestsTypeOK, Request, Locals, StoreTypeOK
<1>1. CASE CreateKey(p)
  <2> DEFINE e == Entry([kind |-> "anon", id |-> 0], "api_key.create", nextKeyID + 1)
  <2>1. e \in AuditEntry
    BY <1>0, EntryType DEF ActorKinds, AuditActions
  <2>2. Arrive(p, [Idle EXCEPT !.pc = "audit", !.token = minted + 1, !.entry = e])
    BY <1>1 DEF CreateKey
  <2>3. req' \in [Procs -> Request] /\ started' \in Nat
    BY <1>0, <2>1, <2>2, AuditingType, MoveType
  <2>4. StoreNext
    BY <1>0, <1>1 DEF CreateKey, StoreNext
  <2> QED
    BY <1>0, <1>1, <2>3, <2>4 DEF CreateKey, Mint, RequestsTypeOK, fanOutVars
<1>2. ASSUME NEW pc \in {"apikey.UpdateLabel", "apikey.Delete"}, KeyFound(p, pc)
      PROVE  WellTypedStep
  <2>1. PICK b \in Bearers : Arrive(p, [Idle EXCEPT !.pc = pc, !.keyID = LookupAPIKey(b)])
    BY <1>2 DEF KeyFound
  <2>2. [Idle EXCEPT !.pc = pc, !.keyID = LookupAPIKey(b)] \in Request
    BY IdleType, LookupType DEF Request, Locals
  <2> QED
    BY <1>2, <2>1, <2>2, MoveType DEF KeyFound, RequestsTypeOK, fanOutVars
<1>3. CASE KeyRefused(p)
  BY <1>3, IdleType, MoveType DEF KeyRefused, RequestsTypeOK, fanOutVars
<1>4. CASE UpdateKeyLabel(p)
  <2> DEFINE e == Entry(KeyActor(req[p].keyID), "api_key.label_updated", req[p].keyID)
  <2>1. e \in AuditEntry
    BY <1>0, EntryType DEF KeyActor, ActorKinds, AuditActions
  <2>2. Proceed(p, "apikey.UpdateLabel", [Idle EXCEPT !.pc = "audit", !.entry = e])
    BY <1>4 DEF UpdateKeyLabel
  <2>3. req' \in [Procs -> Request] /\ started' \in Nat
    BY <2>1, <2>2, AuditingType, MoveType
  <2> QED
    BY <1>4, <2>3 DEF UpdateKeyLabel, RequestsTypeOK, fanOutVars
<1>5. CASE RevokeKey(p)
  <2> DEFINE e == Entry(KeyActor(req[p].keyID), "api_key.revoke", req[p].keyID)
  <2>1. e \in AuditEntry
    BY <1>0, EntryType DEF KeyActor, ActorKinds, AuditActions
  <2>2. Proceed(p, "apikey.Delete", [Idle EXCEPT !.pc = "audit", !.entry = e])
    BY <1>5 DEF RevokeKey
  <2>3. req' \in [Procs -> Request] /\ started' \in Nat
    BY <2>1, <2>2, AuditingType, MoveType
  <2>4. StoreNext
    BY <1>0, <1>5 DEF RevokeKey, StoreNext
  <2> QED
    BY <1>5, <2>3, <2>4 DEF RevokeKey, RequestsTypeOK, fanOutVars
<1>6. CASE KeyGone(p)
  <2>1. req' \in [Procs -> Request] /\ started' \in Nat
    BY <1>6, IdleType, MoveType DEF KeyGone
  <2> QED
    BY <1>6, <2>1 DEF KeyGone, RequestsTypeOK, fanOutVars
<1> QED
  BY <1>1, <1>2, <1>3, <1>4, <1>5, <1>6 DEF APIKeyRequest

\* The same for every step of every handler.
LEMMA HandleStep ==
    ASSUME TypeOK, NEW p \in Procs, Handle(p)
    PROVE  WellTypedStep
BY AuditStep, ShortenStep, RedirectStep, PatchStep, RotateStep, DeleteStep, KeyStep DEF Handle

\* Seen from the store, the service is a sequence of store calls.
LEMMA ServiceUsesStore ==
    ASSUME TypeOK, [Next]_vars
    PROVE  StoreNext \/ UNCHANGED storeVars
<1>1. CASE Cleanup
  BY <1>1 DEF Cleanup, StoreNext
<1>2. CASE Tick
  BY <1>2 DEF Tick, storeVars
<1>3. CASE UNCHANGED vars
  BY <1>3 DEF vars, storeVars
<1> QED
  BY <1>1, <1>2, <1>3, HandleStep DEF Next, WellTypedStep

----------------------------------------------------------------------------
(* Type correctness. *)

LEMMA TypeInit == Init => TypeOK
BY IdleType DEF Init, TypeOK, NewMemoryStore, RequestsInit, StoreTypeOK, RequestsTypeOK

LEMMA TypeStep == TypeOK /\ [Next]_vars => TypeOK'
<1> SUFFICES ASSUME TypeOK, [Next]_vars PROVE TypeOK'
  OBVIOUS
<1>1. RequestsTypeOK' /\ clock' \in Nat
  <2>1. CASE \E p \in Procs : Handle(p)
    BY <2>1, HandleStep DEF WellTypedStep, TypeOK, StoreTypeOK
  <2>2. CASE Cleanup
    BY <2>2 DEF Cleanup, TypeOK, StoreTypeOK, RequestsTypeOK, fanOutVars
  <2>3. CASE Tick
    BY <2>3 DEF Tick, TypeOK, StoreTypeOK, RequestsTypeOK, fanOutVars
  <2>4. CASE UNCHANGED vars
    BY <2>4 DEF vars, TypeOK, StoreTypeOK, RequestsTypeOK, fanOutVars
  <2> QED
    BY <2>1, <2>2, <2>3, <2>4 DEF Next
<1>2. StoreTypeOK'
  <2>1. CASE StoreNext
    BY <1>1, <2>1, StoreTypeStep DEF TypeOK
  <2>2. CASE UNCHANGED storeVars
    BY <1>1, <2>2 DEF storeVars, TypeOK, StoreTypeOK
  <2> QED
    BY <2>1, <2>2, ServiceUsesStore
<1> QED
  BY <1>1, <1>2 DEF TypeOK

\* Every reachable state is well-typed: in particular a goroutine that is
\* about to name a row holds its code, and one that decides on a row holds a
\* snapshot of it.
THEOREM TypeCorrect == Spec => []TypeOK
BY TypeInit, TypeStep, PTL DEF Spec
----------------------------------------------------------------------------
(* What the store promises whatever its callers do.  StoreNext preserves   *)
(* each invariant (MemoryStoreProofs) and the service only calls the store *)
(* (ServiceUsesStore).                                                     *)

\* The audit ring holds the newest events, in order and without gaps, at
\* any capacity.
THEOREM AuditRingHolds == Spec => []AuditRing
<1>1. Init => AuditRing
  BY StoreAssumption DEF Init, NewMemoryStore, AuditRing
<1>2. TypeOK /\ AuditRing /\ [Next]_vars => AuditRing'
  <2> SUFFICES ASSUME TypeOK, AuditRing, [Next]_vars PROVE AuditRing'
    OBVIOUS
  <2>1. CASE UNCHANGED storeVars
    BY <2>1 DEF storeVars, AuditRing
  <2> QED
    BY <2>1, ServiceUsesStore, AuditRingStep DEF TypeOK
<1> QED
  BY <1>1, <1>2, TypeCorrect, PTL DEF Spec

\* A live link's log is as long as its count or full, expiry or not.
THEOREM LogNeverShort == Spec => []LogCoversCount
<1>1. Init => LogCoversCount
  <2>1. Init => \A c \in Codes : events[c] = <<>> /\ ~Exists(c)
    BY DEF Init, NewMemoryStore, Exists
  <2>2. Len(<<>>) <= ClickCap
    BY StoreAssumption
  <2> QED
    BY <2>1, <2>2 DEF LogCoversCount
<1>2. TypeOK /\ LogCoversCount /\ [Next]_vars => LogCoversCount'
  <2> SUFFICES ASSUME TypeOK, LogCoversCount, [Next]_vars PROVE LogCoversCount'
    OBVIOUS
  <2>1. CASE UNCHANGED storeVars
    BY <2>1 DEF storeVars, LogCoversCount, Exists
  <2> QED
    BY <2>1, ServiceUsesStore, LogCoversCountStep DEF TypeOK
<1> QED
  BY <1>1, <1>2, TypeCorrect, PTL DEF Spec

\* The ID of a revoked key is never given out again, so that a link created
\* in the window between the look-up of its key and the revocation is left
\* bound to an ID nobody can come to hold.
THEOREM KeysStayDead == Spec => RevokedKeysStayDead
<1> DEFINE Dead == \A id \in 1..nextKeyID : id \notin KeyIDs => id \notin KeyIDs'
<1>1. Init => KeyIDsGiven
  BY DEF Init, NewMemoryStore, KeyIDsGiven
<1>2. TypeOK /\ KeyIDsGiven /\ [Next]_vars => KeyIDsGiven'
  <2> SUFFICES ASSUME TypeOK, KeyIDsGiven, [Next]_vars PROVE KeyIDsGiven'
    OBVIOUS
  <2>1. CASE UNCHANGED storeVars
    BY <2>1 DEF storeVars, KeyIDsGiven
  <2> QED
    BY <2>1, ServiceUsesStore, KeyIDsGivenStep DEF TypeOK
<1>3. TypeOK /\ KeyIDsGiven /\ [Next]_vars => [Dead]_keyVars
  <2> SUFFICES ASSUME TypeOK, KeyIDsGiven, [Next]_vars PROVE [Dead]_keyVars
    OBVIOUS
  <2>1. CASE UNCHANGED storeVars
    BY <2>1 DEF storeVars, keyVars
  <2>2. CASE StoreNext
    BY <2>2, RevokedKeysStep DEF TypeOK
  <2> QED
    BY <2>1, <2>2, ServiceUsesStore
<1> QED
  BY <1>1, <1>2, <1>3, TypeCorrect, PTL DEF Spec, RevokedKeysStayDead

----------------------------------------------------------------------------
(*************************************************************************)
(* How far concurrent redirects can push a link past its click cap.      *)
(* OvershootBounded is not inductive: it says nothing of the redirects   *)
(* that have passed the cap check and have yet to record.  CapHeadroom   *)
(* counts them as if they had recorded.                                  *)
(*************************************************************************)

\* The clicks counted and those on their way fit under the allowance plus
\* one for each request but the one that took the last click.
CapHeadroom ==
    \A c \in Codes :
        Exists(c) /\ urls[c].MaxClicks > 0
            => urls[c].ClickCount + Cardinality(Passed(c)) < Allowance(c) + Cardinality(Procs)

Passing == {"redirect.Check", "redirect.RecordClick"}

\* A step after which the row, if it is still there and capped, has the
\* same count, cap and base.
CalmRow(c) ==
    urls'[c] # NoRow /\ urls'[c].MaxClicks > 0 =>
        /\ urls[c] # NoRow
        /\ urls'[c].ClickCount = urls[c].ClickCount
        /\ urls'[c].MaxClicks = urls[c].MaxClicks
        /\ capBase'[c] = capBase[c]

\* Every set of redirects fits in Procs; one that misses a goroutine fits
\* strictly.
LEMMA PassedSize ==
    ASSUME NEW S \in SUBSET Procs
    PROVE  /\ IsFiniteSet(S)
           /\ Cardinality(S) \in Nat
           /\ Cardinality(Procs) \in Nat
           /\ Cardinality(S) <= Cardinality(Procs)
           /\ S # Procs => Cardinality(S) < Cardinality(Procs)
<1>1. IsFiniteSet(Procs)
  BY RequestsAssumption
<1>2. IsFiniteSet(S) /\ Cardinality(S) <= Cardinality(Procs)
      /\ (Cardinality(S) = Cardinality(Procs) => S = Procs)
  BY <1>1, FS_Subset
<1>3. Cardinality(S) \in Nat /\ Cardinality(Procs) \in Nat
  BY <1>1, <1>2, FS_CardinalityType
<1> QED
  BY <1>2, <1>3

LEMMA RowNumbers ==
    ASSUME TypeOK, NEW c \in Codes
    PROVE  /\ capBase[c] \in Nat
           /\ Exists(c) => /\ urls[c] \in URLMapping
                           /\ urls[c].ClickCount \in Nat
                           /\ urls[c].MaxClicks \in Nat
                           /\ Allowance(c) \in Nat
                           /\ Allowance(c) >= urls[c].MaxClicks
                           /\ Allowance(c) >= capBase[c]
<1>1. capBase[c] \in Nat /\ (Exists(c) => urls[c] \in URLMapping)
  BY SnapshotType DEF TypeOK, StoreTypeOK
<1>2. Exists(c) => urls[c].ClickCount \in Nat /\ urls[c].MaxClicks \in Nat
  BY <1>1 DEF URLMapping
<1> QED
  BY <1>1, <1>2 DEF Allowance

\* No row changes and nobody new passes the check.
LEMMA CalmStep ==
    ASSUME TypeOK, CapHeadroom,
           \A c \in Codes : CalmRow(c),
           \A c \in Codes : Passed(c)' \subseteq Passed(c)
    PROVE  CapHeadroom'
<1> SUFFICES ASSUME NEW c \in Codes, urls'[c] # NoRow, urls'[c].MaxClicks > 0
             PROVE  urls'[c].ClickCount + Cardinality(Passed(c)')
                      < Allowance(c)' + Cardinality(Procs)
  BY DEF CapHeadroom, Exists
<1>1. /\ Exists(c) /\ urls[c].MaxClicks > 0
      /\ urls'[c].ClickCount = urls[c].ClickCount
      /\ Allowance(c)' = Allowance(c)
  BY DEF CalmRow, Exists, Allowance
<1>2. urls[c].ClickCount + Cardinality(Passed(c)) < Allowance(c) + Cardinality(Procs)
  BY <1>1 DEF CapHeadroom
<1>3. /\ IsFiniteSet(Passed(c))
      /\ Cardinality(Passed(c)) \in Nat
      /\ Cardinality(Procs) \in Nat
  <2>1. Passed(c) \in SUBSET Procs
    BY DEF Passed
  <2> QED
    BY <2>1, PassedSize
<1>4. Cardinality(Passed(c)') <= Cardinality(Passed(c)) /\ Cardinality(Passed(c)') \in Nat
  BY <1>3, FS_Subset, FS_CardinalityType
<1>5. urls[c].ClickCount \in Nat /\ Allowance(c) \in Nat
  BY <1>1, RowNumbers
<1> QED
  BY <1>1, <1>2, <1>3, <1>4, <1>5

\* A goroutine that does not newly pass the check.
LEMMA CalmMove ==
    ASSUME RequestsTypeOK, NEW p \in Procs, NEW r, req' = [req EXCEPT ![p] = r],
           r.pc \in Passing => req[p].pc \in Passing /\ r.code = req[p].code
    PROVE  \A c \in Codes : Passed(c)' \subseteq Passed(c)
BY DEF RequestsTypeOK, Passed, Passing

\* A goroutine that is not, or no longer, between the check and the record.
LEMMA OutsideMove ==
    ASSUME RequestsTypeOK, NEW p \in Procs, NEW r, req' = [req EXCEPT ![p] = r],
           r.pc \notin Passing, NEW c \in Codes
    PROVE  /\ Passed(c)' = Passed(c) \ {p}
           /\ Cardinality(Passed(c)') \in Nat
           /\ Cardinality(Passed(c)') < Cardinality(Procs)
           /\ Cardinality(Procs) \in Nat
<1>1. Passed(c)' = Passed(c) \ {p}
  BY DEF RequestsTypeOK, Passed, Passing
<1>2. Passed(c)' \in SUBSET Procs /\ Passed(c)' # Procs
  BY <1>1 DEF Passed
<1> QED
  BY <1>1, <1>2, PassedSize
----------------------------------------------------------------------------
(* The three steps that matter: passing the check, recording, and writing  *)
(* a new row or a new cap.                                                 *)

LEMMA CheckStep ==
    ASSUME TypeOK, CapHeadroom, NEW p \in Procs, RedirectGet(p)
    PROVE  CapHeadroom'
<1>1. PICK d \in Codes :
          /\ GetOK(d)
          /\ ~CapReached(urls[d])
          /\ Arrive(p, [Idle EXCEPT !.pc = "redirect.Check", !.code = d, !.snap = urls[d]])
          /\ UNCHANGED <<urls, capBase>>
  BY DEF RedirectGet, storeVars
<1> DEFINE r == [Idle EXCEPT !.pc = "redirect.Check", !.code = d, !.snap = urls[d]]
<1>2. req' = [req EXCEPT ![p] = r] /\ r.code = d
  BY <1>1 DEF Arrive, Idle
<1> SUFFICES ASSUME NEW c \in Codes, Exists(c), urls[c].MaxClicks > 0
             PROVE  urls[c].ClickCount + Cardinality(Passed(c)')
                      < Allowance(c) + Cardinality(Procs)
  BY <1>1 DEF CapHeadroom, Exists, Allowance
<1>3. CASE c = d
  <2>1. urls[c].ClickCount < urls[c].MaxClicks
    BY <1>1, <1>3, RowNumbers DEF CapReached
  <2>2. Passed(c)' \in SUBSET Procs
    BY DEF Passed
  <2>3. Cardinality(Passed(c)') <= Cardinality(Procs)
        /\ Cardinality(Passed(c)') \in Nat /\ Cardinality(Procs) \in Nat
    BY <2>2, PassedSize
  <2> QED
    BY <2>1, <2>3, RowNumbers
<1>4. CASE c # d
  <2>1. Passed(c)' \subseteq Passed(c)
    BY <1>2, <1>4 DEF TypeOK, RequestsTypeOK, Passed
  <2>2. Passed(c) \in SUBSET Procs
    BY DEF Passed
  <2>3. IsFiniteSet(Passed(c)) /\ Cardinality(Passed(c)) \in Nat /\ Cardinality(Procs) \in Nat
    BY <2>2, PassedSize
  <2>4. Cardinality(Passed(c)') <= Cardinality(Passed(c)) /\ Cardinality(Passed(c)') \in Nat
    BY <2>1, <2>3, FS_Subset, FS_CardinalityType
  <2>5. urls[c].ClickCount + Cardinality(Passed(c)) < Allowance(c) + Cardinality(Procs)
    BY DEF CapHeadroom
  <2> QED
    BY <2>3, <2>4, <2>5, RowNumbers
<1> QED
  BY <1>3, <1>4

\* The click that is counted is no longer on its way.
LEMMA RecordStep ==
    ASSUME TypeOK, CapHeadroom, NEW p \in Procs, RedirectRecordClick(p)
    PROVE  CapHeadroom'
<1> DEFINE d == req[p].code
           r == [req[p] EXCEPT !.pc = "redirect.Publish"]
<1>1. /\ req[p].pc = "redirect.RecordClick" /\ req' = [req EXCEPT ![p] = r]
      /\ Exists(d)
      /\ urls' = [urls EXCEPT ![d].ClickCount = @ + 1]
      /\ capBase' = capBase
  BY DEF RedirectRecordClick, Proceed, RecordClick
<1>2. d \in Codes /\ req[p] \in Locals
  BY <1>1 DEF TypeOK, RequestsTypeOK, Request, NoRowYet
<1>3. r.pc \notin Passing
  BY <1>2 DEF Passing, Locals
<1> SUFFICES ASSUME NEW c \in Codes, urls'[c] # NoRow, urls'[c].MaxClicks > 0
             PROVE  urls'[c].ClickCount + Cardinality(Passed(c)')
                      < Allowance(c)' + Cardinality(Procs)
  BY DEF CapHeadroom, Exists
<1>4. Exists(c) /\ urls[c] \in URLMapping
  <2>1. c # d => urls'[c] = urls[c]
    BY <1>1, <1>2 DEF TypeOK, StoreTypeOK
  <2> QED
    BY <1>1, <2>1, SnapshotType DEF TypeOK, Exists
<1>5. /\ urls'[c].MaxClicks = urls[c].MaxClicks
      /\ urls'[c].ClickCount = IF c = d THEN urls[c].ClickCount + 1 ELSE urls[c].ClickCount
      /\ Allowance(c)' = Allowance(c)
  BY <1>1, <1>2, <1>4 DEF TypeOK, StoreTypeOK, URLMapping, Allowance
<1>6. urls[c].ClickCount + Cardinality(Passed(c)) < Allowance(c) + Cardinality(Procs)
  BY <1>4, <1>5 DEF CapHeadroom
<1>7. /\ Passed(c)' = Passed(c) \ {p} /\ Cardinality(Passed(c)') \in Nat
      /\ Cardinality(Procs) \in Nat
  BY <1>1, <1>3, OutsideMove DEF TypeOK
<1>8. c = d => p \in Passed(c)
  BY <1>1 DEF Passed
<1>9. Passed(c) \in SUBSET Procs
  BY DEF Passed
<1>10. /\ IsFiniteSet(Passed(c)) /\ Cardinality(Passed(c)) \in Nat
       /\ c = d => Cardinality(Passed(c)') = Cardinality(Passed(c)) - 1
       /\ Cardinality(Passed(c)') <= Cardinality(Passed(c))
  <2>1. IsFiniteSet(Passed(c)) /\ Cardinality(Passed(c)) \in Nat
    BY <1>9, PassedSize
  <2>2. Cardinality(Passed(c) \ {p}) =
            IF p \in Passed(c) THEN Cardinality(Passed(c)) - 1 ELSE Cardinality(Passed(c))
    BY <2>1, FS_RemoveElement
  <2> QED
    BY <1>7, <1>8, <2>1, <2>2
<1> QED
  BY <1>5, <1>6, <1>7, <1>10, <1>4, RowNumbers

\* A row or a cap written by a goroutine that is not itself on its way: the
\* others are fewer than Procs, and the count is within the new allowance.
LEMMA WriteStep ==
    ASSUME TypeOK, CapHeadroom, NEW p \in Procs, NEW r, req' = [req EXCEPT ![p] = r],
           r.pc \notin Passing, TypeOK',
           \A c \in Codes : CalmRow(c) \/ (Exists(c)' => urls'[c].ClickCount <= Allowance(c)')
    PROVE  CapHeadroom'
<1> SUFFICES ASSUME NEW c \in Codes, Exists(c)', urls'[c].MaxClicks > 0
             PROVE  urls'[c].ClickCount + Cardinality(Passed(c)')
                      < Allowance(c)' + Cardinality(Procs)
  BY DEF CapHeadroom
<1>1. /\ Passed(c)' = Passed(c) \ {p} /\ Cardinality(Passed(c)') \in Nat
      /\ Cardinality(Passed(c)') < Cardinality(Procs) /\ Cardinality(Procs) \in Nat
  BY OutsideMove DEF TypeOK
<1>2. urls'[c].ClickCount \in Nat /\ Allowance(c)' \in Nat
  <2>1. urls'[c] \in URLMapping /\ capBase'[c] \in Nat
    BY DEF TypeOK, StoreTypeOK, Exists
  <2> QED
    BY <2>1 DEF URLMapping, Allowance
<1>3. CASE urls'[c].ClickCount <= Allowance(c)'
  BY <1>1, <1>2, <1>3
<1>4. CASE CalmRow(c)
  <2>1. /\ Exists(c) /\ urls[c].MaxClicks > 0
        /\ urls'[c].ClickCount = urls[c].ClickCount
        /\ Allowance(c)' = Allowance(c)
    BY <1>4 DEF CalmRow, Exists, Allowance
  <2>2. urls[c].ClickCount + Cardinality(Passed(c)) < Allowance(c) + Cardinality(Procs)
    BY <2>1 DEF CapHeadroom
  <2>3. Passed(c) \in SUBSET Procs
    BY DEF Passed
  <2>4. IsFiniteSet(Passed(c)) /\ Cardinality(Passed(c)) \in Nat
    BY <2>3, PassedSize
  <2>5. Cardinality(Passed(c)') <= Cardinality(Passed(c))
    BY <1>1, <2>4, FS_Subset
  <2> QED
    BY <1>1, <1>2, <2>1, <2>2, <2>4, <2>5
<1> QED
  BY <1>3, <1>4
----------------------------------------------------------------------------
(* Every handler. *)

\* A step that leaves the rows and the caps alone.
LEMMA NoWriteStep ==
    ASSUME TypeOK, CapHeadroom, UNCHANGED <<urls, capBase>>,
           \A c \in Codes : Passed(c)' \subseteq Passed(c)
    PROVE  CapHeadroom'
BY CalmStep DEF CalmRow

\* The same, for a goroutine that arrives at or goes on to a place off the
\* redirect's way, or stays on it.
LEMMA QuietArrive ==
    ASSUME TypeOK, CapHeadroom, NEW p \in Procs, UNCHANGED <<urls, capBase>>,
           NEW r, Arrive(p, r), r.pc \notin Passing
    PROVE  CapHeadroom'
BY CalmMove, NoWriteStep DEF TypeOK, Arrive

LEMMA QuietProceed ==
    ASSUME TypeOK, CapHeadroom, NEW p \in Procs, UNCHANGED <<urls, capBase>>,
           NEW pc, NEW r, Proceed(p, pc, r),
           r.pc \in Passing => req[p].pc \in Passing /\ r.code = req[p].code
    PROVE  CapHeadroom'
BY CalmMove, NoWriteStep DEF TypeOK, Proceed

LEMMA PlacesOff ==
    /\ Idle.pc \notin Passing
    /\ \A pc, c, b, m, k, t, e :
          /\ [Idle EXCEPT !.pc = pc, !.keyID = k].pc = pc
          /\ [Idle EXCEPT !.pc = pc, !.code = c, !.bearer = b].pc = pc
          /\ [Idle EXCEPT !.pc = pc, !.code = c, !.bearer = b, !.snap = m].pc = pc
          /\ [Idle EXCEPT !.pc = pc, !.token = t, !.entry = e].pc = pc
          /\ [Idle EXCEPT !.pc = pc, !.entry = e].pc = pc
    /\ \A r \in Locals : \A pc, c, f :
          /\ [r EXCEPT !.pc = pc].pc = pc
          /\ [r EXCEPT !.pc = pc, !.code = c].pc = pc
          /\ [r EXCEPT !.pc = pc, !.fields = f].pc = pc
          /\ [r EXCEPT !.pc = pc, !.at = c].pc = pc
          /\ [r EXCEPT !.pc = pc, !.at = c].code = r.code
BY DEF Idle, Passing, Locals

LEMMA ShortenHeadroom ==
    ASSUME TypeOK, TypeOK', CapHeadroom, NEW p \in Procs, Shorten(p)
    PROVE  CapHeadroom'
<1> USE PlacesOff DEF Passing, PCs
<1>0. req[p] \in Locals
  BY DEF TypeOK, RequestsTypeOK, Request
<1>1. CASE ShortenDetectAPIKey(p)
  <2>1. PICK b \in Bearers :
            /\ Arrive(p, [Idle EXCEPT !.pc = "shorten.Exists", !.keyID = LookupAPIKey(b)])
            /\ UNCHANGED <<urls, capBase>>
    BY <1>1 DEF ShortenDetectAPIKey, storeVars
  <2> DEFINE r == [Idle EXCEPT !.pc = "shorten.Exists", !.keyID = LookupAPIKey(b)]
  <2>2. r.pc \notin Passing
    OBVIOUS
  <2>3. Arrive(p, r)
    BY <2>1
  <2> HIDE DEF r
  <2> QED
    BY <2>1, <2>2, <2>3, QuietArrive
<1>2. CASE ShortenExists(p)
  <2>1. PICK c \in Codes :
            /\ Proceed(p, "shorten.Exists", [req[p] EXCEPT !.pc = "shorten.Set", !.code = c])
            /\ UNCHANGED <<urls, capBase>>
    BY <1>2 DEF ShortenExists, storeVars
  <2> DEFINE r == [req[p] EXCEPT !.pc = "shorten.Set", !.code = c]
  <2>2. r.pc \notin Passing
    BY <1>0
  <2>3. Proceed(p, "shorten.Exists", r)
    BY <2>1
  <2> HIDE DEF r
  <2> QED
    BY <2>1, <2>2, <2>3, QuietProceed
<1>3. CASE ShortenRefused(p)
  BY <1>3, QuietProceed DEF ShortenRefused, storeVars
<1>4. CASE ShortenSet(p)
  <2> DEFINE d == req[p].code
             e == Entry(Creator(req[p].keyID), "url.create", d)
             r == [Idle EXCEPT !.pc = "audit", !.token = minted + 1, !.entry = e]
  <2>1. PICK b \in LinkBodies :
            /\ req[p].pc = "shorten.Set"
            /\ req' = [req EXCEPT ![p] = r]
            /\ urls' = [urls EXCEPT ![d] = NewMapping(b, req[p].keyID)]
            /\ capBase' = [capBase EXCEPT ![d] = 0]
    BY <1>4 DEF ShortenSet, Proceed, Set
  <2>2. NewMapping(b, req[p].keyID).ClickCount = 0
    BY DEF NewMapping
  <2>3. r.pc \notin Passing
    OBVIOUS
  <2>4. ASSUME NEW c \in Codes
        PROVE  CalmRow(c) \/ (Exists(c)' => urls'[c].ClickCount <= Allowance(c)')
    <3>1. CASE c = d
      <4>1. urls'[c].ClickCount = 0
        BY <2>1, <2>2, <3>1 DEF TypeOK, StoreTypeOK
      <4>2. Exists(c)' => urls'[c] \in URLMapping /\ capBase'[c] \in Nat
        BY DEF TypeOK, StoreTypeOK, Exists
      <4>3. Exists(c)' => Allowance(c)' \in Nat
        BY <4>2 DEF URLMapping, Allowance
      <4> QED
        BY <4>1, <4>3
    <3>2. CASE c # d
      BY <2>1, <3>2 DEF CalmRow, TypeOK, StoreTypeOK
    <3> QED
      BY <3>1, <3>2
  <2> HIDE DEF r
  <2> QED
    BY <2>1, <2>3, <2>4, WriteStep
<1>5. CASE ShortenConflict(p)
  BY <1>5, QuietProceed DEF ShortenConflict, storeVars
<1> QED
  BY <1>1, <1>2, <1>3, <1>4, <1>5 DEF Shorten

LEMMA RedirectHeadroom ==
    ASSUME TypeOK, TypeOK', CapHeadroom, NEW p \in Procs, Redirect(p)
    PROVE  CapHeadroom'
<1> USE PlacesOff DEF Passing, PCs
<1>0. req[p] \in Locals
  BY DEF TypeOK, RequestsTypeOK, Request
<1>1. CASE RedirectRefused(p)
  BY <1>1, QuietArrive DEF RedirectRefused, storeVars
<1>2. CASE RedirectUnavailable(p)
  BY <1>2, QuietProceed DEF RedirectUnavailable, storeVars
<1>3. CASE RedirectStamp(p)
  <2> DEFINE r == [req[p] EXCEPT !.pc = "redirect.RecordClick", !.at = clock]
  <2>1. Proceed(p, "redirect.Check", r) /\ UNCHANGED <<urls, capBase>>
    BY <1>3 DEF RedirectStamp, storeVars
  <2>2. req[p].pc \in Passing /\ r.code = req[p].code
    BY <1>0, <2>1 DEF Proceed
  <2> HIDE DEF r
  <2> QED
    BY <2>1, <2>2, QuietProceed
<1>4. CASE RedirectNotRecorded(p)
  BY <1>4, QuietProceed DEF RedirectNotRecorded, storeVars
<1>5. CASE RedirectPublish(p)
  <2> DEFINE r == IF req[p].snap.WebhookURL = NoURL THEN Idle
                  ELSE [req[p] EXCEPT !.pc = "redirect.Enqueue"]
  <2>1. Proceed(p, "redirect.Publish", r) /\ UNCHANGED <<urls, capBase>>
    BY <1>5 DEF RedirectPublish, storeVars
  <2>2. r.pc \notin Passing
    BY <1>0
  <2> HIDE DEF r
  <2> QED
    BY <2>1, <2>2, QuietProceed
<1>6. CASE RedirectEnqueue(p)
  BY <1>6, QuietProceed DEF RedirectEnqueue, storeVars
<1> QED
  BY <1>1, <1>2, <1>3, <1>4, <1>5, <1>6, CheckStep, RecordStep DEF Redirect

LEMMA PatchHeadroom ==
    ASSUME TypeOK, TypeOK', CapHeadroom, NEW p \in Procs, Patch(p)
    PROVE  CapHeadroom'
<1> USE PlacesOff DEF Passing, PCs
<1>0. req[p] \in Locals
  BY DEF TypeOK, RequestsTypeOK, Request
<1>1. CASE PatchGet(p)
  <2>1. PICK c \in Codes, b \in Bearers :
            /\ Arrive(p, [Idle EXCEPT !.pc = "patch.authorize", !.code = c,
                                      !.bearer = b, !.snap = urls[c]])
            /\ UNCHANGED <<urls, capBase>>
    BY <1>1 DEF PatchGet, storeVars
  <2> DEFINE r == [Idle EXCEPT !.pc = "patch.authorize", !.code = c,
                               !.bearer = b, !.snap = urls[c]]
  <2>2. r.pc \notin Passing
    OBVIOUS
  <2>3. Arrive(p, r)
    BY <2>1
  <2> HIDE DEF r
  <2> QED
    BY <2>1, <2>2, <2>3, QuietArrive
<1>2. CASE PatchMissing(p)
  BY <1>2, QuietArrive DEF PatchMissing, storeVars
<1>3. CASE PatchRefused(p)
  BY <1>3, QuietProceed DEF PatchRefused, storeVars
<1>4. CASE PatchPrepare(p)
  <2>1. PICK b \in PatchBodies :
            /\ Proceed(p, "patch.authorize",
                 [req[p] EXCEPT !.pc = "patch.Update",
                                !.fields = PatchFields(b, req[p].snap, minted + 1)])
            /\ UNCHANGED <<urls, capBase>>
    BY <1>4 DEF PatchPrepare, storeVars
  <2> DEFINE r == [req[p] EXCEPT !.pc = "patch.Update",
                                 !.fields = PatchFields(b, req[p].snap, minted + 1)]
  <2>2. r.pc \notin Passing
    BY <1>0
  <2>3. Proceed(p, "patch.authorize", r)
    BY <2>1
  <2> HIDE DEF r
  <2> QED
    BY <2>1, <2>2, <2>3, QuietProceed
<1>5. CASE PatchUpdate(p)
  <2> DEFINE d == req[p].code
             f == req[p].fields
             r == [req[p] EXCEPT !.pc = "patch.Get", !.fields = NoFields]
  <2>1. /\ req[p].pc = "patch.Update"
        /\ req' = [req EXCEPT ![p] = r]
        /\ Exists(d)
        /\ urls' = [urls EXCEPT ![d] = Updated(@, f)]
        /\ capBase' = [capBase EXCEPT ![d] =
                          IF f.MaxClicks = Keep THEN @ ELSE urls[d].ClickCount]
    BY <1>5 DEF PatchUpdate, Proceed, Update
  <2>2. d \in Codes
    BY <2>1 DEF TypeOK, RequestsTypeOK, Request, NoRowYet
  <2>3. r.pc \notin Passing
    BY <1>0
  <2>4. ASSUME NEW c \in Codes
        PROVE  CalmRow(c) \/ (Exists(c)' => urls'[c].ClickCount <= Allowance(c)')
    <3>1. CASE c # d
      BY <2>1, <3>1 DEF CalmRow, TypeOK, StoreTypeOK
    <3>2. CASE c = d
      <4>1. urls[c] \in URLMapping /\ urls[c] # NoRow
        BY <2>1, <3>2, SnapshotType DEF TypeOK, Exists
      <4>2. urls'[c] = Updated(urls[c], f)
        BY <2>1, <3>2 DEF TypeOK, StoreTypeOK
      <4>3. /\ urls'[c].ClickCount = urls[c].ClickCount
            /\ urls'[c].MaxClicks = Merge(urls[c].MaxClicks, f.MaxClicks)
        BY <4>1, <4>2 DEF Updated, URLMapping
      <4>4. CASE f.MaxClicks = Keep
        <5>1. capBase'[c] = capBase[c]
          <6>1. capBase' = [capBase EXCEPT ![d] = @]
            BY <2>1, <4>4
          <6> QED
            BY <6>1, <3>2 DEF TypeOK, StoreTypeOK
        <5> QED
          BY <4>1, <4>3, <4>4, <5>1 DEF CalmRow, Merge
      <4>5. CASE f.MaxClicks # Keep
        <5>1. capBase'[c] = urls[c].ClickCount
          BY <2>1, <3>2, <4>5 DEF TypeOK, StoreTypeOK
        <5>2. Exists(c)' => capBase'[c] <= Allowance(c)'
          <6>1. Exists(c)' => urls'[c] \in URLMapping /\ capBase'[c] \in Nat
            BY DEF TypeOK, StoreTypeOK, Exists
          <6> QED
            BY <6>1 DEF URLMapping, Allowance
        <5> QED
          BY <4>3, <5>1, <5>2
      <4> QED
        BY <4>4, <4>5
    <3> QED
      BY <3>1, <3>2
  <2> HIDE DEF r
  <2> QED
    BY <2>1, <2>3, <2>4, WriteStep
<1>6. CASE PatchGone(p)
  BY <1>6, QuietProceed DEF PatchGone, storeVars
<1>7. CASE PatchReread(p)
  <2> DEFINE r == [req[p] EXCEPT !.pc = "patch.resolveActor"]
  <2>1. Proceed(p, "patch.Get", r) /\ UNCHANGED <<urls, capBase>>
    BY <1>7 DEF PatchReread, storeVars
  <2>2. r.pc \notin Passing
    BY <1>0
  <2> HIDE DEF r
  <2> QED
    BY <2>1, <2>2, QuietProceed
<1>8. CASE PatchRereadFails(p)
  BY <1>8, QuietProceed DEF PatchRereadFails, storeVars
<1>9. CASE PatchResolveActor(p)
  <2> DEFINE e == Entry(resolveActor(req[p].bearer, req[p].snap), "url.patch", req[p].code)
             r == [Idle EXCEPT !.pc = "audit", !.entry = e]
  <2>1. Proceed(p, "patch.resolveActor", r) /\ UNCHANGED <<urls, capBase>>
    BY <1>9 DEF PatchResolveActor, storeVars
  <2>2. r.pc \notin Passing
    OBVIOUS
  <2> HIDE DEF r
  <2> QED
    BY <2>1, <2>2, QuietProceed
<1> QED
  BY <1>1, <1>2, <1>3, <1>4, <1>5, <1>6, <1>7, <1>8, <1>9 DEF Patch
\* The other handlers never touch a count or a cap, and never redirect.
OffTheWay(p) ==
    /\ \A c \in Codes : CalmRow(c)
    /\ \E r : req' = [req EXCEPT ![p] = r] /\ r.pc \notin Passing

LEMMA OffTheWayStep ==
    ASSUME TypeOK, CapHeadroom, NEW p \in Procs, OffTheWay(p)
    PROVE  CapHeadroom'
BY CalmMove, CalmStep DEF TypeOK, OffTheWay

LEMMA RotateHeadroom ==
    ASSUME TypeOK, NEW p \in Procs, Rotate(p)
    PROVE  OffTheWay(p)
<1>1. CASE RotateToken_(p)
  <2> DEFINE d == req[p].code
             e == Entry([kind |-> "admin_token", id |-> 0], "url.token_rotated", d)
             r == [Idle EXCEPT !.pc = "audit", !.token = minted + 1, !.entry = e]
  <2>1. /\ req[p].pc = "rotate.RotateToken"
        /\ req' = [req EXCEPT ![p] = r]
        /\ Exists(d)
        /\ urls' = [urls EXCEPT ![d].OwnerTokenHash = minted + 1]
        /\ capBase' = capBase
    BY <1>1 DEF RotateToken_, Proceed, RotateToken
  <2>2. d \in Codes
    BY <2>1 DEF TypeOK, RequestsTypeOK, Request, NoRowYet
  <2>3. urls[d] \in URLMapping
    BY <2>1, <2>2, SnapshotType DEF TypeOK
  <2>4. \A c \in Codes : CalmRow(c)
    BY <2>1, <2>2, <2>3 DEF CalmRow, Exists, TypeOK, StoreTypeOK, URLMapping
  <2>5. r.pc \notin Passing
    BY PlacesOff DEF Passing
  <2> QED
    BY <2>1, <2>4, <2>5 DEF OffTheWay
<1>2. CASE RotateGet(p)
  <2>1. \A c \in Codes : CalmRow(c)
    BY <1>2 DEF RotateGet, storeVars, CalmRow
  <2>2. PICK c \in Codes, b \in Bearers :
            Arrive(p, [Idle EXCEPT !.pc = "rotate.RotateToken", !.code = c, !.bearer = b])
    BY <1>2 DEF RotateGet
  <2>3. [Idle EXCEPT !.pc = "rotate.RotateToken", !.code = c, !.bearer = b].pc \notin Passing
    BY PlacesOff DEF Passing
  <2> QED
    BY <2>1, <2>2, <2>3 DEF Arrive, OffTheWay
<1>3. CASE RotateRefused(p) \/ RotateGone(p)
  <2>1. \A c \in Codes : CalmRow(c)
    BY <1>3 DEF RotateRefused, RotateGone, storeVars, CalmRow
  <2> QED
    BY <1>3, <2>1, PlacesOff DEF RotateRefused, RotateGone, Arrive, Proceed, OffTheWay
<1> QED
  BY <1>1, <1>2, <1>3 DEF Rotate

LEMMA DeleteHeadroom ==
    ASSUME TypeOK, NEW p \in Procs, DeleteURL(p)
    PROVE  OffTheWay(p)
<1>0. req[p] \in Locals
  BY DEF TypeOK, RequestsTypeOK, Request
<1>1. \A c \in Codes : CalmRow(c)
  <2>1. CASE DeleteDelete(p)
    BY <2>1 DEF DeleteDelete, Delete, CalmRow, TypeOK, StoreTypeOK
  <2>2. CASE UNCHANGED storeVars
    BY <2>2 DEF storeVars, CalmRow
  <2> QED
    BY <2>1, <2>2 DEF DeleteURL, DeleteGet, DeleteMissing, DeleteUnauthorized,
                      DeleteAuthorized, DeleteGone, DeleteResolveActor
<1>2. \E r : req' = [req EXCEPT ![p] = r] /\ r.pc \notin Passing
  <2>1. CASE DeleteGet(p)
    <3>1. PICK c \in Codes, b \in Bearers :
              Arrive(p, [Idle EXCEPT !.pc = "delete.authorize", !.code = c,
                                     !.bearer = b, !.snap = urls[c]])
      BY <2>1 DEF DeleteGet
    <3>2. [Idle EXCEPT !.pc = "delete.authorize", !.code = c,
                       !.bearer = b, !.snap = urls[c]].pc \notin Passing
      BY PlacesOff DEF Passing
    <3> QED
      BY <3>1, <3>2 DEF Arrive
  <2>2. CASE DeleteMissing(p) \/ DeleteUnauthorized(p) \/ DeleteGone(p)
    BY <2>2, PlacesOff DEF DeleteMissing, DeleteUnauthorized, DeleteGone, Arrive, Proceed
  <2>3. CASE DeleteAuthorized(p) \/ DeleteDelete(p)
    <3>1. /\ [req[p] EXCEPT !.pc = "delete.Delete"].pc \notin Passing
          /\ [req[p] EXCEPT !.pc = "delete.resolveActor"].pc \notin Passing
      BY <1>0, PlacesOff DEF Passing
    <3> QED
      BY <2>3, <3>1 DEF DeleteAuthorized, DeleteDelete, Proceed
  <2>4. CASE DeleteResolveActor(p)
    <3> DEFINE e == Entry(resolveActor(req[p].bearer, req[p].snap), "url.delete", req[p].code)
    <3>1. [Idle EXCEPT !.pc = "audit", !.entry = e].pc \notin Passing
      BY PlacesOff DEF Passing
    <3> QED
      BY <2>4, <3>1 DEF DeleteResolveActor, Proceed
  <2> QED
    BY <2>1, <2>2, <2>3, <2>4 DEF DeleteURL
<1> QED
  BY <1>1, <1>2 DEF OffTheWay

LEMMA KeyHeadroom ==
    ASSUME TypeOK, NEW p \in Procs, APIKeyRequest(p)
    PROVE  OffTheWay(p)
<1>1. \A c \in Codes : CalmRow(c)
  <2>1. CASE RevokeKey(p)
    <3>1. \A c \in Codes : Exists(c) => urls[c] \in URLMapping
      BY SnapshotType DEF TypeOK
    <3> QED
      BY <2>1, <3>1 DEF RevokeKey, DeleteAPIKey, CalmRow, Exists, URLMapping
  <2>2. CASE UNCHANGED <<urls, capBase>>
    BY <2>2 DEF CalmRow
  <2> QED
    BY <2>1, <2>2 DEF APIKeyRequest, CreateKey, CreateAPIKey, KeyFound, KeyRefused,
                      UpdateKeyLabel, KeyGone, storeVars, linkVars
<1>2. \E r : req' = [req EXCEPT ![p] = r] /\ r.pc \notin Passing
  <2>1. CASE CreateKey(p)
    <3> DEFINE e == Entry([kind |-> "anon", id |-> 0], "api_key.create", nextKeyID + 1)
    <3>1. [Idle EXCEPT !.pc = "audit", !.token = minted + 1, !.entry = e].pc \notin Passing
      BY PlacesOff DEF Passing
    <3> QED
      BY <2>1, <3>1 DEF CreateKey, Arrive
  <2>2. ASSUME NEW pc \in {"apikey.UpdateLabel", "apikey.Delete"}, KeyFound(p, pc)
        PROVE  \E r : req' = [req EXCEPT ![p] = r] /\ r.pc \notin Passing
    <3>1. PICK b \in Bearers : Arrive(p, [Idle EXCEPT !.pc = pc, !.keyID = LookupAPIKey(b)])
      BY <2>2 DEF KeyFound
    <3>2. [Idle EXCEPT !.pc = pc, !.keyID = LookupAPIKey(b)].pc \notin Passing
      BY <2>2, PlacesOff DEF Passing
    <3> QED
      BY <3>1, <3>2 DEF Arrive
  <2>3. CASE KeyRefused(p) \/ KeyGone(p)
    BY <2>3, PlacesOff DEF KeyRefused, KeyGone, Arrive, Proceed
  <2>4. CASE UpdateKeyLabel(p) \/ RevokeKey(p)
    <3>1. \A e : [Idle EXCEPT !.pc = "audit", !.entry = e].pc \notin Passing
      BY PlacesOff DEF Passing
    <3>2. \E e : Proceed(p, req[p].pc, [Idle EXCEPT !.pc = "audit", !.entry = e])
      BY <2>4 DEF UpdateKeyLabel, RevokeKey, Proceed
    <3> QED
      BY <3>1, <3>2 DEF Proceed
  <2> QED
    BY <2>1, <2>2, <2>3, <2>4 DEF APIKeyRequest
<1> QED
  BY <1>1, <1>2 DEF OffTheWay

LEMMA AuditHeadroom ==
    ASSUME NEW p \in Procs, Audit(p)
    PROVE  OffTheWay(p)
<1>1. \A c \in Codes : CalmRow(c)
  BY DEF Audit, LogAudit, linkVars, CalmRow
<1> QED
  BY <1>1, PlacesOff DEF Audit, Proceed, OffTheWay

----------------------------------------------------------------------------
(* The theorem. *)

LEMMA HeadroomInit == Init => CapHeadroom
BY DEF Init, NewMemoryStore, CapHeadroom, Exists

LEMMA HeadroomStep == TypeOK /\ CapHeadroom /\ [Next]_vars => CapHeadroom'
<1> SUFFICES ASSUME TypeOK, CapHeadroom, [Next]_vars PROVE CapHeadroom'
  OBVIOUS
<1>1. TypeOK'
  BY TypeStep
<1>2. ASSUME NEW p \in Procs, Handle(p) PROVE CapHeadroom'
  BY <1>1, <1>2, ShortenHeadroom, RedirectHeadroom, PatchHeadroom, OffTheWayStep,
     RotateHeadroom, DeleteHeadroom, KeyHeadroom, AuditHeadroom DEF Handle
<1>3. CASE Cleanup
  <2>1. \A c \in Codes : CalmRow(c)
    BY <1>3 DEF Cleanup, cleanupExpired, CalmRow
  <2>2. \A c \in Codes : Passed(c)' = Passed(c)
    BY <1>3 DEF Cleanup, Passed
  <2> QED
    BY <2>1, <2>2, CalmStep
<1>4. CASE Tick \/ UNCHANGED vars
  <2>1. UNCHANGED <<urls, capBase, req>>
    BY <1>4 DEF Tick, vars, storeVars
  <2>2. \A c \in Codes : Passed(c)' = Passed(c)
    BY <2>1 DEF Passed
  <2> QED
    BY <2>1, <2>2, NoWriteStep
<1> QED
  BY <1>2, <1>3, <1>4 DEF Next

LEMMA HeadroomBounds == TypeOK /\ CapHeadroom => OvershootBounded
<1> SUFFICES ASSUME TypeOK, CapHeadroom, NEW c \in Codes,
                    Exists(c), urls[c].MaxClicks > 0
             PROVE  urls[c].ClickCount < Allowance(c) + Cardinality(Procs)
  BY DEF OvershootBounded
<1>1. Passed(c) \in SUBSET Procs
  BY DEF Passed
<1>2. Cardinality(Passed(c)) \in Nat /\ Cardinality(Procs) \in Nat
  BY <1>1, PassedSize
<1> QED
  BY <1>2, RowNumbers DEF CapHeadroom

\* However many redirects race, a capped link never counts as many clicks
\* over its allowance as there are requests in flight.
THEOREM CapOvershoot == Spec => []OvershootBounded
<1>1. Spec => []CapHeadroom
  BY TypeCorrect, HeadroomInit, HeadroomStep, PTL DEF Spec
<1> QED
  BY <1>1, TypeCorrect, HeadroomBounds, PTL

----------------------------------------------------------------------------
(*************************************************************************)
(* What a handler owes for what it has done: the webhook, the fan-out of *)
(* a click, the name of the actor, the audit event; and the audit ledger. *)
(*************************************************************************)

(* Who calls the store, and who arrives where.                             *)

\* The store call a step of a handler makes, with the goroutine's own
\* arguments.
StoreCall(p) ==
    \/ \E b \in LinkBodies : Set(req[p].code, NewMapping(b, req[p].keyID))
    \/ Delete(req[p].code)
    \/ RotateToken(req[p].code, minted + 1)
    \/ req[p].pc = "patch.Update" /\ Update(req[p].code, req[p].fields)
    \/ RecordClick(req[p].code, req[p].at)
    \/ CreateAPIKey(minted + 1)
    \/ DeleteAPIKey(req[p].keyID)
    \/ req[p].pc = "audit" /\ LogAudit(req[p].entry)

\* A goroutine that moves is alone in moving, and each label that follows a
\* decision or a change is reached from one step only.
Arrivals(p) ==
    /\ \A q \in Procs \ {p} : req'[q] = req[q]
    /\ req'[p].pc = "redirect.Publish"     => RedirectRecordClick(p)
    /\ req'[p].pc = "redirect.Enqueue"     => RedirectPublish(p)
    /\ req'[p].pc = "patch.Update"         => PatchPrepare(p)
    /\ req'[p].pc = "patch.Get"            => PatchUpdate(p)
    /\ req'[p].pc = "patch.resolveActor"   => PatchReread(p)
    /\ req'[p].pc = "delete.Delete"        => DeleteAuthorized(p)
    /\ req'[p].pc = "delete.resolveActor"  => DeleteDelete(p)
    /\ req[p].pc = "redirect.Publish" => RedirectPublish(p)
    /\ req[p].pc = "redirect.Enqueue" => RedirectEnqueue(p)

\* Redirects alone touch what the fan-out counts.
FanOutFrame(p) ==
    \/ RedirectRecordClick(p) \/ RedirectPublish(p) \/ RedirectEnqueue(p)
    \/ UNCHANGED <<recorded, published, enqueued>>

Labelled(p) ==
    /\ StoreCall(p) \/ UNCHANGED storeVars
    /\ Arrivals(p)
    /\ FanOutFrame(p)

\* Where a goroutine is after it arrives or proceeds.
LEMMA ProceedFrom ==
    ASSUME TypeOK, NEW p \in Procs, NEW pc, NEW r, Proceed(p, pc, r)
    PROVE  /\ req[p].pc = pc /\ req'[p] = r
           /\ \A q \in Procs \ {p} : req'[q] = req[q]
BY DEF TypeOK, RequestsTypeOK, Proceed

LEMMA ArriveFrom ==
    ASSUME TypeOK, NEW p \in Procs, NEW r, Arrive(p, r)
    PROVE  /\ req[p].pc = "idle" /\ req'[p] = r
           /\ \A q \in Procs \ {p} : req'[q] = req[q]
BY DEF TypeOK, RequestsTypeOK, Arrive, Idle

\* Where nothing is decided, changed or handed out.
Plain == {"idle", "shorten.Exists", "shorten.Set", "redirect.Check", "redirect.RecordClick",
          "patch.authorize", "rotate.RotateToken", "delete.authorize",
          "apikey.UpdateLabel", "apikey.Delete"}

\* A goroutine that ends up at such a label without calling the store.
LEMMA PlainLabelled ==
    ASSUME TypeOK, NEW p \in Procs, NEW r, r.pc \in Plain,
           \/ Arrive(p, r)
           \/ \E pc \in PCs \ {"redirect.Publish", "redirect.Enqueue"} : Proceed(p, pc, r),
           UNCHANGED <<storeVars, fanOutVars>>
    PROVE  Labelled(p)
<1>1. /\ req'[p] = r /\ \A q \in Procs \ {p} : req'[q] = req[q]
      /\ req[p].pc \notin {"redirect.Publish", "redirect.Enqueue"}
  BY ProceedFrom, ArriveFrom
<1> QED
  BY <1>1 DEF Labelled, Arrivals, FanOutFrame, Plain, storeVars, fanOutVars

\* A goroutine that is left with an audit event to write.
LEMMA AuditingLabelled ==
    ASSUME TypeOK, NEW p \in Procs, NEW r,
           r.pc = "audit",
           \/ Arrive(p, r)
           \/ \E pc \in PCs \ {"redirect.Publish", "redirect.Enqueue"} : Proceed(p, pc, r),
           StoreCall(p) \/ UNCHANGED storeVars, UNCHANGED <<recorded, fanOutVars>>
    PROVE  Labelled(p)
<1>1. /\ req'[p] = r /\ \A q \in Procs \ {p} : req'[q] = req[q]
      /\ req[p].pc \notin {"redirect.Publish", "redirect.Enqueue"}
  BY ProceedFrom, ArriveFrom
<1> QED
  BY <1>1 DEF Labelled, Arrivals, FanOutFrame, fanOutVars

LEMMA AuditLabelled ==
    ASSUME TypeOK, NEW p \in Procs, Audit(p)
    PROVE  Labelled(p)
<1>1. /\ req'[p] = Idle /\ req[p].pc = "audit"
      /\ \A q \in Procs \ {p} : req'[q] = req[q]
  BY ProceedFrom DEF Audit
<1> QED
  BY <1>1 DEF Audit, Labelled, StoreCall, Arrivals, FanOutFrame, LogAudit, linkVars,
     fanOutVars, Idle

LEMMA ShortenLabelled ==
    ASSUME TypeOK, NEW p \in Procs, Shorten(p)
    PROVE  Labelled(p)
<1> USE DEF Plain, PCs
<1>0. req[p] \in Locals
  BY DEF TypeOK, RequestsTypeOK, Request
<1>1. CASE ShortenDetectAPIKey(p)
  <2>1. PICK b \in Bearers :
            /\ Arrive(p, [Idle EXCEPT !.pc = "shorten.Exists", !.keyID = LookupAPIKey(b)])
            /\ UNCHANGED <<storeVars, fanOutVars>>
    BY <1>1 DEF ShortenDetectAPIKey, storeVars, fanOutVars
  <2> DEFINE r == [Idle EXCEPT !.pc = "shorten.Exists", !.keyID = LookupAPIKey(b)]
  <2>2. r.pc \in Plain /\ Arrive(p, r)
    BY <2>1 DEF Idle
  <2> HIDE DEF r
  <2> QED
    BY <2>1, <2>2, PlainLabelled
<1>2. CASE ShortenExists(p)
  <2>1. PICK c \in Codes :
            /\ Proceed(p, "shorten.Exists", [req[p] EXCEPT !.pc = "shorten.Set", !.code = c])
            /\ UNCHANGED <<storeVars, fanOutVars>>
    BY <1>2 DEF ShortenExists, storeVars, fanOutVars
  <2> DEFINE r == [req[p] EXCEPT !.pc = "shorten.Set", !.code = c]
  <2>2. r.pc \in Plain /\ Proceed(p, "shorten.Exists", r)
    BY <1>0, <2>1 DEF Locals
  <2> HIDE DEF r
  <2> QED
    BY <2>1, <2>2, PlainLabelled
<1>3. CASE ShortenRefused(p) \/ ShortenConflict(p)
  BY <1>3, PlainLabelled DEF ShortenRefused, ShortenConflict, Idle
<1>4. CASE ShortenSet(p)
  <2> DEFINE c == req[p].code
             e == Entry(Creator(req[p].keyID), "url.create", c)
             r == [Idle EXCEPT !.pc = "audit", !.token = minted + 1, !.entry = e]
  <2>1. /\ Proceed(p, "shorten.Set", r)
        /\ \E b \in LinkBodies : Set(c, NewMapping(b, req[p].keyID))
        /\ UNCHANGED fanOutVars
    BY <1>4 DEF ShortenSet
  <2>2. r.pc = "audit"
    BY DEF Idle
  <2>3. StoreCall(p) /\ UNCHANGED recorded
    BY <2>1 DEF StoreCall, Set
  <2> HIDE DEF r
  <2> QED
    BY <2>1, <2>2, <2>3, AuditingLabelled
<1> QED
  BY <1>1, <1>2, <1>3, <1>4 DEF Shorten

LEMMA RedirectLabelled ==
    ASSUME TypeOK, NEW p \in Procs, Redirect(p)
    PROVE  Labelled(p)
<1> USE DEF Plain, PCs
<1>0. req[p] \in Locals
  BY DEF TypeOK, RequestsTypeOK, Request
<1>9. CASE RedirectGet(p)
  <2>1. PICK c \in Codes :
            /\ Arrive(p, [Idle EXCEPT !.pc = "redirect.Check", !.code = c, !.snap = urls[c]])
            /\ UNCHANGED <<storeVars, fanOutVars>>
    BY <1>9 DEF RedirectGet
  <2> DEFINE r == [Idle EXCEPT !.pc = "redirect.Check", !.code = c, !.snap = urls[c]]
  <2>2. r.pc \in Plain /\ Arrive(p, r)
    BY <2>1 DEF Idle
  <2> HIDE DEF r
  <2> QED
    BY <2>1, <2>2, PlainLabelled
<1>1. CASE RedirectRefused(p)
  BY <1>1, PlainLabelled DEF RedirectRefused, Idle
<1>2. CASE RedirectUnavailable(p) \/ RedirectNotRecorded(p)
  BY <1>2, PlainLabelled DEF RedirectUnavailable, RedirectNotRecorded, Idle
<1>3. CASE RedirectStamp(p)
  <2> DEFINE r == [req[p] EXCEPT !.pc = "redirect.RecordClick", !.at = clock]
  <2>1. r.pc \in Plain
    BY <1>0 DEF Locals
  <2>2. Proceed(p, "redirect.Check", r) /\ UNCHANGED <<storeVars, fanOutVars>>
    BY <1>3 DEF RedirectStamp
  <2> HIDE DEF r
  <2> QED
    BY <2>1, <2>2, PlainLabelled
<1>4. CASE RedirectRecordClick(p)
  <2> DEFINE r == [req[p] EXCEPT !.pc = "redirect.Publish"]
  <2>1. r.pc = "redirect.Publish" /\ Proceed(p, "redirect.RecordClick", r)
    BY <1>0, <1>4 DEF Locals, RedirectRecordClick
  <2> HIDE DEF r
  <2>2. /\ req'[p].pc = "redirect.Publish" /\ req[p].pc = "redirect.RecordClick"
        /\ \A q \in Procs \ {p} : req'[q] = req[q]
    BY <2>1, ProceedFrom
  <2>3. StoreCall(p)
    BY <1>4 DEF RedirectRecordClick, StoreCall
  <2> QED
    BY <1>4, <2>2, <2>3 DEF Labelled, Arrivals, FanOutFrame
<1>5. CASE RedirectPublish(p)
  <2>1. /\ req'[p].pc \in {"idle", "redirect.Enqueue"} /\ req[p].pc = "redirect.Publish"
        /\ \A q \in Procs \ {p} : req'[q] = req[q]
        /\ UNCHANGED storeVars
    <3>1. [req[p] EXCEPT !.pc = "redirect.Enqueue"].pc = "redirect.Enqueue" /\ Idle.pc = "idle"
      BY <1>0 DEF Locals, Idle
    <3> QED
      BY <1>5, <3>1, ProceedFrom DEF RedirectPublish
  <2> QED
    BY <1>5, <2>1 DEF Labelled, Arrivals, FanOutFrame
<1>6. CASE RedirectEnqueue(p)
  <2>1. /\ req'[p].pc = "idle" /\ req[p].pc = "redirect.Enqueue"
        /\ \A q \in Procs \ {p} : req'[q] = req[q]
        /\ UNCHANGED storeVars
    BY <1>6, ProceedFrom DEF RedirectEnqueue, Idle
  <2> QED
    BY <1>6, <2>1 DEF Labelled, Arrivals, FanOutFrame
<1> QED
  BY <1>9, <1>1, <1>2, <1>3, <1>4, <1>5, <1>6 DEF Redirect

LEMMA PatchLabelled ==
    ASSUME TypeOK, NEW p \in Procs, Patch(p)
    PROVE  Labelled(p)
<1> USE DEF Plain, PCs
<1>0. req[p] \in Locals
  BY DEF TypeOK, RequestsTypeOK, Request
<1>9. CASE PatchGet(p)
  <2>1. PICK c \in Codes, b \in Bearers :
            /\ Arrive(p, [Idle EXCEPT !.pc = "patch.authorize", !.code = c,
                                      !.bearer = b, !.snap = urls[c]])
            /\ UNCHANGED <<storeVars, fanOutVars>>
    BY <1>9 DEF PatchGet
  <2> DEFINE r == [Idle EXCEPT !.pc = "patch.authorize", !.code = c, !.bearer = b, !.snap = urls[c]]
  <2>2. r.pc \in Plain /\ Arrive(p, r)
    BY <2>1 DEF Idle
  <2> HIDE DEF r
  <2> QED
    BY <2>1, <2>2, PlainLabelled
<1>1. CASE PatchMissing(p)
  BY <1>1, PlainLabelled DEF PatchMissing, Idle
<1>2. CASE PatchRefused(p) \/ PatchGone(p) \/ PatchRereadFails(p)
  BY <1>2, PlainLabelled DEF PatchRefused, PatchGone, PatchRereadFails, Idle
\* A decision, change or answer: this step alone leads to its label.
<1>3. ASSUME NEW pc \in {"patch.authorize", "patch.Update", "patch.Get", "patch.resolveActor"},
             NEW r, Proceed(p, pc, r), UNCHANGED fanOutVars, UNCHANGED recorded,
             StoreCall(p) \/ UNCHANGED storeVars,
             \/ r.pc = "patch.Update" /\ PatchPrepare(p)
             \/ r.pc = "patch.Get" /\ PatchUpdate(p)
             \/ r.pc = "patch.resolveActor" /\ PatchReread(p)
             \/ r.pc = "audit" /\ PatchResolveActor(p)
      PROVE  Labelled(p)
  <2>1. /\ req'[p] = r /\ req[p].pc = pc
        /\ \A q \in Procs \ {p} : req'[q] = req[q]
    BY <1>3, ProceedFrom
  <2> QED
    BY <1>3, <2>1 DEF Labelled, Arrivals, FanOutFrame, fanOutVars
<1>4. CASE PatchPrepare(p)
  <2>1. PICK b \in PatchBodies :
            /\ Proceed(p, "patch.authorize",
                 [req[p] EXCEPT !.pc = "patch.Update",
                                !.fields = PatchFields(b, req[p].snap, minted + 1)])
            /\ UNCHANGED <<storeVars, fanOutVars>>
    BY <1>4 DEF PatchPrepare
  <2>2. [req[p] EXCEPT !.pc = "patch.Update",
                       !.fields = PatchFields(b, req[p].snap, minted + 1)].pc = "patch.Update"
    BY <1>0 DEF Locals
  <2> QED
    BY <1>3, <1>4, <2>1, <2>2 DEF storeVars
<1>5. CASE PatchUpdate(p)
  <2>1. [req[p] EXCEPT !.pc = "patch.Get", !.fields = NoFields].pc = "patch.Get"
    BY <1>0 DEF Locals
  <2>2. /\ Proceed(p, "patch.Update", [req[p] EXCEPT !.pc = "patch.Get", !.fields = NoFields])
        /\ UNCHANGED <<recorded, fanOutVars>>
        /\ Update(req[p].code, req[p].fields)
    BY <1>5 DEF PatchUpdate, Update
  <2>3. StoreCall(p)
    BY <2>2, ProceedFrom DEF StoreCall
  <2> QED
    BY <1>3, <1>5, <2>1, <2>2, <2>3
<1>6. CASE PatchReread(p)
  <2>1. [req[p] EXCEPT !.pc = "patch.resolveActor"].pc = "patch.resolveActor"
    BY <1>0 DEF Locals
  <2>2. /\ Proceed(p, "patch.Get", [req[p] EXCEPT !.pc = "patch.resolveActor"])
        /\ UNCHANGED <<storeVars, fanOutVars>>
    BY <1>6 DEF PatchReread
  <2> QED
    BY <1>3, <1>6, <2>1, <2>2 DEF storeVars
<1>7. CASE PatchResolveActor(p)
  <2> DEFINE e == Entry(resolveActor(req[p].bearer, req[p].snap), "url.patch", req[p].code)
             r == [Idle EXCEPT !.pc = "audit", !.entry = e]
  <2>1. r.pc = "audit"
    BY DEF Idle
  <2>2. Proceed(p, "patch.resolveActor", r) /\ UNCHANGED <<storeVars, fanOutVars>>
    BY <1>7 DEF PatchResolveActor
  <2> HIDE DEF r
  <2> QED
    BY <1>3, <1>7, <2>1, <2>2 DEF storeVars
<1> QED
  BY <1>9, <1>1, <1>2, <1>4, <1>5, <1>6, <1>7 DEF Patch

LEMMA RotateLabelled ==
    ASSUME TypeOK, NEW p \in Procs, Rotate(p)
    PROVE  Labelled(p)
<1> USE DEF Plain, PCs
<1>0. CASE RotateGet(p)
  <2>1. PICK c \in Codes, b \in Bearers :
            /\ Arrive(p, [Idle EXCEPT !.pc = "rotate.RotateToken", !.code = c, !.bearer = b])
            /\ UNCHANGED <<storeVars, fanOutVars>>
    BY <1>0 DEF RotateGet
  <2> DEFINE r == [Idle EXCEPT !.pc = "rotate.RotateToken", !.code = c, !.bearer = b]
  <2>2. r.pc \in Plain /\ Arrive(p, r)
    BY <2>1 DEF Idle
  <2> HIDE DEF r
  <2> QED
    BY <2>1, <2>2, PlainLabelled
<1>1. CASE RotateRefused(p) \/ RotateGone(p)
  BY <1>1, PlainLabelled DEF RotateRefused, RotateGone, Idle
<1>2. CASE RotateToken_(p)
  <2> DEFINE c == req[p].code
             e == Entry([kind |-> "admin_token", id |-> 0], "url.token_rotated", c)
             r == [Idle EXCEPT !.pc = "audit", !.token = minted + 1, !.entry = e]
  <2>1. /\ Proceed(p, "rotate.RotateToken", r)
        /\ RotateToken(c, minted + 1)
        /\ UNCHANGED fanOutVars
    BY <1>2 DEF RotateToken_
  <2>2. r.pc = "audit"
    BY DEF Idle
  <2>3. StoreCall(p) /\ UNCHANGED recorded
    BY <2>1 DEF StoreCall, RotateToken
  <2> HIDE DEF r
  <2> QED
    BY <2>1, <2>2, <2>3, AuditingLabelled
<1> QED
  BY <1>0, <1>1, <1>2 DEF Rotate

LEMMA DeleteLabelled ==
    ASSUME TypeOK, NEW p \in Procs, DeleteURL(p)
    PROVE  Labelled(p)
<1> USE DEF Plain, PCs
<1>0. req[p] \in Locals
  BY DEF TypeOK, RequestsTypeOK, Request
<1>9. CASE DeleteGet(p)
  <2>1. PICK c \in Codes, b \in Bearers :
            /\ Arrive(p, [Idle EXCEPT !.pc = "delete.authorize", !.code = c,
                                      !.bearer = b, !.snap = urls[c]])
            /\ UNCHANGED <<storeVars, fanOutVars>>
    BY <1>9 DEF DeleteGet
  <2> DEFINE r == [Idle EXCEPT !.pc = "delete.authorize", !.code = c, !.bearer = b, !.snap = urls[c]]
  <2>2. r.pc \in Plain /\ Arrive(p, r)
    BY <2>1 DEF Idle
  <2> HIDE DEF r
  <2> QED
    BY <2>1, <2>2, PlainLabelled
<1>1. CASE DeleteMissing(p)
  BY <1>1, PlainLabelled DEF DeleteMissing, Idle
<1>2. CASE DeleteUnauthorized(p) \/ DeleteGone(p)
  BY <1>2, PlainLabelled DEF DeleteUnauthorized, DeleteGone, Idle
<1>3. ASSUME NEW pc \in {"delete.authorize", "delete.Delete", "delete.resolveActor"},
             NEW r, Proceed(p, pc, r), UNCHANGED fanOutVars, UNCHANGED recorded,
             StoreCall(p) \/ UNCHANGED storeVars,
             \/ r.pc = "delete.Delete" /\ DeleteAuthorized(p)
             \/ r.pc = "delete.resolveActor" /\ DeleteDelete(p)
             \/ r.pc = "audit" /\ DeleteResolveActor(p)
      PROVE  Labelled(p)
  <2>1. /\ req'[p] = r /\ req[p].pc = pc
        /\ \A q \in Procs \ {p} : req'[q] = req[q]
    BY <1>3, ProceedFrom
  <2> QED
    BY <1>3, <2>1 DEF Labelled, Arrivals, FanOutFrame, fanOutVars
<1>4. CASE DeleteAuthorized(p)
  <2>1. [req[p] EXCEPT !.pc = "delete.Delete"].pc = "delete.Delete"
    BY <1>0 DEF Locals
  <2>2. /\ Proceed(p, "delete.authorize", [req[p] EXCEPT !.pc = "delete.Delete"])
        /\ UNCHANGED <<storeVars, fanOutVars>>
    BY <1>4 DEF DeleteAuthorized
  <2> QED
    BY <1>3, <1>4, <2>1, <2>2 DEF storeVars
<1>5. CASE DeleteDelete(p)
  <2>1. [req[p] EXCEPT !.pc = "delete.resolveActor"].pc = "delete.resolveActor"
    BY <1>0 DEF Locals
  <2>2. /\ Proceed(p, "delete.Delete", [req[p] EXCEPT !.pc = "delete.resolveActor"])
        /\ UNCHANGED <<recorded, fanOutVars>>
        /\ Delete(req[p].code)
    BY <1>5 DEF DeleteDelete, Delete
  <2>3. StoreCall(p)
    BY <2>2 DEF StoreCall
  <2> QED
    BY <1>3, <1>5, <2>1, <2>2, <2>3
<1>6. CASE DeleteResolveActor(p)
  <2> DEFINE e == Entry(resolveActor(req[p].bearer, req[p].snap), "url.delete", req[p].code)
             r == [Idle EXCEPT !.pc = "audit", !.entry = e]
  <2>1. r.pc = "audit"
    BY DEF Idle
  <2>2. Proceed(p, "delete.resolveActor", r) /\ UNCHANGED <<storeVars, fanOutVars>>
    BY <1>6 DEF DeleteResolveActor
  <2> HIDE DEF r
  <2> QED
    BY <1>3, <1>6, <2>1, <2>2 DEF storeVars
<1> QED
  BY <1>9, <1>1, <1>2, <1>4, <1>5, <1>6 DEF DeleteURL

LEMMA KeyLabelled ==
    ASSUME TypeOK, NEW p \in Procs, APIKeyRequest(p)
    PROVE  Labelled(p)
<1> USE DEF Plain, PCs
<1>1. CASE CreateKey(p)
  <2> DEFINE e == Entry([kind |-> "anon", id |-> 0], "api_key.create", nextKeyID + 1)
             r == [Idle EXCEPT !.pc = "audit", !.token = minted + 1, !.entry = e]
  <2>1. Arrive(p, r) /\ CreateAPIKey(minted + 1) /\ UNCHANGED fanOutVars
    BY <1>1 DEF CreateKey
  <2>2. r.pc = "audit"
    BY DEF Idle
  <2>3. StoreCall(p) /\ UNCHANGED recorded
    BY <2>1 DEF StoreCall, CreateAPIKey, linkVars
  <2> HIDE DEF r
  <2> QED
    BY <2>1, <2>2, <2>3, AuditingLabelled
<1>2. ASSUME NEW pc \in {"apikey.UpdateLabel", "apikey.Delete"}, KeyFound(p, pc)
      PROVE  Labelled(p)
  <2>1. PICK b \in Bearers :
            /\ Arrive(p, [Idle EXCEPT !.pc = pc, !.keyID = LookupAPIKey(b)])
            /\ UNCHANGED <<storeVars, fanOutVars>>
    BY <1>2 DEF KeyFound
  <2> DEFINE r == [Idle EXCEPT !.pc = pc, !.keyID = LookupAPIKey(b)]
  <2>2. r.pc \in Plain /\ Arrive(p, r)
    BY <2>1 DEF Idle
  <2> HIDE DEF r
  <2> QED
    BY <2>1, <2>2, PlainLabelled
<1>3. CASE KeyRefused(p) \/ KeyGone(p)
  BY <1>3, PlainLabelled DEF KeyRefused, KeyGone, Idle
<1>4. ASSUME NEW pc \in {"apikey.UpdateLabel", "apikey.Delete"},
             NEW act \in {"api_key.label_updated", "api_key.revoke"},
             Proceed(p, pc, [Idle EXCEPT !.pc = "audit",
                               !.entry = Entry(KeyActor(req[p].keyID), act, req[p].keyID)]),
             StoreCall(p) \/ UNCHANGED storeVars, UNCHANGED <<recorded, fanOutVars>>
      PROVE  Labelled(p)
  <2> DEFINE e == Entry(KeyActor(req[p].keyID), act, req[p].keyID)
             r == [Idle EXCEPT !.pc = "audit", !.entry = e]
  <2>1. r.pc = "audit"
    BY DEF Idle
  <2>2. Proceed(p, pc, r)
    BY <1>4
  <2> HIDE DEF r
  <2> QED
    BY <1>4, <2>1, <2>2, AuditingLabelled
<1>5. CASE UpdateKeyLabel(p)
  BY <1>4, <1>5 DEF UpdateKeyLabel, storeVars
<1>6. CASE RevokeKey(p)
  BY <1>4, <1>6 DEF RevokeKey, StoreCall, DeleteAPIKey
<1> QED
  BY <1>1, <1>2, <1>3, <1>5, <1>6 DEF APIKeyRequest

LEMMA HandleLabelled ==
    ASSUME TypeOK, NEW p \in Procs, Handle(p)
    PROVE  Labelled(p)
BY AuditLabelled, ShortenLabelled, RedirectLabelled, PatchLabelled, RotateLabelled,
   DeleteLabelled, KeyLabelled DEF Handle

\* A step of the service that is no handler's leaves every goroutine where
\* it is, and can only take rows away.
LEMMA OtherStep ==
    ASSUME [Next]_vars, ~(\E p \in Procs : Handle(p))
    PROVE  /\ UNCHANGED <<req, minted, recorded, fanOutVars, events, keyVars, auditVars>>
           /\ cleanupExpired \/ UNCHANGED storeVars
<1>1. CASE Cleanup
  BY <1>1 DEF Cleanup, cleanupExpired
<1>2. CASE Tick
  BY <1>2 DEF Tick, storeVars, keyVars, auditVars
<1>3. CASE UNCHANGED vars
  BY <1>3 DEF vars, storeVars, keyVars, auditVars, fanOutVars
<1> QED
  BY <1>1, <1>2, <1>3 DEF Next

----------------------------------------------------------------------------
(* Webhook URLs and their secrets.  WebhookPaired is not inductive: it     *)
(* says nothing of the payloads on their way to Update.                    *)

\* A payload that keeps a paired row paired: it leaves the URL alone, or
\* removes it, or brings a secret along.
FieldsPaired(f) ==
    f.WebhookURL \in {Keep, NoURL} \/ f.WebhookSecret \in Nat \ {0}

PayloadsPaired ==
    \A p \in Procs : req[p].pc = "patch.Update" => FieldsPaired(req[p].fields)

RowPaired(m) == m.WebhookURL = NoURL <=> m.WebhookSecret = 0

LEMMA PatchFieldsPaired ==
    ASSUME NEW b \in PatchBody, NEW m \in URLMapping, NEW s \in Nat \ {0}, PatchAccepted(b, m)
    PROVE  FieldsPaired(PatchFields(b, m, s))
BY StoreAssumption DEF FieldsPaired, PatchFields, DrawsSecret, PatchAccepted, PatchBody, URLMapping

LEMMA UpdatedPaired ==
    ASSUME NEW m \in URLMapping, NEW f \in UpdateFields, RowPaired(m), FieldsPaired(f)
    PROVE  RowPaired(Updated(m, f))
BY UpdatedType, StoreAssumption
   DEF RowPaired, FieldsPaired, Merge, MergeSecret, UpdateFields, URLMapping

\* Rows stay paired under every call of the store a handler makes.
LEMMA CallKeepsPairs ==
    ASSUME TypeOK, WebhookPaired, PayloadsPaired, NEW p \in Procs, Handle(p), StoreCall(p)
    PROVE  WebhookPaired'
<1> SUFFICES ASSUME NEW c \in Codes, Exists(c)'
             PROVE  RowPaired(urls'[c])
  BY DEF WebhookPaired, RowPaired
<1> USE DEF Exists
<1>1. /\ urls \in [Codes -> URLMapping \cup {NoRow}]
      /\ minted \in Nat
      /\ req[p] \in Request
  BY DEF TypeOK, StoreTypeOK, RequestsTypeOK
<1>2. Exists(c) => urls[c] \in URLMapping /\ RowPaired(urls[c])
  BY <1>1 DEF WebhookPaired, RowPaired
<1>3. ASSUME NEW b \in LinkBodies, Set(req[p].code, NewMapping(b, req[p].keyID))
      PROVE  RowPaired(urls'[c])
  <2>1. RowPaired(NewMapping(b, req[p].keyID))
    BY <1>1 DEF NewMapping, RowPaired
  <2> QED
    BY <1>1, <1>2, <1>3, <2>1 DEF Set
<1>4. CASE Delete(req[p].code)
  BY <1>1, <1>2, <1>4 DEF Delete
<1>5. CASE RotateToken(req[p].code, minted + 1)
  BY <1>1, <1>2, <1>5 DEF RotateToken, RowPaired, URLMapping
<1>6. CASE req[p].pc = "patch.Update" /\ Update(req[p].code, req[p].fields)
  <2>1. req[p].fields \in UpdateFields /\ FieldsPaired(req[p].fields)
    BY <1>1, <1>6 DEF Request, Locals, PayloadsPaired
  <2> QED
    BY <1>1, <1>2, <1>6, <2>1, UpdatedPaired DEF Update
<1>7. CASE RecordClick(req[p].code, req[p].at)
  BY <1>1, <1>2, <1>7 DEF RecordClick, RowPaired, URLMapping
<1>8. CASE CreateAPIKey(minted + 1)
  BY <1>2, <1>8 DEF CreateAPIKey, linkVars
<1>9. CASE DeleteAPIKey(req[p].keyID)
  BY <1>1, <1>2, <1>9 DEF DeleteAPIKey, RowPaired, URLMapping
<1>10. CASE req[p].pc = "audit" /\ LogAudit(req[p].entry)
  BY <1>2, <1>10 DEF LogAudit, linkVars
<1> QED
  BY <1>3, <1>4, <1>5, <1>6, <1>7, <1>8, <1>9, <1>10 DEF StoreCall

\* A payload is prepared paired and does not change until it is applied.
LEMMA PayloadsStayPaired ==
    ASSUME TypeOK, PayloadsPaired, NEW p \in Procs, Handle(p)
    PROVE  PayloadsPaired'
<1> SUFFICES ASSUME NEW q \in Procs, req'[q].pc = "patch.Update"
             PROVE  FieldsPaired(req'[q].fields)
  BY DEF PayloadsPaired
<1>1. Arrivals(p)
  BY HandleLabelled DEF Labelled
<1>2. CASE q # p
  BY <1>1, <1>2 DEF Arrivals, PayloadsPaired
<1>3. CASE q = p
  <2>1. PatchPrepare(p)
    BY <1>1, <1>3 DEF Arrivals
  <2>2. PICK b \in PatchBodies :
            /\ Proceed(p, "patch.authorize",
                 [req[p] EXCEPT !.pc = "patch.Update",
                                !.fields = PatchFields(b, req[p].snap, minted + 1)])
            /\ PatchAccepted(b, req[p].snap)
    BY <2>1 DEF PatchPrepare
  <2>3. /\ req[p] \in Request /\ req[p].pc = "patch.authorize" /\ minted + 1 \in Nat \ {0}
        /\ req'[p] = [req[p] EXCEPT !.pc = "patch.Update",
                                    !.fields = PatchFields(b, req[p].snap, minted + 1)]
    BY <2>2 DEF Proceed, TypeOK, RequestsTypeOK
  <2>4. req[p].snap \in URLMapping /\ req'[p].fields = PatchFields(b, req[p].snap, minted + 1)
    BY <2>3 DEF Request, Locals, NoSnapYet, NoRowYet
  <2> QED
    BY <1>3, <2>2, <2>3, <2>4, PatchFieldsPaired, PatchAssumption
<1> QED
  BY <1>2, <1>3

\* A webhook URL and its secret come and go as a pair, however PATCHes and
\* rotations of the same row interleave.
THEOREM WebhooksPaired == Spec => []WebhookPaired
<1> DEFINE Inv == WebhookPaired /\ PayloadsPaired
<1>1. Init => Inv
  BY DEF Init, NewMemoryStore, RequestsInit, Idle, WebhookPaired, PayloadsPaired, Exists
<1>2. TypeOK /\ Inv /\ [Next]_vars => Inv'
  <2> SUFFICES ASSUME TypeOK, Inv, [Next]_vars PROVE Inv'
    OBVIOUS
  <2>1. ASSUME NEW p \in Procs, Handle(p) PROVE Inv'
    <3>1. CASE StoreCall(p)
      BY <2>1, <3>1, CallKeepsPairs, PayloadsStayPaired
    <3>2. CASE UNCHANGED storeVars
      BY <2>1, <3>2, PayloadsStayPaired DEF storeVars, WebhookPaired, Exists
    <3> QED
      BY <2>1, <3>1, <3>2, HandleLabelled DEF Labelled
  <2>2. CASE ~(\E p \in Procs : Handle(p))
    <3>1. /\ UNCHANGED req
          /\ \A c \in Codes : urls'[c] # NoRow => urls[c] = urls'[c]
      BY <2>2, OtherStep DEF cleanupExpired, storeVars
    <3> QED
      BY <3>1 DEF PayloadsPaired, WebhookPaired, Exists
  <2> QED
    BY <2>1, <2>2
<1> QED
  BY <1>1, <1>2, TypeCorrect, PTL DEF Spec

----------------------------------------------------------------------------
(* The fan-out. *)

\* The redirects that recorded a click and have yet to publish it, and those
\* that published it and have yet to enqueue its webhook.
Publishing(c) == {p \in Procs : req[p].pc = "redirect.Publish" /\ req[p].code = c}
Enqueuing(c)  == {p \in Procs : req[p].pc = "redirect.Enqueue" /\ req[p].code = c}

\* FanOutFollowsRecord with the enqueues still to come counted as done.
FanOutCovered ==
    \A c \in Codes :
        /\ recorded[c] = published[c] + Cardinality(Publishing(c))
        /\ enqueued[c] + Cardinality(Enqueuing(c)) <= published[c]

LEMMA FanOutNumbers ==
    ASSUME TypeOK, NEW c \in Codes
    PROVE  /\ recorded[c] \in Nat /\ published[c] \in Nat /\ enqueued[c] \in Nat
           /\ IsFiniteSet(Publishing(c)) /\ Cardinality(Publishing(c)) \in Nat
           /\ IsFiniteSet(Enqueuing(c)) /\ Cardinality(Enqueuing(c)) \in Nat
<1>1. Publishing(c) \in SUBSET Procs /\ Enqueuing(c) \in SUBSET Procs
  BY DEF Publishing, Enqueuing
<1> QED
  BY <1>1, PassedSize DEF TypeOK, StoreTypeOK, RequestsTypeOK

LEMMA FanOutStep ==
    ASSUME TypeOK, TypeOK', FanOutCovered, NEW p \in Procs, Handle(p)
    PROVE  FanOutCovered'
<1> DEFINE d == req[p].code
<1>0. /\ Arrivals(p) /\ FanOutFrame(p)
      /\ req[p] \in Request /\ req[p] \in Locals
      /\ req[p].pc \notin NoRowYet => d \in Codes
  BY HandleLabelled DEF Labelled, TypeOK, RequestsTypeOK, Request
<1> SUFFICES ASSUME NEW c \in Codes
             PROVE  /\ recorded'[c] = published'[c] + Cardinality(Publishing(c)')
                    /\ enqueued'[c] + Cardinality(Enqueuing(c)') <= published'[c]
  BY DEF FanOutCovered
<1>1. /\ recorded[c] = published[c] + Cardinality(Publishing(c))
      /\ enqueued[c] + Cardinality(Enqueuing(c)) <= published[c]
  BY DEF FanOutCovered
<1>7. /\ recorded[c] \in Nat /\ published[c] \in Nat /\ enqueued[c] \in Nat
      /\ IsFiniteSet(Publishing(c)) /\ Cardinality(Publishing(c)) \in Nat
      /\ IsFiniteSet(Enqueuing(c)) /\ Cardinality(Enqueuing(c)) \in Nat
  BY FanOutNumbers
<1>6. \A q \in Procs : q # p => req'[q] = req[q]
  BY <1>0 DEF Arrivals
<1>2. CASE RedirectRecordClick(p)
  <2>1. /\ req[p].pc = "redirect.RecordClick"
        /\ req'[p] = [req[p] EXCEPT !.pc = "redirect.Publish"]
        /\ recorded' = [recorded EXCEPT ![d] = @ + 1]
        /\ UNCHANGED <<published, enqueued>>
    BY <1>2 DEF RedirectRecordClick, Proceed, RecordClick, fanOutVars, TypeOK, RequestsTypeOK
  <2>2. req'[p].pc = "redirect.Publish" /\ req'[p].code = d
    BY <1>0, <2>1 DEF Locals
  <2>3. /\ c = d => Publishing(c)' = Publishing(c) \cup {p}
        /\ c # d => Publishing(c)' = Publishing(c)
        /\ p \notin Publishing(c)
        /\ Enqueuing(c)' = Enqueuing(c)
    BY <1>6, <2>1, <2>2 DEF Publishing, Enqueuing
  <2>4. c = d => Cardinality(Publishing(c)') = Cardinality(Publishing(c)) + 1
    BY <1>7, <2>3, FS_AddElement
  <2>5. /\ recorded'[c] = IF c = d THEN recorded[c] + 1 ELSE recorded[c]
        /\ published'[c] = published[c] /\ enqueued'[c] = enqueued[c]
    BY <2>1 DEF TypeOK, StoreTypeOK
  <2>8. CASE c = d
    <3>1. Enqueuing(c)' = Enqueuing(c)
      BY <2>3
    <3> QED
      BY <1>7, <2>8, <1>1, <3>1, <2>4, <2>5
  <2>9. CASE c # d
    BY <1>7, <2>9, <1>1, <2>3, <2>4, <2>5
  <2> QED
    BY <2>8, <2>9
<1>3. CASE RedirectPublish(p)
  <2>1. /\ req[p].pc = "redirect.Publish"
        /\ req'[p] = IF req[p].snap.WebhookURL = NoURL
                     THEN Idle ELSE [req[p] EXCEPT !.pc = "redirect.Enqueue"]
        /\ published' = [published EXCEPT ![d] = @ + 1]
        /\ UNCHANGED <<recorded, enqueued>>
    BY <1>3 DEF RedirectPublish, Proceed, storeVars, TypeOK, RequestsTypeOK
  <2>2. \/ req'[p].pc = "idle"
        \/ req'[p].pc = "redirect.Enqueue" /\ req'[p].code = d
    BY <1>0, <2>1 DEF Locals, Idle
  <2>3. /\ c = d => Publishing(c)' = Publishing(c) \ {p} /\ p \in Publishing(c)
        /\ c # d => Publishing(c)' = Publishing(c)
        /\ p \notin Enqueuing(c)
    BY <1>6, <2>1, <2>2 DEF Publishing, Enqueuing
  <2>6. Enqueuing(c)' = Enqueuing(c) \/ (c = d /\ Enqueuing(c)' = Enqueuing(c) \cup {p})
    <3>1. CASE req'[p].pc = "idle"
      BY <1>6, <2>1, <3>1 DEF Enqueuing
    <3>2. CASE req'[p].pc = "redirect.Enqueue" /\ req'[p].code = d
      BY <1>6, <2>1, <3>2 DEF Enqueuing
    <3> QED
      BY <2>2, <3>1, <3>2
  <2>4. c = d => Cardinality(Publishing(c)') = Cardinality(Publishing(c)) - 1
    BY <1>7, <2>3, FS_RemoveElement
  <2>7. \/ Cardinality(Enqueuing(c)') = Cardinality(Enqueuing(c))
        \/ Cardinality(Enqueuing(c)') = Cardinality(Enqueuing(c)) + 1
    BY <1>7, <2>3, <2>6, FS_AddElement
  <2>5. /\ published'[c] = IF c = d THEN published[c] + 1 ELSE published[c]
        /\ recorded'[c] = recorded[c] /\ enqueued'[c] = enqueued[c]
    BY <2>1 DEF TypeOK, RequestsTypeOK
  <2>8. CASE c = d
    <3>1. published'[c] = published[c] + 1
      BY <2>5, <2>8
    <3>2. recorded'[c] = published'[c] + Cardinality(Publishing(c)')
      BY <1>7, <2>8, <1>1, <2>4, <2>5, <3>1
    <3>3. enqueued'[c] + Cardinality(Enqueuing(c)') <= published'[c]
      BY <1>7, <1>1, <2>5, <2>7, <3>1
    <3> QED
      BY <3>2, <3>3
  <2>9. CASE c # d
    BY <1>7, <2>9, <1>1, <2>3, <2>4, <2>5, <2>6
  <2> QED
    BY <2>8, <2>9
<1>4. CASE RedirectEnqueue(p)
  <2>1. /\ req[p].pc = "redirect.Enqueue" /\ req'[p].pc = "idle"
        /\ enqueued' = [enqueued EXCEPT ![d] = @ + 1]
        /\ UNCHANGED <<recorded, published>>
    BY <1>4 DEF RedirectEnqueue, Proceed, storeVars, TypeOK, RequestsTypeOK, Idle
  <2>2. /\ c = d => Enqueuing(c)' = Enqueuing(c) \ {p} /\ p \in Enqueuing(c)
        /\ c # d => Enqueuing(c)' = Enqueuing(c)
        /\ Publishing(c)' = Publishing(c)
    BY <1>6, <2>1 DEF Publishing, Enqueuing
  <2>3. c = d => Cardinality(Enqueuing(c) \ {p}) = Cardinality(Enqueuing(c)) - 1
    BY <1>7, <2>2, FS_RemoveElement
  <2>4. /\ enqueued'[c] = IF c = d THEN enqueued[c] + 1 ELSE enqueued[c]
        /\ published'[c] = published[c] /\ recorded'[c] = recorded[c]
    BY <2>1 DEF TypeOK, RequestsTypeOK
  <2>8. CASE c = d
    BY <1>7, <2>8, <1>1, <2>2, <2>3, <2>4
  <2>9. CASE c # d
    BY <1>7, <2>9, <1>1, <2>2, <2>3, <2>4
  <2> QED
    BY <2>8, <2>9
<1>5. CASE UNCHANGED <<recorded, published, enqueued>>
           /\ ~RedirectRecordClick(p) /\ ~RedirectPublish(p) /\ ~RedirectEnqueue(p)
  <2>1. Publishing(c)' = Publishing(c) /\ Enqueuing(c)' = Enqueuing(c)
    BY <1>0, <1>5 DEF Arrivals, Publishing, Enqueuing
  <2> QED
    BY <1>1, <1>5, <2>1
<1> QED
  BY <1>0, <1>2, <1>3, <1>4, <1>5 DEF FanOutFrame

\* Subscribers see each recorded click once and no other, a webhook is
\* enqueued for no click that was not published: at every moment the
\* difference is exactly the redirects between two of their steps.
THEOREM FanOutInOrder == Spec => []FanOutFollowsRecord
<1>1. Init => FanOutCovered
  <2> SUFFICES ASSUME Init, NEW c \in Codes
               PROVE  /\ recorded[c] = published[c] + Cardinality(Publishing(c))
                      /\ enqueued[c] + Cardinality(Enqueuing(c)) <= published[c]
    BY DEF FanOutCovered
  <2>1. Publishing(c) = {} /\ Enqueuing(c) = {}
    BY DEF Init, RequestsInit, Idle, Publishing, Enqueuing
  <2>2. recorded[c] = 0 /\ published[c] = 0 /\ enqueued[c] = 0
    BY DEF Init, RequestsInit, NewMemoryStore
  <2> QED
    BY <2>1, <2>2, FS_EmptySet
<1>2. TypeOK /\ TypeOK' /\ FanOutCovered /\ [Next]_vars => FanOutCovered'
  <2> SUFFICES ASSUME TypeOK, TypeOK', FanOutCovered, [Next]_vars PROVE FanOutCovered'
    OBVIOUS
  <2>1. CASE \E p \in Procs : Handle(p)
    BY <2>1, FanOutStep
  <2>2. CASE ~(\E p \in Procs : Handle(p))
    BY <2>2, OtherStep DEF FanOutCovered, Publishing, Enqueuing, fanOutVars
  <2> QED
    BY <2>1, <2>2
<1>3. TypeOK /\ FanOutCovered => FanOutFollowsRecord
  <2> SUFFICES ASSUME TypeOK, FanOutCovered, NEW c \in Codes
               PROVE  /\ recorded[c] = published[c] + Cardinality(Publishing(c))
                      /\ enqueued[c] <= published[c]
    BY DEF FanOutFollowsRecord, Publishing
  <2> QED
    BY FanOutNumbers DEF FanOutCovered
<1> QED
  BY <1>1, <1>2, <1>3, TypeCorrect, PTL DEF Spec

----------------------------------------------------------------------------
(* The audit log as a change history. *)

PatchLabels  == {"patch.authorize", "patch.Update", "patch.Get", "patch.resolveActor"}
DeleteLabels == {"delete.authorize", "delete.Delete", "delete.resolveActor"}

\* A handler takes a step only from its own labels, or to begin.
LEMMA StepsFrom ==
    ASSUME NEW p \in Procs, Handle(p)
    PROVE  /\ req[p].pc = "audit" => Audit(p)
           /\ req[p].pc \in PatchLabels => Patch(p) /\ "patch" \in Endpoints
           /\ req[p].pc \in DeleteLabels => DeleteURL(p)
<1>0. /\ \A r : Arrive(p, r) => req[p].pc = "idle"
      /\ \A pc, r : Proceed(p, pc, r) => req[p].pc = pc
  BY DEF Arrive, Proceed, Idle
<1>1. Audit(p) => req[p].pc = "audit"
  BY DEF Audit, Proceed
<1>2. Shorten(p) => req[p].pc \in {"idle", "shorten.Exists", "shorten.Set"}
  BY <1>0 DEF Shorten, ShortenDetectAPIKey, ShortenExists, ShortenRefused, ShortenSet,
         ShortenConflict
<1>3. Redirect(p) => req[p].pc \in {"idle", "redirect.Check", "redirect.RecordClick",
                                    "redirect.Publish", "redirect.Enqueue"}
  BY <1>0 DEF Redirect, RedirectGet, RedirectRefused, RedirectUnavailable, RedirectStamp,
         RedirectRecordClick, RedirectNotRecorded, RedirectPublish, RedirectEnqueue
<1>4. Patch(p) => req[p].pc \in {"idle"} \cup PatchLabels
  BY <1>0 DEF Patch, PatchGet, PatchMissing, PatchRefused, PatchPrepare, PatchUpdate, PatchGone,
         PatchReread, PatchRereadFails, PatchResolveActor, PatchLabels
<1>5. Rotate(p) => req[p].pc \in {"idle", "rotate.RotateToken"}
  BY <1>0 DEF Rotate, RotateGet, RotateRefused, RotateToken_, RotateGone
<1>6. DeleteURL(p) => req[p].pc \in {"idle"} \cup DeleteLabels
  BY <1>0 DEF DeleteURL, DeleteGet, DeleteMissing, DeleteUnauthorized, DeleteAuthorized,
         DeleteDelete, DeleteGone, DeleteResolveActor, DeleteLabels
<1>7. APIKeyRequest(p) => req[p].pc \in {"idle", "apikey.UpdateLabel", "apikey.Delete"}
  BY <1>0 DEF APIKeyRequest, CreateKey, KeyFound, KeyRefused, UpdateKeyLabel, RevokeKey,
         KeyGone
<1> QED
  BY <1>1, <1>2, <1>3, <1>4, <1>5, <1>6, <1>7 DEF Handle, PatchLabels, DeleteLabels

\* The one way to end a changed request without an audit event is the PATCH
\* that cannot read its row back.
LEMMA AuditGap ==
    ASSUME TypeOK, NEW p \in Procs, Handle(p), Unaudited(p), req'[p].pc = "idle"
    PROVE  nextAuditID' = nextAuditID + 1 \/ PatchRereadFails(p)
<1>0. /\ \A r : Arrive(p, r) => req[p].pc = "idle"
      /\ \A pc, r : Proceed(p, pc, r) => req[p].pc = pc
  BY DEF Arrive, Proceed, Idle
<1>1. CASE req[p].pc = "audit"
  BY <1>1, StepsFrom DEF Audit, LogAudit
<1>2. CASE req[p].pc = "delete.resolveActor"
  <2>1. DeleteURL(p)
    BY <1>2, StepsFrom DEF DeleteLabels
  <2>2. DeleteResolveActor(p)
    BY <1>0, <1>2, <2>1 DEF DeleteURL, DeleteGet, DeleteMissing, DeleteUnauthorized,
       DeleteAuthorized, DeleteDelete, DeleteGone
  <2>3. PICK e : req' = [req EXCEPT ![p] = [Idle EXCEPT !.pc = "audit", !.entry = e]]
    BY <2>2 DEF DeleteResolveActor, Proceed
  <2>4. req'[p].pc = "audit"
    BY <2>3 DEF Idle, TypeOK, RequestsTypeOK
  <2> QED
    BY <2>4
<1>3. CASE req[p].pc = "patch.resolveActor"
  <2>1. Patch(p)
    BY <1>3, StepsFrom DEF PatchLabels
  <2>2. PatchResolveActor(p)
    BY <1>0, <1>3, <2>1 DEF Patch, PatchGet, PatchMissing, PatchRefused, PatchPrepare,
       PatchUpdate, PatchGone, PatchReread, PatchRereadFails
  <2>3. PICK e : req' = [req EXCEPT ![p] = [Idle EXCEPT !.pc = "audit", !.entry = e]]
    BY <2>2 DEF PatchResolveActor, Proceed
  <2>4. req'[p].pc = "audit"
    BY <2>3 DEF Idle, TypeOK, RequestsTypeOK
  <2> QED
    BY <2>4
<1>4. CASE req[p].pc = "patch.Get"
  <2>1. Patch(p)
    BY <1>4, StepsFrom DEF PatchLabels
  <2>2. PatchReread(p) \/ PatchRereadFails(p)
    BY <1>0, <1>4, <2>1 DEF Patch, PatchGet, PatchMissing, PatchRefused, PatchPrepare,
       PatchUpdate, PatchGone, PatchResolveActor
  <2>3. CASE PatchReread(p)
    <3>1. req' = [req EXCEPT ![p] = [req[p] EXCEPT !.pc = "patch.resolveActor"]]
      BY <2>3 DEF PatchReread, Proceed
    <3>2. req'[p].pc = "patch.resolveActor"
      BY <3>1 DEF TypeOK, RequestsTypeOK, Request, Locals
    <3> QED
      BY <3>2
  <2> QED
    BY <2>2, <2>3
<1> QED
  BY <1>1, <1>2, <1>3, <1>4 DEF Unaudited

\* Seen by every request, whoever moves.
LEMMA AuditGapStep ==
    ASSUME TypeOK, [Next]_vars, NEW q \in Procs, Unaudited(q), req'[q].pc = "idle"
    PROVE  nextAuditID' = nextAuditID + 1 \/ (PatchRereadFails(q) /\ Handle(q))
<1>0. req[q].pc # "idle"
  BY DEF Unaudited
<1>1. ASSUME NEW p \in Procs, Handle(p)
      PROVE  nextAuditID' = nextAuditID + 1 \/ (PatchRereadFails(q) /\ Handle(q))
  <2>1. q # p => req'[q] = req[q]
    BY <1>1, HandleLabelled DEF Labelled, Arrivals
  <2> QED
    BY <1>0, <1>1, <2>1, AuditGap
<1>2. CASE ~(\E p \in Procs : Handle(p))
  BY <1>0, <1>2, OtherStep
<1> QED
  BY <1>1, <1>2

\* patch.go:271: the re-read of PATCH is the only way past the audit.
THEOREM OnlyPatchGoesUnaudited == Spec => AuditedOrUnread
<1>1. TypeOK /\ [Next]_vars =>
        [\A p \in Procs :
            Unaudited(p) /\ req'[p].pc = "idle" =>
                nextAuditID' = nextAuditID + 1 \/ (req[p].pc = "patch.Get" /\ ~GetOK(req[p].code))]_vars
  BY AuditGapStep DEF PatchRereadFails, Proceed
<1> QED
  BY <1>1, TypeCorrect, PTL DEF Spec, AuditedOrUnread

----------------------------------------------------------------------------
(* Who made a change.  The credential that authorised it is looked up       *)
(* again when the change is done; in between keys are created and revoked.  *)

\* From the authorisation to the look-up of the actor.
Authorised == {"patch.Update", "patch.Get", "patch.resolveActor",
               "delete.Delete", "delete.resolveActor"}

\* A request past its authorisation has the owner token, or a token drawn
\* before now that belongs to the key its row was bound to, as long as that
\* key lives, and to no other key.
Entitled(p) ==
    \/ authorizeOwner(req[p].bearer, req[p].snap.OwnerTokenHash)
    \/ /\ req[p].bearer \in 1..minted
       /\ req[p].snap.APIKeyID \in 1..nextKeyID
       /\ \A k \in apiKeys : k.TokenHash = req[p].bearer <=> k.ID = req[p].snap.APIKeyID

\* Keys have tokens of their own, drawn before now.
KeyTokensDrawn ==
    /\ \A k \in apiKeys : k.TokenHash \in 1..minted
    /\ \A k, l \in apiKeys : k.TokenHash = l.TokenHash => k = l

ActorInv ==
    /\ KeyIDsGiven
    /\ KeyTokensDrawn
    /\ \A p \in Procs : req[p].pc \in Authorised => Entitled(p)

\* What a step does to the keys and the tokens drawn.
KeysMove ==
    \/ /\ apiKeys' = apiKeys \cup {[ID |-> nextKeyID + 1, TokenHash |-> minted + 1]}
       /\ nextKeyID' = nextKeyID + 1
       /\ minted' = minted + 1
    \/ /\ apiKeys' \subseteq apiKeys
       /\ nextKeyID' = nextKeyID
       /\ minted' \in {minted, minted + 1, minted + 2}

LEMMA LookupFinds ==
    ASSUME NEW h
    PROVE  \/ \E k \in apiKeys : k.TokenHash = h /\ LookupAPIKey(h) = k.ID
           \/ LookupAPIKey(h) = 0 /\ \A k \in apiKeys : k.TokenHash # h
BY DEF LookupAPIKey

LEMMA HandlerMovesKeys ==
    ASSUME TypeOK, NEW p \in Procs, Handle(p)
    PROVE  KeysMove
<1> USE DEF KeysMove
<1>1. CASE Audit(p)
  BY <1>1 DEF Audit, LogAudit, keyVars
<1>2. CASE Shorten(p)
  BY <1>2 DEF Shorten, ShortenDetectAPIKey, ShortenExists, ShortenRefused, ShortenSet,
     ShortenConflict, Set, Mint, storeVars, keyVars
<1>3. CASE Redirect(p)
  BY <1>3 DEF Redirect, RedirectGet, RedirectRefused, RedirectUnavailable, RedirectStamp,
     RedirectRecordClick, RedirectNotRecorded, RedirectPublish, RedirectEnqueue, RecordClick,
     storeVars, keyVars
<1>4. CASE Patch(p)
  BY <1>4 DEF Patch, PatchGet, PatchMissing, PatchRefused, PatchPrepare, PatchUpdate, PatchGone,
     PatchReread, PatchRereadFails, PatchResolveActor, Update, Mint, storeVars, keyVars
<1>5. CASE Rotate(p)
  BY <1>5 DEF Rotate, RotateGet, RotateRefused, RotateToken_, RotateGone, RotateToken, Mint,
     storeVars, keyVars
<1>6. CASE DeleteURL(p)
  BY <1>6 DEF DeleteURL, DeleteGet, DeleteMissing, DeleteUnauthorized, DeleteAuthorized,
     DeleteDelete, DeleteGone, DeleteResolveActor, Delete, storeVars, keyVars
<1>7. CASE APIKeyRequest(p)
  BY <1>7 DEF APIKeyRequest, CreateKey, KeyFound, KeyRefused, UpdateKeyLabel, RevokeKey,
     KeyGone, CreateAPIKey, DeleteAPIKey, Mint, storeVars, keyVars
<1> QED
  BY <1>1, <1>2, <1>3, <1>4, <1>5, <1>6, <1>7 DEF Handle

\* Whatever happens to the keys, they keep IDs and tokens of their own.
LEMMA KeysStayDistinct ==
    ASSUME nextKeyID \in Nat, minted \in Nat, KeyIDsGiven, KeyTokensDrawn, KeysMove
    PROVE  KeyIDsGiven' /\ KeyTokensDrawn'
BY DEF KeysMove, KeyIDsGiven, KeyTokensDrawn

\* ... and a request that does not move stays entitled: a new key has a new
\* token and a new ID, and an old one only goes away.
LEMMA EntitledStays ==
    ASSUME TypeOK, KeysMove, NEW p \in Procs, Entitled(p),
           req'[p].bearer = req[p].bearer, req'[p].snap = req[p].snap
    PROVE  Entitled(p)'
<1> DEFINE h == req[p].bearer
           id == req[p].snap.APIKeyID
<1>1. nextKeyID \in Nat /\ minted \in Nat
  BY DEF TypeOK, StoreTypeOK, RequestsTypeOK
<1>2. CASE authorizeOwner(h, req[p].snap.OwnerTokenHash)
  BY <1>2 DEF Entitled, authorizeOwner
<1>3. CASE /\ h \in 1..minted /\ id \in 1..nextKeyID
           /\ \A k \in apiKeys : k.TokenHash = h <=> k.ID = id
  <2>1. h \in 1..minted' /\ id \in 1..nextKeyID'
    BY <1>1, <1>3 DEF KeysMove
  <2>2. \A k \in apiKeys' : k.TokenHash = h <=> k.ID = id
    BY <1>1, <1>3 DEF KeysMove
  <2> QED
    BY <2>1, <2>2 DEF Entitled
<1> QED
  BY <1>2, <1>3 DEF Entitled

\* Passing authorizeAccess entitles.
LEMMA AccessEntitles ==
    ASSUME TypeOK, KeyIDsGiven, KeyTokensDrawn, NEW p \in Procs,
           authorizeAccess(req[p].bearer, req[p].snap)
    PROVE  Entitled(p)
<1> DEFINE h == req[p].bearer
           id == req[p].snap.APIKeyID
<1>1. CASE authorizeOwner(h, req[p].snap.OwnerTokenHash)
  BY <1>1 DEF Entitled
<1>2. CASE h # 0 /\ id # 0 /\ LookupAPIKey(h) = id
  <2>1. PICK k \in apiKeys : k.TokenHash = h /\ k.ID = id
    BY <1>2, LookupFinds
  <2>2. h \in 1..minted /\ id \in 1..nextKeyID
    BY <2>1 DEF KeyIDsGiven, KeyTokensDrawn
  <2>3. \A l \in apiKeys : l.TokenHash = h <=> l.ID = id
    BY <2>1 DEF KeyIDsGiven, KeyTokensDrawn
  <2> QED
    BY <2>2, <2>3 DEF Entitled
<1> QED
  BY <1>1, <1>2 DEF authorizeAccess

\* An authorised request has just been let pass, or was so before the step
\* and has neither changed its bearer nor its snapshot.
LEMMA MoverEntitled ==
    ASSUME TypeOK, ActorInv, NEW p \in Procs, Handle(p), req'[p].pc \in Authorised
    PROVE  /\ req'[p].bearer = req[p].bearer /\ req'[p].snap = req[p].snap
           /\ Entitled(p)
<1>0. Arrivals(p) /\ req[p] \in Locals /\ req \in [Procs -> Request]
  BY HandleLabelled DEF Labelled, TypeOK, RequestsTypeOK, Request
<1>1. CASE PatchPrepare(p)
  <2>1. PICK f : /\ req' = [req EXCEPT ![p] = [req[p] EXCEPT !.pc = "patch.Update", !.fields = f]]
                 /\ authorizeAccess(req[p].bearer, req[p].snap)
    BY <1>1 DEF PatchPrepare, Proceed
  <2>2. req'[p].bearer = req[p].bearer /\ req'[p].snap = req[p].snap
    BY <1>0, <2>1 DEF Locals
  <2> QED
    BY <2>1, <2>2, AccessEntitles DEF ActorInv
<1>2. CASE DeleteAuthorized(p)
  <2>1. /\ req' = [req EXCEPT ![p] = [req[p] EXCEPT !.pc = "delete.Delete"]]
        /\ authorizeAccess(req[p].bearer, req[p].snap)
    BY <1>2 DEF DeleteAuthorized, Proceed
  <2>2. req'[p].bearer = req[p].bearer /\ req'[p].snap = req[p].snap
    BY <1>0, <2>1 DEF Locals
  <2> QED
    BY <2>1, <2>2, AccessEntitles DEF ActorInv
<1>3. CASE PatchUpdate(p) \/ PatchReread(p) \/ DeleteDelete(p)
  <2>1. req[p].pc \in Authorised
    BY <1>3 DEF PatchUpdate, PatchReread, DeleteDelete, Proceed, Authorised
  <2>2. req'[p].bearer = req[p].bearer /\ req'[p].snap = req[p].snap
    BY <1>0, <1>3 DEF PatchUpdate, PatchReread, DeleteDelete, Proceed, Locals
  <2> QED
    BY <2>1, <2>2 DEF ActorInv
<1> QED
  BY <1>0, <1>1, <1>2, <1>3 DEF Arrivals, Authorised

LEMMA ActorInvInit == Init => ActorInv
<1> SUFFICES ASSUME Init PROVE ActorInv
  OBVIOUS
<1>1. apiKeys = {} /\ \A p \in Procs : req[p].pc = "idle"
  BY DEF Init, NewMemoryStore, RequestsInit, Idle
<1> QED
  BY <1>1 DEF ActorInv, KeyIDsGiven, KeyTokensDrawn, Authorised

LEMMA ActorInvStep == TypeOK /\ ActorInv /\ [Next]_vars => ActorInv'
<1> SUFFICES ASSUME TypeOK, ActorInv, [Next]_vars PROVE ActorInv'
  OBVIOUS
<1>0. KeysMove
  <2>1. CASE ~(\E p \in Procs : Handle(p))
    BY <2>1, OtherStep DEF KeysMove, keyVars
  <2> QED
    BY <2>1, HandlerMovesKeys
<1>1. KeyIDsGiven' /\ KeyTokensDrawn'
  BY <1>0, KeysStayDistinct DEF ActorInv, TypeOK, StoreTypeOK, RequestsTypeOK
<1>2. ASSUME NEW q \in Procs, req'[q].pc \in Authorised PROVE Entitled(q)'
  <2>1. ASSUME NEW p \in Procs, Handle(p) PROVE Entitled(q)'
    <3>1. CASE q = p
      BY <1>0, <1>2, <2>1, <3>1, MoverEntitled, EntitledStays
    <3>2. CASE q # p
      <4>1. req'[q] = req[q]
        BY <2>1, <3>2, HandleLabelled DEF Labelled, Arrivals
      <4> QED
        BY <1>0, <1>2, <4>1, EntitledStays DEF ActorInv
    <3> QED
      BY <3>1, <3>2
  <2>2. CASE ~(\E p \in Procs : Handle(p))
    <3>1. req' = req
      BY <2>2, OtherStep
    <3> QED
      BY <1>0, <1>2, <3>1, EntitledStays DEF ActorInv
  <2> QED
    BY <2>1, <2>2
<1> QED
  BY <1>1, <1>2 DEF ActorInv

\* The look-up of one request's actor.
LEMMA ResolveCharges ==
    ASSUME TypeOK, ActorInv, NEW p \in Procs, Handle(p),
           req[p].pc \in {"patch.resolveActor", "delete.resolveActor"},
           req'[p].pc = "audit"
    PROVE  ChargedTo(p, req'[p].entry)
<1> DEFINE actor == resolveActor(req[p].bearer, req[p].snap)
           h  == req[p].bearer
           id == req[p].snap.APIKeyID
<1>1. PatchResolveActor(p) \/ DeleteResolveActor(p)
  <2>1. /\ \A r : Arrive(p, r) => req[p].pc = "idle"
        /\ \A pc, r : Proceed(p, pc, r) => req[p].pc = pc
    BY DEF Arrive, Proceed, Idle
  <2>2. CASE req[p].pc = "patch.resolveActor"
    <3>1. Patch(p)
      BY <2>2, StepsFrom DEF PatchLabels
    <3> QED
      BY <2>1, <2>2, <3>1 DEF Patch, PatchGet, PatchMissing, PatchRefused, PatchPrepare,
         PatchUpdate, PatchGone, PatchReread, PatchRereadFails
  <2>3. CASE req[p].pc = "delete.resolveActor"
    <3>1. DeleteURL(p)
      BY <2>3, StepsFrom DEF DeleteLabels
    <3> QED
      BY <2>1, <2>3, <3>1 DEF DeleteURL, DeleteGet, DeleteMissing, DeleteUnauthorized,
         DeleteAuthorized, DeleteDelete, DeleteGone
  <2> QED
    BY <2>2, <2>3
<1>2. PICK act, t : req'[p] = [Idle EXCEPT !.pc = "audit",
                        !.entry = Entry(resolveActor(req[p].bearer, req[p].snap), act, t)]
  <2>1. req \in [Procs -> Request]
    BY DEF TypeOK, RequestsTypeOK
  <2>2. CASE PatchResolveActor(p)
    BY <2>1, <2>2 DEF PatchResolveActor, Proceed
  <2>3. CASE DeleteResolveActor(p)
    BY <2>1, <2>3 DEF DeleteResolveActor, Proceed
  <2> QED
    BY <1>1, <2>2, <2>3
<1>3. req'[p].entry.ActorKind = actor.kind /\ req'[p].entry.ActorID = actor.id
  BY <1>2 DEF Idle, Entry
<1>4. Entitled(p)
  BY DEF ActorInv, Authorised
<1>5. CASE authorizeOwner(h, req[p].snap.OwnerTokenHash)
  BY <1>3, <1>5 DEF resolveActor, ChargedTo
<1>6. CASE ~authorizeOwner(h, req[p].snap.OwnerTokenHash)
  <2>1. /\ id \in 1..nextKeyID
        /\ \A k \in apiKeys : k.TokenHash = h <=> k.ID = id
    BY <1>4, <1>6 DEF Entitled
  <2>2. CASE \E k \in apiKeys : k.TokenHash = h /\ LookupAPIKey(h) = k.ID
    <3>1. LookupAPIKey(h) = id
      BY <2>1, <2>2
    <3>2. actor = [kind |-> "apikey", id |-> id]
      BY <1>6, <2>1, <3>1 DEF resolveActor
    <3> QED
      BY <1>3, <3>2 DEF ChargedTo
  <2>3. CASE LookupAPIKey(h) = 0 /\ \A k \in apiKeys : k.TokenHash # h
    <3>1. id \notin KeyIDs
      BY <2>1, <2>3 DEF KeyIDs
    <3>2. actor.kind = "anon"
      BY <1>6, <2>3 DEF resolveActor
    <3> QED
      BY <1>3, <2>1, <3>1, <3>2 DEF ChargedTo
  <2> QED
    BY <2>2, <2>3, LookupFinds
<1> QED
  BY <1>5, <1>6

\* A delete or a patch is logged under the credential that authorised it,
\* whatever keys come and go before the handler looks the key up again; it is
\* logged as anonymous only if the very key that authorised it is gone.
THEOREM ChangesHaveActors == Spec => ActorsAttributed
<1>1. TypeOK /\ ActorInv /\ [Next]_vars =>
        [\A p \in Procs :
            /\ req[p].pc \in {"patch.resolveActor", "delete.resolveActor"}
            /\ req'[p].pc = "audit"
            => ChargedTo(p, req'[p].entry)]_vars
  <2> SUFFICES ASSUME TypeOK, ActorInv, [Next]_vars, NEW q \in Procs,
                      req[q].pc \in {"patch.resolveActor", "delete.resolveActor"},
                      req'[q].pc = "audit"
               PROVE  ChargedTo(q, req'[q].entry)
    OBVIOUS
  <2>1. ASSUME NEW p \in Procs, Handle(p) PROVE ChargedTo(q, req'[q].entry)
    <3>1. q = p
      BY <2>1, HandleLabelled DEF Labelled, Arrivals
    <3> QED
      BY <2>1, <3>1, ResolveCharges
  <2>2. CASE ~(\E p \in Procs : Handle(p))
    BY <2>2, OtherStep
  <2> QED
    BY <2>1, <2>2
<1> QED
  BY <1>1, ActorInvInit, ActorInvStep, TypeCorrect, PTL DEF Spec, ActorsAttributed

----------------------------------------------------------------------------
(* The click count and the click log.  The cleanup goroutine deletes rows  *)
(* and leaves their logs behind, so LedgerAgrees is for links that do not  *)
(* expire; LogNeverShort is what is left of it for those that do.          *)

\* LedgerAgrees speaks of links; that a new one starts with an empty log is
\* due to codes without a link having none.
LedgerKept ==
    \A c \in Codes :
        Len(events[c]) =
            IF ~Exists(c) THEN 0
            ELSE IF urls[c].ClickCount > ClickCap THEN ClickCap ELSE urls[c].ClickCount

\* Clients ask for links without a lifetime and PATCH none in.
NoLifetimes ==
    /\ \A b \in LinkBodies : b.ExpirationMins = 0
    /\ \A b \in PatchBodies : b.ExpirationMins \in {Keep, 0}

NothingExpires ==
    /\ \A c \in Codes : Exists(c) => urls[c].ExpiresAt = 0
    /\ \A p \in Procs : req[p].pc = "patch.Update" => req[p].fields.ExpiresAt \in {Keep, 0}

LEMMA CallKeepsForever ==
    ASSUME NoLifetimes, TypeOK, NothingExpires, NEW p \in Procs, Handle(p), StoreCall(p)
    PROVE  \A c \in Codes : Exists(c)' => urls'[c].ExpiresAt = 0
<1> SUFFICES ASSUME NEW c \in Codes, Exists(c)'
             PROVE  urls'[c].ExpiresAt = 0
  OBVIOUS
<1> USE DEF Exists
<1>1. /\ urls \in [Codes -> URLMapping \cup {NoRow}]
      /\ req[p] \in Request
  BY DEF TypeOK, StoreTypeOK, RequestsTypeOK
<1>2. Exists(c) => urls[c] \in URLMapping /\ urls[c].ExpiresAt = 0
  BY <1>1 DEF NothingExpires
<1>3. ASSUME NEW b \in LinkBodies, Set(req[p].code, NewMapping(b, req[p].keyID))
      PROVE  urls'[c].ExpiresAt = 0
  <2>1. NewMapping(b, req[p].keyID).ExpiresAt = 0
    BY DEF NewMapping, NoLifetimes
  <2> QED
    BY <1>1, <1>2, <1>3, <2>1 DEF Set
<1>4. CASE Delete(req[p].code)
  BY <1>1, <1>2, <1>4 DEF Delete
<1>5. CASE RotateToken(req[p].code, minted + 1)
  BY <1>1, <1>2, <1>5 DEF RotateToken, URLMapping
<1>6. CASE req[p].pc = "patch.Update" /\ Update(req[p].code, req[p].fields)
  <2> DEFINE f == req[p].fields
  <2>1. f \in UpdateFields /\ f.ExpiresAt \in {Keep, 0}
    BY <1>1, <1>6 DEF Request, Locals, NothingExpires
  <2>2. \A m \in URLMapping : m.ExpiresAt = 0 => Updated(m, f).ExpiresAt = 0
    BY <2>1 DEF Updated, URLMapping, Merge
  <2> QED
    BY <1>1, <1>2, <1>6, <2>2 DEF Update
<1>7. CASE RecordClick(req[p].code, req[p].at)
  BY <1>1, <1>2, <1>7 DEF RecordClick, URLMapping
<1>8. CASE CreateAPIKey(minted + 1)
  BY <1>2, <1>8 DEF CreateAPIKey, linkVars
<1>9. CASE DeleteAPIKey(req[p].keyID)
  BY <1>1, <1>2, <1>9 DEF DeleteAPIKey, URLMapping
<1>10. CASE req[p].pc = "audit" /\ LogAudit(req[p].entry)
  BY <1>2, <1>10 DEF LogAudit, linkVars
<1> QED
  BY <1>3, <1>4, <1>5, <1>6, <1>7, <1>8, <1>9, <1>10 DEF StoreCall

LEMMA PayloadsForever ==
    ASSUME NoLifetimes, TypeOK, NothingExpires, NEW p \in Procs, Handle(p), NEW q \in Procs,
           req'[q].pc = "patch.Update"
    PROVE  req'[q].fields.ExpiresAt \in {Keep, 0}
<1>1. Arrivals(p)
  BY HandleLabelled DEF Labelled
<1>2. CASE q # p
  BY <1>1, <1>2 DEF Arrivals, NothingExpires
<1>3. CASE q = p
  <2>1. PatchPrepare(p)
    BY <1>1, <1>3 DEF Arrivals
  <2>2. PICK b \in PatchBodies :
            req' = [req EXCEPT ![p] =
                      [req[p] EXCEPT !.pc = "patch.Update",
                                     !.fields = PatchFields(b, req[p].snap, minted + 1)]]
    BY <2>1 DEF PatchPrepare, Proceed
  <2>3. req'[p].fields = PatchFields(b, req[p].snap, minted + 1)
    BY <2>2 DEF TypeOK, RequestsTypeOK, Request, Locals
  <2> QED
    BY <1>3, <2>3, StoreAssumption DEF PatchFields, NoLifetimes
<1> QED
  BY <1>2, <1>3

\* A call of the store by a handler, other than the cleanup, keeps the log as
\* long as its link's count, up to the ring's capacity.
LEMMA CallKeepsLedger ==
    ASSUME TypeOK, LedgerKept, NEW p \in Procs, Handle(p), StoreCall(p)
    PROVE  LedgerKept'
<1> SUFFICES ASSUME NEW c \in Codes
             PROVE  Len(events'[c]) =
                       IF ~Exists(c)' THEN 0
                       ELSE IF urls'[c].ClickCount > ClickCap THEN ClickCap
                       ELSE urls'[c].ClickCount
  BY DEF LedgerKept
<1> USE DEF Exists
<1>1. /\ urls \in [Codes -> URLMapping \cup {NoRow}]
      /\ events \in [Codes -> Seq(Nat)]
      /\ req[p] \in Request
      /\ ClickCap \in Nat \ {0}
  BY StoreAssumption DEF TypeOK, StoreTypeOK, RequestsTypeOK
<1>2. /\ Len(events[c]) = IF ~Exists(c) THEN 0
                          ELSE IF urls[c].ClickCount > ClickCap THEN ClickCap
                          ELSE urls[c].ClickCount
      /\ Exists(c) => urls[c] \in URLMapping
  BY <1>1 DEF LedgerKept
\* A call that keeps the row, its count and its log.
<1>3. ASSUME events'[c] = events[c], Exists(c)' <=> Exists(c),
             Exists(c) => urls'[c].ClickCount = urls[c].ClickCount
      PROVE  Len(events'[c]) = IF ~Exists(c)' THEN 0
                               ELSE IF urls'[c].ClickCount > ClickCap THEN ClickCap
                               ELSE urls'[c].ClickCount
  BY <1>2, <1>3
<1>4. ASSUME NEW b \in LinkBodies, Set(req[p].code, NewMapping(b, req[p].keyID))
      PROVE  Len(events'[c]) = IF ~Exists(c)' THEN 0
                               ELSE IF urls'[c].ClickCount > ClickCap THEN ClickCap
                               ELSE urls'[c].ClickCount
  <2>1. NewMapping(b, req[p].keyID).ClickCount = 0
    BY DEF NewMapping
  <2>2. CASE c = req[p].code
    BY <1>1, <1>2, <1>4, <2>1, <2>2 DEF Set
  <2>3. CASE c # req[p].code
    BY <1>1, <1>3, <1>4, <2>3 DEF Set
  <2> QED
    BY <2>2, <2>3
<1>5. CASE Delete(req[p].code)
  <2>1. CASE c = req[p].code
    BY <1>1, <1>5, <2>1 DEF Delete
  <2>2. CASE c # req[p].code
    BY <1>1, <1>3, <1>5, <2>2 DEF Delete
  <2> QED
    BY <2>1, <2>2
<1>6. CASE RotateToken(req[p].code, minted + 1)
  <2>1. /\ events'[c] = events[c] /\ (Exists(c)' <=> Exists(c))
        /\ Exists(c) => urls'[c].ClickCount = urls[c].ClickCount
    <3>1. \A m \in URLMapping, h \in Nat :
            /\ [m EXCEPT !.OwnerTokenHash = h] \in URLMapping
            /\ [m EXCEPT !.OwnerTokenHash = h].ClickCount = m.ClickCount
      BY DEF URLMapping
    <3>2. minted + 1 \in Nat
      BY DEF TypeOK, RequestsTypeOK
    <3> QED
      BY <1>1, <1>6, <3>1, <3>2, StoreAssumption DEF RotateToken
  <2> QED
    BY <1>3, <2>1
<1>7. CASE req[p].pc = "patch.Update" /\ Update(req[p].code, req[p].fields)
  <2>1. req[p].fields \in UpdateFields
    BY <1>1, <1>7 DEF Request, Locals
  <2>2. /\ events'[c] = events[c] /\ (Exists(c)' <=> Exists(c))
        /\ Exists(c) => urls'[c].ClickCount = urls[c].ClickCount
    BY <1>1, <1>7, <2>1, UpdatedType, StoreAssumption DEF Update
  <2> QED
    BY <1>3, <2>2
<1>8. CASE RecordClick(req[p].code, req[p].at)
  <2> DEFINE d == req[p].code
  <2>1. CASE c # d
    BY <1>1, <1>3, <1>8, <2>1 DEF RecordClick
  <2>2. CASE c = d
    <3>1. /\ urls[c] \in URLMapping /\ urls[c].ClickCount \in Nat
          /\ urls'[c] = [urls[c] EXCEPT !.ClickCount = @ + 1]
      BY <1>1, <1>8, <2>2 DEF RecordClick, URLMapping
    <3>2. /\ Exists(c)' /\ Exists(c)
          /\ urls'[c].ClickCount = urls[c].ClickCount + 1
      <4>1. [urls[c] EXCEPT !.ClickCount = @ + 1] \in URLMapping
        BY <3>1 DEF URLMapping
      <4> QED
        BY <1>8, <2>2, <3>1, <4>1, StoreAssumption DEF RecordClick, URLMapping
    <3>3. /\ events[c] \in Seq(Nat) /\ req[p].at \in Nat
          /\ events'[c] = Push(events[c], ClickCap, req[p].at)
      BY <1>1, <1>8, <2>2 DEF RecordClick, Request, Locals
    <3>4. Len(events'[c]) = Len(events[c]) + 1 - Dropped(events[c], ClickCap)
      BY <1>1, <3>3, PushLemma
    <3> QED
      BY <1>1, <1>2, <3>1, <3>2, <3>3, <3>4 DEF Dropped
  <2> QED
    BY <2>1, <2>2
<1>9. CASE CreateAPIKey(minted + 1)
  BY <1>3, <1>9 DEF CreateAPIKey, linkVars
<1>10. CASE DeleteAPIKey(req[p].keyID)
  <2>1. /\ events'[c] = events[c] /\ (Exists(c)' <=> Exists(c))
        /\ Exists(c) => urls'[c].ClickCount = urls[c].ClickCount
    <3>1. \A m \in URLMapping : /\ [m EXCEPT !.APIKeyID = 0] \in URLMapping
                                /\ [m EXCEPT !.APIKeyID = 0].ClickCount = m.ClickCount
      BY DEF URLMapping
    <3> QED
      BY <1>1, <1>10, <3>1, StoreAssumption DEF DeleteAPIKey
  <2> QED
    BY <1>3, <2>1
<1>11. CASE req[p].pc = "audit" /\ LogAudit(req[p].entry)
  BY <1>3, <1>11 DEF LogAudit, linkVars
<1> QED
  BY <1>4, <1>5, <1>6, <1>7, <1>8, <1>9, <1>10, <1>11 DEF StoreCall

\* For links without a lifetime the count and the log never drift apart,
\* whatever redirects, PATCHes, rotations, deletes and new claims of the same
\* code interleave.
THEOREM LedgerNeverDrifts ==
    ASSUME NoLifetimes
    PROVE  Spec => []LedgerAgrees
<1> DEFINE Inv == NothingExpires /\ LedgerKept
<1>1. Init => Inv
  <2>1. Init => /\ \A c \in Codes : events[c] = <<>> /\ ~Exists(c)
                /\ \A p \in Procs : req[p].pc = "idle"
    BY DEF Init, NewMemoryStore, RequestsInit, Idle, Exists
  <2> QED
    BY <2>1 DEF NothingExpires, LedgerKept
<1>2. TypeOK /\ Inv /\ [Next]_vars => Inv'
  <2> SUFFICES ASSUME TypeOK, Inv, [Next]_vars PROVE Inv'
    OBVIOUS
  <2>1. ASSUME NEW p \in Procs, Handle(p) PROVE Inv'
    <3>1. StoreCall(p) \/ UNCHANGED storeVars
      BY <2>1, HandleLabelled DEF Labelled
    <3>2. LedgerKept' /\ \A c \in Codes : Exists(c)' => urls'[c].ExpiresAt = 0
      <4>1. CASE StoreCall(p)
        BY <2>1, <4>1, CallKeepsForever, CallKeepsLedger
      <4>2. CASE UNCHANGED storeVars
        BY <4>2 DEF storeVars, LedgerKept, NothingExpires, Exists
      <4> QED
        BY <3>1, <4>1, <4>2
    <3> QED
      BY <2>1, <3>2, PayloadsForever DEF NothingExpires
  <2>2. CASE ~(\E p \in Procs : Handle(p))
    <3>1. ~cleanupExpired
      BY DEF cleanupExpired, Expired, NothingExpires
    <3>2. UNCHANGED <<req, urls, events>>
      BY <2>2, <3>1, OtherStep DEF storeVars
    <3> QED
      BY <3>2 DEF NothingExpires, LedgerKept, Exists
  <2> QED
    BY <2>1, <2>2
<1>3. Inv => LedgerAgrees
  BY DEF LedgerKept, LedgerAgrees
<1> QED
  BY <1>1, <1>2, <1>3, TypeCorrect, PTL DEF Spec

----------------------------------------------------------------------------
(*************************************************************************)
(* LinkService implements LinkLifecycle: every step of a handler, of the *)
(* cleanup goroutine or of the clock is a step of the abstract link or   *)
(* leaves it alone.                                                      *)
(*************************************************************************)

\* What the refinement mapping shows of the store.
Shown == [c \in Codes |->
            IF Exists(c)
            THEN [owner |-> urls[c].OwnerTokenHash, clicks |-> urls[c].ClickCount]
            ELSE [owner |-> 0, clicks |-> 0]]

\* A live row always has an owner, so it is never taken for a free code.
OwnerKnown == \A c \in Codes : Exists(c) => urls[c].OwnerTokenHash # 0

\* A code looks the same after the step.
SameLink(c) ==
    /\ Exists(c)' <=> Exists(c)
    /\ Exists(c) => /\ urls'[c].OwnerTokenHash = urls[c].OwnerTokenHash
                    /\ urls'[c].ClickCount = urls[c].ClickCount

AbstractStep == [Lifecycle!LifecycleNext]_(Lifecycle!lifecycleVars)

LEMMA SameShown ==
    ASSUME \A c \in Codes : SameLink(c)
    PROVE  Shown' = Shown
BY DEF SameLink, Shown

\* Nothing is shown of the step, but for a random value drawn.
LEMMA SilentStep ==
    ASSUME \A c \in Codes : SameLink(c), minted' \in {minted, minted + 1}
    PROVE  AbstractStep
<1>1. Shown' = Shown
  BY SameShown
<1>2. CASE minted' = minted
  BY <1>1, <1>2 DEF AbstractStep, Lifecycle!lifecycleVars, Shown
<1>3. CASE minted' = minted + 1
  <2>1. Lifecycle!Draw
    BY <1>1, <1>3 DEF Lifecycle!Draw, Shown
  <2> QED
    BY <2>1 DEF AbstractStep, Lifecycle!LifecycleNext
<1> QED
  BY <1>2, <1>3

\* The rows that are gone are released.
LEMMA ReleaseStep ==
    ASSUME NEW S \in SUBSET Codes, minted' = minted,
           \A c \in S : ~Exists(c)',
           \A c \in Codes \ S : SameLink(c)
    PROVE  AbstractStep
<1>1. Shown' = [c \in Codes |-> IF c \in S THEN [owner |-> 0, clicks |-> 0] ELSE Shown[c]]
  BY DEF Shown, SameLink
<1>2. Lifecycle!Release(S)
  BY <1>1 DEF Lifecycle!Release, Lifecycle!Free, Shown
<1> QED
  BY <1>2 DEF AbstractStep, Lifecycle!LifecycleNext

LEMMA ClaimStep ==
    ASSUME NEW c \in Codes, ~Exists(c), Exists(c)',
           urls'[c].OwnerTokenHash = minted + 1, urls'[c].ClickCount = 0,
           \A d \in Codes \ {c} : SameLink(d),
           minted' \in {minted + 1, minted + 2}
    PROVE  AbstractStep
<1>1. Shown' = [Shown EXCEPT ![c] = [owner |-> minted + 1, clicks |-> 0]]
  BY DEF Shown, SameLink
<1>2. Shown[c].owner = 0
  BY DEF Shown
<1>3. Lifecycle!Claim(c)
  BY <1>1, <1>2 DEF Lifecycle!Claim, Lifecycle!Live, Shown
<1> QED
  BY <1>3 DEF AbstractStep, Lifecycle!LifecycleNext

LEMMA RekeyStep ==
    ASSUME OwnerKnown, NEW c \in Codes, Exists(c), Exists(c)',
           urls'[c].OwnerTokenHash = minted + 1,
           urls'[c].ClickCount = urls[c].ClickCount,
           \A d \in Codes \ {c} : SameLink(d),
           minted' = minted + 1
    PROVE  AbstractStep
<1>1. Shown' = [Shown EXCEPT ![c].owner = minted + 1]
  BY DEF Shown, SameLink
<1>2. Shown[c].owner # 0
  BY DEF Shown, OwnerKnown
<1>3. Lifecycle!Rekey(c)
  BY <1>1, <1>2 DEF Lifecycle!Rekey, Lifecycle!Live, Shown
<1> QED
  BY <1>3 DEF AbstractStep, Lifecycle!LifecycleNext

LEMMA ClickStep ==
    ASSUME OwnerKnown, NEW c \in Codes, Exists(c), Exists(c)',
           urls'[c].OwnerTokenHash = urls[c].OwnerTokenHash,
           urls'[c].ClickCount = urls[c].ClickCount + 1,
           \A d \in Codes \ {c} : SameLink(d),
           minted' = minted
    PROVE  AbstractStep
<1>1. Shown' = [Shown EXCEPT ![c].clicks = @ + 1]
  BY DEF Shown, SameLink
<1>2. Shown[c].owner # 0
  BY DEF Shown, OwnerKnown
<1>3. Lifecycle!Click(c)
  BY <1>1, <1>2 DEF Lifecycle!Click, Lifecycle!Live, Shown
<1> QED
  BY <1>3 DEF AbstractStep, Lifecycle!LifecycleNext
----------------------------------------------------------------------------
(* Every step of the service. *)

Refines == AbstractStep /\ OwnerKnown'

LEMMA QuietRefines ==
    ASSUME OwnerKnown, UNCHANGED urls, minted' \in {minted, minted + 1}
    PROVE  Refines
<1>1. \A c \in Codes : SameLink(c)
  BY DEF SameLink, Exists
<1>2. OwnerKnown'
  BY DEF OwnerKnown, Exists
<1> QED
  BY <1>1, <1>2, SilentStep DEF Refines

\* Rows that change in other fields only.
LEMMA SilentRefines ==
    ASSUME OwnerKnown, \A c \in Codes : SameLink(c), minted' = minted
    PROVE  Refines
<1>1. OwnerKnown'
  BY DEF OwnerKnown, SameLink
<1> QED
  BY <1>1, SilentStep DEF Refines

LEMMA RemovalRefines ==
    ASSUME OwnerKnown, NEW S \in SUBSET Codes, minted' = minted,
           \A c \in S : ~Exists(c)',
           \A c \in Codes \ S : SameLink(c)
    PROVE  Refines
<1>1. OwnerKnown'
  BY DEF OwnerKnown, SameLink
<1> QED
  BY <1>1, ReleaseStep DEF Refines

LEMMA ShortenRefines ==
    ASSUME TypeOK, OwnerKnown, NEW p \in Procs, Shorten(p)
    PROVE  Refines
<1>1. CASE ShortenSet(p)
  <2>0. PICK c \in Codes : c = req[p].code
    BY <1>1 DEF ShortenSet, Proceed, TypeOK, RequestsTypeOK, Request, NoRowYet
  <2>1. PICK b \in LinkBodies :
            /\ req[p].pc = "shorten.Set"
            /\ ~Exists(c)
            /\ urls' = [urls EXCEPT ![c] = NewMapping(b, req[p].keyID)]
            /\ minted' = minted + (IF b.WebhookURL = NoURL THEN 1 ELSE 2)
    BY <1>1, <2>0 DEF ShortenSet, Proceed, Set
  <2>2. minted \in Nat /\ req[p].keyID \in Nat
    BY <2>1 DEF TypeOK, RequestsTypeOK, Request, Locals
  <2>3. /\ NewMapping(b, req[p].keyID).OwnerTokenHash = minted + 1
        /\ NewMapping(b, req[p].keyID).ClickCount = 0
    BY DEF NewMapping
  <2>4. NewMapping(b, req[p].keyID) \in URLMapping
    BY <2>2, ShortenAssumption, ExpiryType DEF NewMapping, LinkBody, URLMapping, TypeOK
  <2>5. /\ Exists(c)' /\ urls'[c].OwnerTokenHash = minted + 1 /\ urls'[c].ClickCount = 0
        /\ \A d \in Codes \ {c} : SameLink(d)
    BY <2>1, <2>2, <2>3, <2>4, StoreAssumption DEF Exists, SameLink, TypeOK, StoreTypeOK
  <2>6. minted' \in {minted + 1, minted + 2}
    BY <2>1
  <2>7. AbstractStep
    BY <2>1, <2>2, <2>5, <2>6, ClaimStep
  <2>8. OwnerKnown'
    BY <2>2, <2>5 DEF OwnerKnown, SameLink
  <2> QED
    BY <2>7, <2>8 DEF Refines
<1>2. CASE UNCHANGED <<storeVars, minted>>
  BY <1>2, QuietRefines DEF storeVars
<1> QED
  BY <1>1, <1>2 DEF Shorten, ShortenDetectAPIKey, ShortenExists, ShortenRefused, ShortenConflict

LEMMA RedirectRefines ==
    ASSUME TypeOK, OwnerKnown, NEW p \in Procs, Redirect(p)
    PROVE  Refines
<1>1. CASE RedirectRecordClick(p)
  <2>0. PICK c \in Codes : c = req[p].code
    BY <1>1 DEF RedirectRecordClick, Proceed, TypeOK, RequestsTypeOK, Request, NoRowYet
  <2>1. /\ req[p].pc = "redirect.RecordClick"
        /\ Exists(c)
        /\ urls' = [urls EXCEPT ![c].ClickCount = @ + 1]
        /\ minted' = minted
    BY <1>1, <2>0 DEF RedirectRecordClick, Proceed, RecordClick
  <2>3. urls[c] \in URLMapping /\ urls[c].ClickCount + 1 \in Nat
    BY <2>1, SnapshotType DEF TypeOK, URLMapping
  <2>4. urls'[c] = [urls[c] EXCEPT !.ClickCount = @ + 1] /\ urls'[c] \in URLMapping
    BY <2>1, <2>3 DEF TypeOK, StoreTypeOK, URLMapping
  <2>5. /\ Exists(c)'
        /\ urls'[c].OwnerTokenHash = urls[c].OwnerTokenHash
        /\ urls'[c].ClickCount = urls[c].ClickCount + 1
    BY <2>3, <2>4, StoreAssumption DEF Exists, URLMapping
  <2>6. \A d \in Codes \ {c} : SameLink(d)
    BY <2>1 DEF Exists, SameLink, TypeOK, StoreTypeOK
  <2>7. AbstractStep
    BY <2>1, <2>5, <2>6, ClickStep
  <2>8. OwnerKnown'
    BY <2>1, <2>5, <2>6 DEF OwnerKnown, SameLink
  <2> QED
    BY <2>7, <2>8 DEF Refines
<1>2. CASE UNCHANGED <<storeVars, minted>>
  BY <1>2, QuietRefines DEF storeVars
<1> QED
  BY <1>1, <1>2 DEF Redirect, RedirectGet, RedirectRefused, RedirectUnavailable, RedirectStamp,
                    RedirectNotRecorded, RedirectPublish, RedirectEnqueue

LEMMA PatchRefines ==
    ASSUME TypeOK, OwnerKnown, NEW p \in Procs, Patch(p)
    PROVE  Refines
<1>1. CASE PatchUpdate(p)
  <2> DEFINE f == req[p].fields
  <2>0. PICK c \in Codes : c = req[p].code
    BY <1>1 DEF PatchUpdate, Proceed, TypeOK, RequestsTypeOK, Request, NoRowYet
  <2>1. /\ req[p].pc = "patch.Update"
        /\ Exists(c)
        /\ urls' = [urls EXCEPT ![c] = Updated(@, f)]
        /\ minted' = minted
    BY <1>1, <2>0 DEF PatchUpdate, Proceed, Update
  <2>2. f \in UpdateFields
    BY <2>1 DEF TypeOK, RequestsTypeOK, Request, Locals
  <2>3. urls[c] \in URLMapping
    BY <2>1, <2>2, SnapshotType DEF TypeOK
  <2>4. /\ Updated(urls[c], f) \in URLMapping
        /\ Updated(urls[c], f).ClickCount = urls[c].ClickCount
        /\ Updated(urls[c], f).OwnerTokenHash = urls[c].OwnerTokenHash
    BY <2>2, <2>3, UpdatedType
  <2>5. \A d \in Codes : SameLink(d)
    BY <2>1, <2>2, <2>4, StoreAssumption DEF Exists, SameLink, TypeOK, StoreTypeOK
  <2> QED
    BY <2>1, <2>5, SilentRefines
<1>2. CASE PatchPrepare(p)
  <2>1. UNCHANGED urls /\ minted' \in {minted, minted + 1}
    BY <1>2 DEF PatchPrepare, Mint, storeVars
  <2> QED
    BY <2>1, QuietRefines
<1>3. CASE UNCHANGED <<storeVars, minted>>
  BY <1>3, QuietRefines DEF storeVars
<1> QED
  BY <1>1, <1>2, <1>3 DEF Patch, PatchGet, PatchMissing, PatchRefused, PatchGone, PatchReread,
                          PatchRereadFails, PatchResolveActor

LEMMA RotateRefines ==
    ASSUME TypeOK, OwnerKnown, NEW p \in Procs, Rotate(p)
    PROVE  Refines
<1>1. CASE RotateToken_(p)
  <2>0. PICK c \in Codes : c = req[p].code
    BY <1>1 DEF RotateToken_, Proceed, TypeOK, RequestsTypeOK, Request, NoRowYet
  <2>1. /\ req[p].pc = "rotate.RotateToken"
        /\ Exists(c)
        /\ urls' = [urls EXCEPT ![c].OwnerTokenHash = minted + 1]
        /\ minted' = minted + 1
    BY <1>1, <2>0 DEF RotateToken_, Proceed, RotateToken, Mint
  <2>2. minted \in Nat /\ minted + 1 \in Nat
    BY <2>1 DEF TypeOK, RequestsTypeOK, Request
  <2>3. urls[c] \in URLMapping
    BY <2>1, <2>2, SnapshotType DEF TypeOK
  <2>4. urls'[c] = [urls[c] EXCEPT !.OwnerTokenHash = minted + 1] /\ urls'[c] \in URLMapping
    BY <2>1, <2>2, <2>3 DEF TypeOK, StoreTypeOK, URLMapping
  <2>5. /\ Exists(c)'
        /\ urls'[c].OwnerTokenHash = minted + 1
        /\ urls'[c].ClickCount = urls[c].ClickCount
    BY <2>3, <2>4, StoreAssumption DEF Exists, URLMapping
  <2>6. \A d \in Codes \ {c} : SameLink(d)
    BY <2>1, <2>2 DEF Exists, SameLink, TypeOK, StoreTypeOK
  <2>7. AbstractStep
    BY <2>1, <2>2, <2>5, <2>6, RekeyStep
  <2>8. OwnerKnown'
    BY <2>2, <2>5, <2>6 DEF OwnerKnown, SameLink
  <2> QED
    BY <2>7, <2>8 DEF Refines
<1>2. CASE UNCHANGED <<storeVars, minted>>
  BY <1>2, QuietRefines DEF storeVars
<1> QED
  BY <1>1, <1>2 DEF Rotate, RotateGet, RotateRefused, RotateGone

LEMMA DeleteRefines ==
    ASSUME TypeOK, OwnerKnown, NEW p \in Procs, DeleteURL(p)
    PROVE  Refines
<1>1. CASE DeleteDelete(p)
  <2>0. PICK c \in Codes : c = req[p].code
    BY <1>1 DEF DeleteDelete, Proceed, TypeOK, RequestsTypeOK, Request, NoRowYet
  <2>1. /\ req[p].pc = "delete.Delete"
        /\ urls' = [urls EXCEPT ![c] = NoRow]
        /\ minted' = minted
    BY <1>1, <2>0 DEF DeleteDelete, Proceed, Delete
  <2>3. ~Exists(c)' /\ \A d \in Codes \ {c} : SameLink(d)
    BY <2>1 DEF Exists, SameLink, TypeOK, StoreTypeOK
  <2>4. {c} \in SUBSET Codes
    OBVIOUS
  <2> QED
    BY <2>1, <2>3, <2>4, RemovalRefines
<1>2. CASE UNCHANGED <<storeVars, minted>>
  BY <1>2, QuietRefines DEF storeVars
<1> QED
  BY <1>1, <1>2 DEF DeleteURL, DeleteGet, DeleteMissing, DeleteUnauthorized, DeleteAuthorized,
                    DeleteGone, DeleteResolveActor

LEMMA KeyRefines ==
    ASSUME TypeOK, OwnerKnown, NEW p \in Procs, APIKeyRequest(p)
    PROVE  Refines
<1>1. CASE CreateKey(p)
  <2>1. UNCHANGED urls /\ minted' = minted + 1
    BY <1>1 DEF CreateKey, CreateAPIKey, Mint, linkVars
  <2> QED
    BY <2>1, QuietRefines
<1>2. CASE RevokeKey(p)
  <2> DEFINE id == req[p].keyID
  <2>1. /\ urls' = [c \in Codes |-> IF Exists(c) /\ urls[c].APIKeyID = id
                                   THEN [urls[c] EXCEPT !.APIKeyID = 0] ELSE urls[c]]
        /\ minted' = minted
    BY <1>2 DEF RevokeKey, DeleteAPIKey
  <2>2. ASSUME NEW c \in Codes PROVE SameLink(c)
    <3>1. CASE Exists(c) /\ urls[c].APIKeyID = id
      <4>1. urls[c] \in URLMapping /\ urls'[c] = [urls[c] EXCEPT !.APIKeyID = 0]
        BY <2>1, <3>1, SnapshotType DEF TypeOK
      <4>2. urls'[c] \in URLMapping
        BY <4>1 DEF URLMapping
      <4> QED
        BY <3>1, <4>1, <4>2, StoreAssumption DEF SameLink, Exists, URLMapping
    <3>2. CASE ~(Exists(c) /\ urls[c].APIKeyID = id)
      BY <2>1, <3>2 DEF SameLink, Exists
    <3> QED
      BY <3>1, <3>2
  <2> QED
    BY <2>1, <2>2, SilentRefines
<1>3. CASE UNCHANGED <<storeVars, minted>>
  BY <1>3, QuietRefines DEF storeVars
<1> QED
  BY <1>1, <1>2, <1>3 DEF APIKeyRequest, KeyFound, KeyRefused, UpdateKeyLabel, KeyGone
LEMMA HandleRefines ==
    ASSUME TypeOK, OwnerKnown, NEW p \in Procs, Handle(p)
    PROVE  Refines
<1>1. CASE Audit(p)
  <2>1. UNCHANGED urls /\ minted' = minted
    BY <1>1 DEF Audit, LogAudit, linkVars
  <2> QED
    BY <2>1, QuietRefines
<1> QED
  BY <1>1, ShortenRefines, RedirectRefines, PatchRefines, RotateRefines, DeleteRefines,
     KeyRefines DEF Handle

LEMMA CleanupRefines ==
    ASSUME OwnerKnown, Cleanup
    PROVE  Refines
<1> DEFINE S == {c \in Codes : Exists(c) /\ Expired(urls[c])}
<1>1. /\ urls' = [c \in Codes |-> IF Exists(c) /\ Expired(urls[c]) THEN NoRow ELSE urls[c]]
      /\ minted' = minted
  BY DEF Cleanup, cleanupExpired
<1>2. \A c \in S : ~Exists(c)'
  BY <1>1 DEF Exists
<1>3. \A c \in Codes \ S : SameLink(c)
  BY <1>1 DEF SameLink, Exists
<1>4. S \in SUBSET Codes
  OBVIOUS
<1> HIDE DEF S
<1> QED
  BY <1>1, <1>2, <1>3, <1>4, RemovalRefines

LEMMA StepRefines == TypeOK /\ OwnerKnown /\ [Next]_vars => AbstractStep /\ OwnerKnown'
<1> SUFFICES ASSUME TypeOK, OwnerKnown, [Next]_vars PROVE Refines
  BY DEF Refines
<1>1. CASE Tick \/ UNCHANGED vars
  BY <1>1, QuietRefines DEF Tick, vars, storeVars
<1> QED
  BY <1>1, HandleRefines, CleanupRefines DEF Next

LEMMA InitRefines == Init => Lifecycle!LifecycleInit /\ OwnerKnown
BY DEF Init, NewMemoryStore, RequestsInit, Exists, OwnerKnown,
       Lifecycle!LifecycleInit, Lifecycle!Free

\* Whatever races, the service does what LinkLifecycle promises: a code is
\* claimed only when it is free, its owner and its count survive everything
\* but the changes they are meant to undergo.
THEOREM ServiceImplementsLifecycle == Spec => ImplementsLifecycle
BY InitRefines, StepRefines, TypeCorrect, PTL
   DEF Spec, ImplementsLifecycle, Lifecycle!LifecycleSpec, AbstractStep

----------------------------------------------------------------------------
(* What the abstract lifecycle promises, the service keeps. *)

Promises ==
    INSTANCE LinkLifecycleProofs WITH
        link <- [c \in Codes |->
                   IF Exists(c)
                   THEN [owner |-> urls[c].OwnerTokenHash, clicks |-> urls[c].ClickCount]
                   ELSE [owner |-> 0, clicks |-> 0]],
        drawn <- minted

\* No owner token opens two links, and one that was rotated away, or whose
\* link is gone, never opens anything again: the two theorems of
\* LinkLifecycleProofs, read through the refinement mapping.
THEOREM ServiceTokensRetire ==
    Spec => []Lifecycle!OwnersDistinct /\ Lifecycle!TokensNeverReturn
<1>1. Lifecycle!LifecycleSpec => []Lifecycle!OwnersDistinct
  BY Promises!OwnersStayDistinct, PTL
     DEF Lifecycle!LifecycleSpec, Promises!LifecycleSpec, Lifecycle!LifecycleInit,
         Promises!LifecycleInit, Lifecycle!LifecycleNext,
         Promises!LifecycleNext, Lifecycle!lifecycleVars,
         Promises!lifecycleVars, Lifecycle!Free, Promises!Free,
         Lifecycle!Live, Promises!Live, Lifecycle!Claim, Promises!Claim,
         Lifecycle!Rekey, Promises!Rekey, Lifecycle!Click, Promises!Click,
         Lifecycle!Release, Promises!Release, Lifecycle!Draw, Promises!Draw,
         Lifecycle!OwnersDistinct, Promises!OwnersDistinct
<1>2. Lifecycle!LifecycleSpec => Lifecycle!TokensNeverReturn
  BY Promises!TokensStayRetired, PTL
     DEF Lifecycle!LifecycleSpec, Promises!LifecycleSpec, Lifecycle!LifecycleInit,
         Promises!LifecycleInit, Lifecycle!LifecycleNext,
         Promises!LifecycleNext, Lifecycle!lifecycleVars,
         Promises!lifecycleVars, Lifecycle!Free, Promises!Free,
         Lifecycle!Live, Promises!Live, Lifecycle!Claim, Promises!Claim,
         Lifecycle!Rekey, Promises!Rekey, Lifecycle!Click, Promises!Click,
         Lifecycle!Release, Promises!Release, Lifecycle!Draw, Promises!Draw,
         Lifecycle!TokensNeverReturn, Promises!TokensNeverReturn,
         Lifecycle!Owners, Promises!Owners
<1> QED
  BY <1>1, <1>2, ServiceImplementsLifecycle, PTL DEF ImplementsLifecycle
=============================================================================
