--------------------------- MODULE SQLiteStoreProofs ---------------------------
(***************************************************************************)
(* Theorems about SQLiteStore, for any number of sessions and codes, any   *)
(* workload and any number of crashes.                                     *)
(*                                                                         *)
(* StoreInv says what the transaction in the journal has done so far to    *)
(* links and keys; LogInv adds what it has done to the event log.          *)
(***************************************************************************)
EXTENDS SQLiteStore, SQLTablesProofs

\* Inside a transaction a call holds the lock.
InTx == {"click.Insert", "click.Commit", "revoke.Drop", "revoke.Commit", "rollback"}

Clicking == {"click.Count", "click.Insert", "click.Commit", "click.Return"}

Fields(n) ==
    n = [pc |-> n.pc, code |-> n.code, at |-> n.at, key |-> n.key, born |-> n.born,
         page |-> n.page]

CallTyped(n) ==
    /\ Fields(n)
    /\ n.key \in Key
    /\ n.born \in Nat
    /\ n.pc \in Clicking => n.code \in Codes

CallsTyped ==
    /\ calls = [p \in Sessions |-> calls[p]]
    /\ \A p \in Sessions : CallTyped(calls[p])

StoreTyped ==
    /\ Tables(db)
    /\ CallsTyped
    /\ {clock, drawn} \subseteq Nat
    /\ acked \in [Codes -> Nat]
    /\ doubt \in [Codes -> Nat]

\* The lock is held by the one call that is inside a transaction, if any.
LockKept ==
    /\ journal = [by |-> journal.by, db |-> journal.db]
    /\ Tables(journal.db)
    /\ journal.by = Nobody => journal = NoTx
    /\ \A p \in Sessions : calls[p].pc \in InTx <=> journal.by = p
    /\ journal.by # Nobody =>
         journal.by \in Sessions /\ phase \notin {"down", "migrating"}

\* What the transaction in the journal has done to the committed database
\* so far, which nobody else has changed meanwhile.
ClickPending(p) ==
    /\ HasLink(db, calls[p].code)
    /\ db.urls[calls[p].code].Born = calls[p].born
    /\ journal.db.urls = CountClick(db, calls[p].code).urls
    /\ journal.db.keys = db.keys
    /\ journal.db.keySeq = db.keySeq

RevocationPending(p) ==
    LET id == calls[p].key.ID
    IN  /\ id # 0
        /\ journal.db.urls = UnbindLinks(db, BoundLinks(db, id)).urls
        /\ journal.db.keySeq = db.keySeq
        /\ journal.db.keys = IF calls[p].pc = "revoke.Commit"
                             THEN DropKey(db, id).keys ELSE db.keys

JournalFollows ==
    \A p \in Sessions :
        /\ calls[p].pc \in {"click.Insert", "click.Commit"} => ClickPending(p)
        /\ calls[p].pc \in {"revoke.Drop", "revoke.Commit"} => RevocationPending(p)

\* Rows are told apart for ever by the first owner token, and have an owner.
RowsTold ==
    /\ \A c \in Codes : HasLink(db, c) =>
          db.urls[c].Born <= drawn /\ db.urls[c].OwnerTokenHash # 0
    /\ \A p \in Sessions : calls[p].born <= drawn

\* IDs above keySeq have not been given out, and a call's key is the only
\* one that ever has its ID.
KeysTold ==
    /\ \A k \in db.keys : k.ID \in 1..db.keySeq
    /\ \A k, l \in db.keys : k.ID = l.ID => k = l
    /\ \A c \in Codes : HasLink(db, c) => db.urls[c].APIKeyID <= db.keySeq
    /\ \A p \in Sessions :
         /\ calls[p].key.ID <= db.keySeq
         /\ calls[p].pc = "revoke.Unbind" => calls[p].key.ID # 0
         /\ \A k \in db.keys : k.ID = calls[p].key.ID => k = calls[p].key

StoreInv ==
    /\ StoreTyped /\ LockKept /\ JournalFollows /\ RowsTold /\ KeysTold
    /\ ClicksDurable /\ BindingsKeepTheirKey

----------------------------------------------------------------------------
(* Steps that keep the invariant whatever they are part of. *)

\* A call that starts, gives way or ends, without a change to the database.
LEMMA CallStep ==
    ASSUME StoreInv, NEW p \in Sessions, NEW n, CallTyped(n),
           calls' = [calls EXCEPT ![p] = n],
           UNCHANGED <<db, journal, drawn, acked, doubt, clock, phase>>,
           calls[p].pc # "click.Return", n.pc # "click.Return",
           n.pc \in InTx <=> calls[p].pc \in InTx,
           n.pc \in InTx => n.pc = "rollback",
           n.born <= drawn, n.key.ID <= db.keySeq,
           n.pc = "revoke.Unbind" => n.key.ID # 0,
           \A k \in db.keys : k.ID = n.key.ID => k = n.key
    PROVE  StoreInv'
<1>1. calls'[p] = n /\ \A q \in Sessions : q # p => calls'[q] = calls[q]
  BY DEF StoreInv, StoreTyped, CallsTyped
<1>2. StoreTyped'
  <2>1. calls' = [q \in Sessions |-> calls'[q]]
    BY DEF StoreInv, StoreTyped, CallsTyped
  <2>2. \A q \in Sessions : CallTyped(calls'[q])
    BY <1>1 DEF StoreInv, StoreTyped, CallsTyped
  <2> QED
    BY <2>1, <2>2 DEF StoreInv, StoreTyped, CallsTyped
<1>3. LockKept'
  BY <1>1 DEF StoreInv, LockKept
<1>4. JournalFollows'
  <2> SUFFICES ASSUME NEW q \in Sessions
               PROVE  /\ calls'[q].pc \in {"click.Insert", "click.Commit"} => ClickPending(q)'
                      /\ calls'[q].pc \in {"revoke.Drop", "revoke.Commit"} => RevocationPending(q)'
    BY DEF JournalFollows
  <2>1. CASE q = p
    BY <1>1, <2>1 DEF InTx
  <2>2. CASE q # p
    BY <1>1, <2>2 DEF StoreInv, JournalFollows, ClickPending, RevocationPending, HasLink
  <2> QED
    BY <2>1, <2>2
<1>5. RowsTold'
  BY <1>1 DEF StoreInv, RowsTold, HasLink
<1>6. KeysTold'
  BY <1>1 DEF StoreInv, KeysTold, HasLink
<1>7. ClicksDurable'
  <2>1. \A c \in Codes : Unanswered(c)' = Unanswered(c)
    BY <1>1 DEF Unanswered, SameRow, HasLink
  <2> QED
    BY <2>1 DEF StoreInv, ClicksDurable, HasLink
<1>8. BindingsKeepTheirKey'
  BY DEF StoreInv, BindingsKeepTheirKey, BindingsHold, HasLink
<1> QED
  BY <1>2, <1>3, <1>4, <1>5, <1>6, <1>7, <1>8 DEF StoreInv

\* Nothing that the invariant speaks of changes.
LEMMA RestStep ==
    ASSUME StoreInv, clock' \in Nat,
           UNCHANGED <<db, journal, calls, drawn, acked, doubt>>,
           phase' = phase \/ phase \in {"down", "migrating"} \/ phase' \notin {"down", "migrating"}
    PROVE  StoreInv'
<1>1. StoreTyped' /\ LockKept'
  BY DEF StoreInv, StoreTyped, CallsTyped, LockKept
<1>2. JournalFollows'
  BY DEF StoreInv, JournalFollows, ClickPending, RevocationPending, HasLink
<1>3. RowsTold' /\ KeysTold' /\ BindingsKeepTheirKey'
  BY DEF StoreInv, RowsTold, KeysTold, HasLink, BindingsKeepTheirKey, BindingsHold
<1>4. ClicksDurable'
  <2>1. \A c \in Codes : Unanswered(c)' = Unanswered(c)
    BY DEF Unanswered, SameRow, HasLink
  <2> QED
    BY <2>1 DEF StoreInv, ClicksDurable, HasLink
<1> QED
  BY <1>1, <1>2, <1>3, <1>4 DEF StoreInv

\* A database with the rows of another, or fewer: each is the same row, with
\* the same count and the same key.
RowsKept(d, e) ==
    \A c \in Codes : HasLink(e, c) =>
        /\ HasLink(d, c)
        /\ e.urls[c].Born = d.urls[c].Born
        /\ e.urls[c].ClickCount = d.urls[c].ClickCount
        /\ e.urls[c].APIKeyID \in {0, d.urls[c].APIKeyID}
        /\ e.urls[c].BoundTo = d.urls[c].BoundTo
        /\ e.urls[c].OwnerTokenHash # 0

\* A statement of its own that changes rows, or takes some away.
LEMMA CommitStep ==
    ASSUME StoreInv, NEW e, Tables(e), RowsKept(db, e), e.keys = db.keys, e.keySeq = db.keySeq,
           db' = e, journal = NoTx, drawn' \in Nat, drawn <= drawn',
           UNCHANGED <<journal, calls, acked, doubt, clock>>
    PROVE  StoreInv'
<1>1. StoreTyped'
  BY DEF StoreInv, StoreTyped, CallsTyped
<1>2. \A p \in Sessions : calls[p].pc \notin InTx
  BY SQLiteAssumption DEF StoreInv, LockKept, NoTx
<1>3. LockKept'
  BY DEF StoreInv, LockKept, NoTx
<1>4. JournalFollows'
  BY <1>2 DEF JournalFollows, InTx
<1>5. RowsTold'
  BY DEF StoreInv, StoreTyped, CallsTyped, CallTyped, RowsTold, RowsKept, Tables, Link, HasLink
<1>6. KeysTold'
  BY DEF StoreInv, StoreTyped, KeysTold, RowsKept, Tables, Link, HasLink
<1>7. ClicksDurable'
  <2>1. \A c \in Codes : HasLink(e, c) => Unanswered(c)' = Unanswered(c)
    BY DEF Unanswered, SameRow, RowsKept, HasLink
  <2> QED
    BY <2>1 DEF StoreInv, ClicksDurable, RowsKept, HasLink
<1>8. BindingsKeepTheirKey'
  BY DEF StoreInv, StoreTyped, KeysTold, BindingsKeepTheirKey, BindingsHold, RowsKept, HasLink, Tables, Key
<1> QED
  BY <1>1, <1>3, <1>4, <1>5, <1>6, <1>7, <1>8 DEF StoreInv

----------------------------------------------------------------------------
(* The calls. *)

LEMMA NoCallTyped ==
    /\ CallTyped(NoCall)
    /\ NoCall.pc = "idle" /\ NoCall.born = 0 /\ NoCall.key = NoKey /\ NoKey \in Key /\ NoKey.ID = 0
BY DEF NoCall, CallTyped, Fields, NoKey, Key, Clicking

LEMMA CallFieldsReplaced ==
    ASSUME NEW n, Fields(n), NEW x
    PROVE  /\ [n EXCEPT !.pc = x] =
                [pc |-> x, code |-> n.code, at |-> n.at, key |-> n.key, born |-> n.born,
                 page |-> n.page]
           /\ [n EXCEPT !.code = x] =
                [pc |-> n.pc, code |-> x, at |-> n.at, key |-> n.key, born |-> n.born,
                 page |-> n.page]
           /\ [n EXCEPT !.at = x] =
                [pc |-> n.pc, code |-> n.code, at |-> x, key |-> n.key, born |-> n.born,
                 page |-> n.page]
           /\ [n EXCEPT !.key = x] =
                [pc |-> n.pc, code |-> n.code, at |-> n.at, key |-> x, born |-> n.born,
                 page |-> n.page]
           /\ [n EXCEPT !.born = x] =
                [pc |-> n.pc, code |-> n.code, at |-> n.at, key |-> n.key, born |-> x,
                 page |-> n.page]
           /\ [n EXCEPT !.page = x] =
                [pc |-> n.pc, code |-> n.code, at |-> n.at, key |-> n.key, born |-> n.born,
                 page |-> x]
BY DEF Fields

\* The arguments of a call that begins.
LEMMA FreshCall ==
    ASSUME NEW pc, NEW c, NEW k
    PROVE  /\ [NoCall EXCEPT !.pc = pc, !.code = c] =
                [pc |-> pc, code |-> c, at |-> 0, key |-> NoKey, born |-> 0, page |-> <<>>]
           /\ [NoCall EXCEPT !.pc = pc, !.key = k] =
                [pc |-> pc, code |-> NoRow, at |-> 0, key |-> k, born |-> 0, page |-> <<>>]
<1> PICK n : n = NoCall
  OBVIOUS
<1>0. /\ Fields(n) /\ n.code = NoRow /\ n.at = 0 /\ n.key = NoKey /\ n.born = 0 /\ n.page = <<>>
  BY DEF NoCall, Fields
<1> PICK r : r = [n EXCEPT !.pc = pc]
  OBVIOUS
<1>1. /\ Fields(r) /\ r.pc = pc /\ r.code = NoRow /\ r.at = 0 /\ r.key = NoKey /\ r.born = 0
      /\ r.page = <<>>
  BY <1>0, CallFieldsReplaced DEF Fields
<1> PICK s : s = [r EXCEPT !.code = c]
  OBVIOUS
<1>2. /\ Fields(s) /\ s.pc = pc /\ s.code = c /\ s.at = 0 /\ s.key = NoKey /\ s.born = 0
      /\ s.page = <<>>
  BY <1>1, CallFieldsReplaced DEF Fields
<1> PICK u : u = [r EXCEPT !.key = k]
  OBVIOUS
<1>4. /\ Fields(u) /\ u.pc = pc /\ u.code = NoRow /\ u.at = 0 /\ u.key = k /\ u.born = 0
      /\ u.page = <<>>
  BY <1>1, CallFieldsReplaced DEF Fields
<1>5. /\ s = [NoCall EXCEPT !.pc = pc, !.code = c]
      /\ u = [NoCall EXCEPT !.pc = pc, !.key = k]
  BY Zenon
<1> QED
  BY <1>2, <1>4, <1>5 DEF Fields

LEMMA FreshClick ==
    ASSUME NEW pc, NEW c, NEW at
    PROVE  [NoCall EXCEPT !.pc = pc, !.code = c, !.at = at] =
             [pc |-> pc, code |-> c, at |-> at, key |-> NoKey, born |-> 0, page |-> <<>>]
<1> PICK n : n = NoCall
  OBVIOUS
<1>0. /\ Fields(n) /\ n.code = NoRow /\ n.at = 0 /\ n.key = NoKey /\ n.born = 0 /\ n.page = <<>>
  BY DEF NoCall, Fields
<1> PICK r : r = [n EXCEPT !.pc = pc]
  OBVIOUS
<1>1. /\ Fields(r) /\ r.pc = pc /\ r.code = NoRow /\ r.at = 0 /\ r.key = NoKey /\ r.born = 0
      /\ r.page = <<>>
  BY <1>0, CallFieldsReplaced DEF Fields
<1> PICK s : s = [r EXCEPT !.code = c]
  OBVIOUS
<1>2. /\ Fields(s) /\ s.pc = pc /\ s.code = c /\ s.at = 0 /\ s.key = NoKey /\ s.born = 0
      /\ s.page = <<>>
  BY <1>1, CallFieldsReplaced DEF Fields
<1> PICK t : t = [s EXCEPT !.at = at]
  OBVIOUS
<1>3. /\ Fields(t) /\ t.pc = pc /\ t.code = c /\ t.at = at /\ t.key = NoKey /\ t.born = 0
      /\ t.page = <<>>
  BY <1>2, CallFieldsReplaced DEF Fields
<1>4. t = [pc |-> pc, code |-> c, at |-> at, key |-> NoKey, born |-> 0, page |-> <<>>]
  BY <1>3 DEF Fields
<1> QED
  BY <1>4, Zenon

LEMMA Moved ==
    ASSUME CallsTyped, NEW p \in Sessions, NEW pc
    PROVE  [calls EXCEPT ![p].pc = pc] =
             [calls EXCEPT ![p] =
                [pc |-> pc, code |-> calls[p].code, at |-> calls[p].at, key |-> calls[p].key,
                 born |-> calls[p].born, page |-> calls[p].page]]
<1>1. [calls[p] EXCEPT !.pc = pc] =
        [pc |-> pc, code |-> calls[p].code, at |-> calls[p].at, key |-> calls[p].key,
         born |-> calls[p].born, page |-> calls[p].page]
  BY CallFieldsReplaced DEF CallsTyped, CallTyped
<1> QED
  BY <1>1, Zenon

\* What every call in progress knows.
LEMMA CallKnown ==
    ASSUME StoreInv, NEW p \in Sessions
    PROVE  /\ CallTyped(calls[p])
           /\ calls[p].born <= drawn
           /\ calls[p].key.ID <= db.keySeq
           /\ \A k \in db.keys : k.ID = calls[p].key.ID => k = calls[p].key
           /\ db.keys \subseteq Key /\ db.keySeq \in Nat /\ drawn \in Nat /\ clock \in Nat
           /\ \A k \in db.keys : k.ID \in 1..db.keySeq
           /\ \A k, l \in db.keys : k.ID = l.ID => k = l
BY DEF StoreInv, StoreTyped, CallsTyped, RowsTold, KeysTold, Tables

\* A call goes on to a statement, or to its end, without writing.
LEMMA GotoStep ==
    ASSUME StoreInv, NEW p \in Sessions, NEW pc, Goto(p, pc),
           UNCHANGED <<db, journal, drawn, acked, doubt, clock, phase>>,
           calls[p].pc # "click.Return", pc \notin Clicking, pc # "revoke.Unbind",
           pc \in InTx <=> calls[p].pc \in InTx,
           pc \in InTx => pc = "rollback"
    PROVE  StoreInv'
<1> PICK n : n = [pc |-> pc, code |-> calls[p].code, at |-> calls[p].at, key |-> calls[p].key,
                  born |-> calls[p].born, page |-> calls[p].page]
  OBVIOUS
<1>1. calls' = [calls EXCEPT ![p] = n]
  BY Moved DEF Goto, StoreInv, StoreTyped
<1>2. CallTyped(n) /\ n.pc = pc /\ n.key = calls[p].key /\ n.born = calls[p].born
  BY CallKnown DEF CallTyped, Fields
<1> QED
  BY <1>1, <1>2, CallKnown, CallStep DEF Clicking

\* A call that is not in a transaction ends.
LEMMA FinishStep ==
    ASSUME StoreInv, NEW p \in Sessions, Finish(p),
           UNCHANGED <<db, journal, drawn, acked, doubt, clock, phase>>,
           calls[p].pc # "click.Return", calls[p].pc \notin InTx
    PROVE  StoreInv'
<1> PICK n : n = NoCall
  OBVIOUS
<1>1. CallTyped(n) /\ n.pc = "idle" /\ n.born = 0 /\ n.key = NoKey /\ n.key.ID = 0
  BY NoCallTyped
<1>2. n.born <= drawn /\ n.key.ID <= db.keySeq /\ n.pc \notin InTx
      /\ \A k \in db.keys : k.ID = n.key.ID => k = n.key
  BY <1>1, CallKnown DEF Key, InTx
<1>3. calls' = [calls EXCEPT ![p] = n]
  BY DEF Finish
<1> QED
  BY <1>1, <1>2, <1>3, CallStep

\* A call begins, with the key that it names, if any.
LEMMA BeginStep ==
    ASSUME StoreInv, NEW p \in Sessions, calls[p].pc = "idle",
           NEW pc \in {"click.Count", "revoke.Unbind", "lookup.Touch", "clicks.Select"},
           NEW c \in Codes \cup {NoRow}, NEW at, NEW k \in db.keys \cup {NoKey},
           pc = "click.Count" => c \in Codes, pc = "revoke.Unbind" => k \in db.keys,
           calls' = [calls EXCEPT ![p] =
                       [pc |-> pc, code |-> c, at |-> at, key |-> k, born |-> 0, page |-> <<>>]],
           UNCHANGED <<db, journal, drawn, acked, doubt, clock, phase>>
    PROVE  StoreInv'
<1> PICK n : n = [pc |-> pc, code |-> c, at |-> at, key |-> k, born |-> 0, page |-> <<>>]
  OBVIOUS
<1>1. n.pc = pc /\ n.key = k /\ n.born = 0
  OBVIOUS
<1>2. CallTyped(n)
  BY CallKnown, NoCallTyped DEF CallTyped, Fields, Clicking
<1>3. k.ID <= db.keySeq /\ (k \in db.keys => k.ID # 0) /\ \A l \in db.keys : l.ID = k.ID => l = k
  BY CallKnown, NoCallTyped DEF Key
<1>4. n.pc \notin InTx /\ calls[p].pc \notin InTx /\ n.born <= drawn
  BY <1>1, CallKnown DEF InTx
<1> QED
  BY <1>1, <1>2, <1>3, <1>4, CallStep

LEMMA ClickBeginStep ==
    ASSUME StoreInv, NEW p \in Sessions, NEW c \in Codes, ClickBegin(p, c)
    PROVE  StoreInv'
<1> PICK now : now = clock
  OBVIOUS
<1> PICK n : n = [pc |-> "click.Count", code |-> c, at |-> now, key |-> NoKey, born |-> 0,
                  page |-> <<>>]
  OBVIOUS
<1>1. n = [NoCall EXCEPT !.pc = "click.Count", !.code = c, !.at = now]
  BY FreshClick, Zenon
<1>2. calls' = [calls EXCEPT ![p] = n]
  BY <1>1, Zenon DEF ClickBegin
<1> QED
  BY <1>2, BeginStep DEF ClickBegin, Idle, Elsewhere, processVars, historyVars

LEMMA RevokeBeginStep ==
    ASSUME StoreInv, NEW p \in Sessions, RevokeBegin(p)
    PROVE  StoreInv'
<1> PICK k \in db.keys : calls' = [calls EXCEPT ![p] = [NoCall EXCEPT !.pc = "revoke.Unbind", !.key = k]]
  BY DEF RevokeBegin
<1> PICK n : n = [pc |-> "revoke.Unbind", code |-> NoRow, at |-> 0, key |-> k, born |-> 0,
                  page |-> <<>>]
  OBVIOUS
<1>1. n = [NoCall EXCEPT !.pc = "revoke.Unbind", !.key = k]
  BY FreshCall, Zenon
<1>2. calls' = [calls EXCEPT ![p] = n]
  BY <1>1, Zenon
<1>3. calls[p].pc = "idle" /\ UNCHANGED <<db, journal, drawn, acked, doubt, clock, phase>>
  BY Zenon DEF RevokeBegin, Idle, Elsewhere, processVars, historyVars
<1> QED
  BY <1>2, <1>3, BeginStep

LEMMA LookupSelectStep ==
    ASSUME StoreInv, NEW p \in Sessions, LookupSelect(p)
    PROVE  StoreInv'
<1> PICK k \in db.keys : calls' = [calls EXCEPT ![p] = [NoCall EXCEPT !.pc = "lookup.Touch", !.key = k]]
  BY DEF LookupSelect
<1> PICK n : n = [pc |-> "lookup.Touch", code |-> NoRow, at |-> 0, key |-> k, born |-> 0,
                  page |-> <<>>]
  OBVIOUS
<1>1. n = [NoCall EXCEPT !.pc = "lookup.Touch", !.key = k]
  BY FreshCall, Zenon
<1>2. calls' = [calls EXCEPT ![p] = n]
  BY <1>1, Zenon
<1>3. calls[p].pc = "idle" /\ UNCHANGED <<db, journal, drawn, acked, doubt, clock, phase>>
  BY Zenon DEF LookupSelect, Idle, Elsewhere, processVars, historyVars
<1>4. CallTyped(n) /\ n.pc = "lookup.Touch" /\ n.key = k /\ n.born = 0 /\ n.pc \notin InTx
  BY CallKnown DEF CallTyped, Fields, Clicking, InTx
<1>5. n.key.ID <= db.keySeq /\ n.born <= drawn /\ calls[p].pc \notin InTx
      /\ \A l \in db.keys : l.ID = n.key.ID => l = n.key
  BY <1>3, <1>4, CallKnown DEF Key, InTx
<1> QED
  BY <1>2, <1>3, <1>4, <1>5, CallStep

LEMMA LookupTouchStep ==
    ASSUME StoreInv, NEW p \in Sessions, LookupTouch(p)
    PROVE  StoreInv'
BY GotoStep DEF LookupTouch, At, Autocommit, Elsewhere, processVars, historyVars, InTx, Clicking

LEMMA ClicksStep ==
    ASSUME StoreInv, NEW p \in Sessions, RecentClicks(p)
    PROVE  StoreInv'
<1>1. ASSUME NEW c \in Codes, ClicksExists(p, c)
      PROVE  StoreInv'
  <2>1. [NoCall EXCEPT !.pc = "clicks.Select", !.code = c] =
          [pc |-> "clicks.Select", code |-> c, at |-> 0, key |-> NoKey, born |-> 0, page |-> <<>>]
    BY FreshCall
  <2> QED
    BY <1>1, <2>1, BeginStep DEF ClicksExists, Idle, Elsewhere, processVars, historyVars
<1>2. CASE ClicksSelect(p)
  <2> PICK g : g = Page(NewestFirst(db.clicks[calls[p].code]), PageSize)
    OBVIOUS
  <2> PICK n : n = [pc |-> "clicks.Return", code |-> calls[p].code, at |-> calls[p].at,
                    key |-> calls[p].key, born |-> calls[p].born, page |-> g]
    OBVIOUS
  <2>1. calls[p].pc = "clicks.Select"
        /\ calls' = [calls EXCEPT ![p].pc = "clicks.Return", ![p].page = g]
    BY <1>2 DEF ClicksSelect, At
  <2> PICK m : m = [calls[p] EXCEPT !.pc = "clicks.Return"]
    OBVIOUS
  <2>a. m = [pc |-> "clicks.Return", code |-> calls[p].code, at |-> calls[p].at,
             key |-> calls[p].key, born |-> calls[p].born, page |-> calls[p].page]
    BY CallKnown, CallFieldsReplaced DEF CallTyped
  <2>b. Fields(m) /\ m.code = calls[p].code /\ m.at = calls[p].at /\ m.key = calls[p].key
        /\ m.born = calls[p].born /\ m.pc = "clicks.Return"
    BY <2>a DEF Fields
  <2> PICK q : q = [m EXCEPT !.page = g]
    OBVIOUS
  <2>d. Fields(q) /\ q.code = m.code /\ q.at = m.at /\ q.key = m.key /\ q.born = m.born
        /\ q.pc = m.pc /\ q.page = g
    BY <2>b, CallFieldsReplaced DEF Fields
  <2>c. n = [m EXCEPT !.page = g]
    BY <2>b, <2>d DEF Fields
  <2>2. calls' = [calls EXCEPT ![p] = n]
    BY <2>1, <2>c, Zenon DEF StoreInv, StoreTyped, CallsTyped, CallTyped, Fields
  <2>3. CallTyped(n) /\ n.pc = "clicks.Return" /\ n.key = calls[p].key /\ n.born = calls[p].born
    BY CallKnown DEF CallTyped, Fields, Clicking
  <2> QED
    BY <1>2, <2>1, <2>2, <2>3, CallKnown, CallStep
       DEF ClicksSelect, Elsewhere, processVars, historyVars, InTx
<1>3. CASE ClicksReturn(p)
  BY <1>3, FinishStep DEF ClicksReturn, At, Elsewhere, processVars, historyVars, InTx
<1> QED
  BY <1>1, <1>2, <1>3 DEF RecentClicks

LEMMA LetGoStep ==
    ASSUME StoreInv, NEW p \in Sessions, LetGo(p)
    PROVE  StoreInv'
BY FinishStep DEF LetGo, At, Elsewhere, processVars, historyVars, InTx

LEMMA FailStep ==
    ASSUME StoreInv, NEW p \in Sessions, Fail(p)
    PROVE  StoreInv'
BY GotoStep DEF Fail, Elsewhere, processVars, historyVars, InTx, Clicking

LEMMA BusyStep ==
    ASSUME StoreInv, NEW p \in Sessions, Busy(p)
    PROVE  StoreInv'
<1>1. CASE calls[p].pc \in {"click.Count", "revoke.Unbind"} /\ Finish(p)
  BY <1>1, FinishStep DEF Busy, Elsewhere, processVars, historyVars, InTx
<1>2. CASE calls[p].pc = "lookup.Touch" /\ Goto(p, "holding")
  BY <1>2, GotoStep DEF Busy, Elsewhere, processVars, historyVars, InTx, Clicking
<1> QED
  BY <1>1, <1>2 DEF Busy

----------------------------------------------------------------------------
(* Statements of their own. *)

LEMMA DeletionKeepsRows ==
    ASSUME StoreInv, NEW S
    PROVE  RowsKept(db, DeleteLinks(db, S))
<1> PICK e : e = DeleteLinks(db, S)
  OBVIOUS
<1>a. Tables(db)
  BY DEF StoreInv, StoreTyped
<1>1. \A c \in Codes : DeleteLinks(db, S).urls[c] = IF c \in S THEN NoRow ELSE db.urls[c]
  BY <1>a, DeleteLinksTables
<1> QED
  BY <1>1 DEF StoreInv, RowsKept, RowsTold, HasLink

LEMMA SameRowsKept ==
    ASSUME StoreInv, NEW e, e.urls = db.urls
    PROVE  RowsKept(db, e)
BY DEF StoreInv, RowsKept, RowsTold, HasLink

LEMMA DeleteStep ==
    ASSUME StoreInv, NEW p \in Sessions, NEW c \in Codes, Delete(p, c)
    PROVE  StoreInv'
<1> PICK S : S = {c}
  OBVIOUS
<1> PICK e : e = DeleteLinks(db, S)
  OBVIOUS
<1>1. /\ db' = e /\ journal = NoTx
      /\ UNCHANGED <<journal, calls, drawn, acked, doubt, clock>>
  BY DEF Delete, Autocommit, Elsewhere, processVars, historyVars
<1>2. Tables(e) /\ e.keys = db.keys /\ e.keySeq = db.keySeq
  BY DeleteLinksTables, Zenon DEF StoreInv, StoreTyped
<1>3. RowsKept(db, e)
  BY DeletionKeepsRows
<1>4. drawn' \in Nat /\ drawn <= drawn'
  BY <1>1, CallKnown
<1> QED
  BY <1>1, <1>2, <1>3, <1>4, CommitStep

LEMMA RotateTokenStep ==
    ASSUME StoreInv, NEW p \in Sessions, NEW c \in Codes, RotateToken(p, c)
    PROVE  StoreInv'
<1> PICK owner : owner = drawn + 1
  OBVIOUS
<1> PICK e : e = SetOwner(db, c, owner)
  OBVIOUS
<1>1. /\ db' = e /\ journal = NoTx /\ HasLink(db, c) /\ drawn' = drawn + 1
      /\ UNCHANGED <<journal, calls, acked, doubt, clock>>
  BY DEF RotateToken, Autocommit, Elsewhere, processVars, historyVars
<1>0. owner \in Nat /\ owner # 0 /\ drawn \in Nat
  BY CallKnown
<1>a. Tables(db)
  BY DEF StoreInv, StoreTyped
<1>2. Tables(e) /\ e.keys = db.keys /\ e.keySeq = db.keySeq
  BY <1>0, <1>1, <1>a, SetOwnerTables
<1>b. e.urls = [db.urls EXCEPT ![c].OwnerTokenHash = owner]
  BY <1>0, <1>1, <1>a, SetOwnerTables
<1>3. RowsKept(db, e)
  BY <1>0, <1>1, <1>b, Rows DEF StoreInv, StoreTyped, Tables, RowsKept, RowsTold, HasLink, Link
<1> QED
  BY <1>0, <1>1, <1>2, <1>3, CommitStep

LEMMA PatchKeepsRows ==
    ASSUME StoreInv, NEW c \in Codes, HasLink(db, c), NEW t \in Nat
    PROVE  /\ Tables(SetExpiry(db, c, t)) /\ RowsKept(db, SetExpiry(db, c, t))
           /\ SetExpiry(db, c, t).keys = db.keys /\ SetExpiry(db, c, t).keySeq = db.keySeq
<1> PICK e : e = SetExpiry(db, c, t)
  OBVIOUS
<1>1. Tables(db)
  BY DEF StoreInv, StoreTyped
<1>2. Tables(e) /\ e.keys = db.keys /\ e.keySeq = db.keySeq
  BY <1>1, SetExpiryTables
<1>3. e.urls = [db.urls EXCEPT ![c].ExpiresAt = t]
  BY <1>1, SetExpiryTables
<1>4. RowsKept(db, e)
  BY <1>3, Rows DEF StoreInv, StoreTyped, Tables, RowsKept, RowsTold, HasLink, Link
<1> QED
  BY <1>2, <1>4

LEMMA UpdateStep ==
    ASSUME StoreInv, NEW p \in Sessions, NEW c \in Codes, Update(p, c)
    PROVE  StoreInv'
<1> PICK life \in Lifetimes :
      Autocommit(SetExpiry(db, c, IF life = 0 THEN 0 ELSE clock + life))
  BY DEF Update
<1> PICK t : t = IF life = 0 THEN 0 ELSE clock + life
  OBVIOUS
<1> PICK e : e = SetExpiry(db, c, t)
  OBVIOUS
<1>1. /\ db' = e /\ journal = NoTx /\ HasLink(db, c)
      /\ UNCHANGED <<journal, calls, drawn, acked, doubt, clock>>
  BY DEF Update, Autocommit, Elsewhere, processVars, historyVars
<1>0. t \in Nat
  BY CallKnown, SQLiteAssumption
<1>2. Tables(e) /\ e.keys = db.keys /\ e.keySeq = db.keySeq
  BY <1>0, <1>1, PatchKeepsRows
<1>3. RowsKept(db, e)
  BY <1>0, <1>1, PatchKeepsRows
<1>4. drawn' \in Nat /\ drawn <= drawn'
  BY <1>1, CallKnown
<1> QED
  BY <1>1, <1>2, <1>3, <1>4, CommitStep

LEMMA AddColumnStep ==
    ASSUME StoreInv, AddColumn
    PROVE  StoreInv'
<1>1. journal = NoTx /\ UNCHANGED <<journal, calls, drawn, acked, doubt, clock>>
  BY DEF AddColumn, StoreInv, LockKept, historyVars
<1>2. /\ Tables(db') /\ (db').urls = db.urls /\ (db').keys = db.keys
      /\ (db').keySeq = db.keySeq
  <2>1. Tables(db)
    BY DEF StoreInv, StoreTyped
  <2> PICK n : db' = [db EXCEPT !.columns = n]
    BY Zenon DEF AddColumn
  <2> QED
    BY <2>1, AddColumnTables, Zenon
<1> PICK e : e = db'
  OBVIOUS
<1>3. Tables(e) /\ e.urls = db.urls /\ e.keys = db.keys /\ e.keySeq = db.keySeq
  BY <1>2
<1>4. RowsKept(db, e)
  BY <1>3, SameRowsKept
<1>5. drawn' \in Nat /\ drawn <= drawn'
  BY <1>1 DEF StoreInv, StoreTyped
<1> QED
  BY <1>1, <1>3, <1>4, <1>5, CommitStep

LEMMA CleanerStep ==
    ASSUME StoreInv, Cleaner
    PROVE  StoreInv'
<1>1. UNCHANGED <<calls, drawn, acked, doubt, clock, phase>> /\ clock \in Nat /\ drawn \in Nat
  BY DEF StoreInv, StoreTyped, Cleaner, CleanerTick, CleanerReap, CleanerPrune, CleanerFails,
         CleanerStop, CleanerIdle, processVars, historyVars
<1>2. CASE CleanerReap
  <2> PICK S : S = ExpiredLinks(db, cleaner.now)
    OBVIOUS
  <2> PICK e : e = DeleteLinks(db, S)
    OBVIOUS
  <2>1. db' = e /\ journal = NoTx /\ UNCHANGED journal
    BY <1>2 DEF CleanerReap, Autocommit
  <2>2. Tables(e) /\ e.keys = db.keys /\ e.keySeq = db.keySeq
    BY DeleteLinksTables, Zenon DEF StoreInv, StoreTyped
  <2>3. RowsKept(db, e)
    BY DeletionKeepsRows
  <2> QED
    BY <1>1, <2>1, <2>2, <2>3, CommitStep
<1>3. CASE CleanerPrune
  <2> PICK cutoff : cutoff = Cutoff(cleaner.now)
    OBVIOUS
  <2> PICK e : e = PruneClicks(db, cutoff)
    OBVIOUS
  <2>1. db' = e /\ journal = NoTx /\ UNCHANGED journal
    BY <1>3 DEF CleanerPrune, Autocommit
  <2>2. Tables(e) /\ e.urls = db.urls /\ e.keys = db.keys /\ e.keySeq = db.keySeq
    BY PruneClicksTables DEF StoreInv, StoreTyped
  <2>3. RowsKept(db, e)
    BY <2>2, SameRowsKept
  <2> QED
    BY <1>1, <2>1, <2>2, <2>3, CommitStep
<1>4. CASE CleanerTick \/ CleanerFails \/ CleanerStop
  BY <1>1, <1>4, RestStep DEF CleanerTick, CleanerFails, CleanerStop
<1> QED
  BY <1>2, <1>3, <1>4 DEF Cleaner

LEMMA OtherStep ==
    ASSUME StoreInv, Start \/ Open \/ Cancel \/ CloseBegin \/ CloseReturn \/ Tick
    PROVE  StoreInv'
<1>1. UNCHANGED <<db, journal, calls, drawn, acked, doubt>>
  BY DEF Start, Open, Cancel, CloseBegin, CloseReturn, Tick, Rest, historyVars
<1>2. clock' \in Nat
  BY CallKnown DEF StoreInv, StoreTyped, Start, Open, Cancel, CloseBegin, CloseReturn, Tick, Rest
<1>3. phase' = phase \/ phase \in {"down", "migrating"} \/ phase' \notin {"down", "migrating"}
  BY DEF Start, Open, Cancel, CloseBegin, CloseReturn, Tick, processVars
<1> QED
  BY <1>1, <1>2, <1>3, RestStep

----------------------------------------------------------------------------
(* Transactions. *)

\* Whoever holds the lock, the others are not in a transaction.
LEMMA OneWriter ==
    ASSUME StoreInv, NEW p \in Sessions, journal.by \in {p, Nobody}
    PROVE  /\ p # Nobody
           /\ \A q \in Sessions : q # p => calls[q].pc \notin InTx
BY SQLiteAssumption DEF StoreInv, LockKept

\* A journal that holds d is what the call n has done so far.
Accounted(n, d) ==
    /\ n.pc \in {"click.Insert", "click.Commit"} =>
         /\ HasLink(db, n.code) /\ db.urls[n.code].Born = n.born
         /\ d.urls = CountClick(db, n.code).urls
         /\ d.keys = db.keys /\ d.keySeq = db.keySeq
    /\ n.pc \in {"revoke.Drop", "revoke.Commit"} =>
         /\ n.key.ID # 0
         /\ d.urls = UnbindLinks(db, BoundLinks(db, n.key.ID)).urls
         /\ d.keySeq = db.keySeq
         /\ d.keys = IF n.pc = "revoke.Commit" THEN DropKey(db, n.key.ID).keys ELSE db.keys

\* A statement of a transaction: its effect d stays in the journal.
LEMMA TxStep ==
    ASSUME StoreInv, NEW p \in Sessions, journal.by \in {p, Nobody},
           phase \notin {"down", "migrating"}, calls[p].pc # "click.Return",
           NEW d, Tables(d), journal' = [by |-> p, db |-> d],
           NEW n, CallTyped(n), calls' = [calls EXCEPT ![p] = n],
           n.pc \in InTx, n.key = calls[p].key, n.born <= drawn,
           Accounted(n, d),
           UNCHANGED <<db, drawn, acked, doubt, clock, phase>>
    PROVE  StoreInv'
<1>1. calls'[p] = n /\ \A q \in Sessions : q # p => calls'[q] = calls[q]
  BY DEF StoreInv, StoreTyped, CallsTyped
<1>2. StoreTyped'
  <2>1. calls' = [q \in Sessions |-> calls'[q]]
    BY DEF StoreInv, StoreTyped, CallsTyped
  <2>2. \A q \in Sessions : CallTyped(calls'[q])
    BY <1>1 DEF StoreInv, StoreTyped, CallsTyped
  <2> QED
    BY <2>1, <2>2 DEF StoreInv, StoreTyped, CallsTyped
<1>3. LockKept'
  <2>1. journal'.by = p /\ journal'.db = d
    OBVIOUS
  <2>2. \A q \in Sessions : calls'[q].pc \in InTx <=> q = p
    BY <1>1, OneWriter
  <2> QED
    BY <2>1, <2>2, OneWriter DEF LockKept
<1>4. JournalFollows'
  <2> SUFFICES ASSUME NEW q \in Sessions
               PROVE  /\ calls'[q].pc \in {"click.Insert", "click.Commit"} => ClickPending(q)'
                      /\ calls'[q].pc \in {"revoke.Drop", "revoke.Commit"} => RevocationPending(q)'
    BY DEF JournalFollows
  <2>1. CASE q = p
    <3>1. journal'.db = d /\ calls'[q] = n
      BY <1>1, <2>1
    <3>2. CASE n.pc \in {"click.Insert", "click.Commit"}
      <4>1. ClickPending(q)'
        BY <3>1, <3>2, Zenon DEF Accounted, ClickPending, HasLink
      <4> QED
        BY <3>1, <3>2, <4>1
    <3>3. CASE n.pc \in {"revoke.Drop", "revoke.Commit"}
      <4>1. RevocationPending(q)'
        BY <3>1, <3>3, Zenon DEF Accounted, RevocationPending
      <4> QED
        BY <3>1, <3>3, <4>1
    <3> QED
      BY <3>1, <3>2, <3>3
  <2>2. CASE q # p
    BY <1>1, <2>2, OneWriter DEF InTx
  <2> QED
    BY <2>1, <2>2
<1>5. RowsTold'
  BY <1>1 DEF StoreInv, RowsTold, HasLink
<1>6. KeysTold'
  BY <1>1 DEF StoreInv, KeysTold, HasLink, InTx
<1>7. ClicksDurable'
  <2>1. \A c \in Codes : Unanswered(c)' = Unanswered(c)
    BY <1>1 DEF Unanswered, SameRow, HasLink, InTx
  <2> QED
    BY <2>1 DEF StoreInv, ClicksDurable, HasLink
<1>8. BindingsKeepTheirKey'
  BY DEF StoreInv, BindingsKeepTheirKey, BindingsHold, HasLink
<1> QED
  BY <1>2, <1>3, <1>4, <1>5, <1>6, <1>7, <1>8 DEF StoreInv

\* A transaction ends, with e for the database, and its call with it.
LEMMA EndStep ==
    ASSUME StoreInv, NEW p \in Sessions, journal.by = p, Finish(p),
           journal' = NoTx, Tables(journal'.db),
           NEW e, Tables(e), db' = e, RowsKept(db, e),
           e.keys \subseteq db.keys, e.keySeq = db.keySeq,
           UNCHANGED <<drawn, acked, doubt, clock>>
    PROVE  StoreInv'
<1> PICK n : n = NoCall
  OBVIOUS
<1>0. CallTyped(n) /\ n.pc = "idle" /\ n.born = 0 /\ n.key = NoKey /\ n.key.ID = 0
      /\ n.pc \notin InTx /\ calls[p].pc \in InTx
  BY NoCallTyped DEF StoreInv, LockKept, InTx
<1>1. calls'[p] = n /\ \A q \in Sessions : q # p => calls'[q] = calls[q]
  BY DEF StoreInv, StoreTyped, CallsTyped, Finish
<1>2. StoreTyped'
  <2>1. calls' = [q \in Sessions |-> calls'[q]]
    BY DEF StoreInv, StoreTyped, CallsTyped, Finish
  <2>2. \A q \in Sessions : CallTyped(calls'[q])
    BY <1>0, <1>1 DEF StoreInv, StoreTyped, CallsTyped
  <2> QED
    BY <2>1, <2>2 DEF StoreInv, StoreTyped, CallsTyped
<1>3. \A q \in Sessions : calls'[q].pc \notin InTx
  BY <1>0, <1>1, OneWriter
<1>4. LockKept'
  BY <1>3, SQLiteAssumption DEF LockKept, NoTx
<1>5. JournalFollows'
  BY <1>3 DEF JournalFollows, InTx
<1>6. RowsTold'
  BY <1>0, <1>1 DEF StoreInv, StoreTyped, RowsTold, RowsKept, HasLink
<1>7. KeysTold'
  BY <1>0, <1>1 DEF StoreInv, StoreTyped, KeysTold, RowsKept, Tables, Link, HasLink
<1>8. ClicksDurable'
  <2>1. \A c \in Codes : HasLink(e, c) => Unanswered(c)' = Unanswered(c)
    BY <1>0, <1>1 DEF Unanswered, SameRow, RowsKept, HasLink, InTx
  <2> QED
    BY <2>1 DEF StoreInv, ClicksDurable, RowsKept, HasLink
<1>9. BindingsKeepTheirKey'
  BY DEF StoreInv, StoreTyped, KeysTold, BindingsKeepTheirKey, BindingsHold, RowsKept, HasLink, Tables, Key
<1> QED
  BY <1>2, <1>4, <1>5, <1>6, <1>7, <1>8, <1>9 DEF StoreInv

LEMMA RollbackStep ==
    ASSUME StoreInv, NEW p \in Sessions, Rollback(p)
    PROVE  StoreInv'
<1>1. journal.by = p
  BY DEF Rollback, At, StoreInv, LockKept, InTx
<1> PICK e : e = db
  OBVIOUS
<1>2. Tables(e) /\ RowsKept(db, e)
  BY SameRowsKept DEF StoreInv, StoreTyped
<1>3. Tables(NoTx.db)
  BY EmptyTables DEF NoTx
<1> QED
  BY <1>1, <1>2, <1>3, EndStep DEF Rollback, Elsewhere, historyVars

\* Where a call is inside a transaction, and the phase allows it.
LEMMA InLock ==
    ASSUME StoreInv, NEW p \in Sessions, Running
    PROVE  /\ phase \notin {"down", "migrating"}
           /\ calls[p].pc \in InTx => journal.by = p
           /\ journal = NoTx => journal.by = Nobody
           /\ Tables(db) /\ Tables(journal.db)
BY DEF StoreInv, StoreTyped, LockKept, Running, NoTx

LEMMA ClickCountStep ==
    ASSUME StoreInv, NEW p \in Sessions, ClickCount(p)
    PROVE  StoreInv'
<1> PICK c : c = calls[p].code
  OBVIOUS
<1>1. /\ calls[p].pc = "click.Count" /\ Running /\ c \in Codes /\ journal = NoTx
      /\ UNCHANGED <<db, drawn, acked, doubt, clock, phase>>
  BY CallKnown DEF ClickCount, At, Lock, Elsewhere, processVars, historyVars, CallTyped, Clicking
<1>2. phase \notin {"down", "migrating"} /\ journal.by \in {p, Nobody} /\ Tables(db)
  BY <1>1, InLock
<1>3. CASE HasLink(db, c)
  <2> PICK born : born = db.urls[c].Born
    OBVIOUS
  <2> PICK d : d = CountClick(db, c)
    OBVIOUS
  <2>1. born \in Nat /\ born <= drawn
    BY <1>1, <1>2, <1>3, Rows DEF Link, StoreInv, RowsTold
  <2>2. Tables(d) /\ d.keys = db.keys /\ d.keySeq = db.keySeq
    BY <1>1, <1>2, <1>3, CountClickTables
  <2> PICK m : m = [calls[p] EXCEPT !.pc = "click.Insert"]
    OBVIOUS
  <2> PICK n : n = [m EXCEPT !.born = born]
    OBVIOUS
  <2>3. m = [pc |-> "click.Insert", code |-> calls[p].code, at |-> calls[p].at,
             key |-> calls[p].key, born |-> calls[p].born, page |-> calls[p].page]
    BY CallKnown, CallFieldsReplaced DEF CallTyped
  <2>4. Fields(m) /\ m.code = c /\ m.key = calls[p].key /\ m.pc = "click.Insert"
    BY <2>3 DEF Fields
  <2>5. Fields(n) /\ n.code = c /\ n.key = calls[p].key /\ n.born = born /\ n.pc = "click.Insert"
    BY <2>4, CallFieldsReplaced DEF Fields
  <2>6. CallTyped(n)
    BY <1>1, <2>1, <2>5, CallKnown DEF CallTyped
  <2>7. journal' = [by |-> p, db |-> d] /\ calls' = [calls EXCEPT ![p] = n]
    BY <1>3, Zenon DEF ClickCount, Lock
  <2>8. /\ HasLink(db, n.code) /\ db.urls[n.code].Born = n.born
        /\ d.urls = CountClick(db, n.code).urls
    BY <1>3, <2>5, Zenon
  <2>9. n.pc \in InTx /\ n.pc \notin {"revoke.Drop", "revoke.Commit"} /\ n.born <= drawn
        /\ calls[p].pc # "click.Return"
    BY <1>1, <2>1, <2>5 DEF InTx
  <2>a. Accounted(n, d)
    BY <2>2, <2>8, <2>9, Zenon DEF Accounted
  <2> QED
    BY <1>1, <1>2, <2>2, <2>5, <2>6, <2>7, <2>9, <2>a, TxStep
<1>4. CASE ~HasLink(db, c)
  <2> PICK n : n = [pc |-> "rollback", code |-> calls[p].code, at |-> calls[p].at,
                    key |-> calls[p].key, born |-> calls[p].born, page |-> calls[p].page]
    OBVIOUS
  <2>1. CallTyped(n) /\ n.pc = "rollback" /\ n.key = calls[p].key /\ n.born <= drawn
    BY CallKnown DEF CallTyped, Fields, Clicking
  <2>2. journal' = [by |-> p, db |-> db]
    BY <1>4 DEF ClickCount, Lock
  <2>3. calls' = [calls EXCEPT ![p] = n]
    BY <1>4, Moved DEF ClickCount, Goto, StoreInv, StoreTyped
  <2>4. Accounted(n, db)
    BY <2>1 DEF Accounted
  <2> QED
    BY <1>1, <1>2, <2>1, <2>2, <2>3, <2>4, TxStep DEF InTx
<1> QED
  BY <1>3, <1>4

LEMMA ClickInsertStep ==
    ASSUME StoreInv, NEW p \in Sessions, ClickInsert(p)
    PROVE  StoreInv'
<1> PICK n : n = [pc |-> "click.Commit", code |-> calls[p].code, at |-> calls[p].at,
                  key |-> calls[p].key, born |-> calls[p].born, page |-> calls[p].page]
  OBVIOUS
<1> PICK d : d = InsertClick(journal.db, calls[p].code, calls[p].at)
  OBVIOUS
<1>1. /\ calls[p].pc = "click.Insert" /\ Running /\ calls[p].code \in Codes
      /\ UNCHANGED <<db, drawn, acked, doubt, clock, phase>>
  BY CallKnown DEF ClickInsert, At, Write, Elsewhere, processVars, historyVars, CallTyped, Clicking
<1>2. phase \notin {"down", "migrating"} /\ journal.by = p /\ Tables(journal.db)
  BY <1>1, InLock DEF InTx
<1>3. journal' = [by |-> p, db |-> d]
  BY DEF ClickInsert, Write
<1>4. calls' = [calls EXCEPT ![p] = n]
  BY Moved DEF ClickInsert, Goto, StoreInv, StoreTyped
<1>5. /\ CallTyped(n) /\ n.pc = "click.Commit" /\ n.key = calls[p].key /\ n.born = calls[p].born
      /\ n.born <= drawn /\ n.code = calls[p].code
  BY <1>1, CallKnown DEF CallTyped, Fields
<1>6. Tables(d) /\ d.urls = journal.db.urls /\ d.keys = journal.db.keys /\ d.keySeq = journal.db.keySeq
  BY <1>2, InsertClickTables
<1>7. ClickPending(p)
  BY <1>1 DEF StoreInv, JournalFollows
<1>8. /\ HasLink(db, n.code) /\ db.urls[n.code].Born = n.born
      /\ d.urls = CountClick(db, n.code).urls /\ d.keys = db.keys /\ d.keySeq = db.keySeq
  BY <1>5, <1>6, <1>7, Zenon DEF ClickPending
<1>9. n.pc \in InTx /\ n.pc \notin {"revoke.Drop", "revoke.Commit"}
      /\ calls[p].pc # "click.Return" /\ journal.by \in {p, Nobody}
  BY <1>1, <1>2, <1>5 DEF InTx
<1>a. Accounted(n, d)
  BY <1>8, <1>9, Zenon DEF Accounted
<1> QED
  BY <1>1, <1>2, <1>3, <1>4, <1>5, <1>6, <1>9, <1>a, TxStep

LEMMA RevokeUnbindStep ==
    ASSUME StoreInv, NEW p \in Sessions, RevokeUnbind(p)
    PROVE  StoreInv'
<1> PICK id : id = calls[p].key.ID
  OBVIOUS
<1> PICK d : d = UnbindLinks(db, BoundLinks(db, id))
  OBVIOUS
<1> PICK n : n = [pc |-> "revoke.Drop", code |-> calls[p].code, at |-> calls[p].at,
                  key |-> calls[p].key, born |-> calls[p].born, page |-> calls[p].page]
  OBVIOUS
<1>1. /\ calls[p].pc = "revoke.Unbind" /\ Running /\ journal = NoTx
      /\ UNCHANGED <<db, drawn, acked, doubt, clock, phase>>
  BY DEF RevokeUnbind, At, Lock, Elsewhere, processVars, historyVars
<1>2. phase \notin {"down", "migrating"} /\ journal.by \in {p, Nobody} /\ Tables(db)
  BY <1>1, InLock
<1>3. journal' = [by |-> p, db |-> d]
  BY Zenon DEF RevokeUnbind, Lock
<1>4. calls' = [calls EXCEPT ![p] = n]
  BY Moved DEF RevokeUnbind, Goto, StoreInv, StoreTyped
<1>5. /\ CallTyped(n) /\ n.pc = "revoke.Drop" /\ n.key = calls[p].key /\ n.born <= drawn
      /\ n.key.ID = id
  BY CallKnown DEF CallTyped, Fields, Clicking
<1>6. Tables(d) /\ d.keys = db.keys /\ d.keySeq = db.keySeq
  <2>1. \A c \in Codes : c \in BoundLinks(db, id) => HasLink(db, c)
    BY DEF BoundLinks
  <2> QED
    BY <1>2, <2>1, UnbindLinksTables
<1>7. id # 0
  BY <1>1 DEF StoreInv, KeysTold
<1>8. d.urls = UnbindLinks(db, BoundLinks(db, n.key.ID)).urls
  BY <1>5, Zenon
<1>9. n.pc # "click.Insert" /\ n.pc # "click.Commit" /\ n.pc # "revoke.Commit"
  BY <1>5
<1>a. Accounted(n, d)
  BY <1>5, <1>6, <1>7, <1>8, <1>9, Zenon DEF Accounted
<1> QED
  BY <1>1, <1>2, <1>3, <1>4, <1>5, <1>6, <1>a, TxStep DEF InTx

LEMMA RevokeDropStep ==
    ASSUME StoreInv, NEW p \in Sessions, RevokeDrop(p)
    PROVE  StoreInv'
<1> PICK id : id = calls[p].key.ID
  OBVIOUS
<1> PICK d : d = DropKey(journal.db, id)
  OBVIOUS
<1> PICK pc : pc = IF HasKey(journal.db, id) THEN "revoke.Commit" ELSE "rollback"
  OBVIOUS
<1> PICK n : n = [pc |-> pc, code |-> calls[p].code, at |-> calls[p].at,
                  key |-> calls[p].key, born |-> calls[p].born, page |-> calls[p].page]
  OBVIOUS
<1>1. /\ calls[p].pc = "revoke.Drop" /\ Running
      /\ UNCHANGED <<db, drawn, acked, doubt, clock, phase>>
  BY DEF RevokeDrop, At, Write, Elsewhere, processVars, historyVars
<1>2. phase \notin {"down", "migrating"} /\ journal.by = p /\ Tables(journal.db) /\ Tables(db)
  BY <1>1, InLock DEF InTx
<1>3. journal' = [by |-> p, db |-> d]
  BY Zenon DEF RevokeDrop, Write
<1>4. calls' = [calls EXCEPT ![p] = n]
  BY Moved DEF RevokeDrop, Goto, StoreInv, StoreTyped
<1>5. /\ CallTyped(n) /\ n.pc = pc /\ n.key = calls[p].key /\ n.born <= drawn
      /\ n.key.ID = id /\ pc \in {"revoke.Commit", "rollback"}
  BY CallKnown DEF CallTyped, Fields, Clicking
<1>6. RevocationPending(p)
  BY <1>1 DEF StoreInv, JournalFollows
<1>7. /\ Tables(d) /\ d.urls = journal.db.urls /\ d.keySeq = journal.db.keySeq
      /\ d.keys = {k \in journal.db.keys : k.ID # id}
  BY <1>2, DropKeyTables
<1>8. id # 0 /\ d.urls = UnbindLinks(db, BoundLinks(db, n.key.ID)).urls /\ d.keySeq = db.keySeq
  BY <1>5, <1>6, <1>7, Zenon DEF RevocationPending
<1>9. d.keys = DropKey(db, n.key.ID).keys
  <2>1. journal.db.keys = db.keys
    BY <1>1, <1>6 DEF RevocationPending
  <2>2. DropKey(db, id).keys = {k \in db.keys : k.ID # id}
    BY <1>2, DropKeyTables
  <2> QED
    BY <1>5, <1>7, <2>1, <2>2
<1>a. n.pc \in InTx /\ n.pc \notin {"click.Insert", "click.Commit", "revoke.Drop"}
      /\ calls[p].pc # "click.Return" /\ journal.by \in {p, Nobody}
  BY <1>1, <1>2, <1>5 DEF InTx
<1>b. n.pc = "revoke.Commit" \/ n.pc \notin {"revoke.Drop", "revoke.Commit"}
  BY <1>5
<1>c. Accounted(n, d)
  BY <1>5, <1>8, <1>9, <1>a, <1>b, Zenon DEF Accounted
<1> QED
  BY <1>1, <1>2, <1>3, <1>4, <1>5, <1>7, <1>a, <1>c, TxStep

LEMMA RevokeCommitStep ==
    ASSUME StoreInv, NEW p \in Sessions, RevokeCommit(p)
    PROVE  StoreInv'
<1> PICK id : id = calls[p].key.ID
  OBVIOUS
<1> DEFINE S == BoundLinks(db, id)
<1> PICK e : e = journal.db
  OBVIOUS
<1>1. /\ calls[p].pc = "revoke.Commit" /\ Running /\ Finish(p) /\ journal' = NoTx /\ db' = e
      /\ UNCHANGED <<drawn, acked, doubt, clock>>
  BY DEF RevokeCommit, At, Elsewhere, historyVars
<1>2. journal.by = p /\ Tables(e) /\ Tables(db)
  BY <1>1, InLock DEF InTx
<1>3. RevocationPending(p)
  BY <1>1 DEF StoreInv, JournalFollows
<1>4. e.urls = UnbindLinks(db, S).urls /\ e.keySeq = db.keySeq /\ e.keys = DropKey(db, id).keys
  BY <1>1, <1>3 DEF RevocationPending
<1>5. e.keys \subseteq db.keys
  BY <1>2, <1>4, DropKeyTables
<1>6. \A c \in Codes : IF c \in S THEN Unbound(e.urls[c], db.urls[c]) ELSE e.urls[c] = db.urls[c]
  BY <1>2, <1>4, RevokedRows
<1>7. RowsKept(db, e)
  BY <1>6 DEF Unbound, StoreInv, RowsKept, RowsTold, HasLink, BoundLinks
<1>8. Tables(NoTx.db)
  BY EmptyTables DEF NoTx
<1> QED
  BY <1>1, <1>2, <1>4, <1>5, <1>7, <1>8, EndStep

LEMMA CallEnds ==
    ASSUME StoreInv, NEW p \in Sessions, Finish(p)
    PROVE  /\ calls'[p] = NoCall
           /\ \A q \in Sessions : q # p => calls'[q] = calls[q]
           /\ CallsTyped'
<1>1. calls'[p] = NoCall /\ \A q \in Sessions : q # p => calls'[q] = calls[q]
  BY DEF StoreInv, StoreTyped, CallsTyped, Finish
<1>2. calls' = [q \in Sessions |-> calls'[q]]
  BY DEF StoreInv, StoreTyped, CallsTyped, Finish
<1>3. \A q \in Sessions : CallTyped(calls'[q])
  BY <1>1, NoCallTyped DEF StoreInv, StoreTyped, CallsTyped
<1> QED
  BY <1>1, <1>2, <1>3 DEF CallsTyped

\* The calls that the history counts are finitely many.
LEMMA UnansweredFinite ==
    ASSUME NEW c \in Codes
    PROVE  IsFiniteSet(Unanswered(c)) /\ Cardinality(Unanswered(c)) \in Nat
<1>1. Unanswered(c) \subseteq Sessions
  BY DEF Unanswered
<1> QED
  BY <1>1, SQLiteAssumption, FS_Subset, FS_CardinalityType

LEMMA ClickReturnStep ==
    ASSUME StoreInv, NEW p \in Sessions, ClickReturn(p)
    PROVE  StoreInv'
<1> PICK c : c = calls[p].code
  OBVIOUS
<1>1. /\ calls[p].pc = "click.Return" /\ Finish(p)
      /\ UNCHANGED <<db, journal, drawn, clock, phase, doubt>>
  BY DEF ClickReturn, At, Elsewhere, processVars
<1>2. c \in Codes /\ acked' = [acked EXCEPT ![c] = IF SameRow(p) THEN acked[c] + 1 ELSE acked[c]]
  BY <1>1, CallKnown DEF ClickReturn, CallTyped, Clicking
<1>3. /\ calls'[p].pc = "idle" /\ calls'[p].born = 0 /\ calls'[p].key = NoKey /\ NoKey.ID = 0
      /\ \A q \in Sessions : q # p => calls'[q] = calls[q]
  BY <1>1, CallEnds, NoCallTyped
<1>4. StoreTyped'
  BY <1>1, <1>2, CallEnds DEF StoreInv, StoreTyped
<1>5. LockKept'
  BY <1>1, <1>3 DEF StoreInv, LockKept, InTx
<1>6. JournalFollows'
  <2> SUFFICES ASSUME NEW q \in Sessions
               PROVE  /\ calls'[q].pc \in {"click.Insert", "click.Commit"} => ClickPending(q)'
                      /\ calls'[q].pc \in {"revoke.Drop", "revoke.Commit"} => RevocationPending(q)'
    BY DEF JournalFollows
  <2>1. CASE q = p
    BY <1>3, <2>1
  <2>2. CASE q # p
    BY <1>1, <1>3, <2>2 DEF StoreInv, JournalFollows, ClickPending, RevocationPending, HasLink
  <2> QED
    BY <2>1, <2>2
<1>7. RowsTold'
  BY <1>1, <1>3 DEF StoreInv, StoreTyped, RowsTold, HasLink
<1>8. KeysTold'
  BY <1>1, <1>3 DEF StoreInv, StoreTyped, KeysTold, Tables, HasLink
<1>9. ClicksDurable'
  <2>1. \A b \in Codes : b # c => Unanswered(b)' = Unanswered(b)
    BY <1>1, <1>3 DEF Unanswered, SameRow, HasLink
  <2>2. CASE SameRow(p)
    <3>1. p \in Unanswered(c)
      BY <1>1, <2>2 DEF Unanswered
    <3>2. Unanswered(c)' = Unanswered(c) \ {p}
      BY <1>1, <1>3 DEF Unanswered, SameRow, HasLink
    <3>3. Cardinality(Unanswered(c)') = Cardinality(Unanswered(c)) - 1
      BY <1>2, <3>1, <3>2, UnansweredFinite, FS_RemoveElement
    <3>4. acked'[c] = acked[c] + 1 /\ \A b \in Codes : b # c => acked'[b] = acked[b]
      BY <1>2, <2>2 DEF StoreInv, StoreTyped
    <3> QED
      BY <1>1, <1>2, <2>1, <3>3, <3>4, UnansweredFinite
         DEF StoreInv, StoreTyped, ClicksDurable, HasLink
  <2>3. CASE ~SameRow(p)
    <3>1. Unanswered(c)' = Unanswered(c)
      BY <1>1, <1>3, <2>3 DEF Unanswered, SameRow, HasLink
    <3>2. acked' = acked
      BY <1>2, <2>3 DEF StoreInv, StoreTyped
    <3> QED
      BY <1>1, <2>1, <3>1, <3>2 DEF StoreInv, ClicksDurable, HasLink
  <2> QED
    BY <2>2, <2>3
<1>a. BindingsKeepTheirKey'
  BY <1>1 DEF StoreInv, BindingsKeepTheirKey, BindingsHold, HasLink
<1> QED
  BY <1>4, <1>5, <1>6, <1>7, <1>8, <1>9, <1>a DEF StoreInv

LEMMA ClickCommitStep ==
    ASSUME StoreInv, NEW p \in Sessions, ClickCommit(p)
    PROVE  StoreInv'
<1> PICK c : c = calls[p].code
  OBVIOUS
<1> PICK e : e = journal.db
  OBVIOUS
<1> PICK n : n = [pc |-> "click.Return", code |-> calls[p].code, at |-> calls[p].at,
                  key |-> calls[p].key, born |-> calls[p].born, page |-> calls[p].page]
  OBVIOUS
<1>1. /\ calls[p].pc = "click.Commit" /\ Running /\ journal' = NoTx /\ db' = e
      /\ UNCHANGED <<drawn, acked, doubt, clock>>
  BY DEF ClickCommit, At, Elsewhere, historyVars
<1>2. journal.by = p /\ Tables(e) /\ Tables(db)
  BY <1>1, InLock DEF InTx
<1>3. ClickPending(p)
  BY <1>1 DEF StoreInv, JournalFollows
<1>4. /\ CallTyped(n) /\ n.pc = "click.Return" /\ n.key = calls[p].key /\ n.code = c
      /\ n.born = calls[p].born /\ n.pc \notin InTx /\ c \in Codes
  BY <1>1, CallKnown DEF CallTyped, Fields, Clicking, InTx
<1>5. calls' = [calls EXCEPT ![p] = n]
  BY Moved DEF ClickCommit, Goto, StoreInv, StoreTyped
<1>6. calls'[p] = n /\ \A q \in Sessions : q # p => calls'[q] = calls[q]
  BY <1>5 DEF StoreInv, StoreTyped, CallsTyped
<1>7. /\ HasLink(db, c) /\ db.urls[c].Born = n.born
      /\ e.urls = CountClick(db, c).urls /\ e.keys = db.keys /\ e.keySeq = db.keySeq
  BY <1>3, <1>4, Zenon DEF ClickPending
<1>8. e.urls = [db.urls EXCEPT ![c].ClickCount = db.urls[c].ClickCount + 1]
  BY <1>2, <1>4, <1>7, CountClickTables
<1>9. /\ \A b \in Codes : b # c => e.urls[b] = db.urls[b]
      /\ e.urls[c] # NoRow /\ e.urls[c].ClickCount = db.urls[c].ClickCount + 1
      /\ e.urls[c].Born = db.urls[c].Born /\ e.urls[c].APIKeyID = db.urls[c].APIKeyID
      /\ e.urls[c].BoundTo = db.urls[c].BoundTo
      /\ e.urls[c].OwnerTokenHash = db.urls[c].OwnerTokenHash
  <2>1. db.urls[c] \in Link
    BY <1>2, <1>4, <1>7, Rows
  <2>2. e.urls[c] = [db.urls[c] EXCEPT !.ClickCount = db.urls[c].ClickCount + 1]
    BY <1>2, <1>4, <1>8 DEF Tables
  <2>3. e.urls[c] \in Link
    BY <2>1, <2>2 DEF Link
  <2> QED
    BY <1>2, <1>4, <1>8, <2>1, <2>2, <2>3, TablesAssumption DEF Tables, Link
<1>a. StoreTyped'
  <2>1. calls' = [q \in Sessions |-> calls'[q]]
    BY <1>5 DEF StoreInv, StoreTyped, CallsTyped
  <2>2. \A q \in Sessions : CallTyped(calls'[q])
    BY <1>4, <1>6 DEF StoreInv, StoreTyped, CallsTyped
  <2> QED
    BY <1>1, <1>2, <2>1, <2>2 DEF StoreInv, StoreTyped, CallsTyped
<1>b. \A q \in Sessions : calls'[q].pc \notin InTx
  BY <1>2, <1>4, <1>6, OneWriter
<1>c. LockKept'
  BY <1>1, <1>b, EmptyTables, SQLiteAssumption DEF LockKept, NoTx
<1>d. JournalFollows'
  BY <1>b DEF JournalFollows, InTx
<1>e. RowsTold'
  BY <1>1, <1>4, <1>6, <1>7, <1>9 DEF StoreInv, RowsTold, HasLink
<1>f. KeysTold'
  BY <1>1, <1>4, <1>6, <1>7, <1>9 DEF StoreInv, KeysTold, HasLink
<1>g. ClicksDurable'
  <2>a. \A b \in Codes : (e.urls[b] # NoRow <=> db.urls[b] # NoRow)
                         /\ e.urls[b].Born = db.urls[b].Born
    BY <1>7, <1>9 DEF HasLink
  <2>b. \A b \in Codes : \A q \in Sessions \ {p} : q \in Unanswered(b)' <=> q \in Unanswered(b)
    <3> SUFFICES ASSUME NEW b \in Codes, NEW q \in Sessions \ {p}
                 PROVE  q \in Unanswered(b)' <=> q \in Unanswered(b)
      OBVIOUS
    <3>1. calls'[q] = calls[q]
      BY <1>6
    <3>2. CASE calls[q].code = b
      <4>1. (e.urls[b] # NoRow) <=> (db.urls[b] # NoRow)
        BY <2>a
      <4>2. e.urls[b].Born = db.urls[b].Born
        BY <2>a
      <4> QED
        BY <1>1, <3>1, <3>2, <4>1, <4>2 DEF Unanswered, SameRow, HasLink
    <3>3. CASE calls[q].code # b
      BY <3>1, <3>3 DEF Unanswered
    <3> QED
      BY <3>2, <3>3
  <2>c. \A b \in Codes : p \notin Unanswered(b) /\ (p \in Unanswered(b)' <=> b = c)
    BY <1>1, <1>4, <1>6, <1>7, <1>9 DEF Unanswered, SameRow, HasLink
  <2>d. \A b \in Codes : Unanswered(b) \subseteq Sessions /\ Unanswered(b)' \subseteq Sessions
    BY DEF Unanswered
  <2>1. \A b \in Codes : b # c => Unanswered(b)' = Unanswered(b)
    BY <2>b, <2>c, <2>d
  <2>2. Unanswered(c)' = Unanswered(c) \cup {p} /\ p \notin Unanswered(c)
    BY <1>4, <2>b, <2>c, <2>d
  <2>3. Cardinality(Unanswered(c)') = Cardinality(Unanswered(c)) + 1
    BY <1>4, <2>2, UnansweredFinite, FS_AddElement
  <2> QED
    BY <1>1, <1>4, <1>7, <1>9, <2>1, <2>3, UnansweredFinite
       DEF StoreInv, StoreTyped, ClicksDurable, HasLink
<1>h. BindingsKeepTheirKey'
  BY <1>1, <1>7, <1>9 DEF StoreInv, BindingsKeepTheirKey, BindingsHold, HasLink
<1> QED
  BY <1>a, <1>c, <1>d, <1>e, <1>f, <1>g, <1>h DEF StoreInv

LEMMA CreateAPIKeyStep ==
    ASSUME StoreInv, NEW p \in Sessions, CreateAPIKey(p)
    PROVE  StoreInv'
<1> PICK hash : hash = drawn + 1
  OBVIOUS
<1> PICK e : e = InsertKey(db, hash)
  OBVIOUS
<1>1. /\ db' = e /\ journal = NoTx /\ drawn' = drawn + 1
      /\ UNCHANGED <<journal, calls, acked, doubt, clock>>
  BY DEF CreateAPIKey, Autocommit, Elsewhere, historyVars
<1>2. Tables(db) /\ drawn \in Nat /\ db.keySeq \in Nat
  BY DEF StoreInv, StoreTyped, Tables
<1> PICK k : k = [ID |-> db.keySeq + 1, TokenHash |-> hash]
  OBVIOUS
<1>a. hash \in Nat /\ k.ID = db.keySeq + 1
  BY <1>2
<1>3. /\ Tables(e) /\ e.urls = db.urls /\ e.keys = db.keys \cup {k} /\ e.keySeq = db.keySeq + 1
  BY <1>2, <1>a, InsertKeyTables, Zenon
<1>4. StoreTyped'
  BY <1>1, <1>2, <1>3, <1>a DEF StoreInv, StoreTyped, CallsTyped
<1>5. LockKept' /\ \A q \in Sessions : calls[q].pc \notin InTx
  BY <1>1, SQLiteAssumption DEF StoreInv, LockKept, NoTx
<1>6. JournalFollows'
  BY <1>1, <1>5 DEF JournalFollows, InTx
<1>7. RowsTold'
  BY <1>1, <1>2, <1>3, <1>a DEF StoreInv, StoreTyped, CallsTyped, CallTyped, Tables, Link, RowsTold, HasLink
<1>8. KeysTold'
  BY <1>1, <1>2, <1>3, <1>a
     DEF StoreInv, StoreTyped, CallsTyped, CallTyped, Tables, Link, Key, KeysTold, HasLink
<1>9. ClicksDurable'
  <2>1. \A c \in Codes : Unanswered(c)' = Unanswered(c)
    BY <1>1, <1>3 DEF Unanswered, SameRow, HasLink
  <2> QED
    BY <1>1, <1>3, <2>1 DEF StoreInv, ClicksDurable, HasLink
<1>b. BindingsKeepTheirKey'
  BY <1>1, <1>2, <1>3, <1>a DEF StoreInv, BindingsKeepTheirKey, BindingsHold, KeysTold, HasLink, Tables, Link
<1> QED
  BY <1>4, <1>5, <1>6, <1>7, <1>8, <1>9, <1>b DEF StoreInv

LEMMA StopStep ==
    ASSUME StoreInv, Stop
    PROVE  StoreInv'
<1>1. /\ journal' = NoTx /\ UNCHANGED <<db, clock, drawn, acked>>
      /\ calls' = [p \in Sessions |-> NoCall]
      /\ \A p \in Sessions : calls'[p] = NoCall
      /\ doubt' = [c \in Codes |-> doubt[c] + Cardinality(Unanswered(c))]
  BY DEF Stop
<1>2. StoreTyped'
  <2>1. CallsTyped'
    BY <1>1, NoCallTyped DEF CallsTyped
  <2>2. doubt' \in [Codes -> Nat]
    BY <1>1, UnansweredFinite DEF StoreInv, StoreTyped
  <2> QED
    BY <1>1, <2>1, <2>2 DEF StoreInv, StoreTyped
<1>3. \A p \in Sessions : calls'[p].pc = "idle" /\ calls'[p].born = 0 /\ calls'[p].key.ID = 0
  BY <1>1, NoCallTyped
<1>4. LockKept'
  BY <1>1, <1>3, EmptyTables, SQLiteAssumption DEF LockKept, NoTx, InTx
<1>5. JournalFollows'
  BY <1>3 DEF JournalFollows
<1>6. RowsTold'
  BY <1>1, <1>3 DEF StoreInv, StoreTyped, RowsTold, HasLink
<1>7. KeysTold'
  BY <1>1, <1>3 DEF StoreInv, StoreTyped, Tables, KeysTold, HasLink
<1>8. ClicksDurable'
  <2>1. \A c \in Codes : Unanswered(c)' = {}
    BY <1>3 DEF Unanswered
  <2>2. \A c \in Codes : Cardinality(Unanswered(c)') = 0
    BY <2>1, FS_EmptySet
  <2> QED
    BY <1>1, <2>2, UnansweredFinite DEF StoreInv, StoreTyped, ClicksDurable, HasLink
<1>9. BindingsKeepTheirKey'
  BY <1>1 DEF StoreInv, BindingsKeepTheirKey, BindingsHold, HasLink
<1> QED
  BY <1>2, <1>4, <1>5, <1>6, <1>7, <1>8, <1>9 DEF StoreInv

LEMMA SetStep ==
    ASSUME StoreInv, NEW p \in Sessions, NEW c \in Codes, Set(p, c)
    PROVE  StoreInv'
<1> PICK life \in Lifetimes : Autocommit(InsertLink(db, c, NewRow(p, life)))
  BY DEF Set
<1> PICK until : until = IF life = 0 THEN 0 ELSE clock + life
  OBVIOUS
<1> PICK k : k = calls[p].key
  OBVIOUS
<1> PICK l : l = NewLink(drawn + 1, until, k)
  OBVIOUS
<1> PICK e : e = InsertLink(db, c, l)
  OBVIOUS
<1>1. /\ db' = e /\ journal = NoTx /\ drawn' = drawn + 1 /\ Finish(p) /\ ~HasLink(db, c)
      /\ acked' = [acked EXCEPT ![c] = 0] /\ doubt' = [doubt EXCEPT ![c] = 0]
      /\ calls[p].pc \in {"holding", "idle"}
      /\ UNCHANGED <<journal, clock>>
  BY Zenon DEF Set, Idle, Autocommit, NewRow, Elsewhere
<1>2. /\ Tables(db) /\ drawn \in Nat /\ until \in Nat /\ k \in Key /\ k.ID <= db.keySeq
      /\ k.ID \in Nat /\ db.keySeq \in Nat
      /\ \A m \in db.keys : m.ID = k.ID => m = k
  BY SQLiteAssumption, CallKnown DEF StoreInv, StoreTyped, CallTyped, Key
<1>3. /\ l \in Link /\ l.Born = drawn + 1 /\ l.ClickCount = 0 /\ l.OwnerTokenHash = drawn + 1
      /\ l.APIKeyID = k.ID /\ l.BoundTo = k.TokenHash /\ l # NoRow
  BY <1>2, TablesAssumption DEF NewLink, Link, Key
<1>4. /\ Tables(e) /\ e.urls = [db.urls EXCEPT ![c] = l]
      /\ e.keys = db.keys /\ e.keySeq = db.keySeq
  BY <1>2, <1>3, InsertLinkTables
<1>5. e.urls[c] = l /\ \A b \in Codes : b # c => e.urls[b] = db.urls[b]
  BY <1>2, <1>4 DEF Tables
<1>6. /\ calls'[p].pc = "idle" /\ calls'[p].born = 0 /\ calls'[p].key.ID = 0
      /\ \A q \in Sessions : q # p => calls'[q] = calls[q]
  BY <1>1, CallEnds, NoCallTyped
<1>7. StoreTyped'
  BY <1>1, <1>2, <1>4, CallEnds DEF StoreInv, StoreTyped
<1>8. LockKept' /\ \A q \in Sessions : calls'[q].pc \notin InTx
  BY <1>1, <1>6, SQLiteAssumption DEF StoreInv, LockKept, NoTx, InTx
<1>9. JournalFollows'
  BY <1>8 DEF JournalFollows, InTx
<1>a. RowsTold'
  <2>1. \A b \in Codes : HasLink(e, b) => e.urls[b].Born <= drawn + 1 /\ e.urls[b].OwnerTokenHash # 0
    <3> SUFFICES ASSUME NEW b \in Codes, HasLink(e, b)
                 PROVE  e.urls[b].Born <= drawn + 1 /\ e.urls[b].OwnerTokenHash # 0
      OBVIOUS
    <3>1. CASE b = c
      BY <1>2, <1>3, <1>5, <3>1
    <3>2. CASE b # c
      <4>1. db.urls[b] \in Link /\ db.urls[b].Born <= drawn /\ db.urls[b].OwnerTokenHash # 0
        BY <1>2, <1>5, <3>2, Rows DEF HasLink, StoreInv, RowsTold
      <4> QED
        BY <1>2, <1>5, <3>2, <4>1 DEF Link
    <3> QED
      BY <3>1, <3>2
  <2>2. \A q \in Sessions : calls'[q].born <= drawn + 1
    BY <1>2, <1>6 DEF StoreInv, StoreTyped, CallsTyped, CallTyped, RowsTold
  <2> QED
    BY <1>1, <2>1, <2>2 DEF RowsTold
<1>b. KeysTold'
  <2>1. \A b \in Codes : HasLink(e, b) => e.urls[b].APIKeyID <= db.keySeq
    BY <1>2, <1>3, <1>5 DEF HasLink, StoreInv, KeysTold
  <2>2. \A q \in Sessions :
          /\ calls'[q].key.ID <= db.keySeq
          /\ calls'[q].pc = "revoke.Unbind" => calls'[q].key.ID # 0
          /\ \A m \in db.keys : m.ID = calls'[q].key.ID => m = calls'[q].key
    BY <1>2, <1>6 DEF StoreInv, KeysTold, Key
  <2> QED
    BY <1>1, <1>4, <2>1, <2>2 DEF StoreInv, KeysTold
<1>c. ClicksDurable'
  <2>1. Unanswered(c)' = {}
    <3> SUFFICES ASSUME NEW q \in Unanswered(c)'
                 PROVE  FALSE
      OBVIOUS
    <3>1. q \in Sessions /\ calls'[q].pc = "click.Return" /\ calls'[q].code = c
          /\ e.urls[calls'[q].code].Born = calls'[q].born
      BY <1>1 DEF Unanswered, SameRow
    <3>2. calls'[q].born = drawn + 1
      BY <1>3, <1>5, <3>1
    <3>3. calls[q].born = drawn + 1 /\ calls[q].born <= drawn
      BY <1>6, <3>1, <3>2 DEF StoreInv, RowsTold
    <3> QED
      BY <1>2, <3>3
  <2>2. \A b \in Codes : b # c => Unanswered(b)' = Unanswered(b)
    BY <1>1, <1>5, <1>6 DEF Unanswered, SameRow, HasLink
  <2>3. Cardinality(Unanswered(c)') = 0
    BY <2>1, FS_EmptySet
  <2>4. acked'[c] = 0 /\ doubt'[c] = 0
        /\ \A b \in Codes : b # c => acked'[b] = acked[b] /\ doubt'[b] = doubt[b]
    BY <1>1 DEF StoreInv, StoreTyped
  <2> QED
    BY <1>1, <1>3, <1>5, <2>2, <2>3, <2>4 DEF StoreInv, ClicksDurable, HasLink
<1>d. BindingsKeepTheirKey'
  BY <1>1, <1>2, <1>3, <1>4, <1>5 DEF StoreInv, BindingsKeepTheirKey, BindingsHold, HasLink
<1> QED
  BY <1>7, <1>8, <1>9, <1>a, <1>b, <1>c, <1>d DEF StoreInv

----------------------------------------------------------------------------
(* The theorems. *)

LEMMA StoreInvInit == SQLiteInit => StoreInv
<1> SUFFICES ASSUME SQLiteInit PROVE StoreInv
  OBVIOUS
<1>1. /\ db = EmptyDatabase /\ journal = NoTx /\ calls = [p \in Sessions |-> NoCall]
      /\ \A p \in Sessions : calls[p] = NoCall
  BY DEF SQLiteInit
<1>2. Tables(db) /\ db.keys = {} /\ db.keySeq = 0 /\ \A c \in Codes : ~HasLink(db, c)
  BY <1>1, EmptyTables DEF EmptyDatabase, HasLink
<1>3. StoreTyped
  <2>1. CallsTyped
    BY <1>1, NoCallTyped DEF CallsTyped
  <2> QED
    BY <1>2, <2>1 DEF SQLiteInit, StoreTyped
<1>4. \A p \in Sessions : calls[p].pc = "idle" /\ calls[p].born = 0 /\ calls[p].key.ID = 0
  BY <1>1, NoCallTyped
<1>5. LockKept
  BY <1>1, <1>4, EmptyTables, SQLiteAssumption DEF LockKept, NoTx, InTx
<1>6. JournalFollows
  BY <1>4 DEF JournalFollows
<1>7. RowsTold /\ KeysTold /\ ClicksDurable /\ BindingsKeepTheirKey
  BY <1>2, <1>3, <1>4
     DEF StoreTyped, RowsTold, KeysTold, ClicksDurable, BindingsKeepTheirKey, BindingsHold
<1> QED
  BY <1>3, <1>5, <1>6, <1>7 DEF StoreInv

LEMMA StoreInvNext == StoreInv /\ [SQLiteNext]_sqliteVars => StoreInv'
<1> SUFFICES ASSUME StoreInv, [SQLiteNext]_sqliteVars PROVE StoreInv'
  OBVIOUS
<1>1. CASE UNCHANGED sqliteVars
  <2>1. /\ UNCHANGED <<db, journal, calls, drawn, acked, doubt, clock, phase>> /\ clock' \in Nat
    BY <1>1 DEF sqliteVars, processVars, historyVars, StoreInv, StoreTyped
  <2> QED
    BY <2>1, RestStep
<1>2. ASSUME NEW p \in Sessions, Session(p) PROVE StoreInv'
  <2>1. CASE Busy(p) \/ Fail(p) \/ Rollback(p)
    BY <2>1, BusyStep, FailStep, RollbackStep
  <2>2. CASE Calls(p)
    <3>1. CASE \E c \in Codes : Set(p, c)
      BY <3>1, SetStep
    <3>2. CASE \E c \in Codes : Delete(p, c)
      BY <3>2, DeleteStep
    <3>3. CASE \E c \in Codes : RotateToken(p, c)
      BY <3>3, RotateTokenStep
    <3>4. CASE \E c \in Codes : Update(p, c)
      BY <3>4, UpdateStep
    <3>5. CASE RecordClick(p)
      BY <3>5, ClickBeginStep, ClickCountStep, ClickInsertStep, ClickCommitStep, ClickReturnStep
         DEF RecordClick
    <3>6. CASE RecentClicks(p)
      BY <3>6, ClicksStep
    <3>7. CASE CreateAPIKey(p)
      BY <3>7, CreateAPIKeyStep
    <3>8. CASE LookupAPIKey(p) \/ LetGo(p)
      BY <3>8, LookupSelectStep, LookupTouchStep, LetGoStep DEF LookupAPIKey
    <3>9. CASE DeleteAPIKey(p)
      BY <3>9, RevokeBeginStep, RevokeUnbindStep, RevokeDropStep, RevokeCommitStep DEF DeleteAPIKey
    <3> QED
      BY <2>2, <3>1, <3>2, <3>3, <3>4, <3>5, <3>6, <3>7, <3>8, <3>9 DEF Calls
  <2> QED
    BY <1>2, <2>1, <2>2 DEF Session
<1>3. CASE StartUp
  BY <1>3, OtherStep, AddColumnStep DEF StartUp
<1>4. CASE Cleaner
  BY <1>4, CleanerStep
<1>5. CASE Cancel \/ Shutdown \/ Crash
  BY <1>5, OtherStep, StopStep DEF Shutdown, Crash, Exit
<1>6. CASE Tick
  BY <1>6, OtherStep
<1> QED
  BY <1>1, <1>2, <1>3, <1>4, <1>5, <1>6 DEF SQLiteNext

\* A transaction under way differs from the committed tables as the statement
\* its owner has reached says, and only the owner of the lock has one.
THEOREM StoreInvariant == SQLiteSpec => []StoreInv
BY StoreInvInit, StoreInvNext, PTL DEF SQLiteSpec

\* Whatever crashes, failures and rollbacks come between the statement that
\* counts a click and its commit, a click that was answered is in the count,
\* and what is in the count was answered or cut off by a crash.
THEOREM ClicksSurvive == SQLiteSpec => []ClicksDurable
<1>1. StoreInv => ClicksDurable
  BY DEF StoreInv
<1> QED
  BY <1>1, StoreInvariant, PTL

\* AUTOINCREMENT is enough: no interleaving of revocations, claims under a
\* key that is being revoked, and new keys hands a link to another key.
THEOREM BindingsStay == SQLiteSpec => []BindingsKeepTheirKey
<1>1. StoreInv => BindingsKeepTheirKey
  BY DEF StoreInv
<1> QED
  BY <1>1, StoreInvariant, PTL

----------------------------------------------------------------------------
(* What a step does to the committed database. *)

\* A key that goes leaves no link bound to it.
KeysStep(d, e) ==
    \A k \in d.keys : ~HasKey(e, k.ID) => BoundLinks(e, k.ID) = {}

Effect(d, e) == LinksStep(d, e, drawn, drawn') /\ KeysStep(d, e)

LEMMA KeysStay ==
    ASSUME NEW d, NEW e, d.keys \subseteq e.keys
    PROVE  KeysStep(d, e)
BY DEF KeysStep, HasKey

LEMMA Unchanged ==
    ASSUME NEW d, drawn' \in {drawn, drawn + 1}
    PROVE  Effect(d, d)
BY KeysStay DEF Effect, LinksStep, Silent, SameLink

LEMMA SetEffect ==
    ASSUME StoreInv, NEW p \in Sessions, NEW c \in Codes, Set(p, c)
    PROVE  Effect(db, db')
<1> PICK life \in Lifetimes : Autocommit(InsertLink(db, c, NewRow(p, life)))
  BY DEF Set
<1> PICK until : until = IF life = 0 THEN 0 ELSE clock + life
  OBVIOUS
<1> PICK k : k = calls[p].key
  OBVIOUS
<1> PICK l : l = NewLink(drawn + 1, until, k)
  OBVIOUS
<1> PICK e : e = InsertLink(db, c, l)
  OBVIOUS
<1>1. db' = e /\ drawn' = drawn + 1 /\ ~HasLink(db, c)
  BY Zenon DEF Set, Autocommit, NewRow
<1>2. Tables(db) /\ drawn \in Nat /\ until \in Nat /\ k \in Key
  BY SQLiteAssumption, CallKnown DEF StoreInv, StoreTyped, CallTyped
<1>3. l \in Link /\ l.ClickCount = 0 /\ l.OwnerTokenHash = drawn + 1
  BY <1>2 DEF NewLink, Link, Key
<1>4. /\ Tables(e) /\ e.urls = [db.urls EXCEPT ![c] = l]
      /\ e.keys = db.keys /\ e.keySeq = db.keySeq
  BY <1>2, <1>3, InsertLinkTables
<1>5. Claimed(db, e, c, drawn + 1)
  BY <1>1, <1>2, <1>3, InsertLinkEffect
<1> QED
  BY <1>1, <1>4, <1>5, KeysStay DEF Effect, LinksStep

LEMMA RotateTokenEffect ==
    ASSUME StoreInv, NEW p \in Sessions, NEW c \in Codes, RotateToken(p, c)
    PROVE  Effect(db, db')
<1> PICK owner : owner = drawn + 1
  OBVIOUS
<1> PICK e : e = SetOwner(db, c, owner)
  OBVIOUS
<1>1. db' = e /\ HasLink(db, c) /\ drawn' = owner
  BY DEF RotateToken, Autocommit
<1>2. Tables(db) /\ owner \in Nat
  BY DEF StoreInv, StoreTyped
<1>3. e.keys = db.keys
  BY <1>1, <1>2, SetOwnerTables
<1>4. Rekeyed(db, e, c, owner)
  BY <1>1, <1>2, SetOwnerEffect
<1> QED
  BY <1>1, <1>3, <1>4, KeysStay DEF Effect, LinksStep

LEMMA UpdateEffect ==
    ASSUME StoreInv, NEW p \in Sessions, NEW c \in Codes, Update(p, c)
    PROVE  Effect(db, db')
<1> PICK life \in Lifetimes :
      Autocommit(SetExpiry(db, c, IF life = 0 THEN 0 ELSE clock + life))
  BY DEF Update
<1> PICK t : t = IF life = 0 THEN 0 ELSE clock + life
  OBVIOUS
<1> PICK e : e = SetExpiry(db, c, t)
  OBVIOUS
<1>1. db' = e /\ HasLink(db, c) /\ drawn' = drawn
  BY DEF Update, Autocommit
<1>2. Tables(db) /\ t \in Nat
  BY CallKnown, SQLiteAssumption DEF StoreInv, StoreTyped
<1>3. Silent(db, e) /\ e.keys = db.keys
  BY <1>1, <1>2, SetExpiryTables, SetExpiryEffect
<1> QED
  BY <1>1, <1>3, KeysStay DEF Effect, LinksStep

LEMMA DeletionEffect ==
    ASSUME StoreInv, NEW S \in SUBSET Codes, drawn' = drawn
    PROVE  Effect(db, DeleteLinks(db, S))
<1> PICK e : e = DeleteLinks(db, S)
  OBVIOUS
<1>1. Tables(db)
  BY DEF StoreInv, StoreTyped
<1>2. e.keys = db.keys /\ Released(db, e, S)
  BY <1>1, DeleteLinksTables, DeleteLinksEffect, Zenon
<1> QED
  BY <1>2, KeysStay DEF Effect, LinksStep

LEMMA CleanerEffect ==
    ASSUME StoreInv, Cleaner
    PROVE  Effect(db, db')
<1>1. drawn' = drawn
  BY DEF Cleaner, CleanerTick, CleanerReap, CleanerPrune, CleanerFails, CleanerStop, CleanerIdle
<1>2. CASE CleanerReap
  <2>1. db' = DeleteLinks(db, ExpiredLinks(db, cleaner.now))
    BY <1>2 DEF CleanerReap, Autocommit
  <2>2. ExpiredLinks(db, cleaner.now) \in SUBSET Codes
    BY DEF ExpiredLinks
  <2> QED
    BY <1>1, <2>1, <2>2, DeletionEffect
<1>3. CASE CleanerPrune
  <2> PICK cutoff : cutoff = Cutoff(cleaner.now)
    OBVIOUS
  <2> PICK e : e = PruneClicks(db, cutoff)
    OBVIOUS
  <2>1. db' = e
    BY <1>3 DEF CleanerPrune, Autocommit
  <2>2. e.urls = db.urls /\ e.keys = db.keys
    BY PruneClicksTables DEF StoreInv, StoreTyped
  <2> QED
    BY <1>1, <2>1, <2>2, SameLinksEffect, KeysStay DEF Effect, LinksStep
<1>4. CASE CleanerTick \/ CleanerFails \/ CleanerStop
  <2>1. db' = db
    BY <1>4 DEF CleanerTick, CleanerFails, CleanerStop
  <2> QED
    BY <1>1, <2>1, Unchanged
<1> QED
  BY <1>2, <1>3, <1>4 DEF Cleaner

LEMMA AddColumnEffect ==
    ASSUME StoreInv, AddColumn
    PROVE  Effect(db, db')
<1> PICK e : e = db'
  OBVIOUS
<1>1. drawn' = drawn
  BY DEF AddColumn
<1>2. e.urls = db.urls /\ e.keys = db.keys
  <2>1. Tables(db)
    BY DEF StoreInv, StoreTyped
  <2> PICK n : db' = [db EXCEPT !.columns = n]
    BY Zenon DEF AddColumn
  <2> QED
    BY <2>1, AddColumnTables, Zenon
<1> QED
  BY <1>1, <1>2, SameLinksEffect, KeysStay DEF Effect, LinksStep

LEMMA CreateAPIKeyEffect ==
    ASSUME StoreInv, NEW p \in Sessions, CreateAPIKey(p)
    PROVE  Effect(db, db')
<1> PICK hash : hash = drawn + 1
  OBVIOUS
<1> PICK e : e = InsertKey(db, hash)
  OBVIOUS
<1>1. db' = e /\ drawn' = drawn + 1
  BY DEF CreateAPIKey, Autocommit
<1>2. Tables(db) /\ hash \in Nat
  BY DEF StoreInv, StoreTyped
<1>3. e.urls = db.urls /\ e.keys = db.keys \cup {[ID |-> db.keySeq + 1, TokenHash |-> hash]}
  BY <1>2, InsertKeyTables, Zenon
<1>4. Silent(db, e) /\ KeysStep(db, e)
  BY <1>3, SameLinksEffect, KeysStay
<1> QED
  BY <1>1, <1>4 DEF Effect, LinksStep

LEMMA ClickCommitEffect ==
    ASSUME StoreInv, NEW p \in Sessions, ClickCommit(p)
    PROVE  Effect(db, db')
<1> PICK c : c = calls[p].code
  OBVIOUS
<1> PICK e : e = journal.db
  OBVIOUS
<1>1. calls[p].pc = "click.Commit" /\ db' = e /\ drawn' = drawn
  BY DEF ClickCommit, At
<1>2. Tables(db) /\ c \in Codes
  BY <1>1, CallKnown DEF StoreInv, StoreTyped, CallTyped, Clicking
<1>3. ClickPending(p)
  BY <1>1 DEF StoreInv, JournalFollows
<1>4. HasLink(db, c) /\ e.urls = CountClick(db, c).urls /\ e.keys = db.keys
  BY <1>3, Zenon DEF ClickPending
<1>5. Counted(db, e, c)
  BY <1>2, <1>4, CountClickEffect
<1> QED
  BY <1>1, <1>2, <1>4, <1>5, KeysStay DEF Effect, LinksStep

LEMMA RevokeCommitEffect ==
    ASSUME StoreInv, NEW p \in Sessions, RevokeCommit(p)
    PROVE  Effect(db, db')
<1> PICK id : id = calls[p].key.ID
  OBVIOUS
<1> DEFINE S == BoundLinks(db, id)
<1> PICK e : e = journal.db
  OBVIOUS
<1>1. calls[p].pc = "revoke.Commit" /\ db' = e /\ drawn' = drawn
  BY DEF RevokeCommit, At
<1>2. Tables(db)
  BY DEF StoreInv, StoreTyped
<1>3. RevocationPending(p)
  BY <1>1 DEF StoreInv, JournalFollows
<1>4. id # 0 /\ e.urls = UnbindLinks(db, S).urls /\ e.keys = DropKey(db, id).keys
  BY <1>1, <1>3 DEF RevocationPending
<1>5. \A c \in Codes : IF c \in S THEN Unbound(e.urls[c], db.urls[c]) ELSE e.urls[c] = db.urls[c]
  BY <1>2, <1>4, RevokedRows
<1>6. e.keys = {k \in db.keys : k.ID # id}
  BY <1>2, <1>4, DropKeyTables
<1>7. Silent(db, e)
  BY <1>5 DEF Silent, SameLink, HasLink, Unbound, BoundLinks
<1>8. KeysStep(db, e)
  <2> SUFFICES ASSUME NEW k \in db.keys, ~HasKey(e, k.ID), NEW c \in BoundLinks(e, k.ID)
               PROVE  FALSE
    BY DEF KeysStep
  <2>1. k.ID = id
    BY <1>6 DEF HasKey
  <2>2. c \in Codes /\ e.urls[c] # NoRow /\ e.urls[c].APIKeyID = id
    BY <2>1 DEF BoundLinks, HasLink
  <2>3. CASE c \in S
    BY <1>4, <1>5, <2>2, <2>3 DEF Unbound
  <2>4. CASE c \notin S
    BY <1>5, <2>2, <2>4 DEF BoundLinks, HasLink
  <2> QED
    BY <2>3, <2>4
<1> QED
  BY <1>1, <1>7, <1>8 DEF Effect, LinksStep

LEMMA StepEffect ==
    ASSUME StoreInv, [SQLiteNext]_sqliteVars
    PROVE  Effect(db, db')
<1>1. CASE UNCHANGED <<db, drawn>>
  BY <1>1, Unchanged
<1>2. ASSUME NEW p \in Sessions, Session(p) PROVE Effect(db, db')
  <2>1. CASE Busy(p) \/ Fail(p) \/ Rollback(p)
    BY <1>1, <2>1 DEF Busy, Fail, Rollback
  <2>2. CASE Calls(p)
    <3>1. CASE \E c \in Codes : Set(p, c)
      BY <3>1, SetEffect
    <3>2. CASE \E c \in Codes : Delete(p, c)
      <4> PICK c \in Codes : Delete(p, c)
        BY <3>2
      <4>1. db' = DeleteLinks(db, {c}) /\ drawn' = drawn
        BY DEF Delete, Autocommit
      <4> QED
        BY <4>1, DeletionEffect
    <3>3. CASE \E c \in Codes : RotateToken(p, c)
      BY <3>3, RotateTokenEffect
    <3>4. CASE \E c \in Codes : Update(p, c)
      BY <3>4, UpdateEffect
    <3>5. CASE RecordClick(p)
      BY <1>1, <3>5, ClickCommitEffect
         DEF RecordClick, ClickBegin, ClickCount, ClickInsert, ClickReturn, Lock, Write
    <3>6. CASE RecentClicks(p)
      BY <1>1, <3>6 DEF RecentClicks, ClicksExists, ClicksSelect, ClicksReturn
    <3>7. CASE CreateAPIKey(p)
      BY <3>7, CreateAPIKeyEffect
    <3>8. CASE LookupAPIKey(p) \/ LetGo(p)
      BY <1>1, <3>8 DEF LookupAPIKey, LookupSelect, LookupTouch, LetGo, Autocommit
    <3>9. CASE DeleteAPIKey(p)
      BY <1>1, <3>9, RevokeCommitEffect
         DEF DeleteAPIKey, RevokeBegin, RevokeUnbind, RevokeDrop, Lock, Write
    <3> QED
      BY <2>2, <3>1, <3>2, <3>3, <3>4, <3>5, <3>6, <3>7, <3>8, <3>9 DEF Calls
  <2> QED
    BY <1>2, <2>1, <2>2 DEF Session
<1>3. CASE StartUp
  BY <1>1, <1>3, AddColumnEffect DEF StartUp, Start, Open
<1>4. CASE Cleaner
  BY <1>4, CleanerEffect
<1>5. CASE Cancel \/ Shutdown \/ Crash \/ Tick
  BY <1>1, <1>5 DEF Cancel, Shutdown, CloseBegin, CloseReturn, Exit, Crash, Stop, Rest, Tick
<1>6. CASE UNCHANGED sqliteVars
  BY <1>1, <1>6 DEF sqliteVars
<1> QED
  BY <1>2, <1>3, <1>4, <1>5, <1>6 DEF SQLiteNext

\* No crash, failure or interleaving shows a key revoked and a link still
\* bound to it.
THEOREM RevocationIsAtomic == SQLiteSpec => RevocationAtomic
<1>1. StoreInv /\ [SQLiteNext]_sqliteVars =>
        [\A k \in db.keys : ~HasKey(db', k.ID) => BoundLinks(db', k.ID) = {}]_db
  BY StepEffect DEF Effect, KeysStep
<1> QED
  BY <1>1, StoreInvariant, PTL DEF SQLiteSpec, RevocationAtomic

----------------------------------------------------------------------------
(* The refinement. *)

AbstractStep == [Lifecycle!LifecycleNext]_(Lifecycle!lifecycleVars)

LEMMA LinksAbstract ==
    ASSUME ShownStep(Shown(db), Shown(db'), drawn, drawn')
    PROVE  AbstractStep
<1>1. CASE \E c \in Codes : /\ Shown(db)[c].owner = 0 /\ drawn' = drawn + 1
                           /\ Shown(db') = [Shown(db) EXCEPT ![c] =
                                               [owner |-> drawn + 1, clicks |-> 0]]
  BY <1>1 DEF AbstractStep, Lifecycle!LifecycleNext, Lifecycle!Claim, Lifecycle!Live, Shown
<1>2. CASE \E c \in Codes : /\ Shown(db)[c].owner # 0 /\ drawn' = drawn + 1
                           /\ Shown(db') = [Shown(db) EXCEPT ![c].owner = drawn + 1]
  BY <1>2 DEF AbstractStep, Lifecycle!LifecycleNext, Lifecycle!Rekey, Lifecycle!Live, Shown
<1>3. CASE \E c \in Codes : /\ Shown(db)[c].owner # 0 /\ drawn' = drawn
                           /\ Shown(db') = [Shown(db) EXCEPT ![c].clicks = Shown(db)[c].clicks + 1]
  BY <1>3 DEF AbstractStep, Lifecycle!LifecycleNext, Lifecycle!Click, Lifecycle!Live, Shown
<1>4. CASE \E S \in SUBSET Codes :
             /\ drawn' = drawn
             /\ Shown(db') = [c \in Codes |-> IF c \in S THEN [owner |-> 0, clicks |-> 0]
                                             ELSE Shown(db)[c]]
  BY <1>4 DEF AbstractStep, Lifecycle!LifecycleNext, Lifecycle!Release, Lifecycle!Free, Shown
<1>5. CASE Shown(db') = Shown(db) /\ drawn' = drawn
  BY <1>5 DEF AbstractStep, Lifecycle!lifecycleVars, Shown
<1>6. CASE Shown(db') = Shown(db) /\ drawn' = drawn + 1
  BY <1>6 DEF AbstractStep, Lifecycle!LifecycleNext, Lifecycle!Draw, Shown
<1> QED
  BY <1>1, <1>2, <1>3, <1>4, <1>5, <1>6 DEF ShownStep

LEMMA AbstractInit == SQLiteInit => Lifecycle!LifecycleInit
BY DEF SQLiteInit, EmptyDatabase, HasLink, Lifecycle!LifecycleInit, Lifecycle!Free

\* The SQL backend keeps the promise of the abstract link, crashes included.
THEOREM SQLiteImplements == SQLiteSpec => SQLiteImplementsLifecycle
<1>1. StoreInv => Owned(db)
  BY DEF StoreInv, RowsTold, Owned
<1>2. ASSUME StoreInv, [SQLiteNext]_sqliteVars PROVE AbstractStep
  <2> PICK e, m : e = db' /\ m = drawn'
    OBVIOUS
  <2>1. LinksStep(db, e, drawn, m)
    BY <1>2, StepEffect DEF Effect
  <2>2. ShownStep(Shown(db), Shown(e), drawn, m)
    BY <1>1, <1>2, <2>1, LinksShown
  <2> QED
    BY <2>2, LinksAbstract
<1> QED
  BY <1>2, AbstractInit, StoreInvariant, PTL
     DEF SQLiteSpec, SQLiteImplementsLifecycle, Lifecycle!LifecycleSpec, AbstractStep

----------------------------------------------------------------------------
(* The event log. *)

\* What the transaction in the journal has done to it so far.
LogPending(p) ==
    /\ calls[p].pc \in {"click.Insert", "revoke.Drop", "revoke.Commit"} =>
         journal.db.clicks = db.clicks /\ journal.db.pruned = db.pruned
    /\ calls[p].pc = "click.Commit" =>
         /\ journal.db.clicks =
              [db.clicks EXCEPT ![calls[p].code] = Append(db.clicks[calls[p].code], calls[p].at)]
         /\ journal.db.pruned = db.pruned

\* The cleanup goroutine works with the time of a tick that has been.
CleanerTimed ==
    /\ cleaner = [pc |-> cleaner.pc, now |-> cleaner.now]
    /\ cleaner.now \in Nat
    /\ cleaner.now <= clock

LogInv ==
    /\ Events(db) /\ CountMatchesClicks
    /\ \A p \in Sessions : calls[p].at \in Nat /\ LogPending(p)
    /\ CleanerTimed

\* One call changes, and its click keeps a time.
Moves(p) ==
    /\ \A q \in Sessions : q # p => calls'[q] = calls[q]
    /\ calls'[p].at \in Nat

LEMMA GotoMoves ==
    ASSUME StoreInv, LogInv, NEW p \in Sessions, NEW pc, Goto(p, pc)
    PROVE  Moves(p) /\ calls'[p].pc = pc /\ calls'[p].at = calls[p].at
           /\ calls'[p].code = calls[p].code
<1> PICK n : n = [pc |-> pc, code |-> calls[p].code, at |-> calls[p].at,
                  key |-> calls[p].key, born |-> calls[p].born, page |-> calls[p].page]
  OBVIOUS
<1>1. calls' = [calls EXCEPT ![p] = n]
  BY Moved DEF Goto, StoreInv, StoreTyped
<1>2. calls'[p] = n /\ \A q \in Sessions : q # p => calls'[q] = calls[q]
  BY <1>1 DEF StoreInv, StoreTyped, CallsTyped
<1> QED
  BY <1>2 DEF Moves, LogInv

LEMMA FinishMoves ==
    ASSUME StoreInv, NEW p \in Sessions, Finish(p)
    PROVE  Moves(p) /\ calls'[p].pc = "idle"
BY CallEnds DEF Moves, NoCall

LEMMA BeginMoves ==
    ASSUME StoreInv, NEW p \in Sessions, NEW pc, NEW c, NEW at \in Nat, NEW k,
           calls' = [calls EXCEPT ![p] =
                       [pc |-> pc, code |-> c, at |-> at, key |-> k, born |-> 0, page |-> <<>>]]
    PROVE  Moves(p) /\ calls'[p].pc = pc
<1> PICK n : n = [pc |-> pc, code |-> c, at |-> at, key |-> k, born |-> 0, page |-> <<>>]
  OBVIOUS
<1>1. calls'[p] = n /\ \A q \in Sessions : q # p => calls'[q] = calls[q]
  BY DEF StoreInv, StoreTyped, CallsTyped
<1> QED
  BY <1>1 DEF Moves

\* A step that writes nothing.
LEMMA QuietLog ==
    ASSUME StoreInv, LogInv, NEW p \in Sessions, Moves(p),
           calls'[p].pc \notin {"click.Insert", "click.Commit", "revoke.Drop", "revoke.Commit"},
           UNCHANGED <<db, journal, cleaner, clock>>
    PROVE  LogInv'
<1>1. \A q \in Sessions : calls'[q].at \in Nat /\ LogPending(q)'
  BY DEF LogInv, Moves, LogPending
<1> QED
  BY <1>1 DEF LogInv, Events, CountMatchesClicks, CountsMatch, HasLink, CleanerTimed

\* A step after which nobody is inside a transaction.
LEMMA CommittedLog ==
    ASSUME LogInv, StoreInv', journal' = NoTx, Events(db'), CountsMatch(db'), CleanerTimed',
           \A q \in Sessions : calls'[q].at \in Nat
    PROVE  LogInv'
<1>1. journal'.by = Nobody
  BY DEF NoTx
<1>2. \A q \in Sessions : calls'[q].pc \notin InTx
  BY <1>1, SQLiteAssumption DEF StoreInv, LockKept
<1>3. \A q \in Sessions : LogPending(q)'
  BY <1>2 DEF LogPending, InTx
<1> QED
  BY <1>3 DEF LogInv, CountMatchesClicks

\* A step of the transaction of p.
LEMMA PendingLog ==
    ASSUME LogInv, StoreInv', NEW p \in Sessions, journal'.by = p, Moves(p), LogPending(p)',
           UNCHANGED <<db, cleaner, clock>>
    PROVE  LogInv'
<1>1. \A q \in Sessions : q # p => calls'[q].pc \notin InTx
  BY DEF StoreInv, LockKept
<1>2. \A q \in Sessions : calls'[q].at \in Nat /\ LogPending(q)'
  BY <1>1 DEF LogInv, LogPending, InTx, Moves
<1> QED
  BY <1>2 DEF LogInv, Events, CountMatchesClicks, CountsMatch, HasLink, CleanerTimed

\* An autocommitted statement, by a session.
LEMMA WrittenLog ==
    ASSUME StoreInv, LogInv, StoreInv', NEW e, Autocommit(e), Events(e), CountsMatch(e),
           UNCHANGED <<cleaner, clock>>,
           \A q \in Sessions : calls'[q].at \in Nat
    PROVE  LogInv'
<1>1. journal' = NoTx /\ db' = e
  BY DEF Autocommit
<1>2. CleanerTimed'
  BY DEF LogInv, CleanerTimed
<1> QED
  BY <1>1, <1>2, CommittedLog

----------------------------------------------------------------------------

LEMMA SetLog ==
    ASSUME StoreInv, LogInv, StoreInv', NEW p \in Sessions, NEW c \in Codes, Set(p, c)
    PROVE  LogInv'
<1> PICK life \in Lifetimes : Autocommit(InsertLink(db, c, NewRow(p, life)))
  BY DEF Set
<1> PICK until : until = IF life = 0 THEN 0 ELSE clock + life
  OBVIOUS
<1> PICK k : k = calls[p].key
  OBVIOUS
<1> PICK l : l = NewLink(drawn + 1, until, k)
  OBVIOUS
<1> PICK e : e = InsertLink(db, c, l)
  OBVIOUS
<1>1. Autocommit(e) /\ ~HasLink(db, c) /\ Finish(p) /\ UNCHANGED <<cleaner, clock>>
  BY Zenon DEF Set, NewRow, Elsewhere
<1>2. Tables(db) /\ drawn \in Nat /\ until \in Nat /\ k \in Key
  BY SQLiteAssumption, CallKnown DEF StoreInv, StoreTyped, CallTyped
<1>3. l \in Link /\ l.ClickCount = 0
  BY <1>2 DEF NewLink, Link, Key
<1>4. Events(db) /\ CountsMatch(db)
  BY DEF LogInv, CountMatchesClicks
<1>5. Events(e) /\ CountsMatch(e)
  BY <1>1, <1>2, <1>3, <1>4, ClaimCounts
<1>6. \A q \in Sessions : calls'[q].at \in Nat
  BY <1>1, FinishMoves DEF Moves, LogInv
<1> QED
  BY <1>1, <1>5, <1>6, WrittenLog

LEMMA DeleteLog ==
    ASSUME StoreInv, LogInv, StoreInv', NEW p \in Sessions, NEW c \in Codes, Delete(p, c)
    PROVE  LogInv'
<1> PICK e : e = DeleteLinks(db, {c})
  OBVIOUS
<1>1. Autocommit(e) /\ UNCHANGED <<calls, cleaner, clock>>
  BY DEF Delete, Elsewhere
<1>2. Tables(db) /\ Events(db) /\ CountsMatch(db)
  BY DEF StoreInv, StoreTyped, LogInv, CountMatchesClicks
<1>3. Events(e) /\ CountsMatch(e)
  BY <1>2, DeletionCounts
<1> QED
  BY <1>1, <1>3, WrittenLog DEF LogInv

LEMMA RotateTokenLog ==
    ASSUME StoreInv, LogInv, StoreInv', NEW p \in Sessions, NEW c \in Codes, RotateToken(p, c)
    PROVE  LogInv'
<1> PICK owner : owner = drawn + 1
  OBVIOUS
<1> PICK e : e = SetOwner(db, c, owner)
  OBVIOUS
<1>1. Autocommit(e) /\ HasLink(db, c) /\ UNCHANGED <<calls, cleaner, clock>>
  BY DEF RotateToken, Elsewhere
<1>2. Tables(db) /\ owner \in Nat /\ Events(db) /\ CountsMatch(db)
  BY DEF StoreInv, StoreTyped, LogInv, CountMatchesClicks
<1>3. e.clicks = db.clicks /\ e.pruned = db.pruned /\ Rekeyed(db, e, c, owner)
  BY <1>1, <1>2, SetOwnerTables, SetOwnerEffect
<1>4. Events(e) /\ CountsMatch(e)
  BY <1>2, <1>3, CountsUntouched DEF Rekeyed, SameLink
<1> QED
  BY <1>1, <1>4, WrittenLog DEF LogInv

LEMMA UpdateLog ==
    ASSUME StoreInv, LogInv, StoreInv', NEW p \in Sessions, NEW c \in Codes, Update(p, c)
    PROVE  LogInv'
<1> PICK life \in Lifetimes :
      Autocommit(SetExpiry(db, c, IF life = 0 THEN 0 ELSE clock + life))
  BY DEF Update
<1> PICK t : t = IF life = 0 THEN 0 ELSE clock + life
  OBVIOUS
<1> PICK e : e = SetExpiry(db, c, t)
  OBVIOUS
<1>1. Autocommit(e) /\ HasLink(db, c) /\ UNCHANGED <<calls, cleaner, clock>>
  BY DEF Update, Elsewhere
<1>2. Tables(db) /\ t \in Nat /\ Events(db) /\ CountsMatch(db)
  BY CallKnown, SQLiteAssumption DEF StoreInv, StoreTyped, LogInv, CountMatchesClicks
<1>3. e.clicks = db.clicks /\ e.pruned = db.pruned /\ Silent(db, e)
  BY <1>1, <1>2, SetExpiryTables, SetExpiryEffect
<1>4. Events(e) /\ CountsMatch(e)
  BY <1>2, <1>3, CountsUntouched DEF Silent, SameLink
<1> QED
  BY <1>1, <1>4, WrittenLog DEF LogInv

LEMMA CreateAPIKeyLog ==
    ASSUME StoreInv, LogInv, StoreInv', NEW p \in Sessions, CreateAPIKey(p)
    PROVE  LogInv'
<1> PICK hash : hash = drawn + 1
  OBVIOUS
<1> PICK e : e = InsertKey(db, hash)
  OBVIOUS
<1>1. Autocommit(e) /\ UNCHANGED <<calls, cleaner, clock>>
  BY DEF CreateAPIKey, Elsewhere
<1>2. Tables(db) /\ hash \in Nat /\ Events(db) /\ CountsMatch(db)
  BY DEF StoreInv, StoreTyped, LogInv, CountMatchesClicks
<1>3. e.urls = db.urls /\ e.clicks = db.clicks /\ e.pruned = db.pruned
  BY <1>2, InsertKeyTables, Zenon
<1>4. Events(e) /\ CountsMatch(e)
  BY <1>2, <1>3, CountsUntouched DEF HasLink
<1> QED
  BY <1>1, <1>4, WrittenLog DEF LogInv

LEMMA LookupLog ==
    ASSUME StoreInv, LogInv, NEW p \in Sessions, LookupAPIKey(p) \/ LetGo(p)
    PROVE  LogInv'
<1>1. ASSUME NEW k, LookupSelect(p),
             calls' = [calls EXCEPT ![p] = [NoCall EXCEPT !.pc = "lookup.Touch", !.key = k]]
      PROVE  LogInv'
  <2> PICK n : n = [pc |-> "lookup.Touch", code |-> NoRow, at |-> 0, key |-> k, born |-> 0,
                    page |-> <<>>]
    OBVIOUS
  <2>1. n = [NoCall EXCEPT !.pc = "lookup.Touch", !.key = k]
    BY FreshCall, Zenon
  <2>2. calls' = [calls EXCEPT ![p] = n]
    BY <1>1, <2>1, Zenon
  <2>3. Moves(p) /\ calls'[p].pc = "lookup.Touch"
    BY <2>2, BeginMoves
  <2> QED
    BY <1>1, <2>3, QuietLog DEF LookupSelect, Elsewhere
<1>2. CASE LookupTouch(p)
  <2>1. Goto(p, "holding") /\ UNCHANGED <<db, journal, cleaner, clock>>
    BY <1>2 DEF LookupTouch, Autocommit, Elsewhere
  <2> QED
    BY <2>1, GotoMoves, QuietLog
<1>3. CASE LetGo(p)
  <2>1. Finish(p) /\ UNCHANGED <<db, journal, cleaner, clock>>
    BY <1>3 DEF LetGo, Elsewhere
  <2> QED
    BY <2>1, FinishMoves, QuietLog
<1> QED
  BY <1>1, <1>2, <1>3 DEF LookupAPIKey, LookupSelect

LEMMA RecentClicksLog ==
    ASSUME StoreInv, LogInv, NEW p \in Sessions, RecentClicks(p)
    PROVE  LogInv'
<1>1. ASSUME NEW c \in Codes, ClicksExists(p, c)
      PROVE  LogInv'
  <2> PICK n : n = [pc |-> "clicks.Select", code |-> c, at |-> 0, key |-> NoKey, born |-> 0,
                    page |-> <<>>]
    OBVIOUS
  <2>1. n = [NoCall EXCEPT !.pc = "clicks.Select", !.code = c]
    BY FreshCall, Zenon
  <2>2. calls' = [calls EXCEPT ![p] = n]
    BY <1>1, <2>1, Zenon DEF ClicksExists
  <2>3. Moves(p) /\ calls'[p].pc = "clicks.Select"
    BY <2>2, BeginMoves
  <2> QED
    BY <1>1, <2>3, QuietLog DEF ClicksExists, Elsewhere
<1>2. CASE ClicksSelect(p)
  <2> PICK g : g = Page(NewestFirst(db.clicks[calls[p].code]), PageSize)
    OBVIOUS
  <2>1. calls' = [calls EXCEPT ![p].pc = "clicks.Return", ![p].page = g]
    BY <1>2 DEF ClicksSelect
  <2> PICK m : m = [calls[p] EXCEPT !.pc = "clicks.Return"]
    OBVIOUS
  <2>a. m = [pc |-> "clicks.Return", code |-> calls[p].code, at |-> calls[p].at,
             key |-> calls[p].key, born |-> calls[p].born, page |-> calls[p].page]
    BY CallKnown, CallFieldsReplaced DEF CallTyped
  <2>2. Fields(m) /\ m.at = calls[p].at /\ m.pc = "clicks.Return"
    BY <2>a DEF Fields
  <2> PICK n : n = [m EXCEPT !.page = g]
    OBVIOUS
  <2>3. n.at = m.at /\ n.pc = m.pc
    BY <2>2, CallFieldsReplaced DEF Fields
  <2>4. calls' = [calls EXCEPT ![p] = n]
    BY <2>1, Zenon DEF StoreInv, StoreTyped, CallsTyped, CallTyped, Fields
  <2>5. Moves(p) /\ calls'[p].pc = "clicks.Return"
    BY <2>2, <2>3, <2>4 DEF Moves, LogInv, StoreInv, StoreTyped, CallsTyped
  <2> QED
    BY <1>2, <2>5, QuietLog DEF ClicksSelect, Elsewhere
<1>3. CASE ClicksReturn(p)
  <2>1. Finish(p) /\ UNCHANGED <<db, journal, cleaner, clock>>
    BY <1>3 DEF ClicksReturn, Elsewhere
  <2> QED
    BY <2>1, FinishMoves, QuietLog
<1> QED
  BY <1>1, <1>2, <1>3 DEF RecentClicks

LEMMA EndLog ==
    ASSUME StoreInv, LogInv, StoreInv', NEW p \in Sessions, Busy(p) \/ Fail(p) \/ Rollback(p)
    PROVE  LogInv'
<1>1. CASE Busy(p)
  <2>1. (Finish(p) \/ Goto(p, "holding")) /\ UNCHANGED <<db, journal, cleaner, clock>>
    BY <1>1 DEF Busy, Elsewhere
  <2> QED
    BY <2>1, FinishMoves, GotoMoves, QuietLog
<1>2. CASE Fail(p)
  <2>1. Goto(p, "rollback") /\ UNCHANGED <<db, journal, cleaner, clock>>
    BY <1>2 DEF Fail, Elsewhere
  <2> QED
    BY <2>1, GotoMoves, QuietLog
<1>3. CASE Rollback(p)
  <2>1. Finish(p) /\ journal' = NoTx /\ UNCHANGED <<db, cleaner, clock>>
    BY <1>3 DEF Rollback, Elsewhere
  <2>2. \A q \in Sessions : calls'[q].at \in Nat
    BY <2>1, FinishMoves DEF Moves, LogInv
  <2>3. Events(db') /\ CountsMatch(db') /\ CleanerTimed'
    BY <2>1 DEF LogInv, Events, CountMatchesClicks, CountsMatch, HasLink, CleanerTimed
  <2> QED
    BY <2>1, <2>2, <2>3, CommittedLog
<1> QED
  BY <1>1, <1>2, <1>3

\* The four statements inside a transaction, and its two commits.
LEMMA ClickCountLog ==
    ASSUME StoreInv, LogInv, StoreInv', NEW p \in Sessions, ClickCount(p)
    PROVE  LogInv'
<1> PICK c : c = calls[p].code
  OBVIOUS
<1>1. /\ calls[p].pc = "click.Count" /\ c \in Codes /\ Tables(db)
      /\ UNCHANGED <<db, cleaner, clock>>
  BY CallKnown DEF ClickCount, At, Lock, Elsewhere, CallTyped, Clicking, StoreInv, StoreTyped
<1>2. CASE HasLink(db, c)
  <2> PICK born : born = db.urls[c].Born
    OBVIOUS
  <2> PICK d : d = CountClick(db, c)
    OBVIOUS
  <2> PICK m : m = [calls[p] EXCEPT !.pc = "click.Insert"]
    OBVIOUS
  <2>a. m = [pc |-> "click.Insert", code |-> calls[p].code, at |-> calls[p].at,
             key |-> calls[p].key, born |-> calls[p].born, page |-> calls[p].page]
    BY CallKnown, CallFieldsReplaced DEF CallTyped
  <2>1. Fields(m) /\ m.at = calls[p].at /\ m.pc = "click.Insert"
    BY <2>a DEF Fields
  <2> PICK n : n = [m EXCEPT !.born = born]
    OBVIOUS
  <2>2. n.at = m.at /\ n.pc = m.pc
    BY <2>1, CallFieldsReplaced DEF Fields
  <2>3. journal' = [by |-> p, db |-> d] /\ calls' = [calls EXCEPT ![p] = n]
    BY <1>2, Zenon DEF ClickCount, Lock
  <2>4. Moves(p) /\ calls'[p].pc = "click.Insert"
    BY <2>1, <2>2, <2>3 DEF Moves, LogInv, StoreInv, StoreTyped, CallsTyped
  <2>5. d.clicks = db.clicks /\ d.pruned = db.pruned
    BY <1>1, <1>2, CountClickTables
  <2>6. journal'.by = p /\ journal'.db = d
    BY <2>3
  <2>7. LogPending(p)'
    BY <1>1, <2>4, <2>5, <2>6 DEF LogPending
  <2> QED
    BY <1>1, <2>4, <2>6, <2>7, PendingLog
<1>3. CASE ~HasLink(db, c)
  <2>1. Goto(p, "rollback") /\ journal' = [by |-> p, db |-> db]
    BY <1>3 DEF ClickCount, Lock
  <2>2. Moves(p) /\ calls'[p].pc = "rollback" /\ journal'.by = p
    BY <2>1, GotoMoves
  <2>3. LogPending(p)'
    BY <2>2 DEF LogPending
  <2> QED
    BY <1>1, <2>2, <2>3, PendingLog
<1> QED
  BY <1>2, <1>3

LEMMA ClickInsertLog ==
    ASSUME StoreInv, LogInv, StoreInv', NEW p \in Sessions, ClickInsert(p)
    PROVE  LogInv'
<1> PICK c, at : c = calls[p].code /\ at = calls[p].at
  OBVIOUS
<1> PICK d : d = InsertClick(journal.db, c, at)
  OBVIOUS
<1>1. /\ calls[p].pc = "click.Insert" /\ Goto(p, "click.Commit") /\ journal' = [by |-> p, db |-> d]
      /\ UNCHANGED <<db, cleaner, clock>>
  BY DEF ClickInsert, At, Write, Elsewhere
<1>2. /\ d.clicks = [journal.db.clicks EXCEPT ![c] = Append(journal.db.clicks[c], at)]
      /\ d.pruned = journal.db.pruned
  <2> PICK j : j = journal.db
    OBVIOUS
  <2> PICK x : x = [j.clicks EXCEPT ![c] = Append(j.clicks[c], at)]
    OBVIOUS
  <2> PICK r : r = [j EXCEPT !.clicks = x]
    OBVIOUS
  <2>1. HasTables(j)
    BY DEF StoreInv, LockKept, Tables
  <2>2. r.clicks = x /\ r.pruned = j.pruned
    BY <2>1, FieldsReplaced
  <2>3. d = r
    BY DEF InsertClick
  <2> QED
    BY <2>2, <2>3
<1>3. journal.db.clicks = db.clicks /\ journal.db.pruned = db.pruned
  BY <1>1 DEF LogInv, LogPending
<1>4. Moves(p) /\ calls'[p].pc = "click.Commit" /\ calls'[p].at = at /\ calls'[p].code = c
  BY <1>1, GotoMoves
<1>5. journal'.by = p /\ journal'.db = d
  BY <1>1
<1>6. LogPending(p)'
  BY <1>1, <1>2, <1>3, <1>4, <1>5 DEF LogPending
<1> QED
  BY <1>1, <1>4, <1>5, <1>6, PendingLog

LEMMA RevokeUnbindLog ==
    ASSUME StoreInv, LogInv, StoreInv', NEW p \in Sessions, RevokeUnbind(p)
    PROVE  LogInv'
<1> PICK id : id = calls[p].key.ID
  OBVIOUS
<1> PICK S : S = BoundLinks(db, id)
  OBVIOUS
<1> PICK d : d = UnbindLinks(db, S)
  OBVIOUS
<1>1. /\ Goto(p, "revoke.Drop") /\ journal' = [by |-> p, db |-> d]
      /\ UNCHANGED <<db, cleaner, clock>>
  BY Zenon DEF RevokeUnbind, Lock, Elsewhere
<1>2. \A c \in Codes : c \in S => HasLink(db, c)
  BY DEF BoundLinks
<1>3. d.clicks = db.clicks /\ d.pruned = db.pruned
  BY <1>2, UnbindLinksTables DEF StoreInv, StoreTyped
<1>4. Moves(p) /\ calls'[p].pc = "revoke.Drop" /\ journal'.by = p /\ journal'.db = d
  BY <1>1, GotoMoves
<1>5. LogPending(p)'
  BY <1>1, <1>3, <1>4 DEF LogPending
<1> QED
  BY <1>1, <1>4, <1>5, PendingLog

LEMMA RevokeDropLog ==
    ASSUME StoreInv, LogInv, StoreInv', NEW p \in Sessions, RevokeDrop(p)
    PROVE  LogInv'
<1> PICK id : id = calls[p].key.ID
  OBVIOUS
<1> PICK pc : pc = IF HasKey(journal.db, id) THEN "revoke.Commit" ELSE "rollback"
  OBVIOUS
<1> PICK d : d = DropKey(journal.db, id)
  OBVIOUS
<1>1. /\ calls[p].pc = "revoke.Drop" /\ Goto(p, pc) /\ journal' = [by |-> p, db |-> d]
      /\ UNCHANGED <<db, cleaner, clock>>
  BY DEF RevokeDrop, At, Write, Elsewhere
<1>2. d.clicks = journal.db.clicks /\ d.pruned = journal.db.pruned
  BY DropKeyTables DEF StoreInv, LockKept
<1>3. journal.db.clicks = db.clicks /\ journal.db.pruned = db.pruned
  BY <1>1 DEF LogInv, LogPending
<1>4. Moves(p) /\ calls'[p].pc = pc /\ journal'.by = p /\ journal'.db = d
  BY <1>1, GotoMoves
<1>5. LogPending(p)'
  BY <1>1, <1>2, <1>3, <1>4 DEF LogPending
<1> QED
  BY <1>1, <1>4, <1>5, PendingLog

LEMMA ClickCommitLog ==
    ASSUME StoreInv, LogInv, StoreInv', NEW p \in Sessions, ClickCommit(p)
    PROVE  LogInv'
<1> PICK c, at : c = calls[p].code /\ at = calls[p].at
  OBVIOUS
<1> PICK e : e = journal.db
  OBVIOUS
<1>1. /\ calls[p].pc = "click.Commit" /\ Goto(p, "click.Return") /\ db' = e /\ journal' = NoTx
      /\ UNCHANGED <<cleaner, clock>>
  BY DEF ClickCommit, At, Elsewhere
<1>2. /\ Tables(db) /\ c \in Codes /\ at \in Nat /\ Events(db) /\ CountsMatch(db)
  BY <1>1, CallKnown DEF StoreInv, StoreTyped, CallTyped, Clicking, LogInv, CountMatchesClicks
<1>3. ClickPending(p)
  BY <1>1 DEF StoreInv, JournalFollows
<1>4. HasLink(db, c) /\ e.urls = CountClick(db, c).urls
  BY <1>3, Zenon DEF ClickPending
<1>5. LogPending(p)
  BY DEF LogInv
<1>6. e.clicks = [db.clicks EXCEPT ![c] = Append(db.clicks[c], at)] /\ e.pruned = db.pruned
  BY <1>1, <1>5, Zenon DEF LogPending
<1>7. Events(e) /\ CountsMatch(e)
  BY <1>2, <1>4, <1>6, ClickCounts
<1>8. \A q \in Sessions : calls'[q].at \in Nat
  BY <1>1, GotoMoves DEF Moves, LogInv
<1>9. CleanerTimed'
  BY <1>1 DEF LogInv, CleanerTimed
<1> QED
  BY <1>1, <1>7, <1>8, <1>9, CommittedLog

LEMMA RevokeCommitLog ==
    ASSUME StoreInv, LogInv, StoreInv', NEW p \in Sessions, RevokeCommit(p)
    PROVE  LogInv'
<1> PICK id : id = calls[p].key.ID
  OBVIOUS
<1> PICK S : S = BoundLinks(db, id)
  OBVIOUS
<1> PICK e : e = journal.db
  OBVIOUS
<1>1. /\ calls[p].pc = "revoke.Commit" /\ Finish(p) /\ db' = e /\ journal' = NoTx
      /\ UNCHANGED <<cleaner, clock>>
  BY DEF RevokeCommit, At, Elsewhere
<1>2. Tables(db) /\ Events(db) /\ CountsMatch(db)
  BY DEF StoreInv, StoreTyped, LogInv, CountMatchesClicks
<1>3. e.urls = UnbindLinks(db, S).urls
  <2>1. RevocationPending(p)
    BY <1>1 DEF StoreInv, JournalFollows
  <2> QED
    BY <2>1, Zenon DEF RevocationPending
<1>4. e.clicks = db.clicks /\ e.pruned = db.pruned
  BY <1>1 DEF LogInv, LogPending
<1>5. \A c \in Codes : c \in S => HasLink(db, c)
  BY DEF BoundLinks
<1>6. Silent(db, e)
  BY <1>2, <1>3, <1>5, UnbindLinksEffect
<1>7. Events(e) /\ CountsMatch(e)
  BY <1>2, <1>4, <1>6, CountsUntouched DEF Silent, SameLink
<1>8. \A q \in Sessions : calls'[q].at \in Nat
  BY <1>1, FinishMoves DEF Moves, LogInv
<1>9. CleanerTimed'
  BY <1>1 DEF LogInv, CleanerTimed
<1> QED
  BY <1>1, <1>7, <1>8, <1>9, CommittedLog

LEMMA ClickEndsLog ==
    ASSUME StoreInv, LogInv, NEW p \in Sessions,
           ClickReturn(p) \/ RevokeBegin(p) \/ \E c \in Codes : ClickBegin(p, c)
    PROVE  LogInv'
<1>1. CASE ClickReturn(p)
  <2>1. Finish(p) /\ UNCHANGED <<db, journal, cleaner, clock>>
    BY <1>1 DEF ClickReturn, Elsewhere
  <2> QED
    BY <2>1, FinishMoves, QuietLog
<1>2. ASSUME NEW k, RevokeBegin(p),
             calls' = [calls EXCEPT ![p] = [NoCall EXCEPT !.pc = "revoke.Unbind", !.key = k]]
      PROVE  LogInv'
  <2> PICK n : n = [pc |-> "revoke.Unbind", code |-> NoRow, at |-> 0, key |-> k, born |-> 0,
                    page |-> <<>>]
    OBVIOUS
  <2>1. n = [NoCall EXCEPT !.pc = "revoke.Unbind", !.key = k]
    BY FreshCall, Zenon
  <2>2. calls' = [calls EXCEPT ![p] = n]
    BY <1>2, <2>1, Zenon
  <2>3. Moves(p) /\ calls'[p].pc = "revoke.Unbind"
    BY <2>2, BeginMoves
  <2> QED
    BY <1>2, <2>3, QuietLog DEF RevokeBegin, Elsewhere
<1>3. ASSUME NEW c \in Codes, ClickBegin(p, c)
      PROVE  LogInv'
  <2> PICK now : now = clock
    OBVIOUS
  <2> PICK n : n = [pc |-> "click.Count", code |-> c, at |-> now, key |-> NoKey, born |-> 0,
                    page |-> <<>>]
    OBVIOUS
  <2>1. n = [NoCall EXCEPT !.pc = "click.Count", !.code = c, !.at = now]
    BY FreshClick, Zenon
  <2>2. calls' = [calls EXCEPT ![p] = n]
    BY <1>3, <2>1, Zenon DEF ClickBegin
  <2>3. Moves(p) /\ calls'[p].pc = "click.Count"
    BY <2>2, BeginMoves, CallKnown
  <2> QED
    BY <1>3, <2>3, QuietLog DEF ClickBegin, Elsewhere
<1> QED
  BY <1>1, <1>2, <1>3 DEF RevokeBegin

\* The cleanup goroutine, start-up, the end of the process and the clock.
LEMMA CutoffTyped ==
    ASSUME NEW now \in Nat
    PROVE  Cutoff(now) \in Nat
BY SQLiteAssumption DEF Cutoff

LEMMA CleanerLog ==
    ASSUME StoreInv, LogInv, StoreInv', Cleaner
    PROVE  LogInv'
<1>1. UNCHANGED <<calls, clock>> /\ CleanerTimed'
  <2>1. UNCHANGED <<calls, clock>> /\ clock \in Nat
    BY DEF Cleaner, CleanerTick, CleanerReap, CleanerPrune, CleanerFails, CleanerStop, CleanerIdle,
           StoreInv, StoreTyped
  <2>2. CASE cleaner'.now = cleaner.now /\ cleaner' = [cleaner EXCEPT !.pc = cleaner'.pc]
    BY <2>1, <2>2 DEF LogInv, CleanerTimed
  <2>3. ASSUME NEW pc, NEW now \in {0, clock}, cleaner' = [pc |-> pc, now |-> now]
        PROVE  CleanerTimed'
    BY <2>1, <2>3 DEF CleanerTimed
  <2>4. ASSUME NEW pc, cleaner' = [cleaner EXCEPT !.pc = pc]
        PROVE  CleanerTimed'
    <3>1. cleaner' = [pc |-> pc, now |-> cleaner.now]
      BY <2>4 DEF LogInv, CleanerTimed
    <3> QED
      BY <2>1, <3>1 DEF LogInv, CleanerTimed
  <2> QED
    BY <2>1, <2>3, <2>4 DEF Cleaner, CleanerTick, CleanerReap, CleanerPrune, CleanerFails, CleanerStop
<1>2. Tables(db) /\ Events(db) /\ CountsMatch(db) /\ \A q \in Sessions : calls'[q].at \in Nat
  BY <1>1 DEF StoreInv, StoreTyped, LogInv, CountMatchesClicks
<1>3. CASE CleanerReap
  <2> PICK e : e = DeleteLinks(db, ExpiredLinks(db, cleaner.now))
    OBVIOUS
  <2>1. journal' = NoTx /\ db' = e
    BY <1>3 DEF CleanerReap, Autocommit
  <2>2. Events(e) /\ CountsMatch(e)
    BY <1>2, DeletionCounts
  <2> QED
    BY <1>1, <1>2, <2>1, <2>2, CommittedLog
<1>4. CASE CleanerPrune
  <2> PICK cutoff : cutoff = Cutoff(cleaner.now)
    OBVIOUS
  <2> PICK e : e = PruneClicks(db, cutoff)
    OBVIOUS
  <2>1. journal' = NoTx /\ db' = e
    BY <1>4 DEF CleanerPrune, Autocommit
  <2>2. cutoff \in Nat
    BY CutoffTyped DEF LogInv, CleanerTimed
  <2>3. Events(e) /\ CountsMatch(e)
    BY <1>2, <2>2, PruneCounts
  <2> QED
    BY <1>1, <1>2, <2>1, <2>3, CommittedLog
<1>5. CASE CleanerTick \/ CleanerFails \/ CleanerStop
  <2>1. UNCHANGED <<db, journal>>
    BY <1>5 DEF CleanerTick, CleanerFails, CleanerStop
  <2>2. \A q \in Sessions : LogPending(q)'
    BY <1>1, <2>1 DEF LogInv, LogPending
  <2> QED
    BY <1>1, <1>2, <2>1, <2>2 DEF LogInv, Events, CountMatchesClicks, CountsMatch, HasLink
<1> QED
  BY <1>3, <1>4, <1>5 DEF Cleaner

LEMMA AddColumnLog ==
    ASSUME StoreInv, LogInv, StoreInv', AddColumn
    PROVE  LogInv'
<1>1. Tables(db) /\ Events(db) /\ CountsMatch(db) /\ UNCHANGED <<journal, calls, cleaner, clock>>
  BY DEF StoreInv, StoreTyped, LogInv, CountMatchesClicks, AddColumn
<1>2. journal = NoTx
  BY DEF StoreInv, LockKept, AddColumn
<1> PICK n : db' = [db EXCEPT !.columns = n]
  BY Zenon DEF AddColumn
<1> PICK e : e = [db EXCEPT !.columns = n]
  OBVIOUS
<1>3. e.urls = db.urls /\ e.clicks = db.clicks /\ e.pruned = db.pruned
  BY <1>1, AddColumnTables, Zenon
<1>4. Events(e) /\ CountsMatch(e)
  BY <1>1, <1>3, CountsUntouched DEF HasLink
<1>5. CleanerTimed' /\ \A q \in Sessions : calls'[q].at \in Nat
  BY <1>1 DEF LogInv, CleanerTimed
<1> QED
  BY <1>1, <1>2, <1>4, <1>5, CommittedLog

LEMMA OtherLog ==
    ASSUME StoreInv, LogInv, UNCHANGED <<db, journal, calls>>, CleanerTimed'
    PROVE  LogInv'
<1>1. \A q \in Sessions : calls'[q].at \in Nat /\ LogPending(q)'
  BY DEF LogInv, LogPending
<1> QED
  BY <1>1 DEF LogInv, Events, CountMatchesClicks, CountsMatch, HasLink

LEMMA StopLog ==
    ASSUME StoreInv, LogInv, StoreInv', Stop
    PROVE  LogInv'
<1>1. journal' = NoTx /\ db' = db /\ clock' = clock /\ cleaner' = [pc |-> "off", now |-> 0]
  BY DEF Stop
<1>2. Events(db') /\ CountsMatch(db')
  BY <1>1 DEF LogInv, Events, CountMatchesClicks, CountsMatch, HasLink
<1>3. \A q \in Sessions : calls'[q].at \in Nat
  BY DEF Stop, NoCall
<1>4. CleanerTimed'
  BY <1>1 DEF CleanerTimed, StoreInv, StoreTyped
<1> QED
  BY <1>1, <1>2, <1>3, <1>4, CommittedLog

LEMMA LogInvInit == SQLiteInit => LogInv
<1> SUFFICES ASSUME SQLiteInit PROVE LogInv
  OBVIOUS
<1>1. db = EmptyDatabase /\ \A q \in Sessions : calls[q] = NoCall
  BY DEF SQLiteInit
<1>2. Events(db)
  <2>1. <<>> \in Seq(Nat)
    BY EmptySeq
  <2> QED
    BY <1>1, <2>1 DEF Events, EmptyDatabase
<1>3. CountsMatch(db)
  BY <1>1 DEF CountsMatch, EmptyDatabase, HasLink
<1>4. \A q \in Sessions : calls[q].at = 0 /\ calls[q].pc = "idle"
  BY <1>1 DEF NoCall
<1>5. CleanerTimed
  BY DEF SQLiteInit, CleanerTimed
<1> QED
  BY <1>2, <1>3, <1>4, <1>5 DEF LogInv, LogPending, CountMatchesClicks

LEMMA LogInvNext == StoreInv /\ LogInv /\ StoreInv' /\ [SQLiteNext]_sqliteVars => LogInv'
<1> SUFFICES ASSUME StoreInv, LogInv, StoreInv', [SQLiteNext]_sqliteVars PROVE LogInv'
  OBVIOUS
<1>1. CASE UNCHANGED sqliteVars
  BY <1>1, OtherLog DEF sqliteVars, LogInv, CleanerTimed
<1>2. ASSUME NEW p \in Sessions, Session(p) PROVE LogInv'
  <2>1. CASE Busy(p) \/ Fail(p) \/ Rollback(p)
    BY <2>1, EndLog
  <2>2. CASE Calls(p)
    <3>1. CASE \E c \in Codes : Set(p, c) \/ Delete(p, c) \/ RotateToken(p, c) \/ Update(p, c)
      BY <3>1, SetLog, DeleteLog, RotateTokenLog, UpdateLog
    <3>2. CASE RecordClick(p)
      BY <3>2, ClickEndsLog, ClickCountLog, ClickInsertLog, ClickCommitLog DEF RecordClick
    <3>3. CASE RecentClicks(p)
      BY <3>3, RecentClicksLog
    <3>4. CASE CreateAPIKey(p)
      BY <3>4, CreateAPIKeyLog
    <3>5. CASE LookupAPIKey(p) \/ LetGo(p)
      BY <3>5, LookupLog
    <3>6. CASE DeleteAPIKey(p)
      BY <3>6, ClickEndsLog, RevokeUnbindLog, RevokeDropLog, RevokeCommitLog DEF DeleteAPIKey
    <3> QED
      BY <2>2, <3>1, <3>2, <3>3, <3>4, <3>5, <3>6 DEF Calls
  <2> QED
    BY <1>2, <2>1, <2>2 DEF Session
<1>3. CASE Start \/ Open \/ Cancel \/ CloseBegin \/ CloseReturn \/ Tick
  <2>1. UNCHANGED <<db, journal, calls>> /\ (clock' = clock \/ clock' = clock + 1)
        /\ (cleaner' = cleaner \/ cleaner' = [pc |-> "waiting", now |-> 0])
    BY <1>3 DEF Start, Open, Cancel, CloseBegin, CloseReturn, Rest, Tick
  <2>2. CleanerTimed'
    BY <2>1 DEF LogInv, CleanerTimed, StoreInv, StoreTyped
  <2> QED
    BY <2>1, <2>2, OtherLog
<1>4. CASE AddColumn \/ Cleaner \/ Crash \/ Exit
  BY <1>4, AddColumnLog, CleanerLog, StopLog DEF Crash, Exit
<1> QED
  BY <1>1, <1>2, <1>3, <1>4 DEF SQLiteNext, StartUp, Shutdown

\* The same for counts, event logs and what the retention period took: in
\* the committed tables and in the transaction under way.
THEOREM LogInvariant == SQLiteSpec => []LogInv
BY StoreInvInit, StoreInvNext, LogInvInit, LogInvNext, PTL DEF SQLiteSpec

\* Count and events never part: not by a crash or a failure between the two
\* statements of a click, a link that goes, or the retention period.
THEOREM CountsAndEventsAgree == SQLiteSpec => []CountMatchesClicks
<1>1. LogInv => CountMatchesClicks
  BY DEF LogInv
<1> QED
  BY <1>1, LogInvariant, PTL

----------------------------------------------------------------------------
(* What the cleanup goroutine takes. *)

OldOnly(e) ==
    \A c \in Codes :
        HasLink(db, c) =>
           IF HasLink(e, c)
           THEN \A i \in 1..Len(db.clicks[c]) :
                   \/ \E j \in 1..Len(e.clicks[c]) : e.clicks[c][j] = db.clicks[c][i]
                   \/ db.clicks[c][i] + Retention < clock
           ELSE ~GetOK(db, c, clock)

LEMMA ReapTakesOld ==
    ASSUME StoreInv, LogInv
    PROVE  OldOnly(DeleteLinks(db, ExpiredLinks(db, cleaner.now)))
<1> PICK S : S = ExpiredLinks(db, cleaner.now)
  OBVIOUS
<1> PICK e : e = DeleteLinks(db, S)
  OBVIOUS
<1>1. Tables(db) /\ clock \in Nat /\ cleaner.now \in Nat /\ cleaner.now <= clock
  BY DEF StoreInv, StoreTyped, LogInv, CleanerTimed
<1>2. \A c \in Codes : e.urls[c] = IF c \in S THEN NoRow ELSE db.urls[c]
  BY <1>1, DeleteLinksTables
<1>3. \A c \in Codes : c \notin S => e.clicks[c] = db.clicks[c]
  BY <1>1, DeleteLinksEvents
<1> SUFFICES ASSUME NEW c \in Codes, HasLink(db, c)
             PROVE  IF HasLink(e, c)
                    THEN \A i \in 1..Len(db.clicks[c]) :
                            \E j \in 1..Len(e.clicks[c]) : e.clicks[c][j] = db.clicks[c][i]
                    ELSE ~GetOK(db, c, clock)
  BY DEF OldOnly
<1>4. CASE c \in S
  <2>1. db.urls[c].ExpiresAt \in Nat
    BY <1>1, Rows DEF Link
  <2>2. db.urls[c].ExpiresAt # 0 /\ db.urls[c].ExpiresAt < cleaner.now
    BY <1>4 DEF ExpiredLinks
  <2>3. ~(clock <= db.urls[c].ExpiresAt)
    BY <1>1, <2>1, <2>2
  <2> QED
    BY <1>2, <1>4, <2>2, <2>3 DEF GetOK, HasLink
<1>5. CASE c \notin S
  <2>1. e.clicks[c] = db.clicks[c] /\ HasLink(e, c)
    BY <1>2, <1>3, <1>5 DEF HasLink
  <2> QED
    BY <2>1
<1> QED
  BY <1>4, <1>5

LEMMA PruneTakesOld ==
    ASSUME StoreInv, LogInv
    PROVE  OldOnly(PruneClicks(db, Cutoff(cleaner.now)))
<1> PICK cutoff : cutoff = Cutoff(cleaner.now)
  OBVIOUS
<1> PICK e : e = PruneClicks(db, cutoff)
  OBVIOUS
<1>1. Tables(db) /\ clock \in Nat /\ cleaner.now \in Nat /\ cleaner.now <= clock /\ Events(db)
  BY DEF StoreInv, StoreTyped, LogInv, CleanerTimed
<1>2. cutoff \in Nat
  BY <1>1, CutoffTyped
<1>3. e.urls = db.urls /\ \A c \in Codes : e.clicks[c] = Kept(db.clicks[c], cutoff)
  BY <1>1, PruneClicksTables
<1> SUFFICES ASSUME NEW c \in Codes, NEW i \in 1..Len(db.clicks[c])
             PROVE  \/ \E j \in 1..Len(e.clicks[c]) : e.clicks[c][j] = db.clicks[c][i]
                    \/ db.clicks[c][i] + Retention < clock
  BY <1>3 DEF OldOnly, HasLink
<1>4. db.clicks[c] \in Seq(Nat)
  BY <1>1 DEF Events
<1>5. db.clicks[c][i] \in Nat
  BY <1>4
<1>6. CASE db.clicks[c][i] >= cutoff
  <2>1. \E k \in 1..Len(Kept(db.clicks[c], cutoff)) : Kept(db.clicks[c], cutoff)[k] = db.clicks[c][i]
    BY <1>2, <1>4, <1>6, KeptEvents
  <2>2. e.clicks[c] = Kept(db.clicks[c], cutoff)
    BY <1>3
  <2> QED
    BY <2>1, <2>2, Zenon
<1>7. CASE ~(db.clicks[c][i] >= cutoff)
  BY <1>1, <1>5, <1>7, SQLiteAssumption DEF Cutoff
<1> QED
  BY <1>6, <1>7

\* A step of the cleanup goroutine takes what has expired by the clock and
\* what is older than the retention period, however late it runs after its
\* tick and whatever a PATCH changed meanwhile.
THEOREM CleanupTakesOld == SQLiteSpec => CleanupTakesOnlyTheOld
<1>1. ASSUME StoreInv, LogInv, SQLiteNext, cleaner' # cleaner
      PROVE  OldOnly(db')
  <2>1. CASE db' = db
    BY <2>1 DEF OldOnly
  <2>2. CASE CleanerReap
    <3> PICK e : e = DeleteLinks(db, ExpiredLinks(db, cleaner.now))
      OBVIOUS
    <3>1. db' = e
      BY <2>2 DEF CleanerReap, Autocommit
    <3>2. OldOnly(e)
      BY <1>1, ReapTakesOld
    <3> QED
      BY <3>1, <3>2 DEF OldOnly
  <2>3. CASE CleanerPrune
    <3> PICK e : e = PruneClicks(db, Cutoff(cleaner.now))
      OBVIOUS
    <3>1. db' = e
      BY <2>3 DEF CleanerPrune, Autocommit
    <3>2. OldOnly(e)
      BY <1>1, PruneTakesOld
    <3> QED
      BY <3>1, <3>2 DEF OldOnly
  <2>4. CASE Start \/ Open \/ Cancel \/ Shutdown \/ Crash \/ Tick
    BY <2>1, <2>4
       DEF Start, Open, Cancel, Shutdown, CloseBegin, CloseReturn, Exit, Crash, Stop, Rest, Tick
  <2>5. CASE CleanerTick \/ CleanerFails \/ CleanerStop
    BY <2>1, <2>5 DEF CleanerTick, CleanerFails, CleanerStop
  <2>6. CASE AddColumn
    BY <1>1, <2>6 DEF AddColumn
  <2>7. ASSUME NEW p \in Sessions, Session(p) PROVE FALSE
    BY <1>1, <2>7
       DEF Session, Calls, Set, Delete, RotateToken, Update, RecordClick, ClickBegin, ClickCount,
           ClickInsert, ClickCommit, ClickReturn, RecentClicks, ClicksExists, ClicksSelect,
           ClicksReturn, CreateAPIKey, LookupAPIKey, LookupSelect, LookupTouch, LetGo,
           DeleteAPIKey, RevokeBegin, RevokeUnbind, RevokeDrop, RevokeCommit, Busy, Fail, Rollback,
           Elsewhere
  <2> QED
    BY <1>1, <2>2, <2>3, <2>4, <2>5, <2>6, <2>7 DEF SQLiteNext, StartUp, Cleaner
<1>2. StoreInv /\ LogInv /\ [SQLiteNext]_sqliteVars =>
        [cleaner' # cleaner =>
           \A c \in Codes :
              HasLink(db, c) =>
                 IF HasLink(db', c)
                 THEN \A i \in 1..Len(db.clicks[c]) :
                         \/ \E j \in 1..Len(db'.clicks[c]) : db'.clicks[c][j] = db.clicks[c][i]
                         \/ db.clicks[c][i] + Retention < clock
                 ELSE ~GetOK(db, c, clock)]_<<db, cleaner>>
  <2> SUFFICES ASSUME StoreInv, LogInv, [SQLiteNext]_sqliteVars, cleaner' # cleaner
               PROVE  OldOnly(db')
    BY DEF OldOnly
  <2>1. SQLiteNext
    BY DEF sqliteVars
  <2> QED
    BY <1>1, <2>1
<1> QED
  BY <1>2, StoreInvariant, LogInvariant, PTL DEF SQLiteSpec, CleanupTakesOnlyTheOld
================================================================================
