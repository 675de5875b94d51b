------------------------ MODULE PostgresStoreProofs ------------------------
(***************************************************************************)
(* Proofs about PostgresStore, for any number of sessions, replicas and    *)
(* codes: counter and events agree, every click is accounted for, and      *)
(* every step is one that LinkLifecycle allows.                            *)
(*                                                                         *)
(* The argument is about row locks.  A row that a transaction holds is     *)
(* there and no other transaction's (LocksHeld), so that the row whose     *)
(* click is about to be committed has not gone, and the rows a revocation  *)
(* or a cleanup commits are still those it looked at.  Every write is then *)
(* one of five things that can happen to the links (LinksStep), and each   *)
(* of them keeps the counts and the accounts.                              *)
(***************************************************************************)
EXTENDS PostgresStore, SQLTablesProofs

\* Every call is one of these.
Record(pc, c, at, k, todo, locks) ==
    [pc |-> pc, code |-> c, at |-> at, key |-> k, todo |-> todo, locks |-> locks]

Fields(n) == n = Record(n.pc, n.code, n.at, n.key, n.todo, n.locks)

\* Who waits holds nothing, and who has counted a click holds its row.
CallFits(n) ==
    /\ Fields(n)
    /\ n.at \in Nat
    /\ n.key \in Key
    /\ n.locks \in SUBSET Codes
    /\ n.pc \in {"click.Count", "click.Commit"} => n.code \in Codes
    /\ n.pc \in {"idle", "holding", "click.Count"} => n.locks = {}
    /\ n.pc = "click.Commit" => n.locks = {n.code}

\* A row that a transaction holds is there, and no other transaction's.
LocksHeld ==
    \A a \in Actors : \A c \in calls[a].locks : HasLink(db, c) /\ RowFree(a, c)

Accounted(d, x, y) == \A c \in Codes : HasLink(d, c) => d.urls[c].ClickCount = x[c] + y[c]

PgTyped ==
    /\ Tables(db) /\ Events(db)
    /\ calls = [a \in Actors |-> calls[a]]
    /\ \A a \in Actors : CallFits(calls[a])
    /\ {clock, drawn} \subseteq Nat
    /\ acked \in [Codes -> Nat]
    /\ doubt \in [Codes -> Nat]

PgInv ==
    /\ PgTyped /\ LocksHeld /\ Owned(db)
    /\ CountMatchesClicks /\ ClicksAccounted

----------------------------------------------------------------------------
(* Calls. *)

LEMMA OneField ==
    ASSUME NEW n, Fields(n), NEW x
    PROVE  /\ [n EXCEPT !.pc = x] = Record(x, n.code, n.at, n.key, n.todo, n.locks)
           /\ [n EXCEPT !.code = x] = Record(n.pc, x, n.at, n.key, n.todo, n.locks)
           /\ [n EXCEPT !.at = x] = Record(n.pc, n.code, x, n.key, n.todo, n.locks)
           /\ [n EXCEPT !.key = x] = Record(n.pc, n.code, n.at, x, n.todo, n.locks)
           /\ [n EXCEPT !.todo = x] = Record(n.pc, n.code, n.at, n.key, x, n.locks)
           /\ [n EXCEPT !.locks = x] = Record(n.pc, n.code, n.at, n.key, n.todo, x)
BY DEF Fields, Record

LEMMA NoCallFields ==
    /\ NoCall = Record("idle", NoRow, 0, NoKey, {}, {})
    /\ NoKey \in Key /\ CallFits(NoCall)
BY DEF NoCall, Record, NoKey, Key, CallFits, Fields

LEMMA FreshClick ==
    ASSUME NEW pc, NEW c, NEW at
    PROVE  [NoCall EXCEPT !.pc = pc, !.code = c, !.at = at] = Record(pc, c, at, NoKey, {}, {})
<1> PICK n : n = NoCall
  OBVIOUS
<1>0. Fields(n) /\ n.pc = "idle" /\ n.code = NoRow /\ n.at = 0 /\ n.key = NoKey /\ n.todo = {} /\ n.locks = {}
  BY NoCallFields DEF Record, Fields
<1> PICK r : r = [n EXCEPT !.pc = pc]
  OBVIOUS
<1>1. Fields(r) /\ r.pc = pc /\ r.code = NoRow /\ r.at = 0 /\ r.key = NoKey /\ r.todo = {} /\ r.locks = {}
  BY <1>0, OneField DEF Record, Fields
<1> PICK s : s = [r EXCEPT !.code = c]
  OBVIOUS
<1>2. Fields(s) /\ s.pc = pc /\ s.code = c /\ s.at = 0 /\ s.key = NoKey /\ s.todo = {} /\ s.locks = {}
  BY <1>1, OneField DEF Record, Fields
<1> PICK t : t = [s EXCEPT !.at = at]
  OBVIOUS
<1>3. t = Record(pc, c, at, NoKey, {}, {})
  BY <1>2, OneField DEF Record, Fields
<1> QED
  BY <1>3, Zenon

LEMMA FreshKey ==
    ASSUME NEW pc, NEW k, NEW S
    PROVE  /\ [NoCall EXCEPT !.pc = pc, !.key = k] = Record(pc, NoRow, 0, k, {}, {})
           /\ [NoCall EXCEPT !.pc = pc, !.key = k, !.todo = S] = Record(pc, NoRow, 0, k, S, {})
<1> PICK n : n = NoCall
  OBVIOUS
<1>0. Fields(n) /\ n.pc = "idle" /\ n.code = NoRow /\ n.at = 0 /\ n.key = NoKey /\ n.todo = {} /\ n.locks = {}
  BY NoCallFields DEF Record, Fields
<1> PICK r : r = [n EXCEPT !.pc = pc]
  OBVIOUS
<1>1. Fields(r) /\ r.pc = pc /\ r.code = NoRow /\ r.at = 0 /\ r.key = NoKey /\ r.todo = {} /\ r.locks = {}
  BY <1>0, OneField DEF Record, Fields
<1> PICK s : s = [r EXCEPT !.key = k]
  OBVIOUS
<1>3. Fields(s) /\ s.pc = pc /\ s.code = NoRow /\ s.at = 0 /\ s.key = k /\ s.todo = {} /\ s.locks = {}
  BY <1>1, OneField DEF Record, Fields
<1>2. s = Record(pc, NoRow, 0, k, {}, {})
  BY <1>3 DEF Fields
<1> PICK t : t = [s EXCEPT !.todo = S]
  OBVIOUS
<1>4. t = Record(pc, NoRow, 0, k, S, {})
  BY <1>3, OneField DEF Record, Fields
<1>5. s = [NoCall EXCEPT !.pc = pc, !.key = k]
      /\ t = [NoCall EXCEPT !.pc = pc, !.key = k, !.todo = S]
  BY Zenon
<1> QED
  BY <1>2, <1>4, <1>5, Zenon

LEMMA FreshTick ==
    ASSUME NEW pc, NEW at, NEW S
    PROVE  /\ [NoCall EXCEPT !.pc = pc, !.at = at] = Record(pc, NoRow, at, NoKey, {}, {})
           /\ [NoCall EXCEPT !.pc = pc, !.at = at, !.todo = S] = Record(pc, NoRow, at, NoKey, S, {})
<1> PICK n : n = NoCall
  OBVIOUS
<1>0. Fields(n) /\ n.pc = "idle" /\ n.code = NoRow /\ n.at = 0 /\ n.key = NoKey /\ n.todo = {} /\ n.locks = {}
  BY NoCallFields DEF Record, Fields
<1> PICK r : r = [n EXCEPT !.pc = pc]
  OBVIOUS
<1>1. Fields(r) /\ r.pc = pc /\ r.code = NoRow /\ r.at = 0 /\ r.key = NoKey /\ r.todo = {} /\ r.locks = {}
  BY <1>0, OneField DEF Record, Fields
<1> PICK s : s = [r EXCEPT !.at = at]
  OBVIOUS
<1>3. Fields(s) /\ s.pc = pc /\ s.code = NoRow /\ s.at = at /\ s.key = NoKey /\ s.todo = {} /\ s.locks = {}
  BY <1>1, OneField DEF Record, Fields
<1>2. s = Record(pc, NoRow, at, NoKey, {}, {})
  BY <1>3 DEF Fields
<1> PICK t : t = [s EXCEPT !.todo = S]
  OBVIOUS
<1>4. t = Record(pc, NoRow, at, NoKey, S, {})
  BY <1>3, OneField DEF Record, Fields
<1>5. s = [NoCall EXCEPT !.pc = pc, !.at = at]
      /\ t = [NoCall EXCEPT !.pc = pc, !.at = at, !.todo = S]
  BY Zenon
<1> QED
  BY <1>2, <1>4, <1>5, Zenon

LEMMA CallRewritten ==
    ASSUME PgInv, NEW a \in Actors, NEW pc, NEW S, NEW T
    PROVE  /\ [calls EXCEPT ![a].pc = pc] =
                [calls EXCEPT ![a] = Record(pc, calls[a].code, calls[a].at, calls[a].key,
                                            calls[a].todo, calls[a].locks)]
           /\ [calls EXCEPT ![a].pc = pc, ![a].locks = S] =
                [calls EXCEPT ![a] = Record(pc, calls[a].code, calls[a].at, calls[a].key,
                                            calls[a].todo, S)]
           /\ [calls EXCEPT ![a].todo = T, ![a].locks = S] =
                [calls EXCEPT ![a] = Record(calls[a].pc, calls[a].code, calls[a].at,
                                            calls[a].key, T, S)]
<1> PICK n : n = calls[a]
  OBVIOUS
<1>0. Fields(n)
  BY DEF PgInv, PgTyped, CallFits
<1> PICK r : r = [n EXCEPT !.pc = pc]
  OBVIOUS
<1>1. r = Record(pc, n.code, n.at, n.key, n.todo, n.locks)
  BY <1>0, OneField DEF Record, Fields
<1>2. Fields(r) /\ r.pc = pc /\ r.code = n.code /\ r.at = n.at /\ r.key = n.key /\ r.todo = n.todo
  BY <1>1 DEF Record, Fields
<1> PICK s : s = [r EXCEPT !.locks = S]
  OBVIOUS
<1>3. s = Record(pc, n.code, n.at, n.key, n.todo, S)
  BY <1>2, OneField DEF Record, Fields
<1> PICK t : t = [n EXCEPT !.todo = T]
  OBVIOUS
<1>4. t = Record(n.pc, n.code, n.at, n.key, T, n.locks)
  BY <1>0, OneField DEF Record, Fields
<1>5. Fields(t) /\ t.pc = n.pc /\ t.code = n.code /\ t.at = n.at /\ t.key = n.key /\ t.todo = T
  BY <1>4 DEF Record, Fields
<1> PICK u : u = [t EXCEPT !.locks = S]
  OBVIOUS
<1>6. u = Record(n.pc, n.code, n.at, n.key, T, S)
  BY <1>5, OneField DEF Record, Fields
<1>7. [calls EXCEPT ![a].pc = pc] = [calls EXCEPT ![a] = r]
  BY Zenon
<1>8. [calls EXCEPT ![a].pc = pc, ![a].locks = S] = [calls EXCEPT ![a] = s]
  BY Zenon DEF PgInv, PgTyped
<1>9. [calls EXCEPT ![a].todo = T, ![a].locks = S] = [calls EXCEPT ![a] = u]
  BY Zenon DEF PgInv, PgTyped
<1> QED
  BY <1>1, <1>3, <1>6, <1>7, <1>8, <1>9, Zenon

\* A call in progress goes on: to another statement, with the row it has
\* locked, or with the rows that it has yet to reach.
AtStatement(a, pc) == [calls EXCEPT ![a].pc = pc]
WithRows(a, pc, S) == [calls EXCEPT ![a].pc = pc, ![a].locks = S]
YetToReach(a, T, S) == [calls EXCEPT ![a].todo = T, ![a].locks = S]

LEMMA GoesOn ==
    ASSUME PgInv, NEW a \in Actors, NEW pc
    PROVE  AtStatement(a, pc) = [calls EXCEPT ![a] =
              Record(pc, calls[a].code, calls[a].at, calls[a].key, calls[a].todo, calls[a].locks)]
<1> PICK n : n = calls[a]
  OBVIOUS
<1> PICK r : r = [n EXCEPT !.pc = pc]
  OBVIOUS
<1>1. Fields(n)
  BY DEF PgInv, PgTyped, CallFits
<1>2. r = Record(pc, n.code, n.at, n.key, n.todo, n.locks)
  BY <1>1, OneField DEF Record, Fields
<1>3. AtStatement(a, pc) = [calls EXCEPT ![a] = r]
  BY Zenon DEF AtStatement
<1> QED
  BY <1>2, <1>3, Zenon

LEMMA LocksRow ==
    ASSUME PgInv, NEW a \in Actors, NEW pc, NEW S
    PROVE  WithRows(a, pc, S) = [calls EXCEPT ![a] =
              Record(pc, calls[a].code, calls[a].at, calls[a].key, calls[a].todo, S)]
<1> PICK n : n = calls[a]
  OBVIOUS
<1> PICK r : r = [n EXCEPT !.pc = pc]
  OBVIOUS
<1> PICK s : s = [r EXCEPT !.locks = S]
  OBVIOUS
<1>1. Fields(n)
  BY DEF PgInv, PgTyped, CallFits
<1>2. /\ Fields(r) /\ r.pc = pc /\ r.code = n.code /\ r.at = n.at
      /\ r.key = n.key /\ r.todo = n.todo
  BY <1>1, OneField DEF Record, Fields
<1>3. s = Record(pc, n.code, n.at, n.key, n.todo, S)
  BY <1>2, OneField DEF Record, Fields
<1>4. WithRows(a, pc, S) = [calls EXCEPT ![a] = s]
  BY Zenon DEF PgInv, PgTyped, WithRows
<1> QED
  BY <1>3, <1>4, Zenon

LEMMA ReachesRow ==
    ASSUME PgInv, NEW a \in Actors, NEW T, NEW S
    PROVE  YetToReach(a, T, S) = [calls EXCEPT ![a] =
              Record(calls[a].pc, calls[a].code, calls[a].at, calls[a].key, T, S)]
<1> PICK n : n = calls[a]
  OBVIOUS
<1> PICK r : r = [n EXCEPT !.todo = T]
  OBVIOUS
<1> PICK s : s = [r EXCEPT !.locks = S]
  OBVIOUS
<1>1. Fields(n)
  BY DEF PgInv, PgTyped, CallFits
<1>2. /\ Fields(r) /\ r.pc = n.pc /\ r.code = n.code /\ r.at = n.at
      /\ r.key = n.key /\ r.todo = T
  BY <1>1, OneField DEF Record, Fields
<1>3. s = Record(n.pc, n.code, n.at, n.key, T, S)
  BY <1>2, OneField DEF Record, Fields
<1>4. YetToReach(a, T, S) = [calls EXCEPT ![a] = s]
  BY Zenon DEF PgInv, PgTyped, YetToReach
<1> QED
  BY <1>3, <1>4, Zenon


LEMMA MovedCall ==
    ASSUME PgInv, NEW a \in Actors, NEW n, calls' = [calls EXCEPT ![a] = n]
    PROVE  /\ calls'[a] = n
           /\ \A b \in Actors : b # a => calls'[b] = calls[b]
           /\ calls' = [b \in Actors |-> calls'[b]]
BY DEF PgInv, PgTyped

\* What a step of a may do: only rows that nobody else holds go, a call
\* comes to hold only such rows, and the links and the clicks are kept.
LEMMA ActorStep ==
    ASSUME PgInv, NEW a \in Actors, NEW n, CallFits(n), calls' = [calls EXCEPT ![a] = n],
           NEW e, db' = e, Tables(e), Events(e), CountsMatch(e), Owned(e),
           \A c \in n.locks : HasLink(e, c) /\ RowFree(a, c),
           \A c \in Codes : HasLink(db, c) /\ ~HasLink(e, c) => RowFree(a, c),
           {clock', drawn'} \subseteq Nat,
           acked' \in [Codes -> Nat], doubt' \in [Codes -> Nat],
           Accounted(e, acked', doubt')
    PROVE  PgInv'
<1>1. /\ calls'[a] = n
      /\ \A b \in Actors : b # a => calls'[b] = calls[b]
      /\ calls' = [b \in Actors |-> calls'[b]]
  BY MovedCall
<1>2. PgTyped'
  <2>1. \A b \in Actors : CallFits(calls'[b])
    BY <1>1 DEF PgInv, PgTyped
  <2> QED
    BY <1>1, <2>1 DEF PgTyped
<1>3. LocksHeld'
  <2> SUFFICES ASSUME NEW b \in Actors, NEW c \in calls'[b].locks
               PROVE  HasLink(e, c) /\ \A d \in Actors \ {b} : c \notin calls'[d].locks
    BY DEF LocksHeld, RowFree, HasLink
  <2>1. c \in Codes
    BY <1>2 DEF PgTyped, CallFits
  <2>2. CASE b = a
    <3>1. HasLink(e, c) /\ RowFree(a, c)
      BY <1>1, <2>2
    <3> QED
      BY <1>1, <2>2, <3>1 DEF RowFree
  <2>3. CASE b # a
    <3>1. c \in calls[b].locks
      BY <1>1, <2>3
    <3>2. HasLink(db, c) /\ RowFree(b, c)
      BY <3>1 DEF PgInv, LocksHeld
    <3>3. ~RowFree(a, c)
      BY <2>3, <3>1 DEF RowFree
    <3>4. HasLink(e, c) /\ c \notin n.locks
      BY <2>1, <3>2, <3>3
    <3> QED
      BY <1>1, <3>2, <3>4 DEF RowFree
  <2> QED
    BY <2>2, <2>3
<1>4. Owned(db') /\ CountMatchesClicks' /\ ClicksAccounted'
  BY DEF CountMatchesClicks, ClicksAccounted, Accounted, HasLink
<1> QED
  BY <1>2, <1>3, <1>4 DEF PgInv

\* The database does not change.
LEMMA CallStep ==
    ASSUME PgInv, NEW a \in Actors, NEW n, CallFits(n), calls' = [calls EXCEPT ![a] = n],
           \A c \in n.locks : HasLink(db, c) /\ RowFree(a, c),
           UNCHANGED <<db, clock, drawn, acked, doubt>>
    PROVE  PgInv'
<1> PICK e : e = db
  OBVIOUS
<1>1. Tables(e) /\ Events(e) /\ CountsMatch(e) /\ Owned(e) /\ Accounted(e, acked', doubt')
      /\ {clock', drawn'} \subseteq Nat /\ acked' \in [Codes -> Nat] /\ doubt' \in [Codes -> Nat]
  BY DEF PgInv, PgTyped, CountMatchesClicks, ClicksAccounted, Accounted
<1>2. db' = e /\ \A c \in n.locks : HasLink(e, c) /\ RowFree(a, c)
  OBVIOUS
<1>3. \A c \in Codes : HasLink(db, c) /\ ~HasLink(e, c) => RowFree(a, c)
  OBVIOUS
<1> QED
  BY <1>1, <1>2, <1>3, ActorStep

\* A statement of its own, by a session that is in no transaction.
LEMMA StatementStep ==
    ASSUME PgInv, NEW a \in Actors, NEW e, db' = e, UNCHANGED <<calls, clock>>,
           calls[a].locks = {},
           Tables(e), Events(e), CountsMatch(e), Owned(e),
           \A c \in Codes : HasLink(db, c) /\ ~HasLink(e, c) => RowFree(a, c),
           drawn' \in Nat, acked' \in [Codes -> Nat], doubt' \in [Codes -> Nat],
           Accounted(e, acked', doubt')
    PROVE  PgInv'
<1> PICK n : n = calls[a]
  OBVIOUS
<1>1. CallFits(n) /\ calls' = [calls EXCEPT ![a] = n] /\ n.locks = {} /\ {clock', drawn'} \subseteq Nat
  BY DEF PgInv, PgTyped
<1> QED
  BY <1>1, ActorStep

\* What the five things that happen to links do to owners and answers.
LEMMA StaysOwned ==
    ASSUME NEW d, NEW e, NEW n \in Nat, NEW m, Owned(d), LinksStep(d, e, n, m)
    PROVE  Owned(e)
BY DEF Owned, LinksStep, Claimed, Rekeyed, Counted, Released, Silent, SameLink

LEMMA StaysAccounted ==
    ASSUME NEW d, NEW e, NEW x, NEW y, Accounted(d, x, y),
           Silent(d, e) \/ (\E c \in Codes : \E owner : Rekeyed(d, e, c, owner))
             \/ \E S \in SUBSET Codes : Released(d, e, S)
    PROVE  Accounted(e, x, y)
BY DEF Accounted, Rekeyed, Released, Silent, SameLink

----------------------------------------------------------------------------
(* What each write does to the links. *)

LEMMA Facts ==
    ASSUME PgInv
    PROVE  /\ Tables(db) /\ Events(db) /\ CountsMatch(db) /\ Owned(db)
           /\ Accounted(db, acked, doubt)
           /\ clock \in Nat /\ drawn \in Nat
           /\ acked \in [Codes -> Nat] /\ doubt \in [Codes -> Nat]
           /\ \A a \in Actors : CallFits(calls[a])
BY DEF PgInv, PgTyped, CountMatchesClicks, ClicksAccounted, Accounted

LEMMA SetStep ==
    ASSUME PgInv, NEW p \in Sessions, NEW c \in Codes, Set(p, c)
    PROVE  PgInv' /\ LinksStep(db, db', drawn, drawn')
<1> PICK life \in Lifetimes :
      db' = InsertLink(db, c, NewLink(drawn + 1, IF life = 0 THEN 0 ELSE clock + life, calls[p].key))
  BY DEF Set
<1> PICK until : until = IF life = 0 THEN 0 ELSE clock + life
  OBVIOUS
<1> PICK k : k = calls[p].key
  OBVIOUS
<1> PICK l : l = NewLink(drawn + 1, until, k)
  OBVIOUS
<1> PICK e : e = InsertLink(db, c, l)
  OBVIOUS
<1> PICK n : n = NoCall
  OBVIOUS
<1>1. /\ db' = e /\ drawn' = drawn + 1 /\ ~HasLink(db, c) /\ clock' = clock
      /\ calls' = [calls EXCEPT ![p] = n]
      /\ acked' = [acked EXCEPT ![c] = 0] /\ doubt' = [doubt EXCEPT ![c] = 0]
  BY Zenon DEF Set, Finish, World
<1>2. p \in Actors /\ Tables(db) /\ drawn \in Nat /\ clock \in Nat /\ until \in Nat /\ k \in Key
  BY PostgresAssumption, Facts DEF Actors, CallFits
<1>3. l \in Link /\ l.ClickCount = 0 /\ l.OwnerTokenHash = drawn + 1
  BY <1>2 DEF NewLink, Link, Key
<1>4. Tables(e) /\ e.urls = [db.urls EXCEPT ![c] = l]
      /\ e.keys = db.keys /\ e.keySeq = db.keySeq
  BY <1>2, <1>3, InsertLinkTables
<1>5. Events(e) /\ CountsMatch(e)
  BY <1>1, <1>3, Facts, ClaimCounts
<1>6. Claimed(db, e, c, drawn + 1)
  BY <1>1, <1>2, <1>3, InsertLinkEffect
<1>7. LinksStep(db, e, drawn, drawn')
  BY <1>1, <1>6 DEF LinksStep
<1>8. Owned(e)
  BY <1>2, <1>7, Facts, StaysOwned
<1>9. /\ acked' \in [Codes -> Nat] /\ doubt' \in [Codes -> Nat]
      /\ Accounted(e, acked', doubt')
  BY <1>1, <1>6, Facts DEF Accounted, Claimed, SameLink
<1>a. n.locks = {} /\ CallFits(n)
  BY NoCallFields DEF NoCall
<1>b. /\ \A b \in n.locks : HasLink(e, b) /\ RowFree(p, b)
      /\ \A b \in Codes : HasLink(db, b) /\ ~HasLink(e, b) => RowFree(p, b)
      /\ {clock', drawn'} \subseteq Nat
  BY <1>1, <1>2, <1>6, <1>a DEF Claimed, SameLink
<1>c. PgInv'
  BY <1>1, <1>2, <1>4, <1>5, <1>8, <1>9, <1>a, <1>b, ActorStep
<1> QED
  BY <1>1, <1>7, <1>c

LEMMA DeleteStep ==
    ASSUME PgInv, NEW p \in Sessions, NEW c \in Codes, Delete(p, c)
    PROVE  PgInv' /\ LinksStep(db, db', drawn, drawn')
<1> PICK e : e = DeleteLinks(db, {c})
  OBVIOUS
<1>1. /\ db' = e /\ RowFree(p, c) /\ calls[p].pc = "idle"
      /\ UNCHANGED <<calls, clock, drawn, acked, doubt>>
  BY DEF Delete, Idle, World, historyVars
<1>2. Tables(e) /\ Events(e) /\ CountsMatch(e) /\ Released(db, e, {c})
  BY Facts, DeleteLinksTables, DeletionCounts, DeleteLinksEffect
<1>3. LinksStep(db, e, drawn, drawn')
  BY <1>1, <1>2 DEF LinksStep
<1>4. Owned(e) /\ Accounted(e, acked', doubt')
  BY <1>1, <1>2, <1>3, Facts, StaysOwned, StaysAccounted
<1>5. p \in Actors /\ calls[p].locks = {}
  BY <1>1, Facts DEF Actors, CallFits
<1>6. \A b \in Codes : HasLink(db, b) /\ ~HasLink(e, b) => RowFree(p, b)
  BY <1>1, <1>2 DEF Released, SameLink
<1>7. drawn' \in Nat /\ acked' \in [Codes -> Nat] /\ doubt' \in [Codes -> Nat]
  BY <1>1, Facts
<1>8. PgInv'
  BY <1>1, <1>2, <1>4, <1>5, <1>6, <1>7, StatementStep
<1> QED
  BY <1>1, <1>3, <1>8

LEMMA RotateTokenStep ==
    ASSUME PgInv, NEW p \in Sessions, NEW c \in Codes, RotateToken(p, c)
    PROVE  PgInv' /\ LinksStep(db, db', drawn, drawn')
<1> PICK owner : owner = drawn + 1
  OBVIOUS
<1> PICK e : e = SetOwner(db, c, owner)
  OBVIOUS
<1>1. /\ db' = e /\ HasLink(db, c) /\ calls[p].pc = "idle" /\ drawn' = owner
      /\ UNCHANGED <<calls, clock, acked, doubt>>
  BY DEF RotateToken, Idle, World, historyVars
<1>2. owner \in Nat /\ Tables(db) /\ Events(db) /\ CountsMatch(db)
  BY Facts
<1>3. /\ Tables(e) /\ e.clicks = db.clicks /\ e.pruned = db.pruned
      /\ Rekeyed(db, e, c, owner)
  BY <1>1, <1>2, SetOwnerTables, SetOwnerEffect
<1>4. Events(e) /\ CountsMatch(e)
  BY <1>2, <1>3, CountsUntouched DEF Rekeyed, SameLink
<1>5. LinksStep(db, e, drawn, drawn')
  BY <1>1, <1>3 DEF LinksStep
<1>6. Owned(e) /\ Accounted(e, acked', doubt')
  BY <1>1, <1>3, <1>5, Facts, StaysOwned, StaysAccounted
<1>7. p \in Actors /\ calls[p].locks = {}
  BY <1>1, Facts DEF Actors, CallFits
<1>8. \A b \in Codes : HasLink(db, b) /\ ~HasLink(e, b) => RowFree(p, b)
  BY <1>3 DEF Rekeyed, SameLink
<1>9. drawn' \in Nat /\ acked' \in [Codes -> Nat] /\ doubt' \in [Codes -> Nat]
  BY <1>1, <1>2, Facts
<1>a. PgInv'
  BY <1>1, <1>3, <1>4, <1>6, <1>7, <1>8, <1>9, StatementStep
<1> QED
  BY <1>1, <1>5, <1>a

\* A statement of its own that nobody sees in the links.
LEMMA SilentStep ==
    ASSUME PgInv, NEW p \in Sessions, calls[p].pc = "idle", NEW e, db' = e, Tables(e),
           e.clicks = db.clicks, e.pruned = db.pruned, Silent(db, e),
           UNCHANGED <<calls, clock, acked, doubt>>, drawn' \in {drawn, drawn + 1}
    PROVE  PgInv' /\ LinksStep(db, db', drawn, drawn')
<1>1. Events(e) /\ CountsMatch(e)
  BY Facts, CountsUntouched DEF Silent, SameLink
<1>2. LinksStep(db, e, drawn, drawn')
  BY DEF LinksStep
<1>3. Owned(e) /\ Accounted(e, acked', doubt')
  BY <1>2, Facts, StaysOwned, StaysAccounted
<1>4. p \in Actors /\ calls[p].locks = {}
  BY Facts DEF Actors, CallFits
<1>5. \A b \in Codes : HasLink(db, b) /\ ~HasLink(e, b) => RowFree(p, b)
  BY DEF Silent, SameLink
<1>6. drawn' \in Nat /\ acked' \in [Codes -> Nat] /\ doubt' \in [Codes -> Nat]
  BY Facts
<1>7. PgInv'
  BY <1>1, <1>3, <1>4, <1>5, <1>6, StatementStep
<1> QED
  BY <1>2, <1>7

LEMMA UpdateStep ==
    ASSUME PgInv, NEW p \in Sessions, NEW c \in Codes, Update(p, c)
    PROVE  PgInv' /\ LinksStep(db, db', drawn, drawn')
<1> PICK life \in Lifetimes : db' = SetExpiry(db, c, IF life = 0 THEN 0 ELSE clock + life)
  BY DEF Update
<1> PICK t : t = IF life = 0 THEN 0 ELSE clock + life
  OBVIOUS
<1> PICK e : e = SetExpiry(db, c, t)
  OBVIOUS
<1>1. /\ db' = e /\ HasLink(db, c) /\ calls[p].pc = "idle"
      /\ UNCHANGED <<calls, clock, drawn, acked, doubt>>
  BY DEF Update, Idle, World, historyVars
<1>2. Tables(db) /\ t \in Nat
  BY Facts, PostgresAssumption
<1>3. Tables(e) /\ e.clicks = db.clicks /\ e.pruned = db.pruned /\ Silent(db, e)
  BY <1>1, <1>2, SetExpiryTables, SetExpiryEffect
<1> QED
  BY <1>1, <1>3, SilentStep

LEMMA CreateAPIKeyStep ==
    ASSUME PgInv, NEW p \in Sessions, CreateAPIKey(p)
    PROVE  PgInv' /\ LinksStep(db, db', drawn, drawn')
<1> PICK hash : hash = drawn + 1
  OBVIOUS
<1> PICK e : e = InsertKey(db, hash)
  OBVIOUS
<1>1. /\ db' = e /\ calls[p].pc = "idle" /\ drawn' = drawn + 1
      /\ UNCHANGED <<calls, clock, acked, doubt>>
  BY DEF CreateAPIKey, Idle, World, historyVars
<1>2. Tables(db) /\ hash \in Nat
  BY Facts
<1>3. Tables(e) /\ e.urls = db.urls /\ e.clicks = db.clicks /\ e.pruned = db.pruned
  BY <1>2, InsertKeyTables, Zenon
<1>4. Silent(db, e)
  BY <1>3, SameLinksEffect
<1> QED
  BY <1>1, <1>3, <1>4, SilentStep

\* A click is committed: by its call, or on a connection that is lost.
LEMMA ClickedEffect ==
    ASSUME PgInv, NEW a \in Actors, calls[a].pc = "click.Commit"
    PROVE  /\ Tables(Clicked(a)) /\ Events(Clicked(a)) /\ CountsMatch(Clicked(a))
           /\ calls[a].code \in Codes
           /\ Counted(db, Clicked(a), calls[a].code)
<1> PICK c, at : c = calls[a].code /\ at = calls[a].at
  OBVIOUS
<1> PICK d : d = CountClick(db, c)
  OBVIOUS
<1> PICK e : e = InsertClick(d, c, at)
  OBVIOUS
<1>1. /\ Tables(db) /\ Events(db) /\ CountsMatch(db) /\ c \in Codes /\ at \in Nat /\ HasLink(db, c)
  BY Facts DEF CallFits, PgInv, LocksHeld
<1>2. Tables(d) /\ d.clicks = db.clicks /\ d.pruned = db.pruned
  BY <1>1, CountClickTables
<1>3. Tables(e) /\ e.urls = d.urls
  BY <1>2, InsertClickTables
<1>4. e.clicks = [db.clicks EXCEPT ![c] = Append(db.clicks[c], at)] /\ e.pruned = db.pruned
  <2> PICK x : x = [d.clicks EXCEPT ![c] = Append(d.clicks[c], at)]
    OBVIOUS
  <2> PICK r : r = [d EXCEPT !.clicks = x]
    OBVIOUS
  <2>1. HasTables(d)
    BY <1>2 DEF Tables
  <2>2. r.clicks = x /\ r.pruned = d.pruned
    BY <2>1, FieldsReplaced
  <2>3. e = r
    BY DEF InsertClick
  <2> QED
    BY <1>2, <2>2, <2>3
<1>5. e.urls = CountClick(db, c).urls
  BY <1>3
<1>6. Events(e) /\ CountsMatch(e)
  BY <1>1, <1>4, <1>5, ClickCounts
<1>7. Counted(db, e, c)
  BY <1>1, <1>5, CountClickEffect
<1>8. e = Clicked(a)
  BY DEF Clicked
<1> QED
  BY <1>1, <1>3, <1>6, <1>7, <1>8

LEMMA ClickCommitStep ==
    ASSUME PgInv, NEW p \in Sessions, ClickCommit(p)
    PROVE  PgInv' /\ LinksStep(db, db', drawn, drawn')
<1> PICK c : c = calls[p].code
  OBVIOUS
<1> PICK e : e = Clicked(p)
  OBVIOUS
<1> PICK n : n = NoCall
  OBVIOUS
<1>1. /\ db' = e /\ calls[p].pc = "click.Commit" /\ calls' = [calls EXCEPT ![p] = n]
      /\ acked' = [acked EXCEPT ![c] = acked[c] + 1] /\ UNCHANGED <<clock, drawn, doubt>>
  BY DEF ClickCommit, At, Finish, World
<1>2. p \in Actors
  BY DEF Actors
<1>3. Tables(e) /\ Events(e) /\ CountsMatch(e) /\ c \in Codes /\ Counted(db, e, c)
  BY <1>1, <1>2, ClickedEffect
<1>4. LinksStep(db, e, drawn, drawn')
  BY <1>1, <1>3 DEF LinksStep
<1>5. Owned(e)
  BY <1>4, Facts, StaysOwned
<1>6. /\ acked' \in [Codes -> Nat] /\ doubt' \in [Codes -> Nat] /\ {clock', drawn'} \subseteq Nat
  BY <1>1, <1>3, Facts
<1>7. Accounted(e, acked', doubt')
  <2> SUFFICES ASSUME NEW b \in Codes, HasLink(e, b)
               PROVE  e.urls[b].ClickCount = acked'[b] + doubt'[b]
    BY DEF Accounted
  <2>1. HasLink(db, b) /\ db.urls[b].ClickCount = acked[b] + doubt[b]
        /\ acked[b] \in Nat /\ doubt[b] \in Nat
    BY <1>3, Facts DEF Counted, SameLink, Accounted
  <2>2. CASE b = c
    BY <1>1, <1>3, <2>1, <2>2, Facts DEF Counted
  <2>3. CASE b # c
    BY <1>1, <1>3, <2>1, <2>3, Facts DEF Counted, SameLink
  <2> QED
    BY <2>2, <2>3
<1>8. /\ CallFits(n) /\ \A b \in n.locks : HasLink(e, b) /\ RowFree(p, b)
      /\ \A b \in Codes : HasLink(db, b) /\ ~HasLink(e, b) => RowFree(p, b)
  BY <1>3, NoCallFields DEF NoCall, Counted, SameLink
<1>9. PgInv'
  BY <1>1, <1>2, <1>3, <1>5, <1>6, <1>7, <1>8, ActorStep
<1> QED
  BY <1>1, <1>4, <1>9

LEMMA RevokeCommitStep ==
    ASSUME PgInv, NEW p \in Sessions, RevokeCommit(p)
    PROVE  PgInv' /\ LinksStep(db, db', drawn, drawn')
<1> PICK id : id = calls[p].key.ID
  OBVIOUS
<1> PICK S : S = calls[p].locks
  OBVIOUS
<1> PICK d : d = UnbindLinks(db, S)
  OBVIOUS
<1> PICK e : e = DropKey(d, id)
  OBVIOUS
<1> PICK n : n = NoCall
  OBVIOUS
<1>1. /\ db' = e /\ calls' = [calls EXCEPT ![p] = n]
      /\ UNCHANGED <<clock, drawn, acked, doubt>>
  BY DEF RevokeCommit, Finish, World, historyVars
<1>2. p \in Actors /\ Tables(db) /\ Events(db) /\ CountsMatch(db)
  BY Facts DEF Actors
<1>3. \A c \in Codes : c \in S => HasLink(db, c)
  BY <1>2 DEF PgInv, LocksHeld
<1>4. Tables(d) /\ d.clicks = db.clicks /\ d.pruned = db.pruned
  BY <1>2, <1>3, UnbindLinksTables
<1>5. Tables(e) /\ e.urls = d.urls /\ e.clicks = d.clicks /\ e.pruned = d.pruned
  BY <1>4, DropKeyTables
<1>6. Silent(db, e)
  <2>1. e.urls = UnbindLinks(db, S).urls
    BY <1>5
  <2> QED
    BY <1>2, <1>3, <2>1, UnbindLinksEffect
<1>7. Events(e) /\ CountsMatch(e)
  BY <1>2, <1>4, <1>5, <1>6, CountsUntouched DEF Silent, SameLink
<1>8. LinksStep(db, e, drawn, drawn')
  BY <1>1, <1>6 DEF LinksStep
<1>9. Owned(e) /\ Accounted(e, acked', doubt')
  BY <1>1, <1>6, <1>8, Facts, StaysOwned, StaysAccounted
<1>a. /\ CallFits(n) /\ \A b \in n.locks : HasLink(e, b) /\ RowFree(p, b)
      /\ \A b \in Codes : HasLink(db, b) /\ ~HasLink(e, b) => RowFree(p, b)
  BY <1>6, NoCallFields DEF NoCall, Silent, SameLink
<1>b. /\ acked' \in [Codes -> Nat] /\ doubt' \in [Codes -> Nat] /\ {clock', drawn'} \subseteq Nat
  BY <1>1, Facts
<1>c. PgInv'
  BY <1>1, <1>2, <1>5, <1>7, <1>9, <1>a, <1>b, ActorStep
<1> QED
  BY <1>1, <1>8, <1>c

LEMMA CleanerReapStep ==
    ASSUME PgInv, NEW w \in Cleaners, CleanerReap(w)
    PROVE  PgInv' /\ LinksStep(db, db', drawn, drawn')
<1> PICK at : at = calls[w].at
  OBVIOUS
<1> PICK S : S = calls[w].locks
  OBVIOUS
<1> PICK e : e = DeleteLinks(db, S)
  OBVIOUS
<1> PICK n : n = Record("prune", NoRow, at, NoKey, {}, {})
  OBVIOUS
<1>1. /\ db' = e /\ UNCHANGED <<clock, drawn, acked, doubt>>
      /\ calls' = [calls EXCEPT ![w] = [NoCall EXCEPT !.pc = "prune", !.at = at]]
  BY Zenon DEF CleanerReap, World, historyVars
<1>2. calls' = [calls EXCEPT ![w] = n]
  BY <1>1, FreshTick, Zenon
<1>3. w \in Actors /\ at \in Nat /\ S \in SUBSET Codes
  BY Facts DEF Actors, CallFits
<1>4. Tables(e) /\ Events(e) /\ CountsMatch(e) /\ Released(db, e, S)
  BY Facts, DeleteLinksTables, DeletionCounts, DeleteLinksEffect
<1>5. LinksStep(db, e, drawn, drawn')
  BY <1>1, <1>3, <1>4 DEF LinksStep
<1>6. Owned(e) /\ Accounted(e, acked', doubt')
  BY <1>1, <1>3, <1>4, <1>5, Facts, StaysOwned, StaysAccounted
<1>7. CallFits(n) /\ n.locks = {}
  BY <1>3, NoCallFields DEF CallFits, Fields, Record
<1>8. \A b \in Codes : HasLink(db, b) /\ ~HasLink(e, b) => RowFree(w, b)
  BY <1>3, <1>4 DEF Released, SameLink, PgInv, LocksHeld
<1>9. /\ acked' \in [Codes -> Nat] /\ doubt' \in [Codes -> Nat] /\ {clock', drawn'} \subseteq Nat
      /\ \A b \in n.locks : HasLink(e, b) /\ RowFree(w, b)
  BY <1>1, <1>7, Facts
<1>a. PgInv'
  BY <1>1, <1>2, <1>3, <1>4, <1>6, <1>7, <1>8, <1>9, ActorStep
<1> QED
  BY <1>1, <1>5, <1>a

LEMMA CleanerPruneStep ==
    ASSUME PgInv, NEW w \in Cleaners, CleanerPrune(w)
    PROVE  PgInv' /\ LinksStep(db, db', drawn, drawn')
<1> PICK n : n = NoCall
  OBVIOUS
<1>1. /\ calls' = [calls EXCEPT ![w] = n] /\ UNCHANGED <<clock, drawn, acked, doubt>>
      /\ w \in Actors
  BY DEF CleanerPrune, Finish, World, historyVars, Actors
<1>2. CallFits(n) /\ n.locks = {}
  BY NoCallFields DEF NoCall
<1>3. CASE Retention > 0 /\ calls[w].at > Retention
  <2> PICK cutoff : cutoff = calls[w].at - Retention
    OBVIOUS
  <2> PICK e : e = PruneClicks(db, cutoff)
    OBVIOUS
  <2>1. db' = e /\ cutoff \in Nat
    BY <1>1, <1>3, Facts, PostgresAssumption DEF CleanerPrune, CallFits
  <2>2. Tables(e) /\ e.urls = db.urls
    BY Facts, PruneClicksTables
  <2>3. Events(e) /\ CountsMatch(e) /\ Silent(db, e)
    BY <2>1, <2>2, Facts, PruneCounts, SameLinksEffect
  <2>4. LinksStep(db, e, drawn, drawn')
    BY <1>1, <2>3 DEF LinksStep
  <2>5. Owned(e) /\ Accounted(e, acked', doubt')
    BY <1>1, <2>3, <2>4, Facts, StaysOwned, StaysAccounted
  <2>6. /\ acked' \in [Codes -> Nat] /\ doubt' \in [Codes -> Nat] /\ {clock', drawn'} \subseteq Nat
        /\ \A b \in n.locks : HasLink(e, b) /\ RowFree(w, b)
        /\ \A b \in Codes : HasLink(db, b) /\ ~HasLink(e, b) => RowFree(w, b)
    BY <1>1, <1>2, <2>3, Facts DEF Silent, SameLink
  <2>7. PgInv'
    BY <1>1, <1>2, <2>1, <2>2, <2>3, <2>5, <2>6, ActorStep
  <2> QED
    BY <2>1, <2>4, <2>7
<1>4. CASE ~(Retention > 0 /\ calls[w].at > Retention)
  <2>1. db' = db
    BY <1>4 DEF CleanerPrune
  <2>2. PgInv'
    BY <1>1, <1>2, <2>1, CallStep
  <2> QED
    BY <1>1, <2>1, <2>2 DEF LinksStep, Silent, SameLink
<1> QED
  BY <1>3, <1>4

----------------------------------------------------------------------------
(* The steps of a call that change nothing but the call. *)

\* One call moves to n, which holds rows that are there and nobody else's.
CallMoves(a, n) ==
    /\ CallFits(n) /\ calls' = [calls EXCEPT ![a] = n]
    /\ \A c \in n.locks : HasLink(db, c) /\ RowFree(a, c)
    /\ UNCHANGED <<db, clock, drawn, acked, doubt>>

LEMMA CallOnly ==
    ASSUME PgInv, NEW a \in Actors, NEW n, CallMoves(a, n)
    PROVE  PgInv' /\ LinksStep(db, db', drawn, drawn')
<1>1. PgInv'
  BY CallStep DEF CallMoves
<1>2. Silent(db, db') /\ drawn' = drawn
  BY DEF CallMoves, Silent, SameLink
<1> QED
  BY <1>1, <1>2 DEF LinksStep

LEMMA FinishMoves ==
    ASSUME NEW a, Finish(a), UNCHANGED <<db, clock, drawn, acked, doubt>>
    PROVE  CallMoves(a, NoCall)
<1> PICK n : n = NoCall
  OBVIOUS
<1>1. CallFits(n) /\ n.locks = {} /\ calls' = [calls EXCEPT ![a] = n]
  BY NoCallFields DEF NoCall, Finish
<1> QED
  BY <1>1 DEF CallMoves

LEMMA LetGoStep ==
    ASSUME PgInv, NEW p \in Sessions, LetGo(p)
    PROVE  PgInv' /\ LinksStep(db, db', drawn, drawn')
<1>1. p \in Actors /\ CallMoves(p, NoCall)
  BY FinishMoves DEF LetGo, World, historyVars, Actors
<1> QED
  BY <1>1, CallOnly

LEMMA LookupAPIKeyStep ==
    ASSUME PgInv, NEW p \in Sessions, LookupAPIKey(p)
    PROVE  PgInv' /\ LinksStep(db, db', drawn, drawn')
<1> PICK k \in db.keys : calls' = [calls EXCEPT ![p] = [NoCall EXCEPT !.pc = "holding", !.key = k]]
  BY Zenon DEF LookupAPIKey
<1> PICK n : n = Record("holding", NoRow, 0, k, {}, {})
  OBVIOUS
<1>1. calls' = [calls EXCEPT ![p] = n]
  BY FreshKey, Zenon
<1>2. k \in Key
  BY Facts DEF Tables
<1>3. CallFits(n) /\ n.locks = {}
  BY <1>2 DEF CallFits, Fields, Record
<1>4. p \in Actors /\ UNCHANGED <<db, clock, drawn, acked, doubt>>
  BY DEF LookupAPIKey, World, historyVars, Actors
<1>5. CallMoves(p, n)
  BY <1>1, <1>3, <1>4 DEF CallMoves
<1> QED
  BY <1>4, <1>5, CallOnly

LEMMA ClickBeginStep ==
    ASSUME PgInv, NEW p \in Sessions, NEW c \in Codes, ClickBegin(p, c)
    PROVE  PgInv' /\ LinksStep(db, db', drawn, drawn')
<1> PICK n : n = Record("click.Count", c, clock, NoKey, {}, {})
  OBVIOUS
<1>1. calls' = [calls EXCEPT ![p] =
                  [NoCall EXCEPT !.pc = "click.Count", !.code = c, !.at = clock]]
  BY Zenon DEF ClickBegin
<1>2. calls' = [calls EXCEPT ![p] = n]
  BY <1>1, FreshClick, Zenon
<1>3. CallFits(n) /\ n.locks = {}
  BY Facts, NoCallFields DEF CallFits, Fields, Record
<1>4. p \in Actors /\ UNCHANGED <<db, clock, drawn, acked, doubt>>
  BY DEF ClickBegin, World, historyVars, Actors
<1>5. CallMoves(p, n)
  BY <1>2, <1>3, <1>4 DEF CallMoves
<1> QED
  BY <1>4, <1>5, CallOnly

LEMMA ClickCountStep ==
    ASSUME PgInv, NEW p \in Sessions, ClickCount(p)
    PROVE  PgInv' /\ LinksStep(db, db', drawn, drawn')
<1> PICK c : c = calls[p].code
  OBVIOUS
<1>1. p \in Actors /\ UNCHANGED <<db, clock, drawn, acked, doubt>>
      /\ calls[p].pc = "click.Count" /\ RowFree(p, c)
  BY DEF ClickCount, World, historyVars, Actors, At
<1>2. CASE ~HasLink(db, c)
  <2>1. CallMoves(p, NoCall)
    BY <1>1, <1>2, FinishMoves DEF ClickCount
  <2> QED
    BY <1>1, <2>1, CallOnly
<1>3. CASE HasLink(db, c)
  <2> PICK m : m = calls[p]
    OBVIOUS
  <2> PICK n : n = Record("click.Commit", c, m.at, m.key, m.todo, {c})
    OBVIOUS
  <2>1. calls' = WithRows(p, "click.Commit", {c})
    BY <1>3, Zenon DEF ClickCount, WithRows
  <2>2. calls' = [calls EXCEPT ![p] = n]
    BY <1>1, <2>1, LocksRow
  <2>3. CallFits(m)
    BY <1>1, Facts
  <2>4. CallFits(n) /\ n.locks = {c}
    BY <1>1, <2>3 DEF CallFits, Fields, Record
  <2>5. CallMoves(p, n)
    BY <1>1, <1>3, <2>2, <2>4 DEF CallMoves
  <2> QED
    BY <1>1, <2>5, CallOnly
<1> QED
  BY <1>2, <1>3

LEMMA RevokeBeginStep ==
    ASSUME PgInv, NEW p \in Sessions, RevokeBegin(p)
    PROVE  PgInv' /\ LinksStep(db, db', drawn, drawn')
<1> PICK k \in db.keys :
      calls' = [calls EXCEPT ![p] =
         [NoCall EXCEPT !.pc = "revoke.Unbind", !.key = k, !.todo = BoundLinks(db, k.ID)]]
  BY Zenon DEF RevokeBegin
<1> PICK n : n = Record("revoke.Unbind", NoRow, 0, k, BoundLinks(db, k.ID), {})
  OBVIOUS
<1>1. calls' = [calls EXCEPT ![p] = n]
  BY FreshKey, Zenon
<1>2. k \in Key
  BY Facts DEF Tables
<1>3. CallFits(n) /\ n.locks = {}
  BY <1>2 DEF CallFits, Fields, Record
<1>4. p \in Actors /\ UNCHANGED <<db, clock, drawn, acked, doubt>>
  BY DEF RevokeBegin, World, historyVars, Actors
<1>5. CallMoves(p, n)
  BY <1>1, <1>3, <1>4 DEF CallMoves
<1> QED
  BY <1>4, <1>5, CallOnly

\* The transaction goes on to another statement with the rows it holds.
LEMMA GotoMoves ==
    ASSUME PgInv, NEW a \in Actors, NEW pc, Goto(a, pc),
           pc \notin {"idle", "holding", "click.Count", "click.Commit"},
           UNCHANGED <<db, clock, drawn, acked, doubt>>
    PROVE  PgInv' /\ LinksStep(db, db', drawn, drawn')
<1> PICK m : m = calls[a]
  OBVIOUS
<1> PICK n : n = Record(pc, m.code, m.at, m.key, m.todo, m.locks)
  OBVIOUS
<1>1. calls' = AtStatement(a, pc)
  BY Zenon DEF Goto, AtStatement
<1>2. calls' = [calls EXCEPT ![a] = n]
  BY <1>1, GoesOn
<1>3. CallFits(m) /\ \A c \in m.locks : HasLink(db, c) /\ RowFree(a, c)
  BY Facts DEF PgInv, LocksHeld
<1>4. CallFits(n) /\ n.locks = m.locks
  BY <1>3 DEF CallFits, Fields, Record
<1>5. CallMoves(a, n)
  BY <1>2, <1>3, <1>4 DEF CallMoves
<1> QED
  BY <1>5, CallOnly

LEMMA RevokeGoesOnStep ==
    ASSUME PgInv, NEW p \in Sessions, RevokeUnbound(p) \/ RevokeDrop(p)
    PROVE  PgInv' /\ LinksStep(db, db', drawn, drawn')
<1>1. p \in Actors /\ UNCHANGED <<db, clock, drawn, acked, doubt>>
  BY DEF RevokeUnbound, RevokeDrop, World, historyVars, Actors
<1>2. Goto(p, "revoke.Drop") \/ Goto(p, "revoke.Commit") \/ Finish(p)
  BY DEF RevokeUnbound, RevokeDrop
<1>3. CASE Finish(p)
  BY <1>1, <1>3, FinishMoves, CallOnly
<1> QED
  BY <1>1, <1>2, <1>3, GotoMoves

LEMMA CleanerTickStep ==
    ASSUME PgInv, NEW w \in Cleaners, CleanerTick(w)
    PROVE  PgInv' /\ LinksStep(db, db', drawn, drawn')
<1> PICK S : S = ExpiredLinks(db, clock)
  OBVIOUS
<1> PICK n : n = Record("reap", NoRow, clock, NoKey, S, {})
  OBVIOUS
<1>1. calls' = [calls EXCEPT ![w] = [NoCall EXCEPT !.pc = "reap", !.at = clock, !.todo = S]]
  BY Zenon DEF CleanerTick
<1>2. calls' = [calls EXCEPT ![w] = n]
  BY <1>1, FreshTick, Zenon
<1>3. CallFits(n) /\ n.locks = {}
  BY Facts, NoCallFields DEF CallFits, Fields, Record
<1>4. w \in Actors /\ UNCHANGED <<db, clock, drawn, acked, doubt>>
  BY DEF CleanerTick, World, historyVars, Actors
<1>5. CallMoves(w, n)
  BY <1>2, <1>3, <1>4 DEF CallMoves
<1> QED
  BY <1>4, <1>5, CallOnly

\* A row is locked only while it is there and nobody else holds it.
LEMMA ScanRowStep ==
    ASSUME PgInv, NEW a \in Actors, NEW c \in Codes, ScanRow(a, c)
    PROVE  PgInv' /\ LinksStep(db, db', drawn, drawn')
<1> PICK m : m = calls[a]
  OBVIOUS
<1> PICK T : T = m.todo \ {c}
  OBVIOUS
<1> PICK S : S = IF c \in Matching(a) THEN m.locks \cup {c} ELSE m.locks
  OBVIOUS
<1> PICK n : n = Record(m.pc, m.code, m.at, m.key, T, S)
  OBVIOUS
<1>1. /\ m.pc \in {"revoke.Unbind", "reap"} /\ RowFree(a, c)
      /\ UNCHANGED <<db, clock, drawn, acked, doubt>>
  BY DEF ScanRow, World, historyVars
<1>2. calls' = YetToReach(a, T, S)
  <2> PICK f : f = [calls EXCEPT ![a].todo = T]
    OBVIOUS
  <2> PICK t : t = [m EXCEPT !.todo = T]
    OBVIOUS
  <2>1. f[a] = t
    BY DEF PgInv, PgTyped
  <2>2. Fields(m)
    BY Facts DEF CallFits
  <2>3. t = Record(m.pc, m.code, m.at, m.key, T, m.locks)
    BY <2>2, OneField
  <2>4. f[a].locks = m.locks
    BY <2>1, <2>3 DEF Record
  <2>5. S = IF c \in Matching(a) THEN f[a].locks \cup {c} ELSE f[a].locks
    BY <2>4
  <2>6. calls' = [f EXCEPT ![a].locks = S]
    BY <2>5, Zenon DEF ScanRow
  <2> QED
    BY <2>6 DEF YetToReach
<1>3. calls' = [calls EXCEPT ![a] = n]
  BY <1>2, ReachesRow
<1>4. CallFits(m) /\ \A b \in m.locks : HasLink(db, b) /\ RowFree(a, b)
  BY Facts DEF PgInv, LocksHeld
<1>5. c \in Matching(a) => HasLink(db, c)
  BY DEF Matching, ExpiredLinks, BoundLinks
<1>6. CallFits(n) /\ n.locks = S
  BY <1>1, <1>4 DEF CallFits, Fields, Record
<1>7. \A b \in n.locks : HasLink(db, b) /\ RowFree(a, b)
  BY <1>1, <1>4, <1>5, <1>6
<1>8. CallMoves(a, n)
  BY <1>1, <1>3, <1>6, <1>7 DEF CallMoves
<1> QED
  BY <1>8, CallOnly

----------------------------------------------------------------------------
(* A transaction that fails. *)

LEMMA AbandonMoves ==
    ASSUME PgInv, NEW a \in Actors, Abandon(a)
    PROVE  \E n : CallFits(n) /\ n.locks = {} /\ calls' = [calls EXCEPT ![a] = n]
<1>1. CASE a \in Cleaners
  <2> PICK at : at = calls[a].at
    OBVIOUS
  <2> PICK n : n = Record("prune", NoRow, at, NoKey, {}, {})
    OBVIOUS
  <2>1. calls' = [calls EXCEPT ![a] = [NoCall EXCEPT !.pc = "prune", !.at = at]]
    BY <1>1, Zenon DEF Abandon
  <2>2. calls' = [calls EXCEPT ![a] = n]
    BY <2>1, FreshTick, Zenon
  <2>3. at \in Nat
    BY Facts DEF CallFits
  <2>4. CallFits(n) /\ n.locks = {}
    BY <2>3, NoCallFields DEF CallFits, Fields, Record
  <2> QED
    BY <2>2, <2>4
<1>2. CASE a \notin Cleaners
  <2> PICK n : n = NoCall
    OBVIOUS
  <2>1. CallFits(n) /\ n.locks = {} /\ calls' = [calls EXCEPT ![a] = n]
    BY <1>2, NoCallFields DEF NoCall, Abandon, Finish
  <2> QED
    BY <2>1
<1> QED
  BY <1>1, <1>2

LEMMA VictimStep ==
    ASSUME PgInv, NEW a \in Actors, NEW b \in Actors, DeadlockVictim(a, b)
    PROVE  PgInv' /\ LinksStep(db, db', drawn, drawn')
<1>1. UNCHANGED <<db, clock, drawn, acked, doubt>> /\ Abandon(a)
  BY DEF DeadlockVictim, World, historyVars
<1> PICK n : CallFits(n) /\ n.locks = {} /\ calls' = [calls EXCEPT ![a] = n]
  BY <1>1, AbandonMoves
<1>2. CallMoves(a, n)
  BY <1>1 DEF CallMoves
<1> QED
  BY <1>2, CallOnly

LEMMA LoseStep ==
    ASSUME PgInv, NEW a \in Actors, Lose(a)
    PROVE  PgInv' /\ LinksStep(db, db', drawn, drawn')
<1>1. UNCHANGED <<clock, drawn, acked>> /\ Abandon(a)
  BY DEF Lose
<1> PICK n : CallFits(n) /\ n.locks = {} /\ calls' = [calls EXCEPT ![a] = n]
  BY <1>1, AbandonMoves
<1>2. CASE UNCHANGED <<db, doubt>>
  <2>1. CallMoves(a, n)
    BY <1>1, <1>2 DEF CallMoves
  <2> QED
    BY <2>1, CallOnly
<1>3. CASE ~UNCHANGED <<db, doubt>>
  <2> PICK c : c = calls[a].code
    OBVIOUS
  <2> PICK e : e = Clicked(a)
    OBVIOUS
  <2>1. /\ calls[a].pc = "click.Commit" /\ db' = e
        /\ doubt' = [doubt EXCEPT ![c] = doubt[c] + 1]
    BY <1>3 DEF Lose, At
  <2>2. Tables(e) /\ Events(e) /\ CountsMatch(e) /\ c \in Codes /\ Counted(db, e, c)
    BY <2>1, ClickedEffect
  <2>3. LinksStep(db, e, drawn, drawn')
    BY <1>1, <2>2 DEF LinksStep
  <2>4. Owned(e)
    BY <2>3, Facts, StaysOwned
  <2>5. /\ acked' \in [Codes -> Nat] /\ doubt' \in [Codes -> Nat] /\ {clock', drawn'} \subseteq Nat
    BY <1>1, <2>1, <2>2, Facts
  <2>6. Accounted(e, acked', doubt')
    <3> SUFFICES ASSUME NEW b \in Codes, HasLink(e, b)
                 PROVE  e.urls[b].ClickCount = acked'[b] + doubt'[b]
      BY DEF Accounted
    <3>1. HasLink(db, b) /\ db.urls[b].ClickCount = acked[b] + doubt[b]
          /\ acked[b] \in Nat /\ doubt[b] \in Nat
      BY <2>2, Facts DEF Counted, SameLink, Accounted
    <3>2. CASE b = c
      BY <1>1, <2>1, <2>2, <3>1, <3>2, Facts DEF Counted
    <3>3. CASE b # c
      BY <1>1, <2>1, <2>2, <3>1, <3>3, Facts DEF Counted, SameLink
    <3> QED
      BY <3>2, <3>3
  <2>7. /\ \A b \in n.locks : HasLink(e, b) /\ RowFree(a, b)
        /\ \A b \in Codes : HasLink(db, b) /\ ~HasLink(e, b) => RowFree(a, b)
    BY <2>2 DEF Counted, SameLink
  <2>8. PgInv'
    BY <2>1, <2>2, <2>4, <2>5, <2>6, <2>7, ActorStep
  <2> QED
    BY <2>1, <2>3, <2>8
<1> QED
  BY <1>2, <1>3

----------------------------------------------------------------------------
(* Every step. *)

LEMMA StandsStep ==
    ASSUME PgInv, UNCHANGED <<db, calls, drawn, historyVars>>, clock' \in Nat
    PROVE  PgInv' /\ LinksStep(db, db', drawn, drawn')
<1>1. LinksStep(db, db', drawn, drawn')
  BY DEF LinksStep, Silent, SameLink
<1>2. PgTyped'
  BY DEF PgInv, PgTyped, historyVars
<1>3. LocksHeld' /\ Owned(db') /\ CountMatchesClicks' /\ ClicksAccounted'
  BY DEF PgInv, LocksHeld, RowFree, CountMatchesClicks, ClicksAccounted, historyVars
<1> QED
  BY <1>1, <1>2, <1>3 DEF PgInv

LEMMA PgInvInit == PostgresInit => PgInv
<1> SUFFICES ASSUME PostgresInit PROVE PgInv
  OBVIOUS
<1> PICK d : d = EmptyDatabase
  OBVIOUS
<1> PICK e : e = [d EXCEPT !.columns = ColumnCount]
  OBVIOUS
<1>1. /\ db = e /\ calls = [a \in Actors |-> NoCall] /\ clock = 1 /\ drawn = 0
      /\ acked = [c \in Codes |-> 0] /\ doubt = [c \in Codes |-> 0]
  BY Zenon DEF PostgresInit
<1>2. /\ Tables(e) /\ e.urls = d.urls /\ e.clicks = d.clicks /\ e.pruned = d.pruned
  BY EmptyTables, AddColumnTables
<1>3. Events(e)
  <2>1. <<>> \in Seq(Nat)
    BY EmptySeq
  <2> QED
    BY <1>2, <2>1 DEF Events, EmptyDatabase
<1>4. \A c \in Codes : ~HasLink(e, c) /\ e.clicks[c] = <<>>
  BY <1>2 DEF EmptyDatabase, HasLink
<1>5. \A a \in Actors : CallFits(calls[a]) /\ calls[a].locks = {}
  <2> PICK n : n = NoCall
    OBVIOUS
  <2>1. CallFits(n) /\ n.locks = {}
    BY NoCallFields DEF NoCall
  <2> QED
    BY <1>1, <2>1
<1>6. PgTyped
  BY <1>1, <1>2, <1>3, <1>5 DEF PgTyped
<1>7. LocksHeld
  BY <1>5 DEF LocksHeld
<1>8. Owned(db) /\ CountMatchesClicks /\ ClicksAccounted
  BY <1>1, <1>4 DEF Owned, CountMatchesClicks, CountsMatch, ClicksAccounted
<1> QED
  BY <1>6, <1>7, <1>8 DEF PgInv

\* What the sessions do, and to which codes, is settled at the start.
LEMMA WorkloadStays == PostgresSpec => [](workload \in Workloads)
<1>1. PostgresInit => workload \in Workloads
  BY DEF PostgresInit
<1>2. PostgresNext => UNCHANGED workload
  <2>1. ASSUME NEW p \in Sessions, Calls(p) PROVE UNCHANGED workload
    BY <2>1
       DEF Calls, Set, LetGo, Delete, RotateToken, Update, CreateAPIKey, LookupAPIKey, RecordClick,
           ClickBegin, ClickCount, ClickCommit, DeleteAPIKey, RevokeBegin, RevokeUnbound,
           RevokeDrop, RevokeCommit, World
  <2>2. ASSUME NEW w \in Cleaners, Cleaner(w) PROVE UNCHANGED workload
    BY <2>2 DEF Cleaner, CleanerTick, CleanerReap, CleanerPrune, World
  <2>3. ASSUME NEW a \in Actors, Scan(a) \/ Victim(a) \/ Lose(a) PROVE UNCHANGED workload
    BY <2>3 DEF Scan, ScanRow, Victim, DeadlockVictim, Lose, World
  <2> QED
    BY <2>1, <2>2, <2>3 DEF PostgresNext, Tick
<1>3. workload \in Workloads /\ [PostgresNext]_postgresVars => (workload \in Workloads)'
  BY <1>2 DEF postgresVars
<1> QED
  BY <1>1, <1>3, PTL DEF PostgresSpec

LEMMA StepKeeps ==
    ASSUME PgInv, workload \in Workloads, [PostgresNext]_postgresVars
    PROVE  PgInv' /\ LinksStep(db, db', drawn, drawn')
<1>1. CASE UNCHANGED postgresVars
  BY <1>1, StandsStep, Facts DEF postgresVars
<1>2. ASSUME NEW p \in Sessions, Calls(p) PROVE PgInv' /\ LinksStep(db, db', drawn, drawn')
  <2>1. CASE \E c \in Codes : Set(p, c) \/ Delete(p, c) \/ RotateToken(p, c) \/ Update(p, c)
    BY <2>1, SetStep, DeleteStep, RotateTokenStep, UpdateStep
  <2>2. CASE RecordClick(p)
    BY <2>2, ClickBeginStep, ClickCountStep, ClickCommitStep DEF RecordClick
  <2>3. CASE CreateAPIKey(p) \/ LookupAPIKey(p) \/ LetGo(p)
    BY <2>3, CreateAPIKeyStep, LookupAPIKeyStep, LetGoStep
  <2>4. CASE DeleteAPIKey(p)
    BY <2>4, RevokeBeginStep, RevokeGoesOnStep, RevokeCommitStep DEF DeleteAPIKey
  <2>5. workload.codes \subseteq Codes
    BY PostgresAssumption
  <2> QED
    BY <1>2, <2>1, <2>2, <2>3, <2>4, <2>5 DEF Calls
<1>3. ASSUME NEW w \in Cleaners, Cleaner(w) PROVE PgInv' /\ LinksStep(db, db', drawn, drawn')
  BY <1>3, CleanerTickStep, CleanerReapStep, CleanerPruneStep DEF Cleaner
<1>4. ASSUME NEW a \in Actors, Scan(a) \/ Victim(a) \/ Lose(a)
      PROVE  PgInv' /\ LinksStep(db, db', drawn, drawn')
  BY <1>4, ScanRowStep, VictimStep, LoseStep DEF Scan, Victim
<1>5. CASE Tick
  <2>1. clock' \in Nat /\ UNCHANGED <<db, calls, drawn, historyVars>>
    BY <1>5, Facts DEF Tick
  <2> QED
    BY <2>1, StandsStep
<1> QED
  BY <1>1, <1>2, <1>3, <1>4, <1>5 DEF PostgresNext

\* Rows locked are there and one transaction's, calls and tables hold what
\* they should: on any number of replicas, whatever is lost or fails.
THEOREM PgInvariant == PostgresSpec => []PgInv
BY PgInvInit, StepKeeps, WorkloadStays, PTL DEF PostgresSpec

\* Counter and event log stay in sync with any number of replicas clicking,
\* deleting, reaping and pruning the same link (storage_postgres.go:313).
THEOREM ReplicasCountRight == PostgresSpec => []CountMatchesClicks
<1>1. PgInv => CountMatchesClicks
  BY DEF PgInv
<1> QED
  BY <1>1, PgInvariant, PTL

\* No answered click is lost and none counts twice: what a link counts is
\* what was answered and what was committed on a connection that was lost.
THEOREM EveryClickAccounted == PostgresSpec => []ClicksAccounted
<1>1. PgInv => ClicksAccounted
  BY DEF PgInv
<1> QED
  BY <1>1, PgInvariant, PTL

----------------------------------------------------------------------------
(* The refinement. *)

AbstractStep == [Lifecycle!LifecycleNext]_(Lifecycle!lifecycleVars)

LEMMA LinksAbstract ==
    ASSUME ShownStep(Shown(db), Shown(db'), drawn, drawn')
    PROVE  AbstractStep
<1>1. CASE \E c \in Codes : /\ Shown(db)[c].owner = 0 /\ drawn' = drawn + 1
                           /\ Shown(db') = [Shown(db) EXCEPT ![c] =
                                               [owner |-> drawn + 1, clicks |-> 0]]
  BY <1>1 DEF AbstractStep, Lifecycle!LifecycleNext, Lifecycle!Claim, Lifecycle!Live, Shown
<1>2. CASE \E c \in Codes : /\ Shown(db)[c].owner # 0 /\ drawn' = drawn + 1
                           /\ Shown(db') = [Shown(db) EXCEPT ![c].owner = drawn + 1]
  BY <1>2 DEF AbstractStep, Lifecycle!LifecycleNext, Lifecycle!Rekey, Lifecycle!Live, Shown
<1>3. CASE \E c \in Codes : /\ Shown(db)[c].owner # 0 /\ drawn' = drawn
                           /\ Shown(db') = [Shown(db) EXCEPT ![c].clicks = Shown(db)[c].clicks + 1]
  BY <1>3 DEF AbstractStep, Lifecycle!LifecycleNext, Lifecycle!Click, Lifecycle!Live, Shown
<1>4. CASE \E S \in SUBSET Codes :
             /\ drawn' = drawn
             /\ Shown(db') = [c \in Codes |-> IF c \in S THEN [owner |-> 0, clicks |-> 0]
                                             ELSE Shown(db)[c]]
  BY <1>4 DEF AbstractStep, Lifecycle!LifecycleNext, Lifecycle!Release, Lifecycle!Free, Shown
<1>5. CASE Shown(db') = Shown(db) /\ drawn' = drawn
  BY <1>5 DEF AbstractStep, Lifecycle!lifecycleVars, Shown
<1>6. CASE Shown(db') = Shown(db) /\ drawn' = drawn + 1
  BY <1>6 DEF AbstractStep, Lifecycle!LifecycleNext, Lifecycle!Draw, Shown
<1> QED
  BY <1>1, <1>2, <1>3, <1>4, <1>5, <1>6 DEF ShownStep

LEMMA AbstractInit == PostgresInit => Lifecycle!LifecycleInit
<1> SUFFICES ASSUME PostgresInit PROVE Lifecycle!LifecycleInit
  OBVIOUS
<1> PICK d : d = EmptyDatabase
  OBVIOUS
<1>1. db = [d EXCEPT !.columns = ColumnCount] /\ drawn = 0
  BY DEF PostgresInit
<1>2. db.urls = d.urls
  BY <1>1, EmptyTables, AddColumnTables
<1>3. \A c \in Codes : ~HasLink(db, c)
  BY <1>2 DEF HasLink, EmptyDatabase
<1> QED
  BY <1>1, <1>3 DEF Lifecycle!LifecycleInit, Lifecycle!Free

\* The third backend keeps the promise of the abstract link, whatever
\* replicas do to it side by side and whatever connections are lost.
THEOREM PostgresImplements == PostgresSpec => PostgresImplementsLifecycle
<1>1. PgInv => Owned(db)
  BY DEF PgInv
<1>2. ASSUME PgInv, workload \in Workloads, [PostgresNext]_postgresVars PROVE AbstractStep
  <2> PICK e, m : e = db' /\ m = drawn'
    OBVIOUS
  <2>1. LinksStep(db, e, drawn, m)
    BY <1>2, StepKeeps
  <2>2. ShownStep(Shown(db), Shown(e), drawn, m)
    BY <1>1, <1>2, <2>1, LinksShown
  <2> QED
    BY <2>2, LinksAbstract
<1> QED
  BY <1>2, AbstractInit, PgInvariant, WorkloadStays, PTL
     DEF PostgresSpec, PostgresImplementsLifecycle, Lifecycle!LifecycleSpec, AbstractStep
============================================================================
