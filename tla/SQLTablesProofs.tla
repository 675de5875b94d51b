---------------------------- MODULE SQLTablesProofs ----------------------------
(***************************************************************************)
(* What one statement of the SQL backends does to the tables, for any      *)
(* database: lemmas that the proofs about SQLiteStore and PostgresStore    *)
(* share.                                                                  *)
(***************************************************************************)
EXTENDS SQLTables, FiniteSetTheorems, SequenceTheorems, TLAPS

\* A database has its tables; the links and the keys hold what they should.
HasTables(d) ==
    d = [columns |-> d.columns, urls |-> d.urls, clicks |-> d.clicks,
         pruned |-> d.pruned, keys |-> d.keys, keySeq |-> d.keySeq]

Tables(d) ==
    /\ HasTables(d)
    /\ d.urls \in [Codes -> Link \cup {NoRow}]
    /\ d.keys \subseteq Key
    /\ d.keySeq \in Nat

(* What the statements do to the links and the keys. *)

LEMMA Rows ==
    ASSUME NEW d, Tables(d), NEW c \in Codes, HasLink(d, c)
    PROVE  d.urls[c] \in Link
BY DEF Tables, HasLink

\* One field at a time.
LEMMA FieldsReplaced ==
    ASSUME NEW d, HasTables(d), NEW x
    PROVE  /\ [d EXCEPT !.urls = x] =
                [columns |-> d.columns, urls |-> x, clicks |-> d.clicks,
                 pruned |-> d.pruned, keys |-> d.keys, keySeq |-> d.keySeq]
           /\ [d EXCEPT !.clicks = x] =
                [columns |-> d.columns, urls |-> d.urls, clicks |-> x,
                 pruned |-> d.pruned, keys |-> d.keys, keySeq |-> d.keySeq]
           /\ [d EXCEPT !.pruned = x] =
                [columns |-> d.columns, urls |-> d.urls, clicks |-> d.clicks,
                 pruned |-> x, keys |-> d.keys, keySeq |-> d.keySeq]
           /\ [d EXCEPT !.keys = x] =
                [columns |-> d.columns, urls |-> d.urls, clicks |-> d.clicks,
                 pruned |-> d.pruned, keys |-> x, keySeq |-> d.keySeq]
           /\ [d EXCEPT !.keySeq = x] =
                [columns |-> d.columns, urls |-> d.urls, clicks |-> d.clicks,
                 pruned |-> d.pruned, keys |-> d.keys, keySeq |-> x]
BY DEF HasTables

LEMMA InsertLinkTables ==
    ASSUME NEW d, Tables(d), NEW c \in Codes, NEW l \in Link
    PROVE  /\ Tables(InsertLink(d, c, l))
           /\ InsertLink(d, c, l).urls = [d.urls EXCEPT ![c] = l]
           /\ InsertLink(d, c, l).keys = d.keys
           /\ InsertLink(d, c, l).keySeq = d.keySeq
<1> PICK u : u = [d.urls EXCEPT ![c] = l]
  OBVIOUS
<1> PICK e : e = [d EXCEPT !.urls = u]
  OBVIOUS
<1> PICK n : n = [d.pruned EXCEPT ![c] = 0]
  OBVIOUS
<1> PICK r : r = [e EXCEPT !.pruned = n]
  OBVIOUS
<1>1. HasTables(e) /\ e.urls = u /\ e.keys = d.keys /\ e.keySeq = d.keySeq
      /\ e.clicks = d.clicks /\ e.pruned = d.pruned
  BY FieldsReplaced DEF Tables, HasTables
<1>2. r = InsertLink(d, c, l)
  BY <1>1 DEF InsertLink
<1>3. HasTables(r) /\ r.urls = u /\ r.keys = d.keys /\ r.keySeq = d.keySeq
      /\ r.clicks = d.clicks /\ r.pruned = n
  BY <1>1, FieldsReplaced DEF HasTables
<1> QED
  BY <1>2, <1>3 DEF Tables

LEMMA InsertLinkEvents ==
    ASSUME NEW d, Tables(d), NEW c \in Codes, NEW l \in Link
    PROVE  /\ InsertLink(d, c, l).clicks = d.clicks
           /\ InsertLink(d, c, l).pruned = [d.pruned EXCEPT ![c] = 0]
<1> PICK u : u = [d.urls EXCEPT ![c] = l]
  OBVIOUS
<1> PICK e : e = [d EXCEPT !.urls = u]
  OBVIOUS
<1> PICK n : n = [d.pruned EXCEPT ![c] = 0]
  OBVIOUS
<1> PICK r : r = [e EXCEPT !.pruned = n]
  OBVIOUS
<1>1. HasTables(e) /\ e.urls = u /\ e.keys = d.keys /\ e.keySeq = d.keySeq
      /\ e.clicks = d.clicks /\ e.pruned = d.pruned
  BY FieldsReplaced DEF Tables, HasTables
<1>2. r = InsertLink(d, c, l)
  BY <1>1 DEF InsertLink
<1>3. HasTables(r) /\ r.urls = u /\ r.keys = d.keys /\ r.keySeq = d.keySeq
      /\ r.clicks = d.clicks /\ r.pruned = n
  BY <1>1, FieldsReplaced DEF HasTables
<1> QED
  BY <1>2, <1>3 DEF Tables

LEMMA DeleteLinksTables ==
    ASSUME NEW d, Tables(d), NEW S
    PROVE  /\ Tables(DeleteLinks(d, S))
           /\ \A c \in Codes :
                DeleteLinks(d, S).urls[c] = IF c \in S THEN NoRow ELSE d.urls[c]
           /\ DeleteLinks(d, S).keys = d.keys
           /\ DeleteLinks(d, S).keySeq = d.keySeq
<1> PICK u : u = [c \in Codes |-> IF c \in S THEN NoRow ELSE d.urls[c]]
  OBVIOUS
<1> PICK m : m = [c \in Codes |-> IF c \in S THEN <<>> ELSE d.clicks[c]]
  OBVIOUS
<1> PICK n : n = [c \in Codes |-> IF c \in S THEN 0 ELSE d.pruned[c]]
  OBVIOUS
<1> PICK e : e = [d EXCEPT !.urls = u]
  OBVIOUS
<1> PICK f : f = [e EXCEPT !.clicks = m]
  OBVIOUS
<1> PICK r : r = [f EXCEPT !.pruned = n]
  OBVIOUS
<1>1. HasTables(e) /\ e.urls = u /\ e.keys = d.keys /\ e.keySeq = d.keySeq
      /\ e.clicks = d.clicks /\ e.pruned = d.pruned
  BY FieldsReplaced DEF Tables, HasTables
<1>2. HasTables(f) /\ f.urls = u /\ f.keys = d.keys /\ f.keySeq = d.keySeq
      /\ f.clicks = m /\ f.pruned = d.pruned
  BY <1>1, FieldsReplaced DEF HasTables
<1>3. HasTables(r) /\ r.urls = u /\ r.keys = d.keys /\ r.keySeq = d.keySeq
      /\ r.clicks = m /\ r.pruned = n
  BY <1>2, FieldsReplaced DEF HasTables
<1>4. r = DeleteLinks(d, S)
  BY <1>1, <1>2 DEF DeleteLinks
<1>5. u \in [Codes -> Link \cup {NoRow}] /\ d.keys \subseteq Key /\ d.keySeq \in Nat
  BY DEF Tables
<1>6. Tables(r)
  BY <1>3, <1>5 DEF Tables
<1> QED
  BY <1>3, <1>4, <1>6

LEMMA DeleteLinksEvents ==
    ASSUME NEW d, Tables(d), NEW S
    PROVE  /\ \A c \in Codes :
                /\ DeleteLinks(d, S).clicks[c] = IF c \in S THEN <<>> ELSE d.clicks[c]
                /\ DeleteLinks(d, S).pruned[c] = IF c \in S THEN 0 ELSE d.pruned[c]
           /\ \A T : (\A c \in Codes : DeleteLinks(d, S).clicks[c] \in T) =>
                        DeleteLinks(d, S).clicks \in [Codes -> T]
           /\ \A T : (\A c \in Codes : DeleteLinks(d, S).pruned[c] \in T) =>
                        DeleteLinks(d, S).pruned \in [Codes -> T]
<1> PICK u : u = [c \in Codes |-> IF c \in S THEN NoRow ELSE d.urls[c]]
  OBVIOUS
<1> PICK m : m = [c \in Codes |-> IF c \in S THEN <<>> ELSE d.clicks[c]]
  OBVIOUS
<1> PICK n : n = [c \in Codes |-> IF c \in S THEN 0 ELSE d.pruned[c]]
  OBVIOUS
<1> PICK e : e = [d EXCEPT !.urls = u]
  OBVIOUS
<1> PICK f : f = [e EXCEPT !.clicks = m]
  OBVIOUS
<1> PICK r : r = [f EXCEPT !.pruned = n]
  OBVIOUS
<1>1. HasTables(e) /\ e.urls = u /\ e.keys = d.keys /\ e.keySeq = d.keySeq
      /\ e.clicks = d.clicks /\ e.pruned = d.pruned
  BY FieldsReplaced DEF Tables, HasTables
<1>2. HasTables(f) /\ f.urls = u /\ f.keys = d.keys /\ f.keySeq = d.keySeq
      /\ f.clicks = m /\ f.pruned = d.pruned
  BY <1>1, FieldsReplaced DEF HasTables
<1>3. HasTables(r) /\ r.urls = u /\ r.keys = d.keys /\ r.keySeq = d.keySeq
      /\ r.clicks = m /\ r.pruned = n
  BY <1>2, FieldsReplaced DEF HasTables
<1>4. r = DeleteLinks(d, S)
  BY <1>1, <1>2 DEF DeleteLinks
<1>5. \A T : /\ (\A c \in Codes : m[c] \in T) => m \in [Codes -> T]
             /\ (\A c \in Codes : n[c] \in T) => n \in [Codes -> T]
  OBVIOUS
<1>6. \A c \in Codes : /\ r.clicks[c] = IF c \in S THEN <<>> ELSE d.clicks[c]
                       /\ r.pruned[c] = IF c \in S THEN 0 ELSE d.pruned[c]
  BY <1>3
<1>7. \A T : /\ (\A c \in Codes : r.clicks[c] \in T) => r.clicks \in [Codes -> T]
             /\ (\A c \in Codes : r.pruned[c] \in T) => r.pruned \in [Codes -> T]
  BY <1>3, <1>5, Zenon
<1> QED
  BY <1>4, <1>6, <1>7, Zenon

LEMMA SetOwnerTables ==
    ASSUME NEW d, Tables(d), NEW c \in Codes, HasLink(d, c), NEW owner \in Nat
    PROVE  /\ Tables(SetOwner(d, c, owner))
           /\ SetOwner(d, c, owner).urls = [d.urls EXCEPT ![c].OwnerTokenHash = owner]
           /\ SetOwner(d, c, owner).keys = d.keys
           /\ SetOwner(d, c, owner).keySeq = d.keySeq
           /\ SetOwner(d, c, owner).clicks = d.clicks
           /\ SetOwner(d, c, owner).pruned = d.pruned
<1> PICK x : x = [d.urls EXCEPT ![c].OwnerTokenHash = owner]
  OBVIOUS
<1> PICK r : r = [d EXCEPT !.urls = x]
  OBVIOUS
<1>1. HasTables(r) /\ r.urls = x /\ r.keys = d.keys /\ r.keySeq = d.keySeq
      /\ r.clicks = d.clicks /\ r.pruned = d.pruned
  BY FieldsReplaced DEF Tables, HasTables
<1>2. r = SetOwner(d, c, owner)
  BY DEF SetOwner
<1>3. x \in [Codes -> Link \cup {NoRow}]
  BY Rows DEF Tables, HasLink, Link
<1> QED
  BY <1>1, <1>2, <1>3 DEF Tables

LEMMA SetExpiryTables ==
    ASSUME NEW d, Tables(d), NEW c \in Codes, HasLink(d, c), NEW t \in Nat
    PROVE  /\ Tables(SetExpiry(d, c, t))
           /\ SetExpiry(d, c, t).urls = [d.urls EXCEPT ![c].ExpiresAt = t]
           /\ SetExpiry(d, c, t).keys = d.keys
           /\ SetExpiry(d, c, t).keySeq = d.keySeq
           /\ SetExpiry(d, c, t).clicks = d.clicks
           /\ SetExpiry(d, c, t).pruned = d.pruned
<1> PICK x : x = [d.urls EXCEPT ![c].ExpiresAt = t]
  OBVIOUS
<1> PICK r : r = [d EXCEPT !.urls = x]
  OBVIOUS
<1>1. HasTables(r) /\ r.urls = x /\ r.keys = d.keys /\ r.keySeq = d.keySeq
      /\ r.clicks = d.clicks /\ r.pruned = d.pruned
  BY FieldsReplaced DEF Tables, HasTables
<1>2. r = SetExpiry(d, c, t)
  BY DEF SetExpiry
<1>3. x \in [Codes -> Link \cup {NoRow}]
  BY Rows DEF Tables, HasLink, Link
<1> QED
  BY <1>1, <1>2, <1>3 DEF Tables

LEMMA CountClickTables ==
    ASSUME NEW d, Tables(d), NEW c \in Codes, HasLink(d, c)
    PROVE  /\ Tables(CountClick(d, c))
           /\ CountClick(d, c).urls = [d.urls EXCEPT ![c].ClickCount = d.urls[c].ClickCount + 1]
           /\ CountClick(d, c).keys = d.keys
           /\ CountClick(d, c).keySeq = d.keySeq
           /\ CountClick(d, c).clicks = d.clicks
           /\ CountClick(d, c).pruned = d.pruned
<1> PICK x : x = [d.urls EXCEPT ![c].ClickCount = d.urls[c].ClickCount + 1]
  OBVIOUS
<1> PICK r : r = [d EXCEPT !.urls = x]
  OBVIOUS
<1>1. HasTables(r) /\ r.urls = x /\ r.keys = d.keys /\ r.keySeq = d.keySeq
      /\ r.clicks = d.clicks /\ r.pruned = d.pruned
  BY FieldsReplaced DEF Tables, HasTables
<1>2. r = CountClick(d, c)
  BY DEF CountClick
<1>3. x \in [Codes -> Link \cup {NoRow}]
  BY Rows DEF Tables, HasLink, Link
<1> QED
  BY <1>1, <1>2, <1>3 DEF Tables

\* The row b without its binding.
Unbound(a, b) ==
    /\ a # NoRow /\ a.APIKeyID = 0
    /\ a.Born = b.Born /\ a.ClickCount = b.ClickCount /\ a.BoundTo = b.BoundTo
    /\ a.OwnerTokenHash = b.OwnerTokenHash

LEMMA UnbindLinksTables ==
    ASSUME NEW d, Tables(d), NEW S, \A c \in Codes : c \in S => HasLink(d, c)
    PROVE  /\ Tables(UnbindLinks(d, S))
           /\ \A c \in Codes : IF c \in S THEN Unbound(UnbindLinks(d, S).urls[c], d.urls[c])
                                          ELSE UnbindLinks(d, S).urls[c] = d.urls[c]
           /\ UnbindLinks(d, S).keys = d.keys
           /\ UnbindLinks(d, S).keySeq = d.keySeq
           /\ UnbindLinks(d, S).clicks = d.clicks
           /\ UnbindLinks(d, S).pruned = d.pruned
<1> PICK x : x = [c \in Codes |-> IF c \in S THEN [d.urls[c] EXCEPT !.APIKeyID = 0] ELSE d.urls[c]]
  OBVIOUS
<1> PICK r : r = [d EXCEPT !.urls = x]
  OBVIOUS
<1>1. HasTables(r) /\ r.urls = x /\ r.keys = d.keys /\ r.keySeq = d.keySeq
      /\ r.clicks = d.clicks /\ r.pruned = d.pruned
  BY FieldsReplaced DEF Tables, HasTables
<1>2. r = UnbindLinks(d, S)
  BY DEF UnbindLinks
<1>3. x \in [Codes -> Link \cup {NoRow}]
  BY Rows DEF Tables, HasLink, Link
<1>4. ASSUME NEW c \in Codes
      PROVE  IF c \in S THEN Unbound(x[c], d.urls[c]) ELSE x[c] = d.urls[c]
  <2>1. CASE c \in S
    <3>1. d.urls[c] \in Link
      BY <2>1, Rows
    <3>2. x[c] = [d.urls[c] EXCEPT !.APIKeyID = 0] /\ x[c] \in Link
      BY <2>1, <3>1 DEF Link
    <3> QED
      BY <2>1, <3>1, <3>2, TablesAssumption DEF Unbound, Link
  <2>2. CASE c \notin S
    BY <2>2
  <2> QED
    BY <2>1, <2>2
<1>5. Tables(r)
  BY <1>1, <1>3 DEF Tables
<1> QED
  BY <1>1, <1>2, <1>4, <1>5

LEMMA RevokedRows ==
    ASSUME NEW d, Tables(d), NEW id, NEW c \in Codes
    PROVE  IF c \in BoundLinks(d, id)
           THEN Unbound(UnbindLinks(d, BoundLinks(d, id)).urls[c], d.urls[c])
           ELSE UnbindLinks(d, BoundLinks(d, id)).urls[c] = d.urls[c]
<1>1. \A b \in Codes : b \in BoundLinks(d, id) => HasLink(d, b)
  BY DEF BoundLinks
<1>2. \A S : (\A b \in Codes : b \in S => HasLink(d, b)) =>
        IF c \in S THEN Unbound(UnbindLinks(d, S).urls[c], d.urls[c])
                   ELSE UnbindLinks(d, S).urls[c] = d.urls[c]
  BY UnbindLinksTables
<1> QED
  BY <1>1, <1>2, Zenon

LEMMA InsertClickTables ==
    ASSUME NEW d, Tables(d), NEW c, NEW at
    PROVE  /\ Tables(InsertClick(d, c, at))
           /\ InsertClick(d, c, at).urls = d.urls
           /\ InsertClick(d, c, at).keys = d.keys
           /\ InsertClick(d, c, at).keySeq = d.keySeq
<1> PICK x : x = [d.clicks EXCEPT ![c] = Append(d.clicks[c], at)]
  OBVIOUS
<1> PICK r : r = [d EXCEPT !.clicks = x]
  OBVIOUS
<1>1. HasTables(r) /\ r.urls = d.urls /\ r.keys = d.keys /\ r.keySeq = d.keySeq
      /\ r.clicks = x /\ r.pruned = d.pruned
  BY FieldsReplaced DEF Tables, HasTables
<1>2. r = InsertClick(d, c, at)
  BY DEF InsertClick
<1>3. d.urls \in [Codes -> Link \cup {NoRow}]
  BY DEF Tables
<1> QED
  BY <1>1, <1>2, <1>3 DEF Tables

LEMMA DropKeyTables ==
    ASSUME NEW d, Tables(d), NEW id
    PROVE  /\ Tables(DropKey(d, id))
           /\ DropKey(d, id).urls = d.urls
           /\ DropKey(d, id).keys = {k \in d.keys : k.ID # id}
           /\ DropKey(d, id).keySeq = d.keySeq
           /\ DropKey(d, id).clicks = d.clicks
           /\ DropKey(d, id).pruned = d.pruned
<1> PICK x : x = {k \in d.keys : k.ID # id}
  OBVIOUS
<1> PICK r : r = [d EXCEPT !.keys = x]
  OBVIOUS
<1>1. HasTables(r) /\ r.urls = d.urls /\ r.keys = x /\ r.keySeq = d.keySeq
      /\ r.clicks = d.clicks /\ r.pruned = d.pruned
  BY FieldsReplaced DEF Tables, HasTables
<1>2. r = DropKey(d, id)
  BY DEF DropKey
<1>3. x \subseteq Key
  BY DEF Tables
<1> QED
  BY <1>1, <1>2, <1>3 DEF Tables

LEMMA PruneClicksTables ==
    ASSUME NEW d, Tables(d), NEW cutoff
    PROVE  LET r == PruneClicks(d, cutoff)
           IN  /\ Tables(r) /\ r.urls = d.urls /\ r.keys = d.keys /\ r.keySeq = d.keySeq
               /\ \A c \in Codes :
                    /\ r.clicks[c] = Kept(d.clicks[c], cutoff)
                    /\ r.pruned[c] = d.pruned[c] + Len(d.clicks[c]) - Len(r.clicks[c])
               /\ \A S : (\A c \in Codes : r.clicks[c] \in S) => r.clicks \in [Codes -> S]
               /\ \A S : (\A c \in Codes : r.pruned[c] \in S) => r.pruned \in [Codes -> S]
<1> PICK m : m = [c \in Codes |-> Kept(d.clicks[c], cutoff)]
  OBVIOUS
<1> PICK n : n = [c \in Codes |-> d.pruned[c] + Len(d.clicks[c]) - Len(Kept(d.clicks[c], cutoff))]
  OBVIOUS
<1> PICK e : e = [d EXCEPT !.clicks = m]
  OBVIOUS
<1> PICK r : r = [e EXCEPT !.pruned = n]
  OBVIOUS
<1>1. HasTables(e) /\ e.urls = d.urls /\ e.keys = d.keys /\ e.keySeq = d.keySeq
      /\ e.clicks = m /\ e.pruned = d.pruned
  BY FieldsReplaced DEF Tables, HasTables
<1>2. HasTables(r) /\ r.urls = d.urls /\ r.keys = d.keys /\ r.keySeq = d.keySeq
      /\ r.clicks = m /\ r.pruned = n
  BY <1>1, FieldsReplaced DEF HasTables
<1>3. r = PruneClicks(d, cutoff)
  BY <1>1 DEF PruneClicks
<1>4. \A S : /\ (\A c \in Codes : m[c] \in S) => m \in [Codes -> S]
             /\ (\A c \in Codes : n[c] \in S) => n \in [Codes -> S]
  OBVIOUS
<1>5. \A c \in Codes :
        /\ m[c] = Kept(d.clicks[c], cutoff)
        /\ n[c] = d.pruned[c] + Len(d.clicks[c]) - Len(m[c])
  OBVIOUS
<1>6. Tables(r)
  BY <1>2 DEF Tables
<1>7. /\ r.urls = d.urls /\ r.keys = d.keys /\ r.keySeq = d.keySeq
      /\ \A c \in Codes :
           /\ r.clicks[c] = Kept(d.clicks[c], cutoff)
           /\ r.pruned[c] = d.pruned[c] + Len(d.clicks[c]) - Len(r.clicks[c])
  BY <1>2, <1>5
<1>8. \A S : (\A c \in Codes : r.clicks[c] \in S) => r.clicks \in [Codes -> S]
  BY <1>2, <1>4, Zenon
<1>9. \A S : (\A c \in Codes : r.pruned[c] \in S) => r.pruned \in [Codes -> S]
  BY <1>2, <1>4, Zenon
<1> QED
  BY <1>3, <1>6, <1>7, <1>8, <1>9, Zenon

LEMMA InsertKeyTables ==
    ASSUME NEW d, Tables(d), NEW hash \in Nat
    PROVE  /\ Tables(InsertKey(d, hash))
           /\ InsertKey(d, hash).urls = d.urls
           /\ InsertKey(d, hash).keys = d.keys \cup {[ID |-> d.keySeq + 1, TokenHash |-> hash]}
           /\ InsertKey(d, hash).keySeq = d.keySeq + 1
           /\ InsertKey(d, hash).clicks = d.clicks
           /\ InsertKey(d, hash).pruned = d.pruned
<1> PICK x : x = d.keys \cup {[ID |-> d.keySeq + 1, TokenHash |-> hash]}
  OBVIOUS
<1> PICK y : y = d.keySeq + 1
  OBVIOUS
<1> PICK e : e = [d EXCEPT !.keys = x]
  OBVIOUS
<1> PICK r : r = [e EXCEPT !.keySeq = y]
  OBVIOUS
<1>1. HasTables(e) /\ e.urls = d.urls /\ e.keys = x /\ e.keySeq = d.keySeq
      /\ e.clicks = d.clicks /\ e.pruned = d.pruned
  BY FieldsReplaced DEF Tables, HasTables
<1>2. HasTables(r) /\ r.urls = d.urls /\ r.keys = x /\ r.keySeq = y
      /\ r.clicks = d.clicks /\ r.pruned = d.pruned
  BY <1>1, FieldsReplaced DEF HasTables
<1>3. r = InsertKey(d, hash)
  BY <1>1 DEF InsertKey
<1>4. x \subseteq Key /\ y \in Nat
  BY DEF Tables, Key
<1> QED
  BY <1>2, <1>3, <1>4 DEF Tables

LEMMA AddColumnTables ==
    ASSUME NEW d, Tables(d), NEW n
    PROVE  LET r == [d EXCEPT !.columns = n]
           IN  /\ Tables(r) /\ r.urls = d.urls /\ r.keys = d.keys /\ r.keySeq = d.keySeq
               /\ r.clicks = d.clicks /\ r.pruned = d.pruned
BY DEF Tables, HasTables

LEMMA EmptyTables == Tables(EmptyDatabase)
BY DEF Tables, HasTables, EmptyDatabase

----------------------------------------------------------------------------
(* The events that retention leaves. *)

Events(d) ==
    /\ d.clicks \in [Codes -> Seq(Nat)]
    /\ d.pruned \in [Codes -> Nat]

Rank(I, i) == Cardinality({j \in I : j <= i})

\* The members of a finite set of numbers can be counted off in order.
LEMMA Ranks ==
    ASSUME NEW I \in SUBSET Nat, IsFiniteSet(I)
    PROVE  /\ Cardinality(I) \in Nat
           /\ \A i \in I : Rank(I, i) \in 1..Cardinality(I)
           /\ \A k \in 1..Cardinality(I) : \E i \in I : Rank(I, i) = k
           /\ \A i, j \in I : Rank(I, i) = Rank(I, j) => i = j
<1> DEFINE Upto(i) == {j \in I : j <= i}
           n == Cardinality(I)
<1>1. n \in Nat
  BY FS_CardinalityType
<1>2. ASSUME NEW i \in I
      PROVE  IsFiniteSet(Upto(i)) /\ Rank(I, i) \in 1..n
  <2>1. Upto(i) \in SUBSET I /\ i \in Upto(i)
    OBVIOUS
  <2>2. IsFiniteSet(Upto(i)) /\ Cardinality(Upto(i)) <= n /\ Cardinality(Upto(i)) \in Nat
    BY <2>1, FS_Subset, FS_CardinalityType
  <2>3. Cardinality(Upto(i)) # 0
    BY <2>1, <2>2, FS_EmptySet
  <2> QED
    BY <1>1, <2>2, <2>3 DEF Rank
<1>3. ASSUME NEW i \in I, NEW j \in I, Rank(I, i) = Rank(I, j)
      PROVE  i = j
  <2>1. ASSUME NEW a \in I, NEW b \in I, a < b, Rank(I, a) = Rank(I, b)
        PROVE  FALSE
    <3>1. Upto(a) \in SUBSET Upto(b)
      <4>1. a \in Nat /\ b \in Nat /\ \A x \in I : x \in Nat
        OBVIOUS
      <4>2. \A x \in I : x <= a => x <= b
        BY <2>1, <4>1
      <4> QED
        BY <4>2
    <3>2. Upto(a) = Upto(b)
      BY <1>2, <2>1, <3>1, FS_Subset DEF Rank
    <3>3. b \in Upto(b) /\ b \notin Upto(a)
      BY <2>1
    <3> QED
      BY <3>2, <3>3
  <2>2. i < j \/ j < i \/ i = j
    OBVIOUS
  <2> QED
    BY <1>3, <2>1, <2>2
<1>4. ASSUME NEW k \in 1..n
      PROVE  \E i \in I : Rank(I, i) = k
  <2> DEFINE f == [i \in I |-> Rank(I, i)]
             R == {f[i] : i \in I}
  <2>1. R \in SUBSET (1..n)
    BY <1>2
  <2>2. f \in Bijection(I, R)
    BY <1>3 DEF Bijection, Injection, Surjection, IsInjective
  <2>3. IsFiniteSet(R) /\ Cardinality(R) = n
    BY <2>2, FS_Bijection, Zenon DEF ExistsBijection
  <2>4. IsFiniteSet(1..n) /\ Cardinality(1..n) = n
    BY <1>1, FS_Interval
  <2>5. R = 1..n
    <3> HIDE DEF R, n
    <3> QED
      BY <2>1, <2>3, <2>4, FS_Subset
  <2>6. k \in R
    BY <2>5
  <2> QED
    BY <2>6
<1> QED
  BY <1>1, <1>2, <1>3, <1>4

\* Pruning keeps every event that is not old, and no more than there were.
LEMMA KeptEvents ==
    ASSUME NEW s \in Seq(Nat), NEW cutoff \in Nat
    PROVE  /\ Kept(s, cutoff) \in Seq(Nat)
           /\ Len(Kept(s, cutoff)) <= Len(s)
           /\ \A i \in 1..Len(s) : s[i] >= cutoff =>
                \E k \in 1..Len(Kept(s, cutoff)) : Kept(s, cutoff)[k] = s[i]
<1> DEFINE I == {i \in 1..Len(s) : s[i] >= cutoff}
           n == Cardinality(I)
           At(k) == CHOOSE i \in I : Rank(I, i) = k
           r == [k \in 1..n |-> s[At(k)]]
<1>1. Kept(s, cutoff) = r
  BY DEF Kept, Rank
<1>2. Len(s) \in Nat /\ \A i \in 1..Len(s) : s[i] \in Nat
  OBVIOUS
<1>3. I \in SUBSET (1..Len(s)) /\ I \in SUBSET Nat
  BY <1>2
<1>4. IsFiniteSet(I) /\ n <= Len(s)
  <2>1. IsFiniteSet(1..Len(s)) /\ Cardinality(1..Len(s)) = Len(s)
    BY <1>2, FS_Interval
  <2> QED
    BY <1>3, <2>1, FS_Subset
<1>5. /\ n \in Nat
      /\ \A i \in I : Rank(I, i) \in 1..n
      /\ \A k \in 1..n : \E i \in I : Rank(I, i) = k
      /\ \A i, j \in I : Rank(I, i) = Rank(I, j) => i = j
  BY <1>3, <1>4, Ranks
<1>6. \A k \in 1..n : At(k) \in I /\ Rank(I, At(k)) = k
  BY <1>5
<1>7. r \in Seq(Nat) /\ Len(r) = n
  <2>1. r \in [1..n -> Nat]
    BY <1>2, <1>3, <1>6
  <2> HIDE DEF r, n
  <2> QED
    BY <1>5, <2>1
<1>8. ASSUME NEW i \in 1..Len(s), s[i] >= cutoff
      PROVE  \E k \in 1..n : r[k] = s[i]
  <2>1. i \in I
    BY <1>8
  <2>2. Rank(I, i) \in 1..n /\ At(Rank(I, i)) \in I /\ Rank(I, At(Rank(I, i))) = Rank(I, i)
    BY <1>5, <1>6, <2>1
  <2>3. At(Rank(I, i)) = i
    <3> HIDE DEF I, At
    <3> QED
      BY <1>5, <2>1, <2>2
  <2> QED
    BY <2>2, <2>3
<1> HIDE DEF r, n
<1> QED
  BY <1>1, <1>4, <1>7, <1>8

----------------------------------------------------------------------------
(* The counts and the event log. *)

\* A statement that leaves counts and events alone.
LEMMA CountsUntouched ==
    ASSUME NEW d, NEW e, Events(d), CountsMatch(d),
           e.clicks = d.clicks, e.pruned = d.pruned,
           \A c \in Codes : /\ HasLink(e, c) <=> HasLink(d, c)
                            /\ HasLink(d, c) => e.urls[c].ClickCount = d.urls[c].ClickCount
    PROVE  Events(e) /\ CountsMatch(e)
BY DEF Events, CountsMatch

LEMMA ClaimCounts ==
    ASSUME NEW d, Tables(d), Events(d), CountsMatch(d),
           NEW c \in Codes, ~HasLink(d, c), NEW l \in Link, l.ClickCount = 0
    PROVE  Events(InsertLink(d, c, l)) /\ CountsMatch(InsertLink(d, c, l))
<1> PICK e : e = InsertLink(d, c, l)
  OBVIOUS
<1>1. /\ e.urls = [d.urls EXCEPT ![c] = l]
      /\ e.clicks = d.clicks /\ e.pruned = [d.pruned EXCEPT ![c] = 0]
  BY InsertLinkTables, InsertLinkEvents
<1>2. Events(e)
  BY <1>1 DEF Events
<1>3. ASSUME NEW b \in Codes
      PROVE  IF HasLink(e, b) THEN e.urls[b].ClickCount = Len(e.clicks[b]) + e.pruned[b]
                              ELSE e.clicks[b] = <<>>
  <2>1. CASE b = c
    <3>1. e.urls[b] = l /\ e.pruned[b] = 0 /\ e.clicks[b] = <<>>
      BY <1>1, <2>1 DEF Tables, Events, CountsMatch
    <3>2. Len(<<>>) + 0 = 0 /\ HasLink(e, b)
      BY <3>1, TablesAssumption DEF HasLink
    <3> QED
      BY <3>1, <3>2
  <2>2. CASE b # c
    BY <1>1, <2>2 DEF Tables, Events, CountsMatch, HasLink
  <2> QED
    BY <2>1, <2>2
<1> QED
  BY <1>2, <1>3 DEF CountsMatch

LEMMA DeletionCounts ==
    ASSUME NEW d, Tables(d), Events(d), CountsMatch(d), NEW S
    PROVE  Events(DeleteLinks(d, S)) /\ CountsMatch(DeleteLinks(d, S))
<1> PICK e : e = DeleteLinks(d, S)
  OBVIOUS
<1>1. \A c \in Codes : e.urls[c] = IF c \in S THEN NoRow ELSE d.urls[c]
  BY DeleteLinksTables
<1>2. \A c \in Codes : /\ e.clicks[c] = IF c \in S THEN <<>> ELSE d.clicks[c]
                       /\ e.pruned[c] = IF c \in S THEN 0 ELSE d.pruned[c]
  BY DeleteLinksEvents
<1>3. /\ \A T : (\A c \in Codes : e.clicks[c] \in T) => e.clicks \in [Codes -> T]
      /\ \A T : (\A c \in Codes : e.pruned[c] \in T) => e.pruned \in [Codes -> T]
  BY DeleteLinksEvents, Zenon
<1>4. Events(e)
  <2>1. <<>> \in Seq(Nat) /\ 0 \in Nat
    BY EmptySeq
  <2>2. \A c \in Codes : d.clicks[c] \in Seq(Nat) /\ d.pruned[c] \in Nat
    BY DEF Events
  <2>3. \A c \in Codes : e.clicks[c] \in Seq(Nat)
    BY <1>2, <2>1, <2>2, Zenon
  <2>4. \A c \in Codes : e.pruned[c] \in Nat
    BY <1>2, <2>1, <2>2, Zenon
  <2> QED
    BY <1>3, <2>3, <2>4, Zenon DEF Events
<1>5. CountsMatch(e)
  BY <1>1, <1>2 DEF CountsMatch, HasLink
<1> QED
  BY <1>4, <1>5

\* The two statements of a click, committed together.
LEMMA ClickCounts ==
    ASSUME NEW d, Tables(d), Events(d), CountsMatch(d),
           NEW c \in Codes, HasLink(d, c), NEW at \in Nat,
           NEW e, e.urls = CountClick(d, c).urls,
           e.clicks = [d.clicks EXCEPT ![c] = Append(d.clicks[c], at)], e.pruned = d.pruned
    PROVE  Events(e) /\ CountsMatch(e)
<1>1. e.urls = [d.urls EXCEPT ![c].ClickCount = d.urls[c].ClickCount + 1]
  BY CountClickTables
<1>2. d.clicks[c] \in Seq(Nat) /\ d.pruned[c] \in Nat
  BY DEF Events
<1>3. /\ Append(d.clicks[c], at) \in Seq(Nat)
      /\ Len(Append(d.clicks[c], at)) = Len(d.clicks[c]) + 1
      /\ Len(d.clicks[c]) \in Nat
  BY <1>2
<1>4. Events(e) /\ e.clicks[c] = Append(d.clicks[c], at)
  BY <1>3 DEF Events
<1>5. e.urls[c] # NoRow /\ e.urls[c].ClickCount = d.urls[c].ClickCount + 1
  <2>1. d.urls[c] \in Link
    BY Rows
  <2>2. e.urls[c] = [d.urls[c] EXCEPT !.ClickCount = d.urls[c].ClickCount + 1]
    BY <1>1 DEF Tables
  <2>3. e.urls[c] \in Link
    BY <2>1, <2>2 DEF Link
  <2> QED
    BY <2>1, <2>2, <2>3, TablesAssumption DEF Link
<1>6. d.urls[c].ClickCount = Len(d.clicks[c]) + d.pruned[c]
  BY DEF CountsMatch
<1>7. e.urls[c].ClickCount = Len(e.clicks[c]) + e.pruned[c]
  BY <1>2, <1>3, <1>4, <1>5, <1>6
<1>8. \A b \in Codes : b # c => e.urls[b] = d.urls[b] /\ e.clicks[b] = d.clicks[b]
  BY <1>1 DEF Tables, Events
<1> QED
  BY <1>4, <1>5, <1>7, <1>8 DEF CountsMatch, HasLink

LEMMA PruneCounts ==
    ASSUME NEW d, Tables(d), Events(d), CountsMatch(d), NEW cutoff \in Nat
    PROVE  Events(PruneClicks(d, cutoff)) /\ CountsMatch(PruneClicks(d, cutoff))
<1> PICK e : e = PruneClicks(d, cutoff)
  OBVIOUS
<1>1. /\ e.urls = d.urls
      /\ \A c \in Codes :
           /\ e.clicks[c] = Kept(d.clicks[c], cutoff)
           /\ e.pruned[c] = d.pruned[c] + Len(d.clicks[c]) - Len(e.clicks[c])
      /\ \A S : (\A c \in Codes : e.clicks[c] \in S) => e.clicks \in [Codes -> S]
      /\ \A S : (\A c \in Codes : e.pruned[c] \in S) => e.pruned \in [Codes -> S]
  BY PruneClicksTables
<1>2. ASSUME NEW c \in Codes
      PROVE  /\ e.clicks[c] \in Seq(Nat)
             /\ e.pruned[c] \in Nat
             /\ Len(e.clicks[c]) + e.pruned[c] = Len(d.clicks[c]) + d.pruned[c]
             /\ d.clicks[c] = <<>> => e.clicks[c] = <<>>
  <2>1. d.clicks[c] \in Seq(Nat) /\ d.pruned[c] \in Nat
    BY DEF Events
  <2>2. e.clicks[c] \in Seq(Nat) /\ Len(e.clicks[c]) <= Len(d.clicks[c])
    BY <1>1, <2>1, KeptEvents
  <2>3. Len(d.clicks[c]) \in Nat /\ Len(e.clicks[c]) \in Nat
    BY <2>1, <2>2
  <2>4. e.pruned[c] \in Nat /\ Len(e.clicks[c]) + e.pruned[c] = Len(d.clicks[c]) + d.pruned[c]
    <3>1. \A gone, was, now \in Nat : now <= was =>
            gone + was - now \in Nat /\ now + (gone + was - now) = was + gone
      OBVIOUS
    <3>2. e.pruned[c] = d.pruned[c] + Len(d.clicks[c]) - Len(e.clicks[c])
      BY <1>1
    <3>3. /\ d.pruned[c] + Len(d.clicks[c]) - Len(e.clicks[c]) \in Nat
          /\ Len(e.clicks[c]) + (d.pruned[c] + Len(d.clicks[c]) - Len(e.clicks[c]))
               = Len(d.clicks[c]) + d.pruned[c]
      BY <2>1, <2>2, <2>3, <3>1, Zenon
    <3> QED
      BY <3>2, <3>3, Zenon
  <2>5. d.clicks[c] = <<>> => e.clicks[c] = <<>>
    <3>1. /\ Len(<<>>) = 0
          /\ \A s \in Seq(Nat) : s # <<>> => Len(s) \in Nat \ {0}
      BY EmptySeq
    <3> QED
      BY <2>2, <2>3, <3>1
  <2> QED
    BY <2>2, <2>4, <2>5
<1>3. Events(e)
  BY <1>1, <1>2 DEF Events
<1>4. CountsMatch(e)
  BY <1>1, <1>2 DEF CountsMatch, HasLink
<1> QED
  BY <1>3, <1>4

----------------------------------------------------------------------------
(* What a statement does to the links, to everyone who asks for them. *)

SameLink(d, e, c) ==
    /\ HasLink(e, c) <=> HasLink(d, c)
    /\ HasLink(d, c) =>
         /\ e.urls[c].OwnerTokenHash = d.urls[c].OwnerTokenHash
         /\ e.urls[c].ClickCount = d.urls[c].ClickCount

\* The five things that can happen to the links.
Claimed(d, e, c, owner) ==
    /\ ~HasLink(d, c) /\ HasLink(e, c)
    /\ e.urls[c].OwnerTokenHash = owner /\ e.urls[c].ClickCount = 0
    /\ \A b \in Codes : b # c => SameLink(d, e, b)

Rekeyed(d, e, c, owner) ==
    /\ HasLink(d, c) /\ HasLink(e, c)
    /\ e.urls[c].OwnerTokenHash = owner /\ e.urls[c].ClickCount = d.urls[c].ClickCount
    /\ \A b \in Codes : b # c => SameLink(d, e, b)

Counted(d, e, c) ==
    /\ HasLink(d, c) /\ HasLink(e, c)
    /\ e.urls[c].OwnerTokenHash = d.urls[c].OwnerTokenHash
    /\ e.urls[c].ClickCount = d.urls[c].ClickCount + 1
    /\ \A b \in Codes : b # c => SameLink(d, e, b)

Released(d, e, S) ==
    \A b \in Codes : IF b \in S THEN ~HasLink(e, b) ELSE SameLink(d, e, b)

Silent(d, e) == \A b \in Codes : SameLink(d, e, b)

\* One of them, with n values drawn before it and m after it.
LinksStep(d, e, n, m) ==
    \/ \E c \in Codes : (Claimed(d, e, c, n + 1) \/ Rekeyed(d, e, c, n + 1)) /\ m = n + 1
    \/ \E c \in Codes : Counted(d, e, c) /\ m = n
    \/ \E S \in SUBSET Codes : Released(d, e, S) /\ m = n
    \/ Silent(d, e) /\ m \in {n, n + 1}

LEMMA InsertLinkEffect ==
    ASSUME NEW d, Tables(d), NEW c \in Codes, ~HasLink(d, c), NEW l \in Link, l.ClickCount = 0
    PROVE  Claimed(d, InsertLink(d, c, l), c, l.OwnerTokenHash)
<1> PICK e : e = InsertLink(d, c, l)
  OBVIOUS
<1>1. InsertLink(d, c, l).urls = [d.urls EXCEPT ![c] = l]
  BY InsertLinkTables
<1>2. e.urls[c] = l /\ l # NoRow /\ \A b \in Codes : b # c => e.urls[b] = d.urls[b]
  BY <1>1, TablesAssumption DEF Tables
<1> QED
  BY <1>2 DEF Claimed, SameLink, HasLink

LEMMA SetOwnerEffect ==
    ASSUME NEW d, Tables(d), NEW c \in Codes, HasLink(d, c), NEW owner \in Nat
    PROVE  Rekeyed(d, SetOwner(d, c, owner), c, owner)
<1> PICK e : e = SetOwner(d, c, owner)
  OBVIOUS
<1>1. e.urls = [d.urls EXCEPT ![c].OwnerTokenHash = owner]
  BY SetOwnerTables
<1> QED
  BY <1>1, Rows, TablesAssumption DEF Rekeyed, SameLink, HasLink, Tables, Link

LEMMA SetExpiryEffect ==
    ASSUME NEW d, Tables(d), NEW c \in Codes, HasLink(d, c), NEW t \in Nat
    PROVE  Silent(d, SetExpiry(d, c, t))
<1> PICK e : e = SetExpiry(d, c, t)
  OBVIOUS
<1>1. e.urls = [d.urls EXCEPT ![c].ExpiresAt = t]
  BY SetExpiryTables
<1> QED
  BY <1>1, Rows, TablesAssumption DEF Silent, SameLink, HasLink, Tables, Link

LEMMA CountClickEffect ==
    ASSUME NEW d, Tables(d), NEW c \in Codes, HasLink(d, c),
           NEW e, e.urls = CountClick(d, c).urls
    PROVE  Counted(d, e, c)
<1>1. e.urls = [d.urls EXCEPT ![c].ClickCount = d.urls[c].ClickCount + 1]
  BY CountClickTables
<1> QED
  BY <1>1, Rows, TablesAssumption DEF Counted, SameLink, HasLink, Tables, Link

LEMMA DeleteLinksEffect ==
    ASSUME NEW d, Tables(d), NEW S
    PROVE  Released(d, DeleteLinks(d, S), S)
<1> PICK e : e = DeleteLinks(d, S)
  OBVIOUS
<1>1. \A c \in Codes : DeleteLinks(d, S).urls[c] = IF c \in S THEN NoRow ELSE d.urls[c]
  BY DeleteLinksTables
<1> QED
  BY <1>1 DEF Released, SameLink, HasLink

LEMMA UnbindLinksEffect ==
    ASSUME NEW d, Tables(d), NEW S, \A c \in Codes : c \in S => HasLink(d, c),
           NEW e, e.urls = UnbindLinks(d, S).urls
    PROVE  Silent(d, e)
<1>1. \A c \in Codes : IF c \in S THEN Unbound(e.urls[c], d.urls[c]) ELSE e.urls[c] = d.urls[c]
  BY UnbindLinksTables
<1> QED
  BY <1>1 DEF Silent, SameLink, HasLink, Unbound

LEMMA SameLinksEffect ==
    ASSUME NEW d, NEW e, e.urls = d.urls
    PROVE  Silent(d, e)
BY DEF Silent, SameLink, HasLink

----------------------------------------------------------------------------
(* The links as LinkLifecycle has them. *)

\* A link has an owner, so that it is never taken for a free code.
Owned(d) == \A c \in Codes : HasLink(d, c) => d.urls[c].OwnerTokenHash # 0

Shown(d) == [c \in Codes |->
               IF HasLink(d, c)
               THEN [owner |-> d.urls[c].OwnerTokenHash, clicks |-> d.urls[c].ClickCount]
               ELSE [owner |-> 0, clicks |-> 0]]

\* What LinkLifecycle lets happen to a map of codes to owners and clicks.
ShownStep(s, u, n, m) ==
    \/ \E c \in Codes : /\ s[c].owner = 0 /\ m = n + 1
                        /\ u = [s EXCEPT ![c] = [owner |-> n + 1, clicks |-> 0]]
    \/ \E c \in Codes : s[c].owner # 0 /\ m = n + 1 /\ u = [s EXCEPT ![c].owner = n + 1]
    \/ \E c \in Codes : s[c].owner # 0 /\ m = n /\ u = [s EXCEPT ![c].clicks = s[c].clicks + 1]
    \/ \E S \in SUBSET Codes :
         m = n /\ u = [c \in Codes |-> IF c \in S THEN [owner |-> 0, clicks |-> 0] ELSE s[c]]
    \/ u = s /\ m \in {n, n + 1}

LEMMA LinksShown ==
    ASSUME NEW d, NEW e, NEW n, NEW m, Owned(d), LinksStep(d, e, n, m)
    PROVE  ShownStep(Shown(d), Shown(e), n, m)
<1>0. \A c \in Codes : (Shown(d)[c].owner # 0) <=> HasLink(d, c)
  BY DEF Owned, Shown
<1>1. ASSUME NEW c \in Codes, Claimed(d, e, c, n + 1), m = n + 1
      PROVE  ShownStep(Shown(d), Shown(e), n, m)
  <2>1. Shown(e) = [Shown(d) EXCEPT ![c] = [owner |-> n + 1, clicks |-> 0]]
    BY <1>1 DEF Claimed, SameLink, Shown
  <2>2. Shown(d)[c].owner = 0
    BY <1>0, <1>1 DEF Claimed
  <2> QED
    BY <1>1, <2>1, <2>2 DEF ShownStep
<1>2. ASSUME NEW c \in Codes, Rekeyed(d, e, c, n + 1), m = n + 1
      PROVE  ShownStep(Shown(d), Shown(e), n, m)
  <2>1. Shown(e) = [Shown(d) EXCEPT ![c].owner = n + 1]
    BY <1>2 DEF Rekeyed, SameLink, Shown
  <2>2. Shown(d)[c].owner # 0
    BY <1>0, <1>2 DEF Rekeyed
  <2> QED
    BY <1>2, <2>1, <2>2 DEF ShownStep
<1>3. ASSUME NEW c \in Codes, Counted(d, e, c), m = n
      PROVE  ShownStep(Shown(d), Shown(e), n, m)
  <2>1. Shown(e) = [Shown(d) EXCEPT ![c].clicks = Shown(d)[c].clicks + 1]
    BY <1>3 DEF Counted, SameLink, Shown
  <2>2. Shown(d)[c].owner # 0
    BY <1>0, <1>3 DEF Counted
  <2> QED
    BY <1>3, <2>1, <2>2 DEF ShownStep
<1>4. ASSUME NEW S \in SUBSET Codes, Released(d, e, S), m = n
      PROVE  ShownStep(Shown(d), Shown(e), n, m)
  <2>1. Shown(e) = [c \in Codes |-> IF c \in S THEN [owner |-> 0, clicks |-> 0] ELSE Shown(d)[c]]
    BY <1>4 DEF Released, SameLink, Shown
  <2> QED
    BY <1>4, <2>1 DEF ShownStep
<1>5. ASSUME Silent(d, e), m \in {n, n + 1}
      PROVE  ShownStep(Shown(d), Shown(e), n, m)
  <2>1. Shown(e) = Shown(d)
    BY <1>5 DEF Silent, SameLink, Shown
  <2> QED
    BY <1>5, <2>1 DEF ShownStep
<1> QED
  BY <1>1, <1>2, <1>3, <1>4, <1>5 DEF LinksStep

================================================================================
