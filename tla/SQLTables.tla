------------------------------ MODULE SQLTables ------------------------------
(***************************************************************************)
(* The tables of the SQL backends and what one statement does to them.     *)
(* SQLiteStore and PostgresStore run the same statements on the same       *)
(* schema and differ in how transactions interleave, so a statement is a   *)
(* function from a database to a database here, and those modules say when *)
(* its effect becomes visible.                                             *)
(*                                                                         *)
(* A token and its hash are one number, as in MemoryStore, and so is a     *)
(* click event and its clicked_at.  The nullable columns of a link are     *)
(* replaced whole exactly as expires_at is, which stands for them.         *)
(***************************************************************************)
EXTENDS Naturals, Sequences, FiniteSets, TLC

CONSTANTS
    Codes,        \* short codes
    NoRow,        \* no row with this primary key
    ColumnCount   \* the length of addedColumns / postgresMigrations

\* 0 is NULL in ExpiresAt and APIKeyID.  Two fields are history: Born, the
\* row's first owner token, identifies the row for ever, and BoundTo is the
\* token of the API key the row was created with, 0 without one.
Link == [ExpiresAt : Nat, ClickCount : Nat, OwnerTokenHash : Nat,
         APIKeyID : Nat, Born : Nat, BoundTo : Nat]

Key == [ID : Nat, TokenHash : Nat]

NoKey == [ID |-> 0, TokenHash |-> 0]

\* Events of a code are in the order of their ids.  Pruned is history: the
\* events of the row that the retention period has removed.
Database ==
    [ columns : 0..ColumnCount,
      urls    : [Codes -> Link \cup {NoRow}],
      clicks  : [Codes -> Seq(Nat)],
      pruned  : [Codes -> Nat],
      keys    : SUBSET Key,
      keySeq  : Nat ]       \* the last id that api_keys has given out

EmptyDatabase ==
    [ columns |-> 0,
      urls    |-> [c \in Codes |-> NoRow],
      clicks  |-> [c \in Codes |-> <<>>],
      pruned  |-> [c \in Codes |-> 0],
      keys    |-> {},
      keySeq  |-> 0 ]

ASSUME TablesAssumption ==
    /\ ColumnCount \in Nat
    /\ NoRow \notin Link

HasLink(d, c) == d.urls[c] # NoRow
HasKey(d, id) == \E k \in d.keys : k.ID = id

----------------------------------------------------------------------------
(* Links. *)

NewLink(owner, expiresAt, key) ==
    [ExpiresAt |-> expiresAt, ClickCount |-> 0, OwnerTokenHash |-> owner,
     APIKeyID |-> key.ID, Born |-> owner, BoundTo |-> key.TokenHash]

\* INSERT OR IGNORE / ON CONFLICT DO NOTHING: a taken code affects no row.
InsertLink(d, c, link) ==
    [d EXCEPT !.urls[c] = link, !.pruned[c] = 0]

\* Mutant: foreign keys are off, as they are unless the DSN turns them on.
DeleteLinksOnly(d, S) ==
    [d EXCEPT !.urls = [c \in Codes |-> IF c \in S THEN NoRow ELSE @[c]]]

\* ON DELETE CASCADE takes the click events of every deleted link along.
DeleteLinks(d, S) ==
    [d EXCEPT
       !.urls   = [c \in Codes |-> IF c \in S THEN NoRow ELSE @[c]],
       !.clicks = [c \in Codes |-> IF c \in S THEN <<>> ELSE @[c]],
       !.pruned = [c \in Codes |-> IF c \in S THEN 0 ELSE @[c]]]

SetOwner(d, c, owner) == [d EXCEPT !.urls[c].OwnerTokenHash = owner]

SetExpiry(d, c, expiresAt) == [d EXCEPT !.urls[c].ExpiresAt = expiresAt]

\* WHERE expires_at IS NOT NULL AND expires_at < now.
ExpiredLinks(d, now) ==
    {c \in Codes : HasLink(d, c) /\ d.urls[c].ExpiresAt # 0 /\ d.urls[c].ExpiresAt < now}

\* What Get answers with, rather than ErrNotFound or ErrExpired.
GetOK(d, c, now) ==
    HasLink(d, c) /\ (d.urls[c].ExpiresAt = 0 \/ now <= d.urls[c].ExpiresAt)

----------------------------------------------------------------------------
(* Clicks. *)

CountClick(d, c) == [d EXCEPT !.urls[c].ClickCount = @ + 1]

InsertClick(d, c, at) == [d EXCEPT !.clicks[c] = Append(@, at)]

\* The events that stay, in the order they had: the k-th is the one with k
\* of them up to it.
Kept(clicks, cutoff) ==
    LET I == {i \in 1..Len(clicks) : clicks[i] >= cutoff}
    IN  [k \in 1..Cardinality(I) |->
            clicks[CHOOSE i \in I : Cardinality({j \in I : j <= i}) = k]]

\* DELETE FROM click_events WHERE clicked_at < cutoff.
PruneClicks(d, cutoff) ==
    [d EXCEPT
       !.clicks = [c \in Codes |-> Kept(d.clicks[c], cutoff)],
       !.pruned = [c \in Codes |->
                      @[c] + Len(d.clicks[c]) - Len(Kept(d.clicks[c], cutoff))]]

\* Mutant: the order of arrival, as the in-memory log has it.
NewestFirstAsStored(clicks) == [i \in 1..Len(clicks) |-> clicks[Len(clicks) + 1 - i]]

\* ORDER BY clicked_at DESC.
NewestFirst(clicks) == SortSeq(clicks, LAMBDA a, b : a > b)

\* LIMIT.
Page(clicks, limit) == SubSeq(clicks, 1, IF limit < Len(clicks) THEN limit ELSE Len(clicks))

----------------------------------------------------------------------------
(* API keys. *)

\* Mutant: INTEGER PRIMARY KEY without AUTOINCREMENT, one above the largest.
InsertKeyAboveMax(d, hash) ==
    LET used == {k.ID : k \in d.keys} \cup {0}
        id   == 1 + CHOOSE i \in used : \A j \in used : j <= i
    IN  [d EXCEPT !.keys = @ \cup {[ID |-> id, TokenHash |-> hash]}, !.keySeq = id]

\* AUTOINCREMENT: above every id the table has ever given out.
InsertKey(d, hash) ==
    [d EXCEPT !.keys = @ \cup {[ID |-> d.keySeq + 1, TokenHash |-> hash]},
              !.keySeq = @ + 1]

BoundLinks(d, id) == {c \in Codes : HasLink(d, c) /\ d.urls[c].APIKeyID = id}

\* Mutant: the links are forgotten.
UnbindNothing(d, S) == d

UnbindLinks(d, S) ==
    [d EXCEPT !.urls = [c \in Codes |->
        IF c \in S THEN [d.urls[c] EXCEPT !.APIKeyID = 0] ELSE d.urls[c]]]

DropKey(d, id) == [d EXCEPT !.keys = {k \in @ : k.ID # id}]

----------------------------------------------------------------------------
(* What either backend keeps true of its committed database. *)

\* The count is exactly what the table holds plus what retention removed,
\* and a code without a link leaves no events to the next link of its name.
CountsMatch(d) ==
    \A c \in Codes :
        IF HasLink(d, c)
        THEN d.urls[c].ClickCount = Len(d.clicks[c]) + d.pruned[c]
        ELSE d.clicks[c] = <<>>

\* A link bound to a key is bound to the key it was created with.
BindingsHold(d) ==
    \A c \in Codes : \A k \in d.keys :
        HasLink(d, c) /\ d.urls[c].APIKeyID = k.ID => d.urls[c].BoundTo = k.TokenHash
=============================================================================
