----------------------------- MODULE SQLiteStore -----------------------------
(***************************************************************************)
(* services.SQLiteStore: one file, one process, a pool of connections.     *)
(*                                                                         *)
(* A single statement outside a transaction commits by itself.  SQLite     *)
(* lets one connection write at a time: a transaction whose first          *)
(* statement is a write (both of the store's are) holds the write lock     *)
(* until it commits or rolls back, readers go on seeing the committed      *)
(* database (WAL), and a writer that waits longer than busy_timeout fails. *)
(* A crash loses every call in progress and nothing that was committed.    *)
(***************************************************************************)
EXTENDS SQLTables

CONSTANTS
    Sessions,    \* goroutines that call the store
    Nobody,      \* who holds the write lock while it is free
    Retention,   \* clickRetention, 0 is off
    PageSize,    \* RecentClicks' limit
    Lifetimes,   \* the lifetimes that clients ask for; 0 is none
    Workloads,   \* what can happen: methods called, time passing, the process stopping
    MaxDrawn,    \* bound: owner tokens and API keys drawn
    MaxClicks,   \* bound: no click begins on a link that has this many
    MaxClock,    \* bound: ticks of the clock
    MaxFaults    \* bound: crashes and shutdowns

VARIABLES
    db,         \* what is committed in the file
    journal,    \* the transaction that holds the write lock, or NoTx
    calls,      \* Sessions -> the store call in progress
    phase,      \* where the process is
    migrated,   \* addedColumns statements that this start has run
    cancelled,  \* the context of the cleanup goroutine
    cleaner,    \* the cleanup goroutine
    clock,
    drawn,      \* random values drawn so far
    faults,
    workload,   \* one of Workloads; it never changes
    \* History variables: nothing below reads them.
    acked,      \* Codes -> clicks of the row whose RecordClick returned nil
    doubt       \* Codes -> clicks committed and never answered: a crash came

processVars == <<phase, migrated, cancelled>>
historyVars == <<acked, doubt>>
sqliteVars  == <<db, journal, calls, processVars, cleaner, clock, drawn, faults, workload,
                 historyVars>>

ASSUME SQLiteAssumption ==
    /\ IsFiniteSet(Sessions)
    /\ Nobody \notin Sessions
    /\ Retention \in Nat
    /\ Lifetimes \subseteq Nat
    /\ \A w \in Workloads :
         w \subseteq {"Set", "Delete", "RotateToken", "Update", "RecordClick", "RecentClicks",
                      "CreateAPIKey", "LookupAPIKey", "DeleteAPIKey", "Tick", "Stop"}
    /\ {MaxDrawn, MaxClicks, MaxClock, MaxFaults} \subseteq Nat

\* A call's pc is where it goes on; key is the API key that its handler
\* looked up, or that it is to revoke; born is the row whose click it has
\* counted; page is what RecentClicks read.
NoCall == [pc |-> "idle", code |-> NoRow, at |-> 0, key |-> NoKey, born |-> 0,
           page |-> <<>>]

NoTx == [by |-> Nobody, db |-> EmptyDatabase]

SQLiteInit ==
    /\ db = EmptyDatabase
    /\ journal = NoTx
    /\ calls = [p \in Sessions |-> NoCall]
    /\ phase = "down"
    /\ migrated = 0
    /\ cancelled = FALSE
    /\ cleaner = [pc |-> "off", now |-> 0]
    /\ clock = 1
    /\ drawn = 0
    /\ faults = 0
    /\ workload \in Workloads
    /\ acked = [c \in Codes |-> 0]
    /\ doubt = [c \in Codes |-> 0]

----------------------------------------------------------------------------
(* Start-up: the schema, then one ALTER TABLE per added column, each        *)
(* committed by itself, on a file that may have some of the columns.       *)

Start ==
    /\ phase = "down"
    /\ phase' = "migrating"
    /\ UNCHANGED <<db, journal, calls, migrated, cancelled, cleaner, clock, drawn, faults, workload, historyVars>>

\* Mutant: "duplicate column name" is an error like any other.
AddColumnStrict ==
    /\ phase = "migrating"
    /\ migrated < ColumnCount
    /\ migrated' = migrated + 1
    /\ IF migrated < db.columns
       THEN phase' = "failed" /\ UNCHANGED db
       ELSE db' = [db EXCEPT !.columns = @ + 1] /\ UNCHANGED phase
    /\ UNCHANGED <<cancelled, journal, calls, cleaner, clock, drawn, faults, workload, historyVars>>

AddColumn ==
    /\ phase = "migrating"
    /\ migrated < ColumnCount
    /\ migrated' = migrated + 1
    /\ db' = [db EXCEPT !.columns = IF migrated < @ THEN @ ELSE @ + 1]
    /\ UNCHANGED <<phase, cancelled, journal, calls, cleaner, clock, drawn, faults, workload, historyVars>>

\* NewSQLiteStore returns, and main starts the cleanup goroutine.
Open ==
    /\ phase = "migrating"
    /\ migrated = ColumnCount
    /\ phase' = "open"
    /\ cleaner' = [pc |-> "waiting", now |-> 0]
    /\ UNCHANGED <<db, journal, calls, migrated, cancelled, clock, drawn, faults, workload, historyVars>>

StartUp == Start \/ AddColumn \/ Open

----------------------------------------------------------------------------
(* How a session's statement runs. *)

\* The pool gives out connections until it is closed; a handler that
\* outlived server.Shutdown may still call while Close waits.
Serving == phase \in {"open", "closing"}

Running == phase \in {"open", "closing", "closed"}

Idle(p) == Serving /\ calls[p].pc = "idle"
At(p, pc) == Running /\ calls[p].pc = pc

Goto(p, pc) == calls' = [calls EXCEPT ![p].pc = pc]
Finish(p) == calls' = [calls EXCEPT ![p] = NoCall]

\* A statement of its own: it needs the write lock for itself alone.
Autocommit(d) == journal = NoTx /\ db' = d /\ UNCHANGED journal

\* The first statement of a transaction takes the lock and keeps it.
Lock(p, d) == journal = NoTx /\ journal' = [by |-> p, db |-> d] /\ UNCHANGED db

\* A later statement of it.
Write(p, d) == journal' = [by |-> p, db |-> d] /\ UNCHANGED db

Elsewhere == <<processVars, cleaner, clock, faults, workload>>

\* Mutant: the early return leaves the transaction open.
RollbackForgotten(p) ==
    /\ At(p, "rollback")
    /\ Finish(p)
    /\ UNCHANGED <<db, journal, Elsewhere, drawn, historyVars>>

\* A statement of a transaction failed, or the row was not there: the
\* deferred Rollback.
Rollback(p) ==
    /\ At(p, "rollback")
    /\ journal' = NoTx
    /\ Finish(p)
    /\ UNCHANGED <<db, Elsewhere, drawn, historyVars>>

\* Any statement of a transaction can fail: the disk is full, say.
Fail(p) ==
    /\ Running
    /\ calls[p].pc \in {"click.Insert", "click.Commit", "revoke.Drop", "revoke.Commit"}
    /\ Goto(p, "rollback")
    /\ UNCHANGED <<db, journal, Elsewhere, drawn, historyVars>>

\* busy_timeout passes while another connection holds the lock.  The write
\* of last_used_at is best effort; a transaction's first statement is not.
Busy(p) ==
    /\ Running
    /\ journal # NoTx
    /\ \/ calls[p].pc \in {"click.Count", "revoke.Unbind"} /\ Finish(p)
       \/ calls[p].pc = "lookup.Touch" /\ Goto(p, "holding")
    /\ UNCHANGED <<db, journal, Elsewhere, drawn, historyVars>>

----------------------------------------------------------------------------
(* The methods that are one statement.  A busy one changes nothing. *)

NewRow(p, life) ==
    NewLink(drawn + 1, IF life = 0 THEN 0 ELSE clock + life, calls[p].key)

\* Mutant: INSERT OR REPLACE.
SetReplaces(p, c) ==
    /\ Running
    /\ calls[p].pc = "holding" \/ Idle(p)
    /\ drawn < MaxDrawn
    /\ \E life \in Lifetimes : Autocommit(InsertLink(db, c, NewRow(p, life)))
    /\ drawn' = drawn + 1
    /\ acked' = [acked EXCEPT ![c] = 0]
    /\ doubt' = [doubt EXCEPT ![c] = 0]
    /\ Finish(p)
    /\ UNCHANGED Elsewhere

\* The code is free (ErrCodeConflict otherwise).  The key the handler looked
\* up may have been revoked since: no foreign key looks.
Set(p, c) ==
    /\ Running
    /\ calls[p].pc = "holding" \/ Idle(p)
    /\ drawn < MaxDrawn
    /\ ~HasLink(db, c)
    /\ \E life \in Lifetimes : Autocommit(InsertLink(db, c, NewRow(p, life)))
    /\ drawn' = drawn + 1
    /\ acked' = [acked EXCEPT ![c] = 0]
    /\ doubt' = [doubt EXCEPT ![c] = 0]
    /\ Finish(p)
    /\ UNCHANGED Elsewhere

\* The handler that looked the key up goes another way, or found the code
\* taken.
LetGo(p) ==
    /\ At(p, "holding")
    /\ Finish(p)
    /\ UNCHANGED <<db, journal, Elsewhere, drawn, historyVars>>

Delete(p, c) ==
    /\ Idle(p)
    /\ HasLink(db, c)
    /\ Autocommit(DeleteLinks(db, {c}))
    /\ UNCHANGED <<calls, Elsewhere, drawn, historyVars>>

RotateToken(p, c) ==
    /\ Idle(p)
    /\ drawn < MaxDrawn
    /\ HasLink(db, c)
    /\ Autocommit(SetOwner(db, c, drawn + 1))
    /\ drawn' = drawn + 1
    /\ UNCHANGED <<calls, Elsewhere, historyVars>>

Update(p, c) ==
    /\ Idle(p)
    /\ HasLink(db, c)
    /\ \E life \in Lifetimes :
         Autocommit(SetExpiry(db, c, IF life = 0 THEN 0 ELSE clock + life))
    /\ UNCHANGED <<calls, Elsewhere, drawn, historyVars>>

CreateAPIKey(p) ==
    /\ Idle(p)
    /\ drawn < MaxDrawn
    /\ Autocommit(InsertKey(db, drawn + 1))
    /\ drawn' = drawn + 1
    /\ UNCHANGED <<calls, Elsewhere, historyVars>>

----------------------------------------------------------------------------
(* RecordClick: count and event in one transaction.  The handler stamped   *)
(* the event before it called.                                             *)

ClickBegin(p, c) ==
    /\ Idle(p)
    /\ HasLink(db, c) /\ db.urls[c].ClickCount < MaxClicks
    /\ calls' = [calls EXCEPT ![p] =
                   [NoCall EXCEPT !.pc = "click.Count", !.code = c, !.at = clock]]
    /\ UNCHANGED <<db, journal, Elsewhere, drawn, historyVars>>

ClickCount(p) ==
    LET c == calls[p].code IN
    /\ At(p, "click.Count")
    /\ IF HasLink(db, c)
       THEN /\ Lock(p, CountClick(db, c))
            /\ calls' = [calls EXCEPT ![p].pc = "click.Insert", ![p].born = db.urls[c].Born]
       ELSE /\ Lock(p, db)
            /\ Goto(p, "rollback")
    /\ UNCHANGED <<Elsewhere, drawn, historyVars>>

ClickInsert(p) ==
    /\ At(p, "click.Insert")
    /\ Write(p, InsertClick(journal.db, calls[p].code, calls[p].at))
    /\ Goto(p, "click.Commit")
    /\ UNCHANGED <<Elsewhere, drawn, historyVars>>

\* Mutant: the call has answered before its transaction is committed.
ClickCommitLate(p) ==
    /\ At(p, "click.Commit")
    /\ Goto(p, "click.Return")
    /\ UNCHANGED <<db, journal, Elsewhere, drawn, historyVars>>

ClickCommit(p) ==
    /\ At(p, "click.Commit")
    /\ db' = journal.db
    /\ journal' = NoTx
    /\ Goto(p, "click.Return")
    /\ UNCHANGED <<Elsewhere, drawn, historyVars>>

\* The row whose click the call committed is still there.
SameRow(p) ==
    LET c == calls[p].code IN HasLink(db, c) /\ db.urls[c].Born = calls[p].born

ClickReturn(p) ==
    /\ At(p, "click.Return")
    /\ acked' = [acked EXCEPT ![calls[p].code] = IF SameRow(p) THEN @ + 1 ELSE @]
    /\ Finish(p)
    /\ UNCHANGED <<db, journal, Elsewhere, drawn, doubt>>

RecordClick(p) ==
    \/ \E c \in Codes : ClickBegin(p, c)
    \/ ClickCount(p) \/ ClickInsert(p) \/ ClickCommit(p) \/ ClickReturn(p)

----------------------------------------------------------------------------
(* DeleteAPIKey: unbind the links, drop the key, in one transaction. *)

RevokeBegin(p) ==
    /\ Idle(p)
    /\ \E k \in db.keys :
         calls' = [calls EXCEPT ![p] = [NoCall EXCEPT !.pc = "revoke.Unbind", !.key = k]]
    /\ UNCHANGED <<db, journal, Elsewhere, drawn, historyVars>>

RevokeUnbind(p) ==
    /\ At(p, "revoke.Unbind")
    /\ Lock(p, UnbindLinks(db, BoundLinks(db, calls[p].key.ID)))
    /\ Goto(p, "revoke.Drop")
    /\ UNCHANGED <<Elsewhere, drawn, historyVars>>

RevokeDrop(p) ==
    /\ At(p, "revoke.Drop")
    /\ Write(p, DropKey(journal.db, calls[p].key.ID))
    /\ Goto(p, IF HasKey(journal.db, calls[p].key.ID) THEN "revoke.Commit" ELSE "rollback")
    /\ UNCHANGED <<Elsewhere, drawn, historyVars>>

RevokeCommit(p) ==
    /\ At(p, "revoke.Commit")
    /\ db' = journal.db
    /\ journal' = NoTx
    /\ Finish(p)
    /\ UNCHANGED <<Elsewhere, drawn, historyVars>>

DeleteAPIKey(p) ==
    RevokeBegin(p) \/ RevokeUnbind(p) \/ RevokeDrop(p) \/ RevokeCommit(p)

----------------------------------------------------------------------------
(* LookupAPIKey reads the key and then stamps its last use; the stamp is   *)
(* not told apart here, the time it takes is.                              *)

LookupSelect(p) ==
    /\ Idle(p)
    /\ \E k \in db.keys :
         calls' = [calls EXCEPT ![p] = [NoCall EXCEPT !.pc = "lookup.Touch", !.key = k]]
    /\ UNCHANGED <<db, journal, Elsewhere, drawn, historyVars>>

LookupTouch(p) ==
    /\ At(p, "lookup.Touch")
    /\ Autocommit(db)
    /\ Goto(p, "holding")
    /\ UNCHANGED <<Elsewhere, drawn, historyVars>>

LookupAPIKey(p) == LookupSelect(p) \/ LookupTouch(p)

(* RecentClicks: Exists, then the page. *)

ClicksExists(p, c) ==
    /\ Idle(p)
    /\ HasLink(db, c)
    /\ calls' = [calls EXCEPT ![p] = [NoCall EXCEPT !.pc = "clicks.Select", !.code = c]]
    /\ UNCHANGED <<db, journal, Elsewhere, drawn, historyVars>>

ClicksSelect(p) ==
    /\ At(p, "clicks.Select")
    /\ calls' = [calls EXCEPT ![p].pc = "clicks.Return",
                              ![p].page = Page(NewestFirst(db.clicks[calls[p].code]), PageSize)]
    /\ UNCHANGED <<db, journal, Elsewhere, drawn, historyVars>>

ClicksReturn(p) ==
    /\ At(p, "clicks.Return")
    /\ Finish(p)
    /\ UNCHANGED <<db, journal, Elsewhere, drawn, historyVars>>

RecentClicks(p) ==
    \/ \E c \in Codes : ClicksExists(p, c)
    \/ ClicksSelect(p) \/ ClicksReturn(p)

----------------------------------------------------------------------------
(* The cleanup goroutine: per tick one statement for the expired links and *)
(* one for the old clicks, each committed by itself.                       *)

CleanerAt(pc) == Running /\ cleaner.pc = pc

CleanerIdle == UNCHANGED <<calls, processVars, clock, drawn, faults, workload, historyVars>>

\* The tick carries the time at which it fired.
CleanerTick ==
    /\ CleanerAt("waiting")
    /\ ~cancelled
    /\ cleaner' = [pc |-> "reap", now |-> clock]
    /\ UNCHANGED <<db, journal>>
    /\ CleanerIdle

CleanerReap ==
    /\ CleanerAt("reap")
    /\ Autocommit(DeleteLinks(db, ExpiredLinks(db, cleaner.now)))
    /\ cleaner' = [cleaner EXCEPT !.pc = IF Retention > 0 THEN "prune" ELSE "waiting"]
    /\ CleanerIdle

\* Mutant: what is exactly as old as the retention period goes too.
CutoffLate(now) == now + 1 - Retention

Cutoff(now) == IF now > Retention THEN now - Retention ELSE 0

CleanerPrune ==
    /\ CleanerAt("prune")
    /\ Autocommit(PruneClicks(db, Cutoff(cleaner.now)))
    /\ cleaner' = [pc |-> "waiting", now |-> 0]
    /\ CleanerIdle

\* Either statement is given up when the context is cancelled or the lock
\* is not to be had; the next one is tried all the same.
CleanerFails ==
    /\ cancelled \/ journal # NoTx
    /\ \/ /\ CleanerAt("reap")
          /\ cleaner' = [cleaner EXCEPT !.pc = IF Retention > 0 THEN "prune" ELSE "waiting"]
       \/ /\ CleanerAt("prune")
          /\ cleaner' = [pc |-> "waiting", now |-> 0]
    /\ UNCHANGED <<db, journal>>
    /\ CleanerIdle

CleanerStop ==
    /\ CleanerAt("waiting")
    /\ cancelled
    /\ cleaner' = [pc |-> "done", now |-> 0]
    /\ UNCHANGED <<db, journal>>
    /\ CleanerIdle

Cleaner == CleanerTick \/ CleanerReap \/ CleanerPrune \/ CleanerFails \/ CleanerStop

----------------------------------------------------------------------------
(* The end of the process. *)

Rest == <<db, journal, calls, migrated, cleaner, clock, drawn, workload, historyVars>>

\* SIGTERM cancels the context; requests are served until the drain ends.
Cancel ==
    /\ phase = "open"
    /\ ~cancelled
    /\ "Stop" \in workload
    /\ faults < MaxFaults
    /\ cancelled' = TRUE
    /\ faults' = faults + 1
    /\ UNCHANGED <<phase, Rest>>

\* main calls Close, which waits for the cleanup goroutine.
CloseBegin ==
    /\ phase = "open"
    /\ cancelled
    /\ phase' = "closing"
    /\ UNCHANGED <<cancelled, faults, Rest>>

CloseReturn ==
    /\ phase = "closing"
    /\ cleaner.pc = "done"
    /\ phase' = "closed"
    /\ UNCHANGED <<cancelled, faults, Rest>>

\* Clicks committed whose caller the crash takes away.
Unanswered(c) ==
    {p \in Sessions : calls[p].pc = "click.Return" /\ calls[p].code = c /\ SameRow(p)}

\* Every call and the uncommitted transaction are gone; the file stays.
Stop ==
    /\ phase' = "down"
    /\ journal' = NoTx
    /\ calls' = [p \in Sessions |-> NoCall]
    /\ cleaner' = [pc |-> "off", now |-> 0]
    /\ doubt' = [c \in Codes |-> doubt[c] + Cardinality(Unanswered(c))]
    /\ migrated' = 0
    /\ cancelled' = FALSE
    /\ UNCHANGED <<db, clock, drawn, workload, acked>>

Crash ==
    /\ phase \in {"migrating", "open", "closing"}
    /\ "Stop" \in workload
    /\ faults < MaxFaults
    /\ faults' = faults + 1
    /\ Stop

\* main returns.
Exit == phase = "closed" /\ Stop /\ UNCHANGED faults

Shutdown == CloseBegin \/ CloseReturn \/ Exit

Tick ==
    /\ "Tick" \in workload
    /\ clock < MaxClock
    /\ clock' = clock + 1
    /\ UNCHANGED <<db, journal, calls, processVars, cleaner, drawn, faults, workload, historyVars>>

----------------------------------------------------------------------------

\* What a call that has begun goes on to do.
Proceed(p) ==
    \/ ClickCount(p) \/ ClickInsert(p) \/ ClickCommit(p) \/ ClickReturn(p)
    \/ RevokeUnbind(p) \/ RevokeDrop(p) \/ RevokeCommit(p)
    \/ LookupTouch(p) \/ ClicksSelect(p) \/ ClicksReturn(p)
    \/ Busy(p) \/ Fail(p) \/ Rollback(p)

Calls(p) ==
    \/ "Set" \in workload /\ \E c \in Codes : Set(p, c)
    \/ "Delete" \in workload /\ \E c \in Codes : Delete(p, c)
    \/ "RotateToken" \in workload /\ \E c \in Codes : RotateToken(p, c)
    \/ "Update" \in workload /\ \E c \in Codes : Update(p, c)
    \/ "RecordClick" \in workload /\ RecordClick(p)
    \/ "RecentClicks" \in workload /\ RecentClicks(p)
    \/ "CreateAPIKey" \in workload /\ CreateAPIKey(p)
    \/ "LookupAPIKey" \in workload /\ (LookupAPIKey(p) \/ LetGo(p))
    \/ "DeleteAPIKey" \in workload /\ DeleteAPIKey(p)

Session(p) == Calls(p) \/ Busy(p) \/ Fail(p) \/ Rollback(p)

SQLiteNext ==
    \/ StartUp
    \/ \E p \in Sessions : Session(p)
    \/ Cleaner
    \/ Cancel \/ Shutdown \/ Crash
    \/ Tick

SQLiteSpec == SQLiteInit /\ [][SQLiteNext]_sqliteVars

\* A call that has begun runs on, the ticker fires, a start and a shutdown
\* that have begun go on, time passes.  Nobody has to call, to send SIGTERM
\* or to start the program.
SQLiteFairness ==
    /\ \A p \in Sessions : WF_sqliteVars(Proceed(p) \/ LetGo(p))
    /\ WF_sqliteVars(Cleaner)
    /\ WF_sqliteVars(AddColumn \/ Open)
    /\ WF_sqliteVars(Shutdown)
    /\ WF_sqliteVars(Tick)

FairSQLiteSpec == SQLiteSpec /\ SQLiteFairness

----------------------------------------------------------------------------
\* storage_sqlite.go:378: count and click events are written together or
\* not at all, through crashes, failures, deletion and retention.
CountMatchesClicks == CountsMatch(db)

\* A click whose RecordClick returned nil survives every crash, one whose
\* RecordClick failed is never counted, and the rest are the calls a crash
\* cut off between the commit and the answer.
ClicksDurable ==
    \A c \in Codes :
        HasLink(db, c) =>
            db.urls[c].ClickCount = acked[c] + doubt[c] + Cardinality(Unanswered(c))

\* AUTOINCREMENT: a link whose key was revoked before, or while, the link
\* was stored can never fall to the holder of a key created later.
BindingsKeepTheirKey == BindingsHold(db)

\* storage_sqlite_apikey.go:103: no crash or failure separates the two
\* writes of a revocation: when a key goes, no link is left bound to it.
RevocationAtomic ==
    [][\A k \in db.keys :
          ~HasKey(db', k.ID) =>
              BoundLinks(db', k.ID) = {}]_db

\* The cleanup goroutine takes a link only if Get already calls it expired,
\* a PATCH after the tick included, and a click of a link that stays only if
\* it is older than the retention period.
CleanupTakesOnlyTheOld ==
    [][cleaner' # cleaner =>
         \A c \in Codes :
            HasLink(db, c) =>
               IF HasLink(db', c)
               THEN \A i \in 1..Len(db.clicks[c]) :
                       \/ \E j \in 1..Len(db'.clicks[c]) : db'.clicks[c][j] = db.clicks[c][i]
                       \/ db.clicks[c][i] + Retention < clock
               ELSE ~GetOK(db, c, clock)]_<<db, cleaner>>

\* A page of RecentClicks holds the newest clicks by their stamps, though
\* they were stamped before they queued for the write lock and so may have
\* been stored in another order (redirect.go:150).
PageHoldsNewest ==
    [][\A p \in Sessions :
          calls[p].pc = "clicks.Select" /\ calls'[p].pc = "clicks.Return" =>
             LET clicks == db.clicks[calls[p].code]
                 page   == calls'[p].page
             IN  \A i \in 1..Len(clicks) :
                    \/ \E j \in 1..Len(page) : page[j] = clicks[i]
                    \/ page # <<>> /\ page[Len(page)] > clicks[i]]_calls

\* The backend keeps the promise of LinkLifecycle that the in-memory one
\* keeps, crashes included: what is committed changes only as it allows.
Lifecycle ==
    INSTANCE LinkLifecycle WITH
        link <- [c \in Codes |->
                   IF HasLink(db, c)
                   THEN [owner |-> db.urls[c].OwnerTokenHash, clicks |-> db.urls[c].ClickCount]
                   ELSE [owner |-> 0, clicks |-> 0]]

SQLiteImplementsLifecycle == Lifecycle!LifecycleSpec

\* storage_sqlite.go:393: every transaction commits or is rolled back, so
\* the write lock always comes free again.
LockReleased == journal # NoTx ~> journal = NoTx

\* storage_sqlite.go:82: a start whose predecessor crashed half way through
\* the migration opens the database all the same.
Reopens == phase = "migrating" ~> phase \in {"open", "down"}
==============================================================================
