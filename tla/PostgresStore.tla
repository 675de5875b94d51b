---------------------------- MODULE PostgresStore ----------------------------
(***************************************************************************)
(* services.PostgresStore: one database, any number of replicas.           *)
(*                                                                         *)
(* Transactions run side by side at READ COMMITTED.  A statement that      *)
(* writes a row locks it until its transaction ends; a row locked by       *)
(* another is waited for and then looked at again, so that a WHERE clause  *)
(* holds of the row as it is by then.  Nobody else sees or changes a       *)
(* locked row, so its new version is applied here when the transaction     *)
(* commits.  A statement over several rows locks them one by one and may   *)
(* deadlock with another; the server then fails one of the two.            *)
(***************************************************************************)
EXTENDS SQLTables

CONSTANTS
    Sessions,    \* goroutines of any replica that call the store
    Cleaners,    \* the replicas' cleanup goroutines
    Retention,   \* clickRetention, 0 is off
    Lifetimes,   \* the lifetimes that clients ask for; 0 is none
    Workloads,   \* what can happen, and to which codes
    MaxDrawn,    \* bound: owner tokens and API keys drawn
    MaxClicks,   \* bound: no click begins on a link that has this many
    MaxClock,    \* bound: ticks of the clock
    MaxFaults    \* bound: connections lost

VARIABLES
    db,          \* what is committed
    calls,       \* Sessions and Cleaners -> the statement or transaction in progress
    clock,
    drawn,       \* random values drawn so far
    faults,
    workload,    \* one of Workloads; it never changes
    \* History variables: nothing below reads them.
    acked,       \* Codes -> clicks of the row whose RecordClick returned nil
    doubt        \* Codes -> clicks committed on a connection lost with the answer

Actors == Sessions \cup Cleaners

historyVars  == <<acked, doubt>>
postgresVars == <<db, calls, clock, drawn, faults, workload, historyVars>>

ASSUME PostgresAssumption ==
    /\ Sessions \cap Cleaners = {}
    /\ Retention \in Nat
    /\ Lifetimes \subseteq Nat
    /\ \A w \in Workloads :
         /\ w.codes \subseteq Codes
         /\ w.does \subseteq {"Set", "Delete", "RotateToken", "Update", "RecordClick",
                              "CreateAPIKey", "LookupAPIKey", "DeleteAPIKey", "Tick", "Lose"}
    /\ {MaxDrawn, MaxClicks, MaxClock, MaxFaults} \subseteq Nat

CallPCs ==
    {"idle", "click.Count", "click.Commit", "revoke.Unbind", "revoke.Drop",
     "revoke.Commit", "holding", "reap", "prune", "ended"}

\* todo are the rows a statement has yet to reach, locks the rows its
\* transaction holds; at is the click's stamp or the tick's time.
Call == [pc : CallPCs, code : Codes \cup {NoRow}, at : Nat, key : Key,
         todo : SUBSET Codes, locks : SUBSET Codes]

NoCall == [pc |-> "idle", code |-> NoRow, at |-> 0, key |-> NoKey,
           todo |-> {}, locks |-> {}]

\* Every replica has migrated: ADD COLUMN IF NOT EXISTS makes that the same
\* however many of them start, and start again.
PostgresInit ==
    /\ db = [EmptyDatabase EXCEPT !.columns = ColumnCount]
    /\ calls = [a \in Actors |-> NoCall]
    /\ clock = 1
    /\ drawn = 0
    /\ faults = 0
    /\ workload \in Workloads
    /\ acked = [c \in Codes |-> 0]
    /\ doubt = [c \in Codes |-> 0]

----------------------------------------------------------------------------
(* Row locks. *)

\* No other transaction holds the row.
RowFree(a, c) == \A b \in Actors \ {a} : c \notin calls[b].locks

Idle(p) == calls[p].pc = "idle"
At(a, pc) == calls[a].pc = pc
Goto(a, pc) == calls' = [calls EXCEPT ![a].pc = pc]
Finish(a) == calls' = [calls EXCEPT ![a] = NoCall]

World == <<clock, faults, workload>>

\* The rows that the statement of a still matches, looked at again.
Matching(a) ==
    IF calls[a].pc = "reap" THEN ExpiredLinks(db, calls[a].at)
    ELSE BoundLinks(db, calls[a].key.ID)

\* A statement over several rows reaches the next one that it can lock.
ScanRow(a, c) ==
    /\ calls[a].pc \in {"revoke.Unbind", "reap"}
    /\ c \in calls[a].todo
    /\ RowFree(a, c)
    /\ calls' = [calls EXCEPT
         ![a].todo = @ \ {c},
         ![a].locks = IF c \in Matching(a) THEN @ \cup {c} ELSE @]
    /\ UNCHANGED <<db, World, drawn, historyVars>>

\* a waits for b: it holds a row that a cannot do without.
WaitsFor(a, b) ==
    /\ calls[a].todo # {}
    /\ \A c \in calls[a].todo : ~RowFree(a, c)
    /\ calls[a].todo \cap calls[b].locks # {}

\* A transaction that fails is rolled back.  The cleanup goroutine logs the
\* error and goes on to its second statement.
Abandon(a) ==
    IF a \in Cleaners
    THEN calls' = [calls EXCEPT ![a] = [NoCall EXCEPT !.pc = "prune", !.at = calls[a].at]]
    ELSE Finish(a)

\* Mutant: the cleanup goroutine returns on an error.
DeadlockVictimGone(a, b) ==
    /\ WaitsFor(a, b) /\ WaitsFor(b, a)
    /\ IF a \in Cleaners
       THEN calls' = [calls EXCEPT ![a] = [NoCall EXCEPT !.pc = "ended"]]
       ELSE Finish(a)
    /\ UNCHANGED <<db, World, drawn, historyVars>>

\* The server finds two transactions waiting for each other and fails one.
DeadlockVictim(a, b) ==
    /\ WaitsFor(a, b) /\ WaitsFor(b, a)
    /\ Abandon(a)
    /\ UNCHANGED <<db, World, drawn, historyVars>>

----------------------------------------------------------------------------
(* The methods that are one statement on one row, committed by itself. *)

\* Mutant: ON CONFLICT DO UPDATE.
SetUpserts(p, c) ==
    /\ Idle(p) \/ At(p, "holding")
    /\ drawn < MaxDrawn
    /\ RowFree(p, c)
    /\ \E life \in Lifetimes :
         db' = InsertLink(db, c, NewLink(drawn + 1, IF life = 0 THEN 0 ELSE clock + life,
                                         calls[p].key))
    /\ drawn' = drawn + 1
    /\ acked' = [acked EXCEPT ![c] = 0]
    /\ doubt' = [doubt EXCEPT ![c] = 0]
    /\ Finish(p)
    /\ UNCHANGED World

Set(p, c) ==
    /\ Idle(p) \/ At(p, "holding")
    /\ drawn < MaxDrawn
    /\ ~HasLink(db, c)
    /\ \E life \in Lifetimes :
         db' = InsertLink(db, c, NewLink(drawn + 1, IF life = 0 THEN 0 ELSE clock + life,
                                         calls[p].key))
    /\ drawn' = drawn + 1
    /\ acked' = [acked EXCEPT ![c] = 0]
    /\ doubt' = [doubt EXCEPT ![c] = 0]
    /\ Finish(p)
    /\ UNCHANGED World

\* A handler that looked its key up goes another way, or found the code taken.
LetGo(p) ==
    /\ At(p, "holding")
    /\ Finish(p)
    /\ UNCHANGED <<db, World, drawn, historyVars>>

Delete(p, c) ==
    /\ Idle(p)
    /\ HasLink(db, c) /\ RowFree(p, c)
    /\ db' = DeleteLinks(db, {c})
    /\ UNCHANGED <<calls, World, drawn, historyVars>>

RotateToken(p, c) ==
    /\ Idle(p)
    /\ drawn < MaxDrawn
    /\ HasLink(db, c) /\ RowFree(p, c)
    /\ db' = SetOwner(db, c, drawn + 1)
    /\ drawn' = drawn + 1
    /\ UNCHANGED <<calls, World, historyVars>>

Update(p, c) ==
    /\ Idle(p)
    /\ HasLink(db, c) /\ RowFree(p, c)
    /\ \E life \in Lifetimes :
         db' = SetExpiry(db, c, IF life = 0 THEN 0 ELSE clock + life)
    /\ UNCHANGED <<calls, World, drawn, historyVars>>

CreateAPIKey(p) ==
    /\ Idle(p)
    /\ drawn < MaxDrawn
    /\ db' = InsertKey(db, drawn + 1)
    /\ drawn' = drawn + 1
    /\ UNCHANGED <<calls, World, historyVars>>

\* last_used_at is not told apart, and nobody waits for a key's row for it.
LookupAPIKey(p) ==
    /\ Idle(p)
    /\ \E k \in db.keys :
         calls' = [calls EXCEPT ![p] = [NoCall EXCEPT !.pc = "holding", !.key = k]]
    /\ UNCHANGED <<db, World, drawn, historyVars>>

----------------------------------------------------------------------------
(* RecordClick. *)

ClickBegin(p, c) ==
    /\ Idle(p)
    /\ HasLink(db, c) /\ db.urls[c].ClickCount < MaxClicks
    /\ calls' = [calls EXCEPT ![p] =
                   [NoCall EXCEPT !.pc = "click.Count", !.code = c, !.at = clock]]
    /\ UNCHANGED <<db, World, drawn, historyVars>>

\* UPDATE ... SET click_count = click_count + 1 waits for the row and, if it
\* is gone by then, affects none: ErrNotFound.
ClickCount(p) ==
    LET c == calls[p].code IN
    /\ At(p, "click.Count")
    /\ RowFree(p, c)
    /\ IF HasLink(db, c)
       THEN calls' = [calls EXCEPT ![p].pc = "click.Commit", ![p].locks = {c}]
       ELSE Finish(p)
    /\ UNCHANGED <<db, World, drawn, historyVars>>

Clicked(p) == InsertClick(CountClick(db, calls[p].code), calls[p].code, calls[p].at)

\* The event is inserted and both writes are committed.
ClickCommit(p) ==
    /\ At(p, "click.Commit")
    /\ db' = Clicked(p)
    /\ acked' = [acked EXCEPT ![calls[p].code] = @ + 1]
    /\ Finish(p)
    /\ UNCHANGED <<World, drawn, doubt>>

RecordClick(p) == (\E c \in Codes : ClickBegin(p, c)) \/ ClickCount(p) \/ ClickCommit(p)

----------------------------------------------------------------------------
(* DeleteAPIKey. *)

RevokeBegin(p) ==
    /\ Idle(p)
    /\ \E k \in db.keys :
         calls' = [calls EXCEPT ![p] =
            [NoCall EXCEPT !.pc = "revoke.Unbind", !.key = k, !.todo = BoundLinks(db, k.ID)]]
    /\ UNCHANGED <<db, World, drawn, historyVars>>

RevokeUnbound(p) ==
    /\ At(p, "revoke.Unbind")
    /\ calls[p].todo = {}
    /\ Goto(p, "revoke.Drop")
    /\ UNCHANGED <<db, World, drawn, historyVars>>

\* DELETE FROM api_keys waits for another revocation of the same key.
RevokeDrop(p) ==
    /\ At(p, "revoke.Drop")
    /\ \A q \in Sessions \ {p} : ~(At(q, "revoke.Commit") /\ calls[q].key = calls[p].key)
    /\ IF HasKey(db, calls[p].key.ID) THEN Goto(p, "revoke.Commit") ELSE Finish(p)
    /\ UNCHANGED <<db, World, drawn, historyVars>>

RevokeCommit(p) ==
    /\ At(p, "revoke.Commit")
    /\ db' = DropKey(UnbindLinks(db, calls[p].locks), calls[p].key.ID)
    /\ Finish(p)
    /\ UNCHANGED <<World, drawn, historyVars>>

DeleteAPIKey(p) == RevokeBegin(p) \/ RevokeUnbound(p) \/ RevokeDrop(p) \/ RevokeCommit(p)

----------------------------------------------------------------------------
(* A replica's cleanup goroutine.  "idle" is waiting for its ticker. *)

CleanerTick(w) ==
    /\ At(w, "idle")
    /\ calls' = [calls EXCEPT ![w] =
          [NoCall EXCEPT !.pc = "reap", !.at = clock, !.todo = ExpiredLinks(db, clock)]]
    /\ UNCHANGED <<db, World, drawn, historyVars>>

CleanerReap(w) ==
    /\ At(w, "reap")
    /\ calls[w].todo = {}
    /\ db' = DeleteLinks(db, calls[w].locks)
    /\ calls' = [calls EXCEPT ![w] = [NoCall EXCEPT !.pc = "prune", !.at = calls[w].at]]
    /\ UNCHANGED <<World, drawn, historyVars>>

CleanerPrune(w) ==
    /\ At(w, "prune")
    /\ db' = IF Retention > 0 /\ calls[w].at > Retention
             THEN PruneClicks(db, calls[w].at - Retention) ELSE db
    /\ Finish(w)
    /\ UNCHANGED <<World, drawn, historyVars>>

Cleaner(w) == CleanerTick(w) \/ CleanerReap(w) \/ CleanerPrune(w)

----------------------------------------------------------------------------
(* What else happens. *)

\* Mutant: an error of the transaction is taken for an answer.
LoseAnswersNil(a) ==
    /\ "Lose" \in workload.does
    /\ faults < MaxFaults
    /\ ~Idle(a)
    /\ faults' = faults + 1
    /\ Abandon(a)
    /\ acked' = IF At(a, "click.Commit")
                THEN [acked EXCEPT ![calls[a].code] = @ + 1] ELSE acked
    /\ UNCHANGED <<db, clock, drawn, workload, doubt>>

\* A connection is lost, or its replica is.  The server rolls back, unless
\* the COMMIT had reached it and only the answer is lost.
Lose(a) ==
    /\ "Lose" \in workload.does
    /\ faults < MaxFaults
    /\ ~Idle(a)
    /\ faults' = faults + 1
    /\ Abandon(a)
    /\ \/ UNCHANGED <<db, doubt>>
       \/ /\ At(a, "click.Commit")
          /\ db' = Clicked(a)
          /\ doubt' = [doubt EXCEPT ![calls[a].code] = @ + 1]
    /\ UNCHANGED <<clock, drawn, workload, acked>>

Tick ==
    /\ "Tick" \in workload.does
    /\ clock < MaxClock
    /\ clock' = clock + 1
    /\ UNCHANGED <<db, calls, drawn, faults, workload, historyVars>>

Scan(a) == \E c \in Codes : ScanRow(a, c)
Victim(a) == \E b \in Actors : DeadlockVictim(a, b)

Calls(p) ==
    \/ "Set" \in workload.does /\ \E c \in workload.codes : Set(p, c)
    \/ "Delete" \in workload.does /\ \E c \in workload.codes : Delete(p, c)
    \/ "RotateToken" \in workload.does /\ \E c \in workload.codes : RotateToken(p, c)
    \/ "Update" \in workload.does /\ \E c \in workload.codes : Update(p, c)
    \/ "RecordClick" \in workload.does /\ RecordClick(p)
    \/ "CreateAPIKey" \in workload.does /\ CreateAPIKey(p)
    \/ "LookupAPIKey" \in workload.does /\ (LookupAPIKey(p) \/ LetGo(p))
    \/ "DeleteAPIKey" \in workload.does /\ DeleteAPIKey(p)

PostgresNext ==
    \/ \E p \in Sessions : Calls(p)
    \/ \E w \in Cleaners : Cleaner(w)
    \/ \E a \in Actors : Scan(a) \/ Victim(a) \/ Lose(a)
    \/ Tick

PostgresSpec == PostgresInit /\ [][PostgresNext]_postgresVars

\* What a session that has begun goes on to do.
Proceed(p) ==
    \/ ClickCount(p) \/ ClickCommit(p)
    \/ RevokeUnbound(p) \/ RevokeDrop(p) \/ RevokeCommit(p)
    \/ LetGo(p)

\* Statements run on, the ticker fires, the server resolves deadlocks and
\* grants a row to those who wait for it in turn, so that nobody is passed
\* over for ever; time passes.  Nobody has to call.
PostgresFairness ==
    /\ \A p \in Sessions : WF_postgresVars(Proceed(p))
    /\ \A w \in Cleaners : WF_postgresVars(Cleaner(w))
    /\ \A a \in Actors : SF_postgresVars(Scan(a))
    /\ WF_postgresVars(\E a \in Actors : Victim(a))
    /\ WF_postgresVars(Tick)

FairPostgresSpec == PostgresSpec /\ PostgresFairness

----------------------------------------------------------------------------
\* storage_postgres.go:313: counter and event log stay in sync with any
\* number of replicas clicking, deleting, reaping and pruning the same link.
CountMatchesClicks == CountsMatch(db)

\* READ COMMITTED is fine because the increment is not a read-modify-write:
\* no answered click is lost, no click is counted twice, and only a commit
\* whose answer was lost counts without one.
ClicksAccounted ==
    \A c \in Codes : HasLink(db, c) => db.urls[c].ClickCount = acked[c] + doubt[c]

\* The third backend keeps the promise of LinkLifecycle too.
Lifecycle ==
    INSTANCE LinkLifecycle WITH
        link <- [c \in Codes |->
                   IF HasLink(db, c)
                   THEN [owner |-> db.urls[c].OwnerTokenHash, clicks |-> db.urls[c].ClickCount]
                   ELSE [owner |-> 0, clicks |-> 0]]

PostgresImplementsLifecycle == Lifecycle!LifecycleSpec

\* Every call returns and every cleanup goroutine comes back to its ticker:
\* deadlocks between a revocation and a cleanup end one statement, not the
\* goroutine, and whoever waits for a row gets it.
NobodyWaitsForever == \A a \in Actors : []<>Idle(a)
==============================================================================
