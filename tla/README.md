# tiny-url in TLA+

A TLA+ model of the link shortener in this repository: what it promises about a
short code, the three stores that keep the promise (in memory, SQLite,
Postgres), the handlers while they interleave, what stands in front of a
redirect (rate limiter, DNS cache) and what follows one (event streams,
webhooks), the link unfurler, and what SIGTERM and crashes do to them. TLC
checks small instances; TLAPS proves the main results for every instance.

## The system

One process. `net/http` runs every request on its own goroutine; the handlers
share a store and a few in-process services, each with its own lock. Nothing
holds a lock across two calls, so every handler is a sequence of store calls
that other handlers, the cleanup goroutine and the clock come between.

| Component | State | Operations | Hard because |
|---|---|---|---|
| Memory store, `services/storage.go` | rows by code, event ring per code, API keys, audit ring, ID counters | Set, Get, Delete, RotateToken, Update, RecordClick, key operations, LogAudit, cleanupExpired | atomic one by one; callers need two or three of them to be consistent |
| Shorten, `handlers/shorten.go` | locals | key lookup, Exists, Set, audit | Exists and Set are two calls |
| Redirect, `handlers/redirect.go` | locals | Get, cap and password checks, DNS, RecordClick, Publish, Enqueue | checks a snapshot, writes after a slow lookup |
| Patch, `handlers/patch.go` | locals | Get, authorise, Update, Get, audit | builds its payload from a snapshot; the second Get can fail |
| Rotate, delete, `handlers/rotate.go`, `delete.go` | locals | Get, authorise, write, audit | the write names the row by code only |
| API keys, `handlers/apikey.go` | locals | create, list, relabel, revoke | a key dies under requests that carry it |
| Authorisation, `handlers/auth.go` | none | authorizeOwner, authorizeAccess, resolveActor | the actor is looked up after the change |
| Webhook dispatcher, `services/webhook.go` | bounded channel, flag, workers | Enqueue, Close, deliver | senders race Close, retries race shutdown |
| Start-up, shutdown, `main.go`, `app.go` | one context, server | SIGTERM, drain, Shutdown, exit | three parties react to one cancellation |
| SQLite store, `services/storage_sqlite.go`, `storage_sqlite_apikey.go` | one file, one write lock, a pool of connections | the store interface, start-up with its added columns, cleanup and retention, Close | crash between two statements, busy timeouts, early returns inside a transaction |
| Postgres store, `services/storage_postgres.go`, `storage_postgres_apikey.go` | one database under any number of replicas | the same | READ COMMITTED, row locks in different orders, a connection lost during COMMIT |
| Unfurler, `services/unfurl.go` | as the dispatcher | Enqueue, fetch, late Update | writes a preview to a row that may be another link's by then |
| Click stream, `services/clickstream.go`, `handlers/stream.go` | subscribers by code, each with a buffer | Subscribe, Publish, Close, the event loop | sends to a snapshot of subscribers that stall, close and leave |
| DNS cache, `services/dnscache.go` | verdicts with expiry | ValidateHost, evict | looks up outside the lock |
| Rate limiter, `middleware/ratelimit.go` | bucket per IP | Middleware, janitor | the janitor's look and its Delete are two steps, and so are finding a bucket and counting in it |
| Read handlers, bulk shorten, pure helpers, other middleware, dashboard | none, or read-only | | |

How they meet: handlers call the store and each other's helpers; a redirect
passes the limiter and the host check first, and one that recorded its click publishes to the click stream and enqueues to the
dispatcher; a created link is enqueued to the unfurler, which writes back to the
store; the cleanup goroutine deletes rows on a ticker; SIGTERM cancels a
context that main, the dispatcher's closer, the cleanup goroutine and the
limiter's janitor watch.

What makes each correct is in the tables below; the hazards, with their lines,
are in `PROJECT.json`.

## Modules

`MemoryStore` is state and one operator per store method. `Requests` is what
handlers share: the goroutines `Procs`, their locals `req[p]`, credentials, the
final audit write. `ShortenHandler`, `RedirectHandler`, `PatchHandler`,
`OwnerHandlers` and `APIKeyHandler` each have one action per store call;
whatever a handler does between two store calls only touches its own locals and
belongs to the action of the first of them. `LinkService` composes them with
the cleanup goroutine and the clock (`app.go`'s wiring) and states the
properties. `LinkLifecycle` is the abstract promise: a code is free or a link
with one owner token and a click count, can be claimed only when free and under
a fresh token, is re-keyed only to a fresh token, and is clicked one at a time.

`WorkerPool` is the bounded channel, its workers, Enqueue and Close: the flag is
read in one step and the channel touched in the next. `WebhookDispatcher` adds
`deliver` and its retries. `Shutdown` puts them between redirects and
`main`/`buildHandler`: `Signal` is SIGTERM, `CloseOnDone` the goroutine of
app.go:57, `Main` the sequence main.go:109-135. `Unfurler` uses the same pool
for jobs that fetch a page and write it to the row of their code, beside owners
who patch, delete and claim anew. It has main's end of a shutdown too: nobody
waits for the goroutine that closes the pool (`CloseUnfurler`), so `CloseStore`
may come while workers still have jobs, whose updates then fail, and
`MainReturns` ends every goroutine at once.

`SQLTables` is what the SQL backends have in common: the tables, and each
statement as a function on a database. `SQLiteStore` runs them over one write
lock (`journal`, the uncommitted database, and whose it is), lets
readers see the committed database, and lets a statement fail, a waiter run
into busy_timeout, SIGTERM close the pool and the process die between any two
statements; `AddColumn` and `Open` are the start, one ALTER TABLE at a time.
`PostgresStore` runs them at READ COMMITTED: a statement locks the rows it
writes one by one and looks at them again once it has them, waiters queue per
row, the server fails one of a deadlocked pair, connections are lost, also with
the answer to COMMIT, and every replica has a cleanup goroutine. Both instantiate
`LinkLifecycle` and are checked to implement it, as `LinkService` is. What
retention keeps (`Kept`) is defined by the ranks of the events kept, which
proofs can reason about, and not by a recursive selection.

`GateClock` is the clock shared by `RateLimiter` and `DNSCache`;
`RedirectGate` puts the two in the order a redirect meets them. `ClickStream` is
the registry of subscribers, `StreamService` the handler of an event stream and
the redirects that publish.

`MCLinkService`, `MCShutdown`, `MCPostgresStore` and `MCRedirectGate` hold what
instances need. The theorems about a module are in its `...Proofs`;
`WorkerPoolProofs` has those of both users of the pool, `Shutdown` and
`Unfurler`, and `SQLTablesProofs` the lemmas that both SQL backends rest on. Operators marked *Mutant* in a comment are plausible bugs that show
the properties can fail; nothing in a specification uses them.

### Correspondence

| In the model | In the code |
|---|---|
| `urls[c]`, `events[c]`, `apiKeys`, `audit` | the maps and rings of MemoryStore |
| `NoRow`, `Keep` | a missing map entry; a nil pointer in UpdateFields |
| a hash or secret, `Nat`, 0 for none | SHA-256 of a token; tokens are equal exactly when hashes are |
| `minted` | `crypto/rand`: a value never drawn before |
| `req[p].pc` | the store call the handler makes next |
| `req[p].snap` | the `*URLMapping` a Get returned, a copy |
| `clock`, `Tick` | `time.Now()`, in ticks |
| `capBase`, `recorded`, `published`, `enqueued` | history, read by properties only |
| `sender[j]`, `hands[w]`, `closer` | the goroutine in Enqueue, in deliver, in Close |
| `process` | main: before SIGTERM, in the drain and server.Shutdown, past store.Close, returned |
| `posts`, `answered` | history of what a receiver saw |
| `db`, `journal` | the committed file; the transaction under way in it |
| `calls[p]` | a goroutine's store call: the statement it runs next |
| `phase`, `migrated`, `cleaner` | the process, its ALTER TABLEs done, its cleanup goroutine |
| `acked`, `doubt` | history: clicks that were answered; clicks committed and never answered |
| `Born`, `BoundTo` in a row, `Pruned` | history: whose creation made the row, the key it was created under; clicks that retention took |
| `buckets`, `heap` | the limiter's map; the bucket objects, which requests hold by pointer, each named by the request that made it |
| `admitted`, `window`, `born` | history: when a request passed the limiter; the bucket and the window it counted in; when a bucket went into the map |
| `data`, `checks[r]` | the cache's entries; a ValidateHost in progress |
| `lastTrue` | history: until when a verdict on a host was right |
| `sub[s].ch` | a subscriber's channel |

Abstractions worth knowing:

- Get reads `time.Now()` just after it has released its lock; the model does
  both in one step. Likewise an expiry computed from `now` is written in the
  step that computes it.
- Validation (URL syntax, deny list, custom code rules, body size) is a possible
  refusal of any request that has not been accepted yet. In PATCH it may refuse
  at any point before the update, and authorisation and payload are one step.
- A token drawn by a request that loses its code is never shown to anyone and is
  not counted.
- Only bearers that could matter are presented: none, or the token of a live row
  or key once its response has gone out. A dead token is refused where a missing
  one is.
- The audit record of an `admin_token` has actor 0; labels, `LastUsedAt`, tags,
  previews and destination lists are left out.
- A cleanup tick that finds nothing does nothing and is not a step.
- Close is called once: `app.go` has one caller, and a second call returns at
  once.
- The counters of `Stats` are the numbers of events with each outcome.
- A column that no property tells apart (tags, previews, webhook, password) is
  not in the SQL rows; an UPDATE of such columns alone leaves the row as it is.
- SQLite and Postgres themselves are external: locks, WAL, rollback at
  reconnect, deadlock detection are modelled as the stores rely on them.
- In Postgres, cleanup's DELETE of old events takes no locks on them, and a
  click's INSERT of its event and COMMIT are one step: an INSERT that fails leaves
  what a connection lost there leaves, which the model has.
- The unfurler's fetch returns the page at the URL or fails; redirects, size
  limits and the HTML parser belong to that answer.
- A host resolves to public addresses, to some that are not, or to none; a
  destination was public when its link was created, because creation checks it.
- Which of its destinations a redirect picks is a free choice among those with a
  positive weight.

## Runs

| Run | Instance | Shows |
|---|---|---|
| `clicks` | 1 code, 3 goroutines, 5 requests, rings of 2, cap 1 re-capped to 0, 1 or 2 | `TypeOK`; `OvershootBounded`: a cap is overshot by fewer clicks than there are requests in flight; `LedgerAgrees`: the count of a link and its log agree while nothing expires |
| `expiry` | 1 code, 2 goroutines, 3 requests, 3 ticks, every endpoint, fairness | `FanOutFollowsRecord`: streams and webhooks only see recorded clicks; `WebhookPaired`: URL and secret come and go together; `RequestsComplete`; `ExpiredReaped`; `AuditedOrUnread`: a change goes unaudited only where a PATCH cannot read its row back |
| `owner` | 2 codes, 2 goroutines, 4 requests, 3 ticks, no PATCH | `ImplementsLifecycle`: the refinement; `RevokedKeysStayDead`: key IDs are not given out again; `AuditRing`: the newest audit events; `LogCoversCount`: the log is never short of the count; `ActorsAttributed`: a change is charged to the credential that authorised it |
| `webhook` | 2 events, 2 workers, queue of 1, 3 attempts, fairness | `TypeOK`, `OnePlace`, `PostsAreRetries`, `DrainedWhenClosed`, `AcceptedSettle`, `CloseReturns`, with SIGTERM at any moment |
| `sqlite` | 1 code, 2 sessions, 4 workloads, retention 1, pages of 1, 3 ticks, 1 crash or shutdown, fairness | `CountMatchesClicks`: count and events are written together or not at all; `ClicksDurable`: an answered click survives a crash and a failed one is not counted; `BindingsKeepTheirKey`, `RevocationAtomic`: a revocation under way, interrupted or beside a claim; `CleanupTakesOnlyTheOld`; `PageHoldsNewest`; `LockReleased`: no path keeps the write lock; `Reopens`: an interrupted migration is taken up again; `SQLiteImplementsLifecycle` |
| `postgres` | 2 codes, 2 sessions, 1 cleaner, 3 ticks, 1 lost connection, fairness | `CountMatchesClicks` and `ClicksAccounted` without a global lock; `NobodyWaitsForever`: row locks and deadlocks resolve; `PostgresImplementsLifecycle` |
| `unfurl` | 2 codes, 2 links, 2 workers, queue of 1, 2 patches, 1 failing store call, SIGTERM and the end of the process, fairness | `LateAnswersFit`: a late answer puts no other code's page on a row, and none that nobody asked for; `AttemptsAreStamped`: an accepted job is recorded as attempted, through failed fetches and Close, unless its link is gone, the store fails or is closed, or the process ends |
| `edge` | a burst: 4 requests of 1 address, rate 1, window of 2 ticks, 8 ticks; a crowd: 2 addresses, 2 hosts, cache of 1, TTL 1, 1 change of DNS, 2 ticks | `AdmissionBounded`: what windows that touch, dropped buckets and late sweeps add up to; `RefusedOnlyWhenSpent`: nobody is turned away early; `VerdictsFresh`: no redirect on a verdict older than the TTL |
| `stream` | 1 code, 3 clicks, 2 clients, buffers of 1, 2 claims, fairness | `SubscribersHear`: every click once or one's own buffer full; `PublishersFinish`: a stalled client holds up no redirect; `LeaversForgotten` |

and three where the code does not do what its comments say:

| Run | Counterexample |
|---|---|
| `drift` | a link is clicked, expires and is reaped with its log left behind; its code is claimed again and the new link has clicks in its log and none in its count (`LedgerAgrees`; storage.go:27 says count and log must not drift) |
| `stale_secret` | a PATCH of the webhook URL writes back the secret of its snapshot over one rotated meanwhile (patch.go:222) |
| `closed_channel` | Enqueue has read the flag, Close closes the channel, Enqueue sends on it and panics (webhook.go:140) |

### Bounds

Handlers interact through one code, so one code shows their races; two are
there where codes must be kept apart (owner tokens, keys bound to rows, row
locks taken in different orders). Two goroutines make every window between two
store calls of a handler reachable by each other handler. The cap needs three:
the overshoot grows with the goroutines, and two would not tell
`Cardinality(Procs)` from a constant. A behaviour needs a create, the request
under test and one that gets in its way, plus one to set up (a key, a second
create): `MaxRequests` is 3 to 5. Three ticks let a link that lives for one
expire, be reaped and be claimed again. Rings of two both wrap: in `owner`
four requests are a claim and three clicks (`LogCoversCount`) or four audited
changes (`AuditRing`), and in `clicks` a third click, past the cap or after a
PATCH has removed it, pushes out the first (`LedgerAgrees`). `owner` sends no PATCH,
so that `ActorsAttributed` is checked there on deletes and proved for both;
PATCH beside every other handler is what `expiry` has. One queue slot
with two events reaches a full queue; two workers are needed for one to leave
its loop while the other still works.

The SQL runs do not mix every method with every other in one instance: a
behaviour draws one of `Workloads`, the methods that may be called in it. Each
workload holds methods that touch the same columns (count and events, life and
token, key and binding) with what can disturb them, so that three draws, one
click at a time per link and one fault reach the cases; a second fault finds the
same committed states as the first. Retention of one tick and links that live
for one make cleanup take clicks of a live link and whole links.

In `edge` a burst of one address whose links lead nowhere (the limiter) and two
clients whose links are followed (the cache) are separate `Traffic`.
Four requests at rate 1 in eight ticks reach three buckets within a window of
two ticks: one that a late sweep drops, one that the next sweep drops in time,
and one more. A fifth admission there would need more requests than TLC can
explore; the theorem covers it. A cache of one entry must evict for a second
host. A request is in the limiter for microseconds, a window is a
minute: `Tick` waits for a request that is already a tick behind there
(`Lagging`), and a window has two ticks or more (`LimiterAssumption`), so that a
tick can stand for any time up to half a window; a host lookup may take as long as it likes. Buffers of one place
fill with the second click, the third comes after one has left. With one code in
`stream`, that a subscriber hears of no other code's clicks is the theorem's to
say (`EverySubscriberHears`): two codes are more than TLC can explore.

Clients may stop sending requests and the process may end, so
`CHECK_DEADLOCK FALSE`: a rest state is not an error. Goroutines, codes, events
and workers are interchangeable and `SYMMETRY` says so where no liveness is
checked.

### Fairness

`LinkService`: a handler that has begun keeps running (the Go scheduler), the
cleanup ticker keeps firing, time passes. No request need arrive.
`Shutdown`: the goroutines of requests, workers and the closer keep running, and
every POST ends because the client has a timeout. Nothing forces SIGTERM and
nothing forces `main` on, since a process that ends would keep the liveness
properties in a trivial way.
`SQLiteStore`: a call that has begun, the cleanup goroutine, a start and a
shutdown go on, time passes; nobody has to call, to stop or to start the
program, and a crash is never due.
`PostgresStore`: the same, and strong fairness on getting a row (`Scan`):
Postgres hands a row lock to its waiters in turn, so nobody is passed over for
ever; the server breaks each deadlock.
`Unfurler`, `StreamService`: goroutines that have work run on as long as the
process does, and every fetch ends by its timeout; SIGTERM need not come, and
once it has, main may return at any moment, early or never; a client of a stream need neither read nor leave.
`RedirectGate` states no liveness.

## Theorems

All are checked by TLAPS for any number of codes, goroutines, events,
workers, sessions, requests and hosts and any capacities, from the assumptions named in the modules
(`...Assumption`), which TLC evaluates in every run.

| Theorem | Argument |
|---|---|
| `LinkServiceProofs!TypeCorrect` | `TypeOK` is inductive, one lemma per handler. `Request` ties each label to the locals it needs, so that a snapshot is a row wherever a handler reads it. |
| `LinkServiceProofs!AuditRingHolds`, `LogNeverShort`, `KeysStayDead` | Facts about the store's own operators, lifted: every service step is a store step or leaves the store alone (`ServiceUsesStore`). `KeyIDsGiven` (key IDs do not exceed the counter) strengthens the last. |
| `LinkServiceProofs!CapOvershoot` | `OvershootBounded` is not inductive: a redirect between check and record has already been counted against the cap. `CapHeadroom` counts it: clicks plus the redirects under way that passed the check stay below the allowance plus the number of goroutines. |
| `LinkServiceProofs!WebhooksPaired` | `WebhookPaired` speaks of rows and says nothing of what is on its way to Update. `PayloadsPaired`: a payload leaves the URL alone, removes it, or brings a secret along; then it keeps any paired row paired, not only the one it was computed from. |
| `LinkServiceProofs!FanOutInOrder` | `FanOutCovered` turns the inequalities into equations: what was recorded and is not published yet is exactly the redirects between these two calls, and the same for publish and enqueue. |
| `LinkServiceProofs!ChangesHaveActors` | The actor is looked up after the change, so what an entry says depends on what the handler checked before. `ActorInv`: a handler past its authorisation still carries a bearer that opens the link of its snapshot, as its owner or as the key the link was bound to (`Entitled`), also when that key is gone by now, because a token is drawn once (`KeyTokensDrawn`) and an ID given once (`KeyIDsGiven`). No other key can then be found under it. |
| `LinkServiceProofs!OnlyPatchGoesUnaudited` | An action property, `AuditedOrUnread`: each step that ends a request which changed something writes an audit event, or is the re-read of a PATCH on a row that is gone or has expired. |
| `LinkServiceProofs!LedgerNeverDrifts` | `LedgerAgrees` under the assumption `NoLifetimes`: clients ask for no expiry. Expiry is what makes count and log drift (run `drift`: cleanup leaves the log behind), so the assumption cannot go. `NothingExpires` also covers the payloads of PATCHes under way, and `LedgerKept` says of a code without a row what the property does not: its log is empty. |
| `LinkLifecycleProofs!OwnersStayDistinct`, `TokensStayRetired` | Owner tokens do not exceed `drawn`; a new one does. |
| `LinkServiceProofs!ServiceImplementsLifecycle` | Every handler step maps to an abstract step or a stutter. `OwnerKnown` (no row has an empty owner) is needed: an empty owner would read as a free code. |
| `LinkServiceProofs!ServiceTokensRetire` | The two lifecycle theorems, through the refinement. |
| `WorkerPoolProofs!TypeCorrect`, `AcceptedInOnePlace`, `CloseDrains`, `PostsOnlyRetry` | One inductive invariant. `AttemptsCounted` links a worker's attempt counter to the posts of the event in its hands; `LoopsEndDrained` says that a worker leaves its loop only from a closed and empty queue. |
| `WorkerPoolProofs!PreviewsHaveJobs` | `LateAnswersFit`, from `UnfurlInv`: a job is in one place and attempted once (`AttemptedOnce`), and what a worker has fetched is the page at the URL its job carries (`FetchesFit`). Without the first a job could be stamped twice and the second answer overwrite a row claimed since. |
| `RedirectGateProofs!VerdictsStayFresh` | `CacheInv`: the verdict a lookup carries was right at or after the time it read the clock, which is before the lookup, and an entry expires TTL from that time. It then holds for the slower of two lookups and for whoever reads the entry last. |
| `RedirectGateProofs!NobodyRefusedEarly` | `LimiterInv`: the count of a bucket in use is covered by the requests admitted in its window (`CountsCovered`), and a bucket counts for the address that made it (`BucketsOwned`), also when it is no longer in the map. |
| `RedirectGateProofs!AdmissionsAddUp` | `AdmissionInv`: the janitor drops a bucket no sooner than a window after it was born (`JanitorFits`), so a client's buckets are born a window apart, and whoever still counts in an older one came before the next was born (`Succession`); windows of one bucket are more than a window apart (`WindowsApart`), each lets in `Rate` requests at most (`WindowsHold`), and an admission lies within its window but for a tick (`WindowsFit`). The rest is arithmetic on a stretch of a window's length: four buckets do not fit into it, nor three windows of one bucket, nor two windows of the last of three buckets. |
| `SQLiteStoreProofs!ClicksSurvive`, `BindingsStay` | `StoreInv`: `LockKept` (who is inside a transaction holds the lock), `JournalFollows` (how an uncommitted database differs from the committed one, by the statement its owner has reached), `RowsTold` and `KeysTold` (clicks and keys seen by callers). Needed because a commit replaces `db` by `journal` as a whole: the property of `db` after it is about what the journal was allowed to hold. |
| `SQLiteStoreProofs!CountsAndEventsAgree` | `LogInv`: at each statement of a click's transaction the journal's events are the committed ones, or those and the click (`LogPending`). What retention takes is counted with `Kept`, for which `KeptEvents` shows that a part of a sequence is a sequence no longer than the whole. |
| `SQLiteStoreProofs!CleanupTakesOld` | From `LogInv`: the cleanup goroutine works with the time of a tick that has been (`CleanerTimed`), so that what it takes is old by then however late it runs. |
| `SQLiteStoreProofs!RevocationIsAtomic`, `SQLiteImplements` | `StepEffect`: every step leaves the committed database alone or is the effect of one method on it. |
| `PostgresStoreProofs!ReplicasCountRight`, `EveryClickAccounted` | `PgInv`: a row locked by a transaction exists and is locked by no other (`LocksHeld`). A click's INSERT of the event and its UPDATE of the count are one commit, on a row that nobody can have deleted in between. |
| `PostgresStoreProofs!PostgresImplements` | From `PgInv`, with the same lemmas about `SQLTables` as the SQLite refinement (`LinksStep`). |
| `StreamServiceProofs!EverySubscriberHears` | `StreamInv`: a client that is owed a click is still to be reached by its Publish, was too slow for it or has it (`OwedTo`), and who has it is no longer to be reached (`HeardBy`), so nothing is sent twice. `HandlersFit` ties the registry to where each handler is. |

Only model-checked: the liveness properties (`RequestsComplete`,
`ExpiredReaped`, `AcceptedSettle`, `CloseReturns`, `LockReleased`, `Reopens`,
`NobodyWaitsForever`, `AttemptsAreStamped`, `PublishersFinish`,
`LeaversForgotten`), which TLAPS does not do under fairness, and
`PageHoldsNewest`, about what sorting computes, which is an induction over data.

The bound of `AdmissionBounded` comes from its proof, where three times the
rate could not be proved. That bound holds in every instance small enough to
explore and is false: with rate two, a window of two ticks and eight requests, a
bucket that the janitor has looked at admits a request that came in its old
window and two in a new one, the bucket that replaces it admits two, and two
more when its own window has ended: seven in one window's length.

## Divergences noted and not run

- models/url.go:18 says MaxClicks bounds the redirects; concurrent ones pass it
  by as much as `OvershootBounded` allows.
- models/url.go:20-21 says capped rows are reaped by the cleanup; it looks at
  ExpiresAt only.
- handlers/patch.go:45-46 says a cap is never instantly met; the count can rise
  between the check and the update.
- services/storage.go:38 orders events newest first; concurrent redirects stamp
  outside the lock that orders them, and the memory store does not sort.
  `PageHoldsNewest` is about the SQL backends, which do.
- services/storage.go:84-86 clears the bindings of a revoked key; a Set that
  looked the key up before still stores its ID.
- handlers/delete.go:68-69 attributes each delete to a credential; if the API key
  that authorised it is revoked before its actor is looked up, the entry says
  `anon`. `ActorsAttributed` states what does hold: nobody else is charged, and
  `anon` means that very key is gone.
- handlers/rotate.go:68 replaces the token by code: two rotations authorised by
  one token both succeed, the second over the first's new token. The abstract
  lifecycle allows a re-key of any live link, so nothing here forbids it.
- handlers/patch.go:272 reads the row again after its update; if that fails the
  answer is 500 and the change is never audited, so the history is not the
  complete one that models/audit.go:11-12 speaks of. `AuditedOrUnread` states
  what does hold: no other handler loses an event, nor PATCH in any other way.
- app.go:57 starts the goroutine that drains the dispatcher and then the
  unfurler, and main does not wait for it: accepted events and jobs can die with
  the process, and a preview can come after the store is closed.
  `AcceptedSettle` and `AttemptsAreStamped` hold while the process lives.
- services/unfurl.go has webhook.go's window between the flag and the channel.
- static/openapi.yaml:955 calls the preview that of the destination; after a PATCH,
  or when the code has been claimed anew, a late answer is another URL's.
- static/openapi.yaml:958 has `preview_fetched_at` set once an attempt was made; a
  dropped job or a failing Update leaves it null.
- services/unfurl.go asks for gzip itself, which turns Go's transparent
  decompression off.
- README.md:379 calls the limiter a token bucket; it is a fixed window, and more
  than the rate can pass in one window's length, though never more than five
  times (`AdmissionBounded`).
- README.md:373 says that every click looks the destination up again; the DNS
  cache reuses a verdict for up to its TTL (`VerdictsFresh`).
- handlers/stream.go looks the link up once: the stream goes on when the link is
  deleted and shows the clicks of whoever claims the code next. `: connected`
  is flushed before Subscribe, and a click between the two is missed.

## Not modelled

- The SQL stores' audit tables, label update, listings and aggregations: each is
  one statement, and nothing else reads what it writes.
- Postgres' migrations: `IF NOT EXISTS` throughout, on one connection.
- Bulk shorten: a loop of `ShortenHandler`'s requests whose API key was looked up
  earlier still; `RevokedKeysStayDead` and `BindingsKeepTheirKey` are about
  that gap.
- Read handlers: they authorise, read and format. Their one promise over time,
  the newest clicks, is `PageHoldsNewest`.
- Pure functions of one input: URL, alias and tag syntax, the deny list's suffix
  walk, drawing a short code, click bucketing. Nothing interleaves with them and
  the repository's table tests are the better tool.
- Two data races on rows that the memory store hands out by pointer
  (storage.go:464, apikey.go:165): the outcome is undefined by Go's memory model.
- A request whose authorisation and write fall on two links of one code
  (storage.go:236): the code promises nothing about it, so there is no property to
  check; the models do let it happen.
- Request logging, metrics, recovery, security headers, configuration, tracing,
  GeoIP, QR and badge rendering, static files, the password form, health,
  readiness, the dashboard: no state that a property is about, or a view of an
  external system.
