------------------------------- MODULE Unfurler -------------------------------
(***************************************************************************)
(* services/unfurl.go with the rows it writes to: a link that has been     *)
(* created is fetched by a worker of the pool, and what the page says is   *)
(* written back to the row of the link's code.                             *)
(*                                                                         *)
(* The fetch takes seconds and holds no lock, so meanwhile the owner may   *)
(* patch or delete the link, and its code may be claimed again.  A job is  *)
(* named by the link whose creation submits it.  The destination sites are *)
(* external: a fetch yields the page at the URL or fails.                  *)
(*                                                                         *)
(* SIGTERM has the pool closed by a goroutine that nobody waits for        *)
(* (app.go); main meanwhile stops the server, closes the store and         *)
(* returns, and whatever is left in the queue or in hand is gone.          *)
(***************************************************************************)
EXTENDS WorkerPool

CONSTANTS
    Codes,
    URLs,
    NoRow,
    NoPreview,     \* the empty title, image and description
    MaxPatches,    \* bound: PATCHes that set a new destination
    MaxFaults      \* bound: store calls that fail

VARIABLES
    rows,      \* Codes -> the row, or NoRow
    request,   \* Jobs -> the Code and URL that the job carries, or NoRow
    fetched,   \* Workers -> what the fetch of the job in hand yielded
    patches,
    faults,
    process,   \* where main is
    attempt    \* Jobs -> how the attempt ended; history, read by properties only

rowVars    == <<rows, request, patches, faults>>
fetchVars  == <<fetched, attempt>>
unfurlVars == <<poolVars, rowVars, fetchVars, process>>

\* Born, the job that the row's creation submits, identifies the row.
Row == [URL : URLs, Preview : URLs \cup {NoPreview}, Stamped : BOOLEAN, Born : Jobs]

NotYet == [page |-> NoPreview, done |-> FALSE]

ASSUME UnfurlerAssumption ==
    /\ NoRow \notin Row \cup [Code : Codes, URL : URLs]
    /\ NoPreview \notin URLs
    /\ {MaxPatches, MaxFaults} \subseteq Nat

UnfurlInit ==
    /\ PoolInit
    /\ rows = [c \in Codes |-> NoRow]
    /\ request = [j \in Jobs |-> NoRow]
    /\ fetched = [w \in Workers |-> NotYet]
    /\ patches = 0
    /\ faults = 0
    /\ process = "serving"
    /\ attempt = [j \in Jobs |-> "none"]

\* When main returns every goroutine is gone.
Alive == process # "exited"

----------------------------------------------------------------------------
(* Handlers. *)

\* POST /api/shorten stores the link; its goroutine enqueues afterwards.
Shorten(j, c, url) ==
    /\ Alive
    /\ request[j] = NoRow
    /\ rows[c] = NoRow
    /\ rows' = [rows EXCEPT ![c] = [URL |-> url, Preview |-> NoPreview,
                                    Stamped |-> FALSE, Born |-> j]]
    /\ request' = [request EXCEPT ![j] = [Code |-> c, URL |-> url]]
    /\ UNCHANGED <<poolVars, fetchVars, patches, faults, process>>

Submit(j) ==
    /\ Alive
    /\ request[j] # NoRow
    /\ Enqueue(j)
    /\ UNCHANGED <<rowVars, fetchVars, process>>

\* PATCH /api/urls/{code} with a new URL: the preview stays as it is.
PatchURL(c, url) ==
    /\ Alive
    /\ patches < MaxPatches
    /\ rows[c] # NoRow
    /\ rows[c].URL # url
    /\ rows' = [rows EXCEPT ![c].URL = url]
    /\ patches' = patches + 1
    /\ UNCHANGED <<poolVars, fetchVars, request, faults, process>>

\* DELETE, or the cleanup goroutine.
Remove(c) ==
    /\ Alive
    /\ rows[c] # NoRow
    /\ rows' = [rows EXCEPT ![c] = NoRow]
    /\ UNCHANGED <<poolVars, fetchVars, request, patches, faults, process>>

----------------------------------------------------------------------------
(* fetch: doFetch, then Update. *)

Fetching(w) == hands[w] # NoJob /\ ~fetched[w].done
Fetched(w)  == hands[w] # NoJob /\ fetched[w].done

Yield(w, page) ==
    /\ Fetching(w)
    /\ fetched' = [fetched EXCEPT ![w] = [page |-> page, done |-> TRUE]]
    /\ UNCHANGED <<poolVars, rowVars, attempt>>

\* A 2xx answer with an HTML page.
FetchPage(w) == Yield(w, request[hands[w]].URL)

\* Mutant: a failed fetch ends the job there and then.
FetchFailsForGood(w) ==
    /\ Fetching(w)
    /\ hands' = [hands EXCEPT ![w] = NoJob]
    /\ attempt' = [attempt EXCEPT ![hands[w]] = "failed"]
    /\ UNCHANGED <<queue, closed, stopped, sender, exited, closer, rowVars, fetched>>

\* The host no longer validates, the request or the answer is no good, or
\* the page says nothing of itself: there is an empty preview to write.
FetchFails(w) == Yield(w, NoPreview)

\* Mutant: what a fetch yielded is not cleared before the next job.
DoneKeepsPage(w, how) ==
    /\ attempt' = [attempt EXCEPT ![hands[w]] = how]
    /\ hands' = [hands EXCEPT ![w] = NoJob]
    /\ UNCHANGED <<queue, closed, stopped, sender, exited, closer, request, patches, fetched>>

\* fetch returns, and the worker goes back to its loop.
Done(w, how) ==
    /\ attempt' = [attempt EXCEPT ![hands[w]] = how]
    /\ hands' = [hands EXCEPT ![w] = NoJob]
    /\ fetched' = [fetched EXCEPT ![w] = NotYet]
    /\ UNCHANGED <<queue, closed, stopped, sender, exited, closer, request, patches>>

\* The row that Update finds under the job's code.
Target(w) == request[hands[w]].Code

\* Update writes the three preview columns and preview_fetched_at.
UpdatePreview(w) ==
    /\ Fetched(w)
    /\ rows[Target(w)] # NoRow
    /\ rows' = [rows EXCEPT ![Target(w)] = [@ EXCEPT !.Preview = fetched[w].page,
                                                     !.Stamped = TRUE]]
    /\ Done(w, "stamped")
    /\ UNCHANGED faults

\* ErrNotFound: the link has been deleted since.
UpdateGone(w) ==
    /\ Fetched(w)
    /\ rows[Target(w)] = NoRow
    /\ Done(w, "gone")
    /\ UNCHANGED <<rows, faults>>

\* The store fails, as a closed database does, and the job is done all the
\* same.  The memory store goes on after its Close.
UpdateFails(w) ==
    /\ Fetched(w)
    /\ \/ process = "closed" /\ UNCHANGED faults
       \/ faults < MaxFaults /\ faults' = faults + 1
    /\ Done(w, "lost")
    /\ UNCHANGED rows

fetch(w) ==
    FetchPage(w) \/ FetchFails(w) \/ UpdatePreview(w) \/ UpdateGone(w) \/ UpdateFails(w)

\* A step of the goroutine of worker w.
UnfurlWorker(w) ==
    /\ Alive
    /\ \/ (Take(w) \/ Exit(w)) /\ UNCHANGED <<rowVars, fetchVars>>
       \/ fetch(w)
    /\ UNCHANGED process

----------------------------------------------------------------------------
(* SIGTERM. *)

\* The goroutine that waits for the context to be cancelled; it closes the
\* webhook dispatcher first, so it may come late.
CloseUnfurler ==
    /\ Alive
    /\ process # "serving"
    /\ Close
    /\ UNCHANGED <<rowVars, fetchVars, process>>

MainMoves(from, to) ==
    /\ process = from
    /\ process' = to
    /\ UNCHANGED <<poolVars, rowVars, fetchVars>>

CancelContext == MainMoves("serving", "stopping")

\* The drain window is over and server.Shutdown has returned, if only
\* because its time was up.
CloseStore == MainMoves("stopping", "closed")

MainReturns == MainMoves("closed", "exited")

----------------------------------------------------------------------------

UnfurlNext ==
    \/ \E j \in Jobs, c \in Codes, url \in URLs : Shorten(j, c, url)
    \/ \E j \in Jobs : Submit(j)
    \/ \E c \in Codes, url \in URLs : PatchURL(c, url)
    \/ \E c \in Codes : Remove(c)
    \/ \E w \in Workers : UnfurlWorker(w)
    \/ CloseUnfurler
    \/ CancelContext
    \/ CloseStore
    \/ MainReturns

UnfurlSpec == UnfurlInit /\ [][UnfurlNext]_unfurlVars

\* A request that has been stored goes on to Enqueue, workers and the closer
\* keep running, every fetch ends (the client has a timeout), and so does
\* every Update: for as long as the process runs.  Nobody signals, and main
\* may take any time.
FairUnfurlSpec ==
    /\ UnfurlSpec
    /\ \A j \in Jobs : WF_unfurlVars(Submit(j))
    /\ \A w \in Workers : WF_unfurlVars(UnfurlWorker(w))
    /\ WF_unfurlVars(CloseUnfurler)

----------------------------------------------------------------------------
(* Properties. *)

\* unfurl.go:149, openapi.yaml:958: the attempt at every job that was
\* accepted is stamped on the row of its link, also if the fetch failed, and
\* also if Close came while the job was queued; unless the link is gone by
\* then, the store fails or has been closed, or the process ends first.
AttemptsAreStamped ==
    \A j \in Jobs :
        sender[j] = "accepted" ~>
            \/ \A c \in Codes : rows[c] # NoRow /\ rows[c].Born = j => rows[c].Stamped
            \/ attempt[j] = "lost"
            \/ process = "exited"

\* unfurl.go:168: a late answer puts no other code's page on a row, nor one
\* that nobody asked for: a preview was fetched by a job that was accepted for
\* this code, at the URL that job carried, and a row that no attempt was
\* stamped on shows none.  The job may be that of an earlier link of the code,
\* and its URL one that has been patched since.
LateAnswersFit ==
    \A c \in Codes :
        rows[c] # NoRow /\ rows[c].Preview # NoPreview =>
            /\ rows[c].Stamped
            /\ \E j \in Accepted :
                  /\ attempt[j] = "stamped"
                  /\ request[j] = [Code |-> c, URL |-> rows[c].Preview]
===============================================================================
