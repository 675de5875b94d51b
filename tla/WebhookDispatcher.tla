-------------------------- MODULE WebhookDispatcher --------------------------
(***************************************************************************)
(* services/webhook.go: what a worker of the pool does with a click event. *)
(* The receiver and the network are external: each POST is answered well,  *)
(* refused for good (3xx, 4xx), or fails in a way worth trying again (5xx, *)
(* a timeout, a connection error).  The counters of Stats are the numbers  *)
(* of jobs with each outcome.                                              *)
(***************************************************************************)
EXTENDS WorkerPool

CONSTANT MaxAttempts   \* maxAttempts

VARIABLES
    tried,      \* Workers -> failed attempts at the job in hand
    outcome,    \* Jobs -> how its delivery ended
    \* History variables: nothing below reads them.
    posts,      \* Jobs -> POST requests made
    answered    \* jobs whose receiver has accepted or refused them

dispatchVars == <<tried, outcome, posts, answered>>

ASSUME DispatcherAssumption == MaxAttempts \in Nat \ {0}

Settled(j) == outcome[j] # "none"

DispatchInit ==
    /\ PoolInit
    /\ tried = [w \in Workers |-> 0]
    /\ outcome = [j \in Jobs |-> "none"]
    /\ posts = [j \in Jobs |-> 0]
    /\ answered = {}

\* deliver returns and the worker goes back to its loop.
Finish(w, result) ==
    /\ outcome' = [outcome EXCEPT ![hands[w]] = result]
    /\ hands' = [hands EXCEPT ![w] = NoJob]
    /\ tried' = [tried EXCEPT ![w] = 0]
    /\ UNCHANGED <<queue, closed, stopped, sender, exited, closer>>

Post(w) == posts' = [posts EXCEPT ![hands[w]] = @ + 1]

\* The URL does not parse or its host no longer validates.
RejectHost(w) ==
    /\ hands[w] # NoJob
    /\ tried[w] = 0
    /\ Finish(w, "failed")
    /\ UNCHANGED <<posts, answered>>

\* 2xx.
Delivered(w) ==
    /\ hands[w] # NoJob
    /\ Post(w)
    /\ answered' = answered \cup {hands[w]}
    /\ Finish(w, "sent")

\* Mutant: a refusal is retried like any failure.
RefusedRetried(w) ==
    /\ hands[w] # NoJob
    /\ Post(w)
    /\ answered' = answered \cup {hands[w]}
    /\ tried[w] + 1 < MaxAttempts
    /\ tried' = [tried EXCEPT ![w] = @ + 1]
    /\ UNCHANGED <<poolVars, outcome>>

\* 3xx and 4xx are not retried.
Refused(w) ==
    /\ hands[w] # NoJob
    /\ Post(w)
    /\ answered' = answered \cup {hands[w]}
    /\ Finish(w, "failed")

\* Mutant: one attempt too many.
RetryOnceMore(w) ==
    /\ hands[w] # NoJob
    /\ tried[w] + 1 <= MaxAttempts
    /\ Post(w)
    /\ tried' = [tried EXCEPT ![w] = @ + 1]
    /\ UNCHANGED <<poolVars, outcome, answered>>

\* A transient failure, with attempts left: back off and try again.
Retry(w) ==
    /\ hands[w] # NoJob
    /\ tried[w] + 1 < MaxAttempts
    /\ Post(w)
    /\ tried' = [tried EXCEPT ![w] = @ + 1]
    /\ UNCHANGED <<poolVars, outcome, answered>>

\* A transient failure of the last attempt.
Exhausted(w) ==
    /\ hands[w] # NoJob
    /\ tried[w] + 1 = MaxAttempts
    /\ Post(w)
    /\ Finish(w, "failed")
    /\ UNCHANGED answered

deliver(w) ==
    RejectHost(w) \/ Delivered(w) \/ Refused(w) \/ Retry(w) \/ Exhausted(w)

\* A step of the goroutine of worker w.
Worker(w) ==
    \/ (Take(w) \/ Exit(w)) /\ UNCHANGED dispatchVars
    \/ deliver(w)

DispatchTypeOK ==
    /\ PoolTypeOK
    /\ tried \in [Workers -> 0..MaxAttempts - 1]
    /\ outcome \in [Jobs -> {"none", "sent", "failed"}]
    /\ posts \in [Jobs -> 0..MaxAttempts]
    /\ answered \in SUBSET Jobs
===============================================================================
