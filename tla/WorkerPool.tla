------------------------------ MODULE WorkerPool ------------------------------
(***************************************************************************)
(* The bounded queue and worker pool that services.WebhookDispatcher and   *)
(* services.Unfurler both are: a buffered channel, goroutines that range   *)
(* over it, an Enqueue that never blocks and a Close that drains.          *)
(*                                                                         *)
(* Every job is submitted once, by a goroutine of its own, so a job also   *)
(* names the goroutine that submits it.  What a worker does with a job is  *)
(* left to the module that extends this one.                               *)
(***************************************************************************)
EXTENDS Naturals, Sequences, FiniteSets

CONSTANTS
    Jobs,
    Workers,
    QueueSize,
    NoJob

VARIABLES
    queue,     \* the channel's buffer
    closed,    \* close(queue) has run
    stopped,   \* the flag Enqueue looks at
    sender,    \* Jobs -> where its Enqueue call is, or how it ended
    hands,     \* Workers -> the job being handled, NoJob between jobs
    exited,    \* workers that have left their loop
    closer     \* where the Close call is

poolVars == <<queue, closed, stopped, sender, hands, exited, closer>>

ASSUME PoolAssumption ==
    /\ QueueSize \in Nat \ {0}
    /\ Workers # {}
    /\ NoJob \notin Jobs

\* "panicked" is a send on a closed channel.
SenderPCs == {"idle", "checked", "accepted", "refused", "dropped", "panicked"}

Accepted == {j \in Jobs : sender[j] = "accepted"}

PoolInit ==
    /\ queue = <<>>
    /\ closed = FALSE
    /\ stopped = FALSE
    /\ sender = [j \in Jobs |-> "idle"]
    /\ hands = [w \in Workers |-> NoJob]
    /\ exited = {}
    /\ closer = "idle"

----------------------------------------------------------------------------
(* Enqueue: the flag is read first and the channel touched afterwards. *)

EnqueueCheck(j) ==
    /\ sender[j] = "idle"
    /\ sender' = [sender EXCEPT ![j] = IF stopped THEN "refused" ELSE "checked"]
    /\ UNCHANGED <<queue, closed, stopped, hands, exited, closer>>

EnqueueSend(j) ==
    /\ sender[j] = "checked"
    /\ ~closed
    /\ Len(queue) < QueueSize
    /\ queue' = Append(queue, j)
    /\ sender' = [sender EXCEPT ![j] = "accepted"]
    /\ UNCHANGED <<closed, stopped, hands, exited, closer>>

\* Mutant: a dropped job is reported as accepted.
EnqueueDropTrue(j) ==
    /\ sender[j] = "checked"
    /\ ~closed
    /\ Len(queue) = QueueSize
    /\ sender' = [sender EXCEPT ![j] = "accepted"]
    /\ UNCHANGED <<queue, closed, stopped, hands, exited, closer>>

EnqueueDrop(j) ==
    /\ sender[j] = "checked"
    /\ ~closed
    /\ Len(queue) = QueueSize
    /\ sender' = [sender EXCEPT ![j] = "dropped"]
    /\ UNCHANGED <<queue, closed, stopped, hands, exited, closer>>

\* A select does not save a send on a closed channel.
EnqueuePanic(j) ==
    /\ sender[j] = "checked"
    /\ closed
    /\ sender' = [sender EXCEPT ![j] = "panicked"]
    /\ UNCHANGED <<queue, closed, stopped, hands, exited, closer>>

Enqueue(j) == EnqueueCheck(j) \/ EnqueueSend(j) \/ EnqueueDrop(j) \/ EnqueuePanic(j)

----------------------------------------------------------------------------
(* worker: range over the channel. *)

Take(w) ==
    /\ w \notin exited
    /\ hands[w] = NoJob
    /\ queue # <<>>
    /\ hands' = [hands EXCEPT ![w] = Head(queue)]
    /\ queue' = Tail(queue)
    /\ UNCHANGED <<closed, stopped, sender, exited, closer>>

\* Mutant: the loop ends as soon as the pool is told to stop.
ExitAtOnce(w) ==
    /\ w \notin exited
    /\ hands[w] = NoJob
    /\ stopped
    /\ exited' = exited \cup {w}
    /\ UNCHANGED <<queue, closed, stopped, sender, hands, closer>>

\* A closed channel is drained before the range ends.
Exit(w) ==
    /\ w \notin exited
    /\ hands[w] = NoJob
    /\ queue = <<>>
    /\ closed
    /\ exited' = exited \cup {w}
    /\ UNCHANGED <<queue, closed, stopped, sender, hands, closer>>

----------------------------------------------------------------------------
(* Close.  One goroutine calls it, once. *)

CloseSwap ==
    /\ closer = "idle"
    /\ stopped' = TRUE
    /\ closer' = "swapped"
    /\ UNCHANGED <<queue, closed, sender, hands, exited>>

\* Mutant: the channel is left open.
CloseForgetsChannel ==
    /\ closer = "swapped"
    /\ closer' = "waiting"
    /\ UNCHANGED <<queue, closed, stopped, sender, hands, exited>>

CloseChannel ==
    /\ closer = "swapped"
    /\ closed' = TRUE
    /\ closer' = "waiting"
    /\ UNCHANGED <<queue, stopped, sender, hands, exited>>

\* Mutant: Close waits for one worker only.
CloseReturnEarly ==
    /\ closer = "waiting"
    /\ exited # {}
    /\ closer' = "returned"
    /\ UNCHANGED <<queue, closed, stopped, sender, hands, exited>>

CloseReturn ==
    /\ closer = "waiting"
    /\ exited = Workers
    /\ closer' = "returned"
    /\ UNCHANGED <<queue, closed, stopped, sender, hands, exited>>

Close == CloseSwap \/ CloseChannel \/ CloseReturn

----------------------------------------------------------------------------

InQueue == {queue[i] : i \in 1..Len(queue)}
InHands == {hands[w] : w \in Workers} \ {NoJob}

PoolTypeOK ==
    /\ queue \in Seq(Jobs)
    /\ Len(queue) <= QueueSize
    /\ closed \in BOOLEAN
    /\ stopped \in BOOLEAN
    /\ sender \in [Jobs -> SenderPCs]
    /\ hands \in [Workers -> Jobs \cup {NoJob}]
    /\ exited \in SUBSET Workers
    /\ closer \in {"idle", "swapped", "waiting", "returned"}
===============================================================================
