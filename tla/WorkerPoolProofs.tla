--------------------------- MODULE WorkerPoolProofs ---------------------------
(***************************************************************************)
(* Theorems about the two services that run on WorkerPool: the webhook     *)
(* dispatcher inside its process (Shutdown) and the unfurler, for any      *)
(* number of jobs, workers, codes and destinations, any queue and any      *)
(* number of attempts, PATCHes and store failures.                         *)
(***************************************************************************)
EXTENDS Shutdown, Unfurler, TLAPS

----------------------------------------------------------------------------
(* The buffer. *)

LEMMA InQueueAppend ==
    ASSUME queue \in Seq(Jobs), NEW j \in Jobs, queue' = Append(queue, j)
    PROVE  /\ InQueue' = InQueue \cup {j}
           /\ Len(queue') = Len(queue) + 1
           /\ \A i \in 1..Len(queue) : queue'[i] = queue[i]
           /\ queue'[Len(queue) + 1] = j
BY DEF InQueue

LEMMA InQueueTail ==
    ASSUME queue \in Seq(Jobs), queue # <<>>, queue' = Tail(queue)
    PROVE  /\ queue' \in Seq(Jobs)
           /\ Head(queue) \in Jobs
           /\ Head(queue) = queue[1]
           /\ Len(queue) \in Nat \ {0}
           /\ Len(queue') = Len(queue) - 1
           /\ \A i \in 1..Len(queue') : queue'[i] = queue[i + 1]
           /\ InQueue = InQueue' \cup {Head(queue)}
<1>1. /\ queue' \in Seq(Jobs)
      /\ Head(queue) \in Jobs
      /\ Head(queue) = queue[1]
      /\ Len(queue) \in Nat \ {0}
      /\ Len(queue') = Len(queue) - 1
      /\ \A i \in 1..Len(queue') : queue'[i] = queue[i + 1]
  OBVIOUS
<1>2. InQueue \subseteq InQueue' \cup {Head(queue)}
  <2> SUFFICES ASSUME NEW i \in 1..Len(queue)
               PROVE  queue[i] \in InQueue' \cup {Head(queue)}
    BY DEF InQueue
  <2>1. CASE i = 1
    BY <1>1, <2>1
  <2>2. CASE i # 1
    <3>1. i - 1 \in 1..Len(queue') /\ queue'[i - 1] = queue[i]
      BY <1>1, <2>2
    <3> QED
      BY <3>1 DEF InQueue
  <2> QED
    BY <2>1, <2>2
<1>3. InQueue' \cup {Head(queue)} \subseteq InQueue
  <2>1. 1 \in 1..Len(queue)
    BY <1>1
  <2>2. Head(queue) \in InQueue
    BY <1>1, <2>1 DEF InQueue
  <2>3. \A i \in 1..Len(queue') : i + 1 \in 1..Len(queue)
    BY <1>1
  <2> QED
    BY <1>1, <2>2, <2>3 DEF InQueue
<1> QED
  BY <1>1, <1>2, <1>3

LEMMA InQueueEmpty ==
    ASSUME queue = <<>>
    PROVE  InQueue = {}
BY DEF InQueue

----------------------------------------------------------------------------
(* The kinds of steps, as the pool sees them. *)

LEMMA StepKinds ==
    ASSUME [Next]_vars
    PROVE  \/ UNCHANGED <<poolVars, dispatchVars>>
           \/ \E j \in Jobs : Enqueue(j) /\ UNCHANGED dispatchVars
           \/ \E w \in Workers : Worker(w)
           \/ Close /\ UNCHANGED dispatchVars
<1>1. CASE UNCHANGED vars
  BY <1>1 DEF vars
<1>2. ASSUME NEW j \in Jobs, Arrive(j) \/ Redirect(j) \/ Respond(j)
      PROVE  \/ UNCHANGED <<poolVars, dispatchVars>>
             \/ Enqueue(j) /\ UNCHANGED dispatchVars
  BY <1>2 DEF Arrive, Redirect, Respond
<1>3. ASSUME NEW w \in Workers, Work(w)
      PROVE  Worker(w)
  BY <1>3 DEF Work
<1>4. CASE CloseOnDone
  BY <1>4 DEF CloseOnDone
<1>5. CASE Signal \/ Main
  BY <1>5 DEF Signal, Main, StopListening, Stopped, GiveUp, ExitProcess, Move
<1> QED
  BY <1>1, <1>2, <1>3, <1>4, <1>5 DEF Next

----------------------------------------------------------------------------
(* Types. *)

LEMMA TypeInit ==
    ASSUME Init
    PROVE  TypeOK
<1>1. PoolTypeOK
  <2>1. queue \in Seq(Jobs) /\ Len(queue) <= QueueSize
    BY PoolAssumption DEF Init, DispatchInit, PoolInit
  <2>2. sender \in [Jobs -> SenderPCs] /\ hands \in [Workers -> Jobs \cup {NoJob}]
    BY DEF Init, DispatchInit, PoolInit, SenderPCs
  <2> QED
    BY <2>1, <2>2 DEF Init, DispatchInit, PoolInit, PoolTypeOK
<1>2. 0 \in 0..MaxAttempts - 1 /\ 0 \in 0..MaxAttempts
  BY DispatcherAssumption
<1>3. DispatchTypeOK
  BY <1>1, <1>2 DEF Init, DispatchInit, DispatchTypeOK
<1> QED
  BY <1>3 DEF Init, TypeOK

LEMMA EnqueueType ==
    ASSUME PoolTypeOK, NEW j \in Jobs, Enqueue(j)
    PROVE  PoolTypeOK'
<1>1. CASE EnqueueCheck(j)
  BY <1>1 DEF EnqueueCheck, PoolTypeOK, SenderPCs
<1>2. CASE EnqueueSend(j)
  <2>1. queue' \in Seq(Jobs) /\ Len(queue') <= QueueSize
    BY <1>2, PoolAssumption DEF EnqueueSend, PoolTypeOK
  <2> QED
    BY <1>2, <2>1 DEF EnqueueSend, PoolTypeOK, SenderPCs
<1>3. CASE EnqueueDrop(j) \/ EnqueuePanic(j)
  BY <1>3 DEF EnqueueDrop, EnqueuePanic, PoolTypeOK, SenderPCs
<1> QED
  BY <1>1, <1>2, <1>3 DEF Enqueue

LEMMA WorkerType ==
    ASSUME DispatchTypeOK, NEW w \in Workers, Worker(w),
           \A v \in Workers : hands[v] # NoJob => posts[hands[v]] = tried[v]
    PROVE  DispatchTypeOK'
<1> USE DEF DispatchTypeOK
<1>1. CASE Take(w) /\ UNCHANGED dispatchVars
  <2>1. queue' \in Seq(Jobs) /\ Head(queue) \in Jobs /\ Len(queue') <= QueueSize
    <3>1. queue \in Seq(Jobs) /\ queue # <<>> /\ queue' = Tail(queue)
      BY <1>1 DEF Take, PoolTypeOK
    <3> QED
      BY <3>1, InQueueTail, PoolAssumption DEF PoolTypeOK
  <2>2. PoolTypeOK'
    BY <1>1, <2>1 DEF Take, PoolTypeOK
  <2> QED
    BY <1>1, <2>2 DEF dispatchVars
<1>2. CASE Exit(w) /\ UNCHANGED dispatchVars
  BY <1>2 DEF Exit, dispatchVars, PoolTypeOK
<1>3. ASSUME hands[w] # NoJob
      PROVE  /\ hands[w] \in Jobs
             /\ posts[hands[w]] = tried[w]
             /\ tried[w] + 1 \in 0..MaxAttempts
  BY <1>3, DispatcherAssumption DEF PoolTypeOK
<1>4. ASSUME hands[w] # NoJob, NEW r \in {"sent", "failed"}, Finish(w, r)
      PROVE  /\ PoolTypeOK'
             /\ tried' \in [Workers -> 0..MaxAttempts - 1]
             /\ outcome' \in [Jobs -> {"none", "sent", "failed"}]
  BY <1>3, <1>4, DispatcherAssumption DEF Finish, PoolTypeOK
<1>5. ASSUME hands[w] # NoJob, Post(w)
      PROVE  posts' \in [Jobs -> 0..MaxAttempts]
  BY <1>3, <1>5 DEF Post
<1>6. CASE RejectHost(w)
  BY <1>4, <1>6 DEF RejectHost
<1>7. CASE Delivered(w) \/ Refused(w)
  BY <1>3, <1>4, <1>5, <1>7 DEF Delivered, Refused
<1>8. CASE Retry(w)
  <2>1. PoolTypeOK'
    BY <1>8 DEF Retry, poolVars, PoolTypeOK
  <2>2. tried' \in [Workers -> 0..MaxAttempts - 1]
    BY <1>8, DispatcherAssumption DEF Retry
  <2> QED
    BY <1>5, <1>8, <2>1, <2>2 DEF Retry
<1>9. CASE Exhausted(w)
  BY <1>4, <1>5, <1>9 DEF Exhausted
<1> QED
  BY <1>1, <1>2, <1>6, <1>7, <1>8, <1>9 DEF Worker, deliver

LEMMA CloseType ==
    ASSUME PoolTypeOK, Close
    PROVE  PoolTypeOK'
BY DEF PoolTypeOK, Close, CloseSwap, CloseChannel, CloseReturn

----------------------------------------------------------------------------
(* The hands. *)

LEMMA InHandsTake ==
    ASSUME DispatchTypeOK, NEW w \in Workers, NEW j \in Jobs,
           hands[w] = NoJob, hands' = [hands EXCEPT ![w] = j]
    PROVE  InHands' = InHands \cup {j}
<1>1. /\ hands'[w] = j
      /\ \A v \in Workers : v # w => hands'[v] = hands[v]
  BY DEF DispatchTypeOK, PoolTypeOK
<1>2. j # NoJob
  BY PoolAssumption
<1> QED
  BY <1>1, <1>2 DEF InHands

LEMMA InHandsFinish ==
    ASSUME DispatchTypeOK, OnePlace, NEW w \in Workers, NEW r,
           hands[w] # NoJob, Finish(w, r)
    PROVE  /\ InHands' = InHands \ {hands[w]}
           /\ hands[w] \in InHands
           /\ hands'[w] = NoJob
           /\ \A v \in Workers : v # w => hands'[v] = hands[v]
<1>1. /\ hands'[w] = NoJob
      /\ \A v \in Workers : v # w => hands'[v] = hands[v]
  BY DEF DispatchTypeOK, PoolTypeOK, Finish
<1>2. \A v \in Workers : v # w => hands[v] # hands[w]
  BY DEF OnePlace
<1> QED
  BY <1>1, <1>2 DEF InHands

----------------------------------------------------------------------------
(* The inductive invariant. *)

\* What a worker has in hand has failed the attempts it counts and was never
\* answered; what no worker has touched was never posted.
AttemptsCounted ==
    /\ \A w \in Workers :
          IF hands[w] = NoJob
          THEN tried[w] = 0
          ELSE hands[w] \notin answered /\ posts[hands[w]] = tried[w]
    /\ \A j \in Jobs : ~Settled(j) /\ j \notin InHands => posts[j] = 0 /\ j \notin answered

\* A worker leaves its loop with nothing in hand, from a queue that is
\* closed and empty for good.
LoopsEndDrained ==
    /\ exited # {} => closed /\ queue = <<>>
    /\ \A w \in exited : hands[w] = NoJob
    /\ closer = "returned" => exited = Workers

IInv == TypeOK /\ OnePlace /\ AttemptsCounted /\ LoopsEndDrained

LEMMA InvInit ==
    ASSUME Init
    PROVE  IInv
<1>1. InQueue = {} /\ InHands = {}
  BY DEF Init, DispatchInit, PoolInit, InQueue, InHands
<1>2. OnePlace
  BY <1>1 DEF Init, DispatchInit, PoolInit, OnePlace, Accepted, Settled
<1>3. AttemptsCounted
  BY DEF Init, DispatchInit, PoolInit, AttemptsCounted
<1>4. LoopsEndDrained
  BY DEF Init, DispatchInit, PoolInit, LoopsEndDrained
<1> QED
  BY <1>2, <1>3, <1>4, TypeInit DEF IInv

LEMMA QuietPreserves ==
    ASSUME IInv, UNCHANGED <<poolVars, dispatchVars>>
    PROVE  DispatchTypeOK' /\ OnePlace' /\ AttemptsCounted' /\ LoopsEndDrained'
<1> USE DEF poolVars, dispatchVars
<1>1. InQueue' = InQueue /\ InHands' = InHands /\ Accepted' = Accepted
  BY DEF InQueue, InHands, Accepted
<1>2. OnePlace'
  BY <1>1 DEF IInv, OnePlace, Settled
<1>3. AttemptsCounted' /\ LoopsEndDrained'
  BY <1>1 DEF IInv, AttemptsCounted, LoopsEndDrained, Settled
<1>4. DispatchTypeOK'
  BY DEF IInv, TypeOK, DispatchTypeOK, PoolTypeOK
<1> QED
  BY <1>2, <1>3, <1>4

LEMMA EnqueuePreserves ==
    ASSUME IInv, NEW j \in Jobs, Enqueue(j), UNCHANGED dispatchVars
    PROVE  DispatchTypeOK' /\ OnePlace' /\ AttemptsCounted' /\ LoopsEndDrained'
<1> USE DEF IInv, dispatchVars
<1>1. DispatchTypeOK'
  BY EnqueueType DEF TypeOK, DispatchTypeOK
<1>2. UNCHANGED <<hands, tried, outcome, posts, answered, exited, closer>>
  BY DEF Enqueue, EnqueueCheck, EnqueueSend, EnqueueDrop, EnqueuePanic
<1>3. InHands' = InHands
  BY <1>2 DEF InHands
<1>4. AttemptsCounted'
  BY <1>2, <1>3 DEF AttemptsCounted, Settled
<1>5. sender \in [Jobs -> SenderPCs] /\ queue \in Seq(Jobs)
  BY DEF TypeOK, DispatchTypeOK, PoolTypeOK
<1>6. CASE EnqueueSend(j)
  <2>1. /\ InQueue' = InQueue \cup {j}
        /\ Len(queue') = Len(queue) + 1
        /\ \A i \in 1..Len(queue) : queue'[i] = queue[i]
        /\ queue'[Len(queue) + 1] = j
    BY <1>5, <1>6, InQueueAppend DEF EnqueueSend
  <2>2. Accepted' = Accepted \cup {j} /\ j \notin Accepted
    BY <1>5, <1>6 DEF EnqueueSend, Accepted
  <2>3. ~Settled(j) /\ j \notin InQueue /\ j \notin InHands
    BY <2>2 DEF OnePlace
  <2>4. \A i, k \in 1..Len(queue') : queue'[i] = queue'[k] => i = k
    <3> SUFFICES ASSUME NEW i \in 1..Len(queue'), NEW k \in 1..Len(queue'),
                        queue'[i] = queue'[k]
                 PROVE  i = k
      OBVIOUS
    <3>1. Len(queue) \in Nat
      BY <1>5
    <3>2. \A n \in 1..Len(queue) : queue[n] # j
      BY <2>3 DEF InQueue
    <3>3. \A n, m \in 1..Len(queue) : queue[n] = queue[m] => n = m
      BY DEF OnePlace
    <3> QED
      BY <2>1, <3>1, <3>2, <3>3
  <2>5. OnePlace'
    BY <1>2, <1>3, <2>1, <2>2, <2>3, <2>4 DEF OnePlace, Settled
  <2>6. LoopsEndDrained'
    BY <1>2, <1>6 DEF EnqueueSend, LoopsEndDrained
  <2> QED
    BY <1>1, <1>4, <2>5, <2>6
<1>7. CASE EnqueueCheck(j) \/ EnqueueDrop(j) \/ EnqueuePanic(j)
  <2>1. UNCHANGED <<queue, closed>>
    BY <1>7 DEF EnqueueCheck, EnqueueDrop, EnqueuePanic
  <2>2. Accepted' = Accepted
    BY <1>5, <1>7 DEF EnqueueCheck, EnqueueDrop, EnqueuePanic, Accepted
  <2>3. OnePlace'
    BY <1>2, <1>3, <2>1, <2>2 DEF OnePlace, InQueue, Settled
  <2>4. LoopsEndDrained'
    BY <1>2, <2>1 DEF LoopsEndDrained
  <2> QED
    BY <1>1, <1>4, <2>3, <2>4
<1> QED
  BY <1>6, <1>7 DEF Enqueue

LEMMA ClosePreserves ==
    ASSUME IInv, Close, UNCHANGED dispatchVars
    PROVE  DispatchTypeOK' /\ OnePlace' /\ AttemptsCounted' /\ LoopsEndDrained'
<1> USE DEF IInv, dispatchVars
<1>1. DispatchTypeOK'
  BY CloseType DEF TypeOK, DispatchTypeOK
<1>2. UNCHANGED <<queue, sender, hands, exited, tried, outcome, posts, answered>>
  BY DEF Close, CloseSwap, CloseChannel, CloseReturn
<1>3. OnePlace' /\ AttemptsCounted'
  BY <1>2 DEF OnePlace, AttemptsCounted, Settled, InQueue, InHands, Accepted
<1>4. LoopsEndDrained'
  BY <1>2 DEF LoopsEndDrained, Close, CloseSwap, CloseChannel, CloseReturn
<1> QED
  BY <1>1, <1>3, <1>4

LEMMA TakePreserves ==
    ASSUME IInv, NEW w \in Workers, Take(w), UNCHANGED dispatchVars
    PROVE  OnePlace' /\ AttemptsCounted' /\ LoopsEndDrained'
<1> USE DEF IInv, dispatchVars
<1> DEFINE j == Head(queue)
<1>1. /\ queue' \in Seq(Jobs)
      /\ j \in Jobs
      /\ j = queue[1]
      /\ Len(queue) \in Nat \ {0}
      /\ Len(queue') = Len(queue) - 1
      /\ \A i \in 1..Len(queue') : queue'[i] = queue[i + 1]
      /\ InQueue = InQueue' \cup {j}
  <2>1. queue \in Seq(Jobs) /\ queue # <<>> /\ queue' = Tail(queue)
    BY DEF Take, TypeOK, DispatchTypeOK, PoolTypeOK
  <2> QED
    BY <2>1, InQueueTail
<1>2. InHands' = InHands \cup {j}
  BY <1>1, InHandsTake DEF Take, TypeOK
<1>3. /\ hands'[w] = j
      /\ \A v \in Workers : v # w => hands'[v] = hands[v]
  BY DEF Take, TypeOK, DispatchTypeOK, PoolTypeOK
<1>4. \A i, k \in 1..Len(queue) : queue[i] = queue[k] => i = k
  BY DEF OnePlace
<1>5. /\ \A i, k \in 1..Len(queue') : queue'[i] = queue'[k] => i = k
      /\ \A i \in 1..Len(queue') : queue'[i] # j
  <2>1. \A i \in 1..Len(queue') : i + 1 \in 1..Len(queue) /\ i + 1 # 1
    BY <1>1
  <2>2. 1 \in 1..Len(queue)
    BY <1>1
  <2>3. \A i, k \in 1..Len(queue') : queue'[i] = queue'[k] => i + 1 = k + 1
    BY <1>1, <1>4, <2>1
  <2> QED
    BY <1>1, <1>4, <2>1, <2>2, <2>3
<1>6. j \in InQueue /\ j \notin InHands /\ ~Settled(j)
  BY <1>1 DEF OnePlace
<1>7. UNCHANGED <<sender, outcome, tried, posts, answered, closed, exited, closer>>
  BY DEF Take
<1>8. OnePlace'
  <2>1. \A v, u \in Workers : hands'[v] = hands'[u] /\ hands'[v] # NoJob => v = u
    BY <1>3, <1>6 DEF OnePlace, InHands
  <2>2. j \notin InQueue'
    BY <1>5 DEF InQueue
  <2>3. InQueue' \cap InHands' = {} /\ InQueue' \cup InHands' = InQueue \cup InHands
    BY <1>1, <1>2, <1>6, <2>2 DEF OnePlace
  <2>4. Accepted' = Accepted
    BY <1>7 DEF Accepted
  <2> QED
    BY <1>5, <1>7, <2>1, <2>3, <2>4 DEF OnePlace, Settled
<1>9. AttemptsCounted'
  <2>1. j # NoJob /\ tried[w] = 0 /\ posts[j] = 0 /\ j \notin answered
    BY <1>1, <1>6, PoolAssumption DEF AttemptsCounted, Take
  <2> QED
    BY <1>2, <1>3, <1>7, <2>1 DEF AttemptsCounted, Settled
<1>10. LoopsEndDrained'
  <2>1. exited = {} /\ queue # <<>>
    BY DEF LoopsEndDrained, Take
  <2> QED
    BY <1>3, <1>7, <2>1 DEF LoopsEndDrained
<1> QED
  BY <1>8, <1>9, <1>10

LEMMA ExitPreserves ==
    ASSUME IInv, NEW w \in Workers, Exit(w), UNCHANGED dispatchVars
    PROVE  OnePlace' /\ AttemptsCounted' /\ LoopsEndDrained'
<1> USE DEF IInv, dispatchVars
<1>1. OnePlace' /\ AttemptsCounted'
  BY DEF Exit, OnePlace, AttemptsCounted, Settled, InQueue, InHands, Accepted
<1>2. exited # Workers
  BY DEF Exit
<1>3. LoopsEndDrained'
  BY <1>2 DEF Exit, LoopsEndDrained
<1> QED
  BY <1>1, <1>3

LEMMA FinishPreserves ==
    ASSUME IInv, NEW w \in Workers, NEW r \in {"sent", "failed"},
           NEW j \in Jobs, j = hands[w], Finish(w, r),
           \A k \in Jobs : k # j =>
              posts'[k] = posts[k] /\ (k \in answered' <=> k \in answered)
    PROVE  OnePlace' /\ AttemptsCounted' /\ LoopsEndDrained'
<1> USE DEF IInv
<1>0. hands[w] # NoJob
  BY PoolAssumption
<1>1. /\ InHands' = InHands \ {j}
      /\ j \in InHands
      /\ hands'[w] = NoJob
      /\ \A v \in Workers : v # w => hands'[v] = hands[v]
  BY <1>0, InHandsFinish DEF TypeOK
<1>2. /\ outcome'[j] = r
      /\ \A k \in Jobs : k # j => outcome'[k] = outcome[k]
      /\ tried'[w] = 0
      /\ \A v \in Workers : v # w => tried'[v] = tried[v]
  BY DEF Finish, TypeOK, DispatchTypeOK, PoolTypeOK
<1>3. UNCHANGED <<queue, closed, stopped, sender, exited, closer>>
  BY DEF Finish
<1>4. Settled(j)' /\ \A k \in Jobs : k # j => (Settled(k)' <=> Settled(k))
  BY <1>2 DEF Settled
<1>5. InQueue' = InQueue /\ Accepted' = Accepted /\ Accepted \subseteq Jobs
  BY <1>3 DEF InQueue, Accepted
<1>6. j \in Accepted /\ j \notin InQueue
  BY <1>1 DEF OnePlace
<1>7. \A v \in Workers : v # w => hands[v] # j
  BY <1>0 DEF OnePlace
<1>8. OnePlace'
  <2>1. InQueue' \cup InHands' = {k \in Accepted' : ~Settled(k)'}
    BY <1>1, <1>4, <1>5, <1>6 DEF OnePlace
  <2>2. InQueue' \cap InHands' = {}
    BY <1>1, <1>5 DEF OnePlace
  <2>3. \A v, u \in Workers : hands'[v] = hands'[u] /\ hands'[v] # NoJob => v = u
    BY <1>1 DEF OnePlace
  <2>4. \A i, k \in 1..Len(queue') : queue'[i] = queue'[k] => i = k
    BY <1>3 DEF OnePlace
  <2>5. \A k \in Jobs : Settled(k)' => k \in Accepted'
    BY <1>4, <1>5, <1>6 DEF OnePlace
  <2> QED
    BY <2>1, <2>2, <2>3, <2>4, <2>5 DEF OnePlace
<1>9. AttemptsCounted'
  <2>1. \A v \in Workers : hands[v] # NoJob => hands[v] \in Jobs
    BY DEF TypeOK, DispatchTypeOK, PoolTypeOK
  <2>2. ASSUME NEW v \in Workers
        PROVE  IF hands'[v] = NoJob
               THEN tried'[v] = 0
               ELSE hands'[v] \notin answered' /\ posts'[hands'[v]] = tried'[v]
    BY <1>1, <1>2, <1>7, <2>1 DEF AttemptsCounted
  <2>3. ASSUME NEW k \in Jobs, ~Settled(k)', k \notin InHands'
        PROVE  posts'[k] = 0 /\ k \notin answered'
    BY <1>1, <1>4, <2>3 DEF AttemptsCounted
  <2>4. \A k \in Jobs : (~Settled(k) /\ k \notin InHands => posts[k] = 0 /\ k \notin answered)'
    BY <2>3
  <2> QED
    BY <2>2, <2>4 DEF AttemptsCounted
<1>10. LoopsEndDrained'
  <2>1. exited \subseteq Workers
    BY DEF TypeOK, DispatchTypeOK, PoolTypeOK
  <2> QED
    BY <1>1, <1>3, <2>1 DEF LoopsEndDrained
<1> QED
  BY <1>8, <1>9, <1>10

LEMMA RetryPreserves ==
    ASSUME IInv, NEW w \in Workers, Retry(w)
    PROVE  OnePlace' /\ AttemptsCounted' /\ LoopsEndDrained'
<1> USE DEF IInv
<1>1. UNCHANGED <<queue, closed, stopped, sender, hands, exited, closer, outcome, answered>>
  BY DEF Retry, poolVars
<1>2. InQueue' = InQueue /\ InHands' = InHands /\ Accepted' = Accepted
  BY <1>1 DEF InQueue, InHands, Accepted
<1>3. OnePlace' /\ LoopsEndDrained'
  BY <1>1, <1>2 DEF OnePlace, LoopsEndDrained, Settled
<1>4. /\ hands[w] # NoJob /\ hands[w] \in Jobs /\ hands[w] \in InHands
      /\ posts'[hands[w]] = posts[hands[w]] + 1
      /\ \A k \in Jobs : k # hands[w] => posts'[k] = posts[k]
      /\ tried'[w] = tried[w] + 1
      /\ \A v \in Workers : v # w => tried'[v] = tried[v] /\ hands[v] # hands[w]
  BY DEF Retry, Post, OnePlace, InHands, TypeOK, DispatchTypeOK, PoolTypeOK
<1>5. \A v \in Workers : hands[v] # NoJob => hands[v] \in Jobs
  BY DEF TypeOK, DispatchTypeOK, PoolTypeOK
<1>6. AttemptsCounted'
  BY <1>1, <1>2, <1>4, <1>5 DEF AttemptsCounted, Settled
<1> QED
  BY <1>3, <1>6

LEMMA WorkerPreserves ==
    ASSUME IInv, NEW w \in Workers, Worker(w)
    PROVE  DispatchTypeOK' /\ OnePlace' /\ AttemptsCounted' /\ LoopsEndDrained'
<1>1. DispatchTypeOK'
  BY WorkerType DEF IInv, TypeOK, AttemptsCounted
<1>2. OnePlace' /\ AttemptsCounted' /\ LoopsEndDrained'
  <2>1. CASE (Take(w) \/ Exit(w)) /\ UNCHANGED dispatchVars
    BY <2>1, TakePreserves, ExitPreserves
  <2>0. ASSUME hands[w] # NoJob
        PROVE  hands[w] \in Jobs
    BY <2>0 DEF IInv, TypeOK, DispatchTypeOK, PoolTypeOK
  <2>2. CASE RejectHost(w)
    BY <2>0, <2>2, FinishPreserves DEF RejectHost
  <2>3. ASSUME hands[w] # NoJob, Post(w)
        PROVE  \A j \in Jobs : j # hands[w] => posts'[j] = posts[j]
    BY <2>3 DEF Post, IInv, TypeOK, DispatchTypeOK
  <2>4. CASE Delivered(w) \/ Refused(w)
    BY <2>0, <2>3, <2>4, FinishPreserves DEF Delivered, Refused
  <2>5. CASE Exhausted(w)
    BY <2>0, <2>3, <2>5, FinishPreserves DEF Exhausted
  <2> QED
    BY <2>1, <2>2, <2>4, <2>5, RetryPreserves DEF Worker, deliver
<1> QED
  BY <1>1, <1>2

LEMMA InvNext ==
    ASSUME IInv, [Next]_vars
    PROVE  IInv'
<1>1. DispatchTypeOK' /\ OnePlace' /\ AttemptsCounted' /\ LoopsEndDrained'
  BY StepKinds, QuietPreserves, EnqueuePreserves, WorkerPreserves, ClosePreserves
<1>2. /\ main' \in {"serving", "draining", "stopping", "stopped", "exited"}
      /\ inflight' \in SUBSET Jobs
  BY DEF IInv, TypeOK, Next, vars, Arrive, Redirect, Respond, Work, CloseOnDone,
         Signal, Main, StopListening, Stopped, GiveUp, ExitProcess, Move
<1> QED
  BY <1>1, <1>2 DEF IInv, TypeOK

LEMMA Inductive == Spec => []IInv
BY InvInit, InvNext, PTL DEF Spec

----------------------------------------------------------------------------
(* The theorems. *)

\* webhook.go:48: every state of the pool, the deliveries and the process is
\* well typed; no event is ever posted more than MaxAttempts times.
THEOREM TypeCorrect == Spec => []TypeOK
<1>1. IInv => TypeOK
  BY DEF IInv
<1> QED
  BY <1>1, Inductive, PTL

\* webhook.go:38: an accepted event is in exactly one place until it settles.
THEOREM AcceptedInOnePlace == Spec => []OnePlace
<1>1. IInv => OnePlace
  BY DEF IInv
<1> QED
  BY <1>1, Inductive, PTL

\* webhook.go:140: Close returns only when every accepted event has settled.
THEOREM CloseDrains == Spec => []DrainedWhenClosed
<1>1. IInv => DrainedWhenClosed
  <2> SUFFICES ASSUME IInv, closer = "returned"
               PROVE  \A j \in Accepted : Settled(j)
    BY DEF DrainedWhenClosed
  <2>1. exited = Workers
    BY DEF IInv, LoopsEndDrained
  <2>2. queue = <<>>
    BY <2>1, PoolAssumption DEF IInv, LoopsEndDrained
  <2>3. InQueue = {}
    BY <2>2, InQueueEmpty
  <2>4. InHands = {}
    BY <2>1 DEF IInv, LoopsEndDrained, InHands
  <2> QED
    BY <2>3, <2>4 DEF IInv, OnePlace
<1> QED
  BY <1>1, Inductive, PTL

\* webhook.go:44: an event is posted again only after a transient failure,
\* MaxAttempts times at most.
THEOREM PostsOnlyRetry == Spec => PostsAreRetries
<1>1. ASSUME IInv, IInv', [Next]_vars
      PROVE  [\A j \in Jobs : posts'[j] # posts[j] =>
                 /\ j \notin answered
                 /\ ~Settled(j)
                 /\ posts'[j] = posts[j] + 1
                 /\ posts'[j] <= MaxAttempts]_vars
  <2> SUFFICES ASSUME NEW j \in Jobs, posts'[j] # posts[j]
               PROVE  /\ j \notin answered
                      /\ ~Settled(j)
                      /\ posts'[j] = posts[j] + 1
                      /\ posts'[j] <= MaxAttempts
    OBVIOUS
  <2>1. PICK w \in Workers : Worker(w)
    BY <1>1, StepKinds DEF dispatchVars
  <2>2. hands[w] # NoJob /\ Post(w)
    BY <2>1 DEF Worker, dispatchVars, deliver, RejectHost, Delivered, Refused,
                Retry, Exhausted
  <2>3. j = hands[w] /\ posts'[j] = posts[j] + 1
    BY <1>1, <2>2 DEF Post, IInv, TypeOK, DispatchTypeOK
  <2>4. j \notin answered
    BY <1>1, <2>2, <2>3 DEF IInv, AttemptsCounted
  <2>5. ~Settled(j)
    <3>1. j \in InHands
      BY <2>2, <2>3 DEF InHands
    <3> QED
      BY <1>1, <3>1 DEF IInv, OnePlace
  <2>6. posts'[j] <= MaxAttempts
    BY <1>1, DispatcherAssumption DEF IInv, TypeOK, DispatchTypeOK
  <2> QED
    BY <2>3, <2>4, <2>5, <2>6
<1> QED
  BY <1>1, Inductive, PTL DEF Spec, PostsAreRetries

----------------------------------------------------------------------------
(* Unfurler: the other user of the pool. *)

Request == [Code : Codes, URL : URLs]

UnfurlTyped ==
    /\ PoolTypeOK
    /\ rows \in [Codes -> Row \cup {NoRow}]
    /\ request \in [Jobs -> Request \cup {NoRow}]
    /\ fetched \in [Workers -> [page : URLs \cup {NoPreview}, done : BOOLEAN]]
    /\ attempt \in [Jobs -> {"none", "stamped", "gone", "lost"}]
    /\ process \in {"serving", "stopping", "closed", "exited"}

\* A job is in one place, and attempted once: one that is queued or in hand
\* was accepted and has not been attempted.
AttemptedOnce ==
    /\ \A i, k \in 1..Len(queue) : queue[i] = queue[k] => i = k
    /\ \A v, w \in Workers : hands[v] = hands[w] /\ hands[v] # NoJob => v = w
    /\ InQueue \cap InHands = {}
    /\ \A j \in InQueue \cup InHands : sender[j] = "accepted" /\ attempt[j] = "none"
    /\ \A j \in Jobs : attempt[j] # "none" => sender[j] = "accepted"

\* Whoever enqueues carries a request, and a fetch yields the page at its
\* URL; between jobs nothing is left of the last one.
FetchesFit ==
    /\ \A j \in Jobs : sender[j] # "idle" => request[j] # NoRow
    /\ \A w \in Workers :
          IF hands[w] = NoJob
          THEN ~fetched[w].done
          ELSE fetched[w].done => fetched[w].page \in {NoPreview, request[hands[w]].URL}

UnfurlInv == UnfurlTyped /\ AttemptedOnce /\ FetchesFit /\ LateAnswersFit

\* A row that stays as it was stays right: requests and stamps are for good.
FitsRow(c) ==
    rows[c] # NoRow /\ rows[c].Preview # NoPreview =>
        /\ rows[c].Stamped
        /\ \E j \in Accepted :
              /\ attempt[j] = "stamped"
              /\ request[j] = [Code |-> c, URL |-> rows[c].Preview]

RequestsStand ==
    \A j \in Jobs :
        /\ request[j] # NoRow => request'[j] = request[j]
        /\ sender[j] = "accepted" => sender'[j] = "accepted"
        /\ attempt[j] = "stamped" => attempt'[j] = "stamped"

LEMMA StampStands ==
    ASSUME UnfurlInv, RequestsStand, NEW c \in Codes, NEW url \in URLs,
           \E j \in Accepted : attempt[j] = "stamped" /\ request[j] = [Code |-> c, URL |-> url]
    PROVE  \E j \in Accepted' :
              attempt'[j] = "stamped" /\ request'[j] = [Code |-> c, URL |-> url]
<1> PICK j \in Accepted : attempt[j] = "stamped" /\ request[j] = [Code |-> c, URL |-> url]
  OBVIOUS
<1>1. j \in Jobs /\ sender[j] = "accepted"
  BY DEF Accepted
<1>2. request[j] # NoRow
  BY <1>1 DEF UnfurlInv, FetchesFit
<1>3. j \in Accepted'
  BY <1>1 DEF RequestsStand, Accepted
<1> QED
  BY <1>1, <1>2, <1>3 DEF RequestsStand

LEMMA RowStands ==
    ASSUME UnfurlInv, RequestsStand, NEW c \in Codes, rows'[c] = rows[c]
    PROVE  FitsRow(c)'
<1> SUFFICES ASSUME rows[c] # NoRow, rows[c].Preview # NoPreview
             PROVE  /\ rows[c].Stamped
                    /\ \E j \in Accepted' :
                          /\ attempt'[j] = "stamped"
                          /\ request'[j] = [Code |-> c, URL |-> rows[c].Preview]
  BY DEF FitsRow
<1>1. rows[c].Preview \in URLs
  BY DEF UnfurlInv, UnfurlTyped, Row
<1>2. FitsRow(c)
  BY DEF UnfurlInv, LateAnswersFit, FitsRow
<1> QED
  BY <1>1, <1>2, StampStands DEF FitsRow

LEMMA FitRows == (\A c \in Codes : FitsRow(c)') => LateAnswersFit'
BY DEF FitsRow, LateAnswersFit

----------------------------------------------------------------------------
(* The handlers. *)

\* No worker and no Enqueue moves.
LEMMA PoolRests ==
    ASSUME UnfurlInv, UNCHANGED <<poolVars, fetchVars>>,
           \A j \in Jobs : request[j] # NoRow => request'[j] = request[j]
    PROVE  /\ PoolTypeOK' /\ AttemptedOnce' /\ FetchesFit' /\ RequestsStand
           /\ fetched' \in [Workers -> [page : URLs \cup {NoPreview}, done : BOOLEAN]]
           /\ attempt' \in [Jobs -> {"none", "stamped", "gone", "lost"}]
<1>1. UNCHANGED <<queue, closed, stopped, sender, hands, exited, closer, fetched, attempt>>
  BY DEF poolVars, fetchVars
<1>2. PoolTypeOK'
  BY <1>1 DEF UnfurlInv, UnfurlTyped, PoolTypeOK
<1>3. AttemptedOnce'
  BY <1>1 DEF UnfurlInv, AttemptedOnce, InQueue, InHands
<1>4. \A w \in Workers : hands[w] # NoJob => hands[w] \in Jobs /\ request[hands[w]] # NoRow
  <2> SUFFICES ASSUME NEW w \in Workers, hands[w] # NoJob
               PROVE  hands[w] \in Jobs /\ request[hands[w]] # NoRow
    OBVIOUS
  <2>1. hands[w] \in Jobs /\ hands[w] \in InHands
    BY DEF UnfurlInv, UnfurlTyped, PoolTypeOK, InHands
  <2>2. sender[hands[w]] = "accepted"
    BY <2>1 DEF UnfurlInv, AttemptedOnce
  <2> QED
    BY <2>1, <2>2 DEF UnfurlInv, FetchesFit
<1>5. FetchesFit'
  BY <1>1, <1>4 DEF UnfurlInv, FetchesFit
<1>6. RequestsStand
  BY <1>1 DEF RequestsStand
<1> QED
  BY <1>1, <1>2, <1>3, <1>5, <1>6 DEF UnfurlInv, UnfurlTyped

LEMMA ShortenStep ==
    ASSUME UnfurlInv, NEW j \in Jobs, NEW c \in Codes, NEW url \in URLs, Shorten(j, c, url)
    PROVE  UnfurlInv'
<1> PICK row : row = [URL |-> url, Preview |-> NoPreview, Stamped |-> FALSE, Born |-> j]
  OBVIOUS
<1> PICK req : req = [Code |-> c, URL |-> url]
  OBVIOUS
<1>1. /\ request[j] = NoRow /\ rows' = [rows EXCEPT ![c] = row]
      /\ request' = [request EXCEPT ![j] = req]
      /\ UNCHANGED <<poolVars, fetchVars, process>>
  BY DEF Shorten
<1>2. row \in Row /\ row.URL = url /\ row.Preview = NoPreview /\ req \in Request
  BY DEF Row, Request
<1>3. /\ rows' \in [Codes -> Row \cup {NoRow}] /\ request' \in [Jobs -> Request \cup {NoRow}]
      /\ \A i \in Jobs : request[i] # NoRow => request'[i] = request[i]
  BY <1>1, <1>2 DEF UnfurlInv, UnfurlTyped
<1>4. /\ PoolTypeOK' /\ AttemptedOnce' /\ FetchesFit' /\ RequestsStand
      /\ fetched' \in [Workers -> [page : URLs \cup {NoPreview}, done : BOOLEAN]]
      /\ attempt' \in [Jobs -> {"none", "stamped", "gone", "lost"}]
  BY <1>1, <1>3, PoolRests
<1>5. UnfurlTyped'
  BY <1>1, <1>3, <1>4 DEF UnfurlInv, UnfurlTyped
<1>6. ASSUME NEW b \in Codes PROVE FitsRow(b)'
  <2>1. CASE b = c
    BY <1>1, <1>2, <2>1 DEF FitsRow, UnfurlInv, UnfurlTyped
  <2>2. CASE b # c
    BY <1>1, <1>4, <2>2, RowStands DEF UnfurlInv, UnfurlTyped
  <2> QED
    BY <2>1, <2>2
<1> QED
  BY <1>4, <1>5, <1>6, FitRows DEF UnfurlInv

LEMMA PatchURLStep ==
    ASSUME UnfurlInv, NEW c \in Codes, NEW url \in URLs, PatchURL(c, url)
    PROVE  UnfurlInv'
<1>1. /\ rows[c] # NoRow /\ rows' = [rows EXCEPT ![c].URL = url]
      /\ UNCHANGED <<poolVars, fetchVars, request, process>>
  BY DEF PatchURL
<1>2. rows[c] \in Row
  BY <1>1 DEF UnfurlInv, UnfurlTyped
<1>3. /\ rows'[c] \in Row /\ rows'[c].URL = url /\ rows'[c].Preview = rows[c].Preview
      /\ rows'[c].Stamped = rows[c].Stamped
      /\ rows' \in [Codes -> Row \cup {NoRow}]
      /\ \A b \in Codes : b # c => rows'[b] = rows[b]
  BY <1>1, <1>2 DEF UnfurlInv, UnfurlTyped, Row
<1>4. /\ PoolTypeOK' /\ AttemptedOnce' /\ FetchesFit' /\ RequestsStand
      /\ fetched' \in [Workers -> [page : URLs \cup {NoPreview}, done : BOOLEAN]]
      /\ attempt' \in [Jobs -> {"none", "stamped", "gone", "lost"}]
  BY <1>1, PoolRests
<1>5. UnfurlTyped'
  BY <1>1, <1>3, <1>4 DEF UnfurlInv, UnfurlTyped
<1>6. ASSUME NEW b \in Codes PROVE FitsRow(b)'
  <2>1. CASE b = c
    <3>1. FitsRow(c)
      BY DEF UnfurlInv, LateAnswersFit, FitsRow
    <3>2. rows[c].Preview \in URLs \cup {NoPreview}
      BY <1>2 DEF Row
    <3> QED
      BY <1>1, <1>3, <1>4, <2>1, <3>1, <3>2, StampStands DEF FitsRow
  <2>2. CASE b # c
    BY <1>3, <1>4, <2>2, RowStands
  <2> QED
    BY <2>1, <2>2
<1> QED
  BY <1>4, <1>5, <1>6, FitRows DEF UnfurlInv

LEMMA RemoveStep ==
    ASSUME UnfurlInv, NEW c \in Codes, Remove(c)
    PROVE  UnfurlInv'
<1>1. /\ rows' = [rows EXCEPT ![c] = NoRow]
      /\ UNCHANGED <<poolVars, fetchVars, request, process>>
  BY DEF Remove
<1>2. /\ rows' \in [Codes -> Row \cup {NoRow}] /\ rows'[c] = NoRow
      /\ \A b \in Codes : b # c => rows'[b] = rows[b]
  BY <1>1 DEF UnfurlInv, UnfurlTyped
<1>3. /\ PoolTypeOK' /\ AttemptedOnce' /\ FetchesFit' /\ RequestsStand
      /\ fetched' \in [Workers -> [page : URLs \cup {NoPreview}, done : BOOLEAN]]
      /\ attempt' \in [Jobs -> {"none", "stamped", "gone", "lost"}]
  BY <1>1, PoolRests
<1>4. UnfurlTyped'
  BY <1>1, <1>2, <1>3 DEF UnfurlInv, UnfurlTyped
<1>5. \A b \in Codes : FitsRow(b)'
  BY <1>2, <1>3, RowStands DEF FitsRow
<1> QED
  BY <1>3, <1>4, <1>5, FitRows DEF UnfurlInv

\* The rows and the requests do not change.
LEMMA RowsRest ==
    ASSUME UnfurlInv, UNCHANGED <<rows, request, process>>, RequestsStand,
           PoolTypeOK', AttemptedOnce', FetchesFit',
           fetched' \in [Workers -> [page : URLs \cup {NoPreview}, done : BOOLEAN]],
           attempt' \in [Jobs -> {"none", "stamped", "gone", "lost"}]
    PROVE  UnfurlInv'
<1>1. UnfurlTyped'
  BY DEF UnfurlInv, UnfurlTyped
<1>2. \A c \in Codes : FitsRow(c)'
  BY RowStands
<1> QED
  BY <1>1, <1>2, FitRows DEF UnfurlInv

LEMMA SubmitStep ==
    ASSUME UnfurlInv, NEW j \in Jobs, Submit(j)
    PROVE  UnfurlInv'
<1>1. /\ request[j] # NoRow /\ Enqueue(j)
      /\ UNCHANGED <<rows, request, process, fetched, attempt, hands>>
      /\ sender[j] \in {"idle", "checked"}
  BY DEF Submit, rowVars, fetchVars, Enqueue, EnqueueCheck, EnqueueSend, EnqueueDrop, EnqueuePanic
<1>2. PoolTypeOK'
  BY <1>1, EnqueueType DEF UnfurlInv, UnfurlTyped
<1>3. /\ queue \in Seq(Jobs) /\ sender \in [Jobs -> SenderPCs]
      /\ \A i \in Jobs : i # j => sender'[i] = sender[i]
  BY <1>1 DEF UnfurlInv, UnfurlTyped, PoolTypeOK, Enqueue, EnqueueCheck, EnqueueSend, EnqueueDrop,
              EnqueuePanic
<1>4. InHands' = InHands /\ InHands \subseteq Jobs /\ InQueue \subseteq Jobs
  BY <1>1, <1>3 DEF InHands, InQueue, UnfurlInv, UnfurlTyped, PoolTypeOK
<1>5. attempt[j] = "none" /\ j \notin InQueue \cup InHands
  BY <1>1 DEF UnfurlInv, UnfurlTyped, AttemptedOnce
<1>6. AttemptedOnce'
  <2>1. CASE EnqueueSend(j)
    <3>1. /\ InQueue' = InQueue \cup {j}
          /\ Len(queue') = Len(queue) + 1
          /\ \A i \in 1..Len(queue) : queue'[i] = queue[i]
          /\ queue'[Len(queue) + 1] = j
      BY <1>3, <2>1, InQueueAppend DEF EnqueueSend
    <3>2. sender'[j] = "accepted" /\ Len(queue) \in Nat
      BY <1>3, <2>1 DEF EnqueueSend
    <3>3. \A n \in 1..Len(queue) : queue[n] # j
      BY <1>5 DEF InQueue
    <3>4. \A n, m \in 1..Len(queue) : queue[n] = queue[m] => n = m
      BY DEF UnfurlInv, AttemptedOnce
    <3>5. \A i, k \in 1..Len(queue') : queue'[i] = queue'[k] => i = k
      BY <3>1, <3>2, <3>3, <3>4
    <3>6. \A i \in InQueue' \cup InHands' : sender'[i] = "accepted" /\ attempt'[i] = "none"
      BY <1>1, <1>3, <1>4, <1>5, <3>1, <3>2 DEF UnfurlInv, AttemptedOnce
    <3>7. InQueue' \cap InHands' = {}
      BY <1>4, <1>5, <3>1 DEF UnfurlInv, AttemptedOnce
    <3> QED
      BY <1>1, <1>3, <1>5, <3>2, <3>5, <3>6, <3>7 DEF UnfurlInv, AttemptedOnce
  <2>2. CASE EnqueueCheck(j) \/ EnqueueDrop(j) \/ EnqueuePanic(j)
    <3>1. queue' = queue
      BY <2>2 DEF EnqueueCheck, EnqueueDrop, EnqueuePanic
    <3>2. InQueue' = InQueue
      BY <3>1 DEF InQueue
    <3>3. \A i \in InQueue' \cup InHands' : sender'[i] = "accepted" /\ attempt'[i] = "none"
      BY <1>1, <1>3, <1>4, <1>5, <3>2 DEF UnfurlInv, AttemptedOnce
    <3> QED
      BY <1>1, <1>3, <1>4, <1>5, <3>1, <3>2, <3>3 DEF UnfurlInv, AttemptedOnce
  <2> QED
    BY <1>1, <2>1, <2>2 DEF Enqueue
<1>7. FetchesFit' /\ RequestsStand
  BY <1>1, <1>3 DEF UnfurlInv, FetchesFit, RequestsStand
<1>8. /\ fetched' \in [Workers -> [page : URLs \cup {NoPreview}, done : BOOLEAN]]
      /\ attempt' \in [Jobs -> {"none", "stamped", "gone", "lost"}]
  BY <1>1 DEF UnfurlInv, UnfurlTyped
<1> QED
  BY <1>1, <1>2, <1>6, <1>7, <1>8, RowsRest

\* Close, and a worker that leaves its loop.
LEMMA PoolClosesStep ==
    ASSUME UnfurlInv, Close \/ \E w \in Workers : Exit(w),
           UNCHANGED <<rowVars, fetchVars, process>>
    PROVE  UnfurlInv'
<1>1. UNCHANGED <<rows, request, process, fetched, attempt, queue, sender, hands>>
  BY DEF rowVars, fetchVars, Close, CloseSwap, CloseChannel, CloseReturn, Exit
<1>2. PoolTypeOK'
  BY CloseType DEF UnfurlInv, UnfurlTyped, PoolTypeOK, Exit
<1>3. AttemptedOnce' /\ FetchesFit' /\ RequestsStand
  BY <1>1 DEF UnfurlInv, AttemptedOnce, FetchesFit, RequestsStand, InQueue, InHands
<1>4. /\ fetched' \in [Workers -> [page : URLs \cup {NoPreview}, done : BOOLEAN]]
      /\ attempt' \in [Jobs -> {"none", "stamped", "gone", "lost"}]
  BY <1>1 DEF UnfurlInv, UnfurlTyped
<1> QED
  BY <1>1, <1>2, <1>3, <1>4, RowsRest

LEMMA UnfurlTakeStep ==
    ASSUME UnfurlInv, NEW w \in Workers, Take(w), UNCHANGED <<rowVars, fetchVars, process>>
    PROVE  UnfurlInv'
<1> PICK j : j = Head(queue)
  OBVIOUS
<1>1. /\ queue \in Seq(Jobs) /\ queue # <<>> /\ queue' = Tail(queue) /\ hands[w] = NoJob
      /\ hands' = [hands EXCEPT ![w] = j]
      /\ UNCHANGED <<rows, request, process, fetched, attempt, closed, stopped, sender, exited, closer>>
  BY DEF Take, UnfurlInv, UnfurlTyped, PoolTypeOK, rowVars, fetchVars
<1>2. /\ queue' \in Seq(Jobs) /\ j \in Jobs /\ j = queue[1]
      /\ Len(queue) \in Nat \ {0} /\ Len(queue') = Len(queue) - 1
      /\ \A i \in 1..Len(queue') : queue'[i] = queue[i + 1]
      /\ InQueue = InQueue' \cup {j}
  BY <1>1, InQueueTail
<1>3. /\ hands'[w] = j /\ j # NoJob
      /\ \A v \in Workers : v # w => hands'[v] = hands[v]
  BY <1>1, <1>2, PoolAssumption DEF UnfurlInv, UnfurlTyped, PoolTypeOK
<1>4. InHands' = InHands \cup {j}
  BY <1>1, <1>3 DEF InHands
<1>5. PoolTypeOK'
  BY <1>1, <1>2, PoolAssumption DEF UnfurlInv, UnfurlTyped, PoolTypeOK
<1>6. /\ \A i, k \in 1..Len(queue') : queue'[i] = queue'[k] => i = k
      /\ \A i \in 1..Len(queue') : queue'[i] # j
  <2>1. \A i \in 1..Len(queue') : i + 1 \in 1..Len(queue) /\ i + 1 # 1
    BY <1>2
  <2>2. 1 \in 1..Len(queue)
    BY <1>2
  <2>3. \A i, k \in 1..Len(queue) : queue[i] = queue[k] => i = k
    BY DEF UnfurlInv, AttemptedOnce
  <2>4. \A i, k \in 1..Len(queue') : queue'[i] = queue'[k] => i + 1 = k + 1
    BY <1>2, <2>1, <2>3
  <2> QED
    BY <1>2, <2>1, <2>2, <2>3, <2>4
<1>7. j \in InQueue /\ j \notin InHands /\ j \notin InQueue'
  BY <1>2, <1>6 DEF UnfurlInv, AttemptedOnce, InQueue
<1>8. AttemptedOnce'
  <2>1. \A v, u \in Workers : hands'[v] = hands'[u] /\ hands'[v] # NoJob => v = u
    BY <1>3, <1>7 DEF UnfurlInv, AttemptedOnce, InHands
  <2>2. InQueue' \cap InHands' = {} /\ InQueue' \cup InHands' = InQueue \cup InHands
    BY <1>2, <1>4, <1>7 DEF UnfurlInv, AttemptedOnce
  <2> QED
    BY <1>1, <1>6, <2>1, <2>2 DEF UnfurlInv, AttemptedOnce
<1>9. FetchesFit' /\ RequestsStand
  BY <1>1, <1>3 DEF UnfurlInv, FetchesFit, RequestsStand
<1>a. /\ fetched' \in [Workers -> [page : URLs \cup {NoPreview}, done : BOOLEAN]]
      /\ attempt' \in [Jobs -> {"none", "stamped", "gone", "lost"}]
  BY <1>1 DEF UnfurlInv, UnfurlTyped
<1> QED
  BY <1>1, <1>5, <1>8, <1>9, <1>a, RowsRest

\* The job in hand carries a request.
LEMMA InHand ==
    ASSUME UnfurlInv, NEW w \in Workers, hands[w] # NoJob
    PROVE  /\ hands[w] \in Jobs /\ hands[w] \in InHands
           /\ sender[hands[w]] = "accepted" /\ attempt[hands[w]] = "none"
           /\ request[hands[w]] \in Request
<1>1. hands[w] \in Jobs /\ hands[w] \in InHands
  BY DEF UnfurlInv, UnfurlTyped, PoolTypeOK, InHands
<1>2. sender[hands[w]] = "accepted" /\ attempt[hands[w]] = "none"
  BY <1>1 DEF UnfurlInv, AttemptedOnce
<1> QED
  BY <1>1, <1>2 DEF UnfurlInv, UnfurlTyped, FetchesFit

LEMMA YieldStep ==
    ASSUME UnfurlInv, NEW w \in Workers, FetchPage(w) \/ FetchFails(w), UNCHANGED process
    PROVE  UnfurlInv'
<1> PICK page : page \in {NoPreview, request[hands[w]].URL} /\ Yield(w, page)
  BY DEF FetchPage, FetchFails
<1> PICK y : y = [page |-> page, done |-> TRUE]
  OBVIOUS
<1>1. /\ hands[w] # NoJob /\ fetched' = [fetched EXCEPT ![w] = y]
      /\ UNCHANGED <<poolVars, rowVars, attempt>>
  BY DEF Yield, Fetching
<1>2. UNCHANGED <<queue, closed, stopped, sender, hands, exited, closer, rows, request>>
  BY <1>1 DEF poolVars, rowVars
<1>3. page \in URLs \cup {NoPreview}
  BY <1>1, InHand DEF Request
<1>4. /\ fetched' \in [Workers -> [page : URLs \cup {NoPreview}, done : BOOLEAN]]
      /\ fetched'[w].page = page
      /\ \A v \in Workers : v # w => fetched'[v] = fetched[v]
  BY <1>1, <1>3 DEF UnfurlInv, UnfurlTyped
<1>5. PoolTypeOK' /\ AttemptedOnce' /\ RequestsStand
  <2>1. PoolTypeOK'
    BY <1>2 DEF UnfurlInv, UnfurlTyped, PoolTypeOK
  <2>2. AttemptedOnce'
    BY <1>1, <1>2 DEF UnfurlInv, AttemptedOnce, InQueue, InHands
  <2>3. RequestsStand
    BY <1>1, <1>2 DEF RequestsStand
  <2> QED
    BY <2>1, <2>2, <2>3
<1>6. FetchesFit'
  BY <1>1, <1>2, <1>4 DEF UnfurlInv, FetchesFit
<1>7. attempt' \in [Jobs -> {"none", "stamped", "gone", "lost"}]
  BY <1>1 DEF UnfurlInv, UnfurlTyped
<1> QED
  BY <1>2, <1>4, <1>5, <1>6, <1>7, RowsRest

LEMMA DoneStep ==
    ASSUME UnfurlInv, NEW w \in Workers, hands[w] # NoJob,
           NEW how \in {"stamped", "gone", "lost"}, Done(w, how)
    PROVE  /\ PoolTypeOK' /\ AttemptedOnce' /\ FetchesFit' /\ RequestsStand
           /\ fetched' \in [Workers -> [page : URLs \cup {NoPreview}, done : BOOLEAN]]
           /\ attempt' \in [Jobs -> {"none", "stamped", "gone", "lost"}]
           /\ attempt'[hands[w]] = how
<1> PICK j : j = hands[w]
  OBVIOUS
<1>1. /\ attempt' = [attempt EXCEPT ![j] = how] /\ hands' = [hands EXCEPT ![w] = NoJob]
      /\ fetched' = [fetched EXCEPT ![w] = [page |-> NoPreview, done |-> FALSE]]
      /\ UNCHANGED <<queue, closed, stopped, sender, exited, closer, request>>
  BY DEF Done, NotYet
<1>2. j \in Jobs /\ j \in InHands /\ sender[j] = "accepted" /\ attempt[j] = "none"
  BY InHand
<1>3. /\ attempt' \in [Jobs -> {"none", "stamped", "gone", "lost"}] /\ attempt'[j] = how
      /\ \A i \in Jobs : i # j => attempt'[i] = attempt[i]
  BY <1>1, <1>2 DEF UnfurlInv, UnfurlTyped
<1>4. /\ hands' \in [Workers -> Jobs \cup {NoJob}] /\ hands'[w] = NoJob
      /\ \A v \in Workers : v # w => hands'[v] = hands[v]
  BY <1>1 DEF UnfurlInv, UnfurlTyped, PoolTypeOK
<1>5. \A v \in Workers : v # w => hands[v] # j
  BY DEF UnfurlInv, AttemptedOnce
<1>6. InHands' = InHands \ {j} /\ InQueue' = InQueue /\ j \notin InQueue
  BY <1>1, <1>2, <1>4, <1>5 DEF InHands, InQueue, UnfurlInv, AttemptedOnce
<1>7. InHands \subseteq Jobs /\ InQueue \subseteq Jobs
  BY DEF InHands, InQueue, UnfurlInv, UnfurlTyped, PoolTypeOK
<1>8. AttemptedOnce'
  <2>1. \A i \in InQueue' \cup InHands' : sender'[i] = "accepted" /\ attempt'[i] = "none"
    BY <1>1, <1>3, <1>6, <1>7 DEF UnfurlInv, AttemptedOnce
  <2>2. \A v, u \in Workers : hands'[v] = hands'[u] /\ hands'[v] # NoJob => v = u
    BY <1>4 DEF UnfurlInv, AttemptedOnce
  <2>3. InQueue' \cap InHands' = {}
    BY <1>6 DEF UnfurlInv, AttemptedOnce
  <2>4. \A i \in Jobs : attempt'[i] # "none" => sender'[i] = "accepted"
    BY <1>1, <1>2, <1>3 DEF UnfurlInv, AttemptedOnce
  <2> QED
    BY <1>1, <2>1, <2>2, <2>3, <2>4 DEF UnfurlInv, AttemptedOnce
<1>9. PoolTypeOK'
  BY <1>1, <1>4 DEF UnfurlInv, UnfurlTyped, PoolTypeOK
<1>a. /\ fetched' \in [Workers -> [page : URLs \cup {NoPreview}, done : BOOLEAN]]
      /\ ~fetched'[w].done /\ \A v \in Workers : v # w => fetched'[v] = fetched[v]
  BY <1>1 DEF UnfurlInv, UnfurlTyped
<1>b. FetchesFit'
  BY <1>1, <1>4, <1>a DEF UnfurlInv, FetchesFit
<1>c. RequestsStand
  BY <1>1, <1>2, <1>3 DEF RequestsStand
<1> QED
  BY <1>3, <1>8, <1>9, <1>a, <1>b, <1>c

LEMMA UpdateLostStep ==
    ASSUME UnfurlInv, NEW w \in Workers, UpdateGone(w) \/ UpdateFails(w), UNCHANGED process
    PROVE  UnfurlInv'
<1>1. hands[w] # NoJob /\ UNCHANGED <<rows, request>> /\ (Done(w, "gone") \/ Done(w, "lost"))
  BY DEF UpdateGone, UpdateFails, Fetched, Done
<1> QED
  BY <1>1, DoneStep, RowsRest

\* The preview that an attempt stamps was fetched at the URL its job carries.
LEMMA UpdatePreviewStep ==
    ASSUME UnfurlInv, NEW w \in Workers, UpdatePreview(w), UNCHANGED process
    PROVE  UnfurlInv'
<1> PICK j : j = hands[w]
  OBVIOUS
<1> PICK c, page : c = request[j].Code /\ page = fetched[w].page
  OBVIOUS
<1>1. /\ j # NoJob /\ fetched[w].done /\ rows[c] # NoRow
      /\ rows' = [rows EXCEPT ![c] = [rows[c] EXCEPT !.Preview = page, !.Stamped = TRUE]]
      /\ Done(w, "stamped") /\ UNCHANGED <<request, process>>
  BY DEF UpdatePreview, Fetched, Target, Done
<1>2. j \in Jobs /\ sender[j] = "accepted" /\ request[j] \in Request
  BY <1>1, InHand
<1>3. c \in Codes /\ request[j] = [Code |-> c, URL |-> request[j].URL]
  BY <1>2 DEF Request
<1>4. page \in {NoPreview, request[j].URL} /\ page \in URLs \cup {NoPreview}
  BY <1>1, <1>2 DEF UnfurlInv, FetchesFit, Request
<1>5. rows[c] \in Row
  BY <1>1, <1>3 DEF UnfurlInv, UnfurlTyped
<1>6. /\ rows' \in [Codes -> Row \cup {NoRow}]
      /\ rows'[c].URL = rows[c].URL /\ rows'[c].Preview = page /\ rows'[c].Stamped
      /\ \A b \in Codes : b # c => rows'[b] = rows[b]
  BY <1>1, <1>3, <1>4, <1>5 DEF UnfurlInv, UnfurlTyped, Row
<1>7. /\ PoolTypeOK' /\ AttemptedOnce' /\ FetchesFit' /\ RequestsStand
      /\ fetched' \in [Workers -> [page : URLs \cup {NoPreview}, done : BOOLEAN]]
      /\ attempt' \in [Jobs -> {"none", "stamped", "gone", "lost"}]
      /\ attempt'[j] = "stamped"
  BY <1>1, DoneStep
<1>8. UnfurlTyped'
  BY <1>1, <1>6, <1>7 DEF UnfurlInv, UnfurlTyped
<1>9. ASSUME NEW b \in Codes PROVE FitsRow(b)'
  <2>1. CASE b = c
    <3>1. j \in Accepted'
      BY <1>2, <1>7 DEF Accepted, RequestsStand
    <3>2. page # NoPreview => request'[j] = [Code |-> c, URL |-> page]
      BY <1>1, <1>3, <1>4
    <3> QED
      BY <1>1, <1>6, <1>7, <2>1, <3>1, <3>2 DEF FitsRow
  <2>2. CASE b # c
    BY <1>1, <1>6, <1>7, <2>2, RowStands
  <2> QED
    BY <2>1, <2>2
<1> QED
  BY <1>7, <1>8, <1>9, FitRows DEF UnfurlInv

\* What main does touches neither the pool nor the rows.
LEMMA MainStep ==
    ASSUME UnfurlInv, NEW from, NEW to \in {"stopping", "closed", "exited"}, MainMoves(from, to)
    PROVE  UnfurlInv'
<1>1. UNCHANGED <<poolVars, fetchVars, rows, request>> /\ process' = to
  BY DEF MainMoves, rowVars
<1>2. /\ PoolTypeOK' /\ AttemptedOnce' /\ FetchesFit' /\ RequestsStand
      /\ fetched' \in [Workers -> [page : URLs \cup {NoPreview}, done : BOOLEAN]]
      /\ attempt' \in [Jobs -> {"none", "stamped", "gone", "lost"}]
  BY <1>1, PoolRests
<1>3. UnfurlTyped'
  BY <1>1, <1>2 DEF UnfurlInv, UnfurlTyped
<1>4. \A c \in Codes : FitsRow(c)'
  BY <1>1, <1>2, RowStands
<1> QED
  BY <1>2, <1>3, <1>4, FitRows DEF UnfurlInv

LEMMA UnfurlInvInit == UnfurlInit => UnfurlInv
<1> SUFFICES ASSUME UnfurlInit PROVE UnfurlInv
  OBVIOUS
<1>1. PoolTypeOK
  <2>1. queue \in Seq(Jobs) /\ Len(queue) <= QueueSize
    BY PoolAssumption DEF UnfurlInit, PoolInit
  <2>2. sender \in [Jobs -> SenderPCs] /\ hands \in [Workers -> Jobs \cup {NoJob}]
    BY DEF UnfurlInit, PoolInit, SenderPCs
  <2> QED
    BY <2>1, <2>2 DEF UnfurlInit, PoolInit, PoolTypeOK
<1>2. UnfurlTyped
  BY <1>1 DEF UnfurlInit, UnfurlTyped, NotYet
<1>3. InQueue = {} /\ InHands = {}
  BY DEF UnfurlInit, PoolInit, InQueue, InHands
<1>4. AttemptedOnce /\ FetchesFit
  BY <1>3 DEF UnfurlInit, PoolInit, AttemptedOnce, FetchesFit, NotYet
<1>5. LateAnswersFit
  BY DEF UnfurlInit, LateAnswersFit
<1> QED
  BY <1>2, <1>4, <1>5 DEF UnfurlInv

LEMMA UnfurlInvNext == UnfurlInv /\ [UnfurlNext]_unfurlVars => UnfurlInv'
<1> SUFFICES ASSUME UnfurlInv, [UnfurlNext]_unfurlVars PROVE UnfurlInv'
  OBVIOUS
<1>1. CASE UNCHANGED unfurlVars
  <2>1. UNCHANGED <<poolVars, fetchVars, rows, request, process>>
    BY <1>1 DEF unfurlVars, rowVars
  <2>2. /\ PoolTypeOK' /\ AttemptedOnce' /\ FetchesFit' /\ RequestsStand
        /\ fetched' \in [Workers -> [page : URLs \cup {NoPreview}, done : BOOLEAN]]
        /\ attempt' \in [Jobs -> {"none", "stamped", "gone", "lost"}]
    BY <2>1, PoolRests
  <2> QED
    BY <2>1, <2>2, RowsRest
<1>2. CASE \/ \E j \in Jobs, c \in Codes, url \in URLs : Shorten(j, c, url)
           \/ \E j \in Jobs : Submit(j)
           \/ \E c \in Codes, url \in URLs : PatchURL(c, url)
           \/ \E c \in Codes : Remove(c)
           \/ CloseUnfurler
           \/ CancelContext \/ CloseStore \/ MainReturns
  BY <1>2, ShortenStep, SubmitStep, PatchURLStep, RemoveStep, PoolClosesStep, MainStep
     DEF CloseUnfurler, CancelContext, CloseStore, MainReturns
<1>3. ASSUME NEW w \in Workers, UnfurlWorker(w) PROVE UnfurlInv'
  BY <1>3, UnfurlTakeStep, PoolClosesStep, YieldStep, UpdateLostStep, UpdatePreviewStep
     DEF UnfurlWorker, fetch
<1> QED
  BY <1>1, <1>2, <1>3 DEF UnfurlNext

\* unfurl.go:149: a job is in one place until it is attempted, no job is
\* attempted twice, and what a fetch yields is a page of its own request.
THEOREM UnfurlInvariant == UnfurlSpec => []UnfurlInv
BY UnfurlInvInit, UnfurlInvNext, PTL DEF UnfurlSpec

\* unfurl.go:168: a preview on a row has a job behind it that was accepted for
\* the row's code, at the URL whose page it shows: no answer, however late,
\* lands under another code or without its stamp.
THEOREM PreviewsHaveJobs == UnfurlSpec => []LateAnswersFit
<1>1. UnfurlInv => LateAnswersFit
  BY DEF UnfurlInv
<1> QED
  BY <1>1, UnfurlInvariant, PTL
===============================================================================
