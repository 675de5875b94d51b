------------------------------- MODULE Shutdown -------------------------------
(***************************************************************************)
(* main.go and app.go: what SIGTERM does to redirects that enqueue a click *)
(* webhook.  It cancels one context.  A goroutine started by buildHandler  *)
(* waits for that and closes the dispatcher at once; main, waiting for the *)
(* same, sleeps through the drain window with its listener open, then      *)
(* calls server.Shutdown, closes the store and returns.  main does not     *)
(* wait for that goroutine: the process ends when main does.               *)
(***************************************************************************)
EXTENDS WebhookDispatcher

VARIABLES
    main,       \* where main is
    inflight    \* jobs whose redirect has been accepted and not answered

vars == <<poolVars, dispatchVars, main, inflight>>

Init ==
    /\ DispatchInit
    /\ main = "serving"
    /\ inflight = {}

Running == main # "exited"

\* The listener accepts a redirect of a link with a webhook.
Arrive(j) ==
    /\ main \in {"serving", "draining"}
    /\ sender[j] = "idle"
    /\ inflight' = inflight \cup {j}
    /\ UNCHANGED <<poolVars, dispatchVars, main>>

\* Its handler has recorded the click and calls Enqueue.
Redirect(j) ==
    /\ Running
    /\ j \in inflight
    /\ Enqueue(j)
    /\ UNCHANGED <<dispatchVars, main, inflight>>

Respond(j) ==
    /\ Running
    /\ j \in inflight
    /\ sender[j] \notin {"idle", "checked"}
    /\ inflight' = inflight \ {j}
    /\ UNCHANGED <<poolVars, dispatchVars, main>>

Work(w) ==
    /\ Running
    /\ Worker(w)
    /\ UNCHANGED <<main, inflight>>

\* The goroutine that waits for the context and closes the dispatcher.
CloseOnDone ==
    /\ Running
    /\ main # "serving"
    /\ Close
    /\ UNCHANGED <<dispatchVars, main, inflight>>

Move(from, to) ==
    /\ main = from
    /\ main' = to
    /\ UNCHANGED <<poolVars, dispatchVars, inflight>>

\* SIGTERM.
Signal == Move("serving", "draining")

\* The drain window is over: server.Shutdown closes the listener.
StopListening == Move("draining", "stopping")

\* Every request has been answered.
Stopped == inflight = {} /\ Move("stopping", "stopped")

\* ShutdownTimeout passes first.
GiveUp == inflight # {} /\ Move("stopping", "stopped")

\* store.Close, then main returns.
ExitProcess == Move("stopped", "exited")

Main == StopListening \/ Stopped \/ GiveUp \/ ExitProcess

Next ==
    \/ \E j \in Jobs : Arrive(j) \/ Redirect(j) \/ Respond(j)
    \/ \E w \in Workers : Work(w)
    \/ CloseOnDone
    \/ Signal
    \/ Main

Spec == Init /\ [][Next]_vars

\* Goroutines that have something to do keep running, and every POST ends
\* (the client has a timeout).  Nobody makes a request or signals, and main
\* may take any time: a process that ends would settle every promise.
Fairness ==
    /\ \A j \in Jobs : WF_vars(Redirect(j))
    /\ \A w \in Workers : WF_vars(Work(w))
    /\ WF_vars(CloseOnDone)

FairSpec == Spec /\ Fairness

TypeOK ==
    /\ DispatchTypeOK
    /\ main \in {"serving", "draining", "stopping", "stopped", "exited"}
    /\ inflight \in SUBSET Jobs

----------------------------------------------------------------------------
(* Deliveries. *)

\* webhook.go:38: an event that was accepted is in one place until its
\* delivery ends: once in the queue, or in the hands of one worker.  An event
\* that was not accepted is nowhere.
OnePlace ==
    /\ \A i, k \in 1..Len(queue) : queue[i] = queue[k] => i = k
    /\ \A v, w \in Workers : hands[v] = hands[w] /\ hands[v] # NoJob => v = w
    /\ InQueue \cap InHands = {}
    /\ InQueue \cup InHands = {j \in Accepted : ~Settled(j)}
    /\ \A j \in Jobs : Settled(j) => j \in Accepted

\* webhook.go:44: an event is posted again only after a transient failure,
\* and MaxAttempts times at most.
PostsAreRetries ==
    [][\A j \in Jobs : posts'[j] # posts[j] =>
          /\ j \notin answered
          /\ ~Settled(j)
          /\ posts'[j] = posts[j] + 1
          /\ posts'[j] <= MaxAttempts]_vars

\* webhook.go:140: once Close has returned, every event that was accepted
\* has been processed, also one accepted while Close was under way.
DrainedWhenClosed ==
    closer = "returned" => \A j \in Accepted : Settled(j)

\* webhook.go:141: once the dispatcher is closed, Enqueue returns false.
EnqueueNeverPanics == \A j \in Jobs : sender[j] # "panicked"

\* An event that was accepted is delivered or given up, unless the process
\* ends first.
AcceptedSettle ==
    \A j \in Jobs : j \in Accepted ~> Settled(j) \/ main = "exited"

\* webhook.go:148: Close, which waits for every worker, returns.
CloseReturns == closer # "idle" ~> closer = "returned" \/ main = "exited"
===============================================================================
