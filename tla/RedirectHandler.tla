--------------------------- MODULE RedirectHandler ---------------------------
(***************************************************************************)
(* handlers/redirect.go: GET and POST /{code}.  Every decision is taken on *)
(* the snapshot Get returned; the click is recorded at the end.            *)
(***************************************************************************)
EXTENDS Requests

\* Mutant: off by one.
CapPassed(m) == m.MaxClicks > 0 /\ m.ClickCount > m.MaxClicks

\* The row had reached its cap when it was read.
CapReached(m) == m.MaxClicks > 0 /\ m.ClickCount >= m.MaxClicks

\* Get, the click cap and the password gate.
RedirectGet(p) ==
    \E c \in Codes :
        /\ GetOK(c)
        /\ ~CapReached(urls[c])
        /\ Arrive(p, [Idle EXCEPT !.pc = "redirect.Check", !.code = c, !.snap = urls[c]])
        /\ UNCHANGED <<storeVars, minted, fanOutVars, clock>>

\* 404, 410, or the password form to a visitor who gave no right passphrase.
RedirectRefused(p) ==
    \E c \in Codes :
        /\ GetOK(c) => CapReached(urls[c]) \/ urls[c].HasPassword
        /\ Arrive(p, Idle)
        /\ UNCHANGED <<storeVars, minted, fanOutVars, clock>>

\* 451: the destination is deny-listed or its host no longer validates.
RedirectUnavailable(p) ==
    /\ Proceed(p, "redirect.Check", Idle)
    /\ UNCHANGED <<storeVars, minted, fanOutVars, clock>>

\* The host validates, which may have taken a DNS lookup; the event is
\* stamped after it and before the store is asked to record it.
RedirectStamp(p) ==
    /\ Proceed(p, "redirect.Check",
               [req[p] EXCEPT !.pc = "redirect.RecordClick", !.at = clock])
    /\ UNCHANGED <<storeVars, minted, fanOutVars, clock>>

RedirectRecordClick(p) ==
    /\ Proceed(p, "redirect.RecordClick", [req[p] EXCEPT !.pc = "redirect.Publish"])
    /\ RecordClick(req[p].code, req[p].at)
    /\ UNCHANGED <<minted, fanOutVars, clock>>

\* Mutant: the fan-out happens whether or not the click was recorded.
RedirectFansOutAnyway(p) ==
    /\ Proceed(p, "redirect.RecordClick", [req[p] EXCEPT !.pc = "redirect.Publish"])
    /\ ~Exists(req[p].code)
    /\ UNCHANGED <<storeVars, minted, fanOutVars, clock>>

\* The row is gone: logged, no fan-out, and the visitor is still redirected.
RedirectNotRecorded(p) ==
    /\ Proceed(p, "redirect.RecordClick", Idle)
    /\ ~Exists(req[p].code)
    /\ UNCHANGED <<storeVars, minted, fanOutVars, clock>>

RedirectPublish(p) ==
    /\ Proceed(p, "redirect.Publish",
               IF req[p].snap.WebhookURL = NoURL
               THEN Idle
               ELSE [req[p] EXCEPT !.pc = "redirect.Enqueue"])
    /\ published' = [published EXCEPT ![req[p].code] = @ + 1]
    /\ UNCHANGED <<storeVars, minted, enqueued, clock>>

RedirectEnqueue(p) ==
    /\ Proceed(p, "redirect.Enqueue", Idle)
    /\ enqueued' = [enqueued EXCEPT ![req[p].code] = @ + 1]
    /\ UNCHANGED <<storeVars, minted, published, clock>>

Redirect(p) ==
    \/ RedirectGet(p)
    \/ RedirectRefused(p)
    \/ RedirectUnavailable(p)
    \/ RedirectStamp(p)
    \/ RedirectRecordClick(p)
    \/ RedirectNotRecorded(p)
    \/ RedirectPublish(p)
    \/ RedirectEnqueue(p)
=============================================================================
