---------------------------- MODULE OwnerHandlers ----------------------------
(***************************************************************************)
(* handlers/rotate.go and handlers/delete.go: the two other changes the    *)
(* holder of a row can make.  Both check the credential against the        *)
(* snapshot Get returned and then name the row by its code alone.          *)
(***************************************************************************)
EXTENDS Requests

----------------------------------------------------------------------------
(* POST /api/url/{code}/rotate: the owner token only. *)

RotateGet(p) ==
    \E c \in Codes, bearer \in Bearers :
        /\ GetOK(c)
        /\ authorizeOwner(bearer, urls[c].OwnerTokenHash)
        /\ Arrive(p, [Idle EXCEPT !.pc = "rotate.RotateToken", !.code = c, !.bearer = bearer])
        /\ UNCHANGED <<storeVars, minted, fanOutVars, clock>>

\* 404, 410 or 401.
RotateRefused(p) ==
    \E c \in Codes, bearer \in Bearers :
        /\ GetOK(c) => ~authorizeOwner(bearer, urls[c].OwnerTokenHash)
        /\ Arrive(p, Idle)
        /\ UNCHANGED <<storeVars, minted, fanOutVars, clock>>

RotateToken_(p) ==
    LET c == req[p].code IN
    /\ Proceed(p, "rotate.RotateToken",
         [Idle EXCEPT !.pc = "audit", !.token = minted + 1,
             !.entry = Entry([kind |-> "admin_token", id |-> 0], "url.token_rotated", c)])
    /\ RotateToken(c, minted + 1)
    /\ Mint
    /\ UNCHANGED <<fanOutVars, clock>>

\* Lost a race with a delete: 404.
RotateGone(p) ==
    /\ Proceed(p, "rotate.RotateToken", Idle)
    /\ ~Exists(req[p].code)
    /\ UNCHANGED <<storeVars, minted, fanOutVars, clock>>

Rotate(p) ==
    \/ RotateGet(p)
    \/ RotateRefused(p)
    \/ RotateToken_(p)
    \/ RotateGone(p)

----------------------------------------------------------------------------
(* DELETE /api/url/{code}: the owner token or the row's API key. *)

DeleteGet(p) ==
    \E c \in Codes, bearer \in Bearers :
        /\ GetOK(c)
        /\ Arrive(p, [Idle EXCEPT !.pc = "delete.authorize", !.code = c,
                                  !.bearer = bearer, !.snap = urls[c]])
        /\ UNCHANGED <<storeVars, minted, fanOutVars, clock>>

\* 404 or 410.
DeleteMissing(p) ==
    \E c \in Codes :
        /\ ~GetOK(c)
        /\ Arrive(p, Idle)
        /\ UNCHANGED <<storeVars, minted, fanOutVars, clock>>

\* 401.
DeleteUnauthorized(p) ==
    /\ Proceed(p, "delete.authorize", Idle)
    /\ ~authorizeAccess(req[p].bearer, req[p].snap)
    /\ UNCHANGED <<storeVars, minted, fanOutVars, clock>>

DeleteAuthorized(p) ==
    /\ Proceed(p, "delete.authorize", [req[p] EXCEPT !.pc = "delete.Delete"])
    /\ authorizeAccess(req[p].bearer, req[p].snap)
    /\ UNCHANGED <<storeVars, minted, fanOutVars, clock>>

DeleteDelete(p) ==
    /\ Proceed(p, "delete.Delete", [req[p] EXCEPT !.pc = "delete.resolveActor"])
    /\ Delete(req[p].code)
    /\ UNCHANGED <<minted, fanOutVars, clock>>

\* Lost a race with another deleter: 204, and no audit event.
DeleteGone(p) ==
    /\ Proceed(p, "delete.Delete", Idle)
    /\ ~Exists(req[p].code)
    /\ UNCHANGED <<storeVars, minted, fanOutVars, clock>>

\* Mutant: as in PATCH, the row is read back before the change is logged.
DeleteRereads(p) ==
    LET actor == resolveActor(req[p].bearer, req[p].snap) IN
    /\ Proceed(p, "delete.resolveActor",
         IF ~GetOK(req[p].code) THEN Idle
         ELSE [Idle EXCEPT !.pc = "audit",
                 !.entry = Entry(actor, "url.delete", req[p].code)])
    /\ UNCHANGED <<storeVars, minted, fanOutVars, clock>>

DeleteResolveActor(p) ==
    /\ Proceed(p, "delete.resolveActor",
         [Idle EXCEPT !.pc = "audit",
             !.entry = Entry(resolveActor(req[p].bearer, req[p].snap), "url.delete", req[p].code)])
    /\ UNCHANGED <<storeVars, minted, fanOutVars, clock>>

DeleteURL(p) ==
    \/ DeleteGet(p)
    \/ DeleteMissing(p)
    \/ DeleteUnauthorized(p)
    \/ DeleteAuthorized(p)
    \/ DeleteDelete(p)
    \/ DeleteGone(p)
    \/ DeleteResolveActor(p)
==============================================================================
