---------------------------- MODULE APIKeyHandler ----------------------------
(***************************************************************************)
(* handlers/apikey.go: POST, PATCH and DELETE /api/keys.  Labels and       *)
(* last_used_at are left out; a label update still fails when its key is   *)
(* gone and is still audited.                                              *)
(***************************************************************************)
EXTENDS Requests

KeyActor(id) == [kind |-> "apikey", id |-> id]

\* create: no credential is needed.
CreateKey(p) ==
    /\ Arrive(p, [Idle EXCEPT !.pc = "audit", !.token = minted + 1,
                     !.entry = Entry([kind |-> "anon", id |-> 0],
                                     "api_key.create", nextKeyID + 1)])
    /\ CreateAPIKey(minted + 1)
    /\ Mint
    /\ UNCHANGED <<fanOutVars, clock>>

\* requireAPIKey found the key; next is the label update or the revocation.
KeyFound(p, pc) ==
    \E bearer \in Bearers :
        /\ LookupAPIKey(bearer) # 0
        /\ Arrive(p, [Idle EXCEPT !.pc = pc, !.keyID = LookupAPIKey(bearer)])
        /\ UNCHANGED <<storeVars, minted, fanOutVars, clock>>

\* 401.
KeyRefused(p) ==
    \E bearer \in Bearers :
        /\ LookupAPIKey(bearer) = 0
        /\ Arrive(p, Idle)
        /\ UNCHANGED <<storeVars, minted, fanOutVars, clock>>

UpdateKeyLabel(p) ==
    /\ Proceed(p, "apikey.UpdateLabel",
         [Idle EXCEPT !.pc = "audit",
             !.entry = Entry(KeyActor(req[p].keyID), "api_key.label_updated", req[p].keyID)])
    /\ req[p].keyID \in KeyIDs
    /\ UNCHANGED <<storeVars, minted, fanOutVars, clock>>

RevokeKey(p) ==
    /\ Proceed(p, "apikey.Delete",
         [Idle EXCEPT !.pc = "audit",
             !.entry = Entry(KeyActor(req[p].keyID), "api_key.revoke", req[p].keyID)])
    /\ DeleteAPIKey(req[p].keyID)
    /\ UNCHANGED <<minted, fanOutVars, clock>>

\* Lost a race with another revoker: 204 for a revocation, 500 for a label.
KeyGone(p) ==
    /\ \/ Proceed(p, "apikey.UpdateLabel", Idle)
       \/ Proceed(p, "apikey.Delete", Idle)
    /\ req[p].keyID \notin KeyIDs
    /\ UNCHANGED <<storeVars, minted, fanOutVars, clock>>

APIKeyRequest(p) ==
    \/ CreateKey(p)
    \/ KeyFound(p, "apikey.UpdateLabel")
    \/ KeyFound(p, "apikey.Delete")
    \/ KeyRefused(p)
    \/ UpdateKeyLabel(p)
    \/ RevokeKey(p)
    \/ KeyGone(p)
==============================================================================
