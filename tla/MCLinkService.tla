---------------------------- MODULE MCLinkService ----------------------------
(***************************************************************************)
(* Instances of LinkService: what clients put in their requests.           *)
(***************************************************************************)
EXTENDS LinkService, TLC

URL == CHOOSE u \in URLs : TRUE

PlainLink == [URL |-> URL, ExpirationMins |-> 0, MaxClicks |-> 0,
              HasPassword |-> FALSE, WebhookURL |-> NoURL]

PlainLinks  == {PlainLink}
CappedLinks == {[PlainLink EXCEPT !.MaxClicks = 1]}
HookedLinks == {PlainLink, [PlainLink EXCEPT !.WebhookURL = URL]}

\* A lifetime above the maximum is clipped to it.
ExpiringLinks == {[PlainLink EXCEPT !.ExpirationMins = 2, !.WebhookURL = URL],
                  [PlainLink EXCEPT !.HasPassword = TRUE]}

NoPatches    == {}
CapPatches   == {[NoPatch EXCEPT !.MaxClicks = n] : n \in {0, 1, 2}}
HookPatches  == {[NoPatch EXCEPT !.WebhookURL = URL],
                 [NoPatch EXCEPT !.WebhookURL = URL, !.RotateWebhook = TRUE],
                 [NoPatch EXCEPT !.WebhookURL = NoURL],
                 [NoPatch EXCEPT !.RotateWebhook = TRUE]}
PlainPatches == {[NoPatch EXCEPT !.HasPassword = TRUE]}
LifePatches  == {[NoPatch EXCEPT !.ExpirationMins = 1],
                 [NoPatch EXCEPT !.ExpirationMins = 0, !.HasPassword = FALSE]}
                \cup HookPatches

\* Goroutines are interchangeable, and so are codes.
Symmetry == Permutations(Procs) \cup Permutations(Codes)
==============================================================================
