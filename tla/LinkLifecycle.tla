---------------------------- MODULE LinkLifecycle ----------------------------
(***************************************************************************)
(* What the service promises about a short code, with no handlers, store   *)
(* or time in it.  A code is free or is a link with one owner token and a  *)
(* click count.  Only a free code can be claimed, always under a token     *)
(* that never owned anything; the owner can change only to such a token,   *)
(* and that keeps the clicks; clicks come one at a time.                   *)
(***************************************************************************)
EXTENDS Naturals

CONSTANT Codes

VARIABLES
    link,    \* code -> [owner, clicks]; owner 0 is a free code
    drawn    \* random values drawn so far

lifecycleVars == <<link, drawn>>

Free == [owner |-> 0, clicks |-> 0]

Live(c) == link[c].owner # 0

LifecycleInit ==
    /\ link = [c \in Codes |-> Free]
    /\ drawn = 0

\* A link is created, with or without a webhook secret of its own.
Claim(c) ==
    /\ ~Live(c)
    /\ link' = [link EXCEPT ![c] = [owner |-> drawn + 1, clicks |-> 0]]
    /\ drawn' \in {drawn + 1, drawn + 2}

Rekey(c) ==
    /\ Live(c)
    /\ link' = [link EXCEPT ![c].owner = drawn + 1]
    /\ drawn' = drawn + 1

Click(c) ==
    /\ Live(c)
    /\ link' = [link EXCEPT ![c].clicks = @ + 1]
    /\ UNCHANGED drawn

\* Links are deleted, or expire together.
Release(S) ==
    /\ link' = [c \in Codes |-> IF c \in S THEN Free ELSE link[c]]
    /\ UNCHANGED drawn

\* A value is drawn for something else: an API key, a new webhook secret.
Draw ==
    /\ drawn' = drawn + 1
    /\ UNCHANGED link

LifecycleNext ==
    \/ \E c \in Codes : Claim(c) \/ Rekey(c) \/ Click(c)
    \/ \E S \in SUBSET Codes : Release(S)
    \/ Draw

LifecycleSpec == LifecycleInit /\ [][LifecycleNext]_lifecycleVars

----------------------------------------------------------------------------
\* Two links never share an owner token, and every owner token was drawn.
OwnersDistinct ==
    /\ \A c \in Codes : link[c].owner \in 0..drawn
    /\ \A c, d \in Codes : Live(c) /\ link[c].owner = link[d].owner => c = d

\* A token that owns nothing any more never owns anything again.
Owners == {link[c].owner : c \in Codes}
TokensNeverReturn ==
    [][\A t \in 1..drawn : t \notin Owners => t \notin Owners']_lifecycleVars
==============================================================================
