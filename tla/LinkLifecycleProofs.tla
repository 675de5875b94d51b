------------------------- MODULE LinkLifecycleProofs -------------------------
(***************************************************************************)
(* What follows from the promise LinkLifecycle makes, for every set of     *)
(* codes.                                                                  *)
(***************************************************************************)
EXTENDS LinkLifecycle, TLAPS

LifecycleTypeOK ==
    /\ link \in [Codes -> [owner : Nat, clicks : Nat]]
    /\ drawn \in Nat

LEMMA LifecycleTypeInit == LifecycleInit => LifecycleTypeOK
BY DEF LifecycleInit, LifecycleTypeOK, Free

LEMMA LifecycleTypeStep ==
    ASSUME LifecycleTypeOK, [LifecycleNext]_lifecycleVars
    PROVE  LifecycleTypeOK'
<1> USE DEF LifecycleTypeOK
<1>0. drawn + 1 \in Nat /\ drawn + 2 \in Nat
  OBVIOUS
<1>1. ASSUME NEW c \in Codes, Claim(c) PROVE LifecycleTypeOK'
  BY <1>0, <1>1 DEF Claim
<1>2. ASSUME NEW c \in Codes, Rekey(c) PROVE LifecycleTypeOK'
  BY <1>0, <1>2 DEF Rekey
<1>3. ASSUME NEW c \in Codes, Click(c) PROVE LifecycleTypeOK'
  <2>1. link[c].clicks + 1 \in Nat
    OBVIOUS
  <2> QED
    BY <1>3, <2>1 DEF Click
<1>4. ASSUME NEW S \in SUBSET Codes, Release(S) PROVE LifecycleTypeOK'
  BY <1>4 DEF Release, Free
<1>5. CASE Draw
  BY <1>0, <1>5 DEF Draw
<1>6. CASE UNCHANGED lifecycleVars
  BY <1>6 DEF lifecycleVars
<1> QED
  BY <1>1, <1>2, <1>3, <1>4, <1>5, <1>6 DEF LifecycleNext

LEMMA OwnersStep ==
    ASSUME LifecycleTypeOK, OwnersDistinct, [LifecycleNext]_lifecycleVars
    PROVE  OwnersDistinct'
<1> USE DEF LifecycleTypeOK, OwnersDistinct, Live
<1>1. ASSUME NEW c \in Codes, Claim(c) PROVE OwnersDistinct'
  BY <1>1 DEF Claim
<1>2. ASSUME NEW c \in Codes, Rekey(c) PROVE OwnersDistinct'
  BY <1>2 DEF Rekey
<1>3. ASSUME NEW c \in Codes, Click(c) PROVE OwnersDistinct'
  BY <1>3 DEF Click
<1>4. ASSUME NEW S \in SUBSET Codes, Release(S) PROVE OwnersDistinct'
  BY <1>4 DEF Release, Free
<1>5. CASE Draw
  BY <1>5 DEF Draw
<1>6. CASE UNCHANGED lifecycleVars
  BY <1>6 DEF lifecycleVars
<1> QED
  BY <1>1, <1>2, <1>3, <1>4, <1>5, <1>6 DEF LifecycleNext

LEMMA RetiredStep ==
    ASSUME LifecycleTypeOK, OwnersDistinct, [LifecycleNext]_lifecycleVars
    PROVE  \A t \in 1..drawn : t \notin Owners => t \notin Owners'
<1> USE DEF LifecycleTypeOK, OwnersDistinct, Owners
<1>1. ASSUME NEW c \in Codes, Claim(c) \/ Rekey(c) \/ Click(c)
      PROVE  \A t \in 1..drawn : t \notin Owners => t \notin Owners'
  <2>1. \A d \in Codes : link'[d].owner = link[d].owner \/ link'[d].owner = drawn + 1
    BY <1>1 DEF Claim, Rekey, Click
  <2> QED
    BY <2>1
<1>2. ASSUME NEW S \in SUBSET Codes, Release(S)
      PROVE  \A t \in 1..drawn : t \notin Owners => t \notin Owners'
  BY <1>2 DEF Release, Free
<1>3. CASE Draw \/ UNCHANGED lifecycleVars
  BY <1>3 DEF Draw, lifecycleVars
<1> QED
  BY <1>1, <1>2, <1>3 DEF LifecycleNext

\* Two live links never share an owner token, and none was made up.
THEOREM OwnersStayDistinct == LifecycleSpec => []OwnersDistinct
<1>1. LifecycleInit => OwnersDistinct
  BY DEF LifecycleInit, OwnersDistinct, Live, Free
<1> QED
  BY <1>1, LifecycleTypeInit, LifecycleTypeStep, OwnersStep, PTL DEF LifecycleSpec

\* A token that was rotated away, or whose link is gone, opens nothing ever
\* again.
THEOREM TokensStayRetired == LifecycleSpec => TokensNeverReturn
<1>1. LifecycleInit => OwnersDistinct
  BY DEF LifecycleInit, OwnersDistinct, Live, Free
<1>2. LifecycleTypeOK /\ OwnersDistinct /\ [LifecycleNext]_lifecycleVars
        => [\A t \in 1..drawn : t \notin Owners => t \notin Owners']_lifecycleVars
  BY RetiredStep
<1> QED
  BY <1>1, <1>2, LifecycleTypeInit, LifecycleTypeStep, OwnersStep, PTL
     DEF LifecycleSpec, TokensNeverReturn
==============================================================================
