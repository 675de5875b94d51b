------------------------------- MODULE GateClock -------------------------------
(***************************************************************************)
(* What RateLimiter and DNSCache share: the requests and the clock that    *)
(* time.Now reads.                                                         *)
(***************************************************************************)
EXTENDS Naturals, Sequences, FiniteSets

CONSTANT Requests

VARIABLE clock
===============================================================================
