------------------------------ MODULE MCShutdown ------------------------------
(***************************************************************************)
(* Instances of Shutdown: a queue smaller than the number of events.       *)
(***************************************************************************)
EXTENDS Shutdown, TLC

\* Events are interchangeable, and so are workers.
Symmetry == Permutations(Jobs) \cup Permutations(Workers)
===============================================================================
