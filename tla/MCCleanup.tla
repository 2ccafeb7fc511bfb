----------------------------- MODULE MCCleanup -----------------------------
(* Values for the constants of Cleanup. *)
EXTENDS Cleanup, TLC

\* Processes and Sessions are interchangeable.
Interchangeable == Permutations(Cleaners) \cup Permutations(Sessions)
=============================================================================
