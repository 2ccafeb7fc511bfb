--------------------------- MODULE MCGraphCommit ---------------------------
(* Values for the constants of GraphCommit. *)
EXTENDS GraphCommit

Clock == 0 .. 1
Interchangeable == Permutations(Authors) \cup Permutations(TicketIds)
=============================================================================
