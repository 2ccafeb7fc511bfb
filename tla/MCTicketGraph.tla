--------------------------- MODULE MCTicketGraph ---------------------------
(* Two Tickets and one budget: enough for a cycle, a replacement and a     *)
(* dependency; the search itself is compared on every graph of three.      *)
EXTENDS TicketGraph, GraphSearch, TLC

CONSTANTS n1, n2, n3

\* The Ticket ids are interchangeable.
Symmetry == Permutations(TicketIds)

ASSUME SearchAssumption == SearchAgrees({n1, n2, n3})
============================================================================
