--------------------------- MODULE MCIntegration ---------------------------
(* Two Tickets, the second waiting for the first.                          *)
EXTENDS Integration, TLC

CONSTANTS t1, t2

TwoTickets == {t1, t2}
Chain == (t1 :> {}) @@ (t2 :> {t1})

\* Teams, or definitions, of the Tickets.
OneEach == (t1 :> 1) @@ (t2 :> 1)
TwoOfTheFirst == (t1 :> 2) @@ (t2 :> 1)

\* Main halts Tickets and takes them up again; or starts them, too.
Halts == {"ready", "blocked"}
Restarts == {"ready", "implementing", "blocked"}
============================================================================
