-------------------------- MODULE CommittedHistory --------------------------
(***************************************************************************)
(* What the graph commands and the Worldline promise together, with no     *)
(* files, locks or shards: a log of causal events that only grows, and for *)
(* every Ticket the event that gave it its current definition.  A change   *)
(* and its event are one step.  Only the death of a process may leave a    *)
(* change without its event, once for each death.                          *)
(***************************************************************************)
EXTENDS Naturals, Sequences

CONSTANTS Subjects,   \* the Tickets
          NoVersion,  \* a Ticket that does not exist
          HalfMade    \* a Ticket whose creation was cut short

VARIABLES log,        \* the events in the order they happened
          versions,   \* the event that defined each Ticket
          deaths      \* processes that died inside a command

Ids == {log[i].id : i \in DOMAIN log}

Init ==
  /\ log = <<>>
  /\ versions = [s \in Subjects |-> NoVersion]
  /\ deaths = 0

\* A command succeeds: all its Tickets move to the event, or none does.
Commit(event) ==
  /\ event.id \notin Ids
  /\ event.causes \subseteq Ids
  /\ log' = Append(log, event)
  /\ versions' = [s \in Subjects |-> IF s \in event.affected THEN event.id
                                                             ELSE versions[s]]
  /\ UNCHANGED deaths

\* A process dies: some of the Tickets of its one command may have moved, without
\* an event.
Death ==
  LET moved == {versions'[s] : s \in {u \in Subjects : versions'[u] # versions[u]}}
  IN  /\ deaths' = deaths + 1
      /\ moved \cap Ids = {} /\ \A v, w \in moved \ {HalfMade} : v = w
      /\ DOMAIN versions' = Subjects
      /\ UNCHANGED log

Next == \/ Len(log') = Len(log) + 1 /\ Commit(log'[Len(log')])
        \/ Death

Spec == Init /\ [][Next]_<<log, versions, deaths>>
=============================================================================
