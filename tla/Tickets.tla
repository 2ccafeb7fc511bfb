------------------------------ MODULE Tickets ------------------------------
(***************************************************************************)
(* What every module that touches a Ticket record shares: the delivery     *)
(* statuses, the transition table and the validity of a Ticket graph       *)
(* (src/src/graphtraj/graph/ticket_graph.py).  A graph is a function from  *)
(* the registered Ticket ids to records that have at least the fields      *)
(* active, replaced_by and dependencies; the code's lists of ids carry no  *)
(* duplicates and no meaning in their order, so they are sets here.        *)
(***************************************************************************)
EXTENDS FiniteSets

CONSTANT TicketIds   \* the accepted Ticket ids

Status == {"pending", "ready", "implementing", "reviewing", "reworking",
           "awaiting-integration", "integrating", "resolving-integration",
           "integrated", "blocked", "escalated"}

Halted == {"blocked", "escalated"}

\* The statuses a Ticket may move to, for each status it is in.
Transitions ==
  [s \in Status |->
     CASE s = "pending"               -> {"ready"} \cup Halted
       [] s = "ready"                 -> {"implementing"} \cup Halted
       [] s = "implementing"          -> {"reviewing"} \cup Halted
       [] s = "reviewing"             -> {"reworking", "awaiting-integration"} \cup Halted
       [] s = "reworking"             -> {"implementing", "reviewing"} \cup Halted
       [] s = "awaiting-integration"  -> {"integrating"} \cup Halted
       [] s = "integrating"           -> {"integrated", "resolving-integration"} \cup Halted
       [] s = "resolving-integration" -> {"integrating"} \cup Halted
       [] s = "integrated"            -> {}
       [] s = "blocked"               -> {"pending", "ready", "escalated"}
       [] s = "escalated"             -> {"pending", "ready", "blocked"}]

\* Statuses only ticket integrate may write; the generic update refuses them.
IntegrationOnly == {"integrating", "integrated"}

----------------------------------------------------------------------------
(* Graph validity *)

ActiveIn(graph) == {t \in DOMAIN graph : graph[t].active}

\* An active Ticket waits for registered, active Tickets other than itself.
DependenciesValid(graph) ==
  \A t \in DOMAIN graph :
     /\ graph[t].dependencies \subseteq DOMAIN graph \ {t}
     /\ graph[t].active => graph[t].dependencies \subseteq ActiveIn(graph)

\* Only a retired Ticket is replaced, and by Tickets that are active.
ReplacementsValid(graph) ==
  \A t \in DOMAIN graph :
     /\ graph[t].replaced_by \subseteq ActiveIn(graph) \ {t}
     /\ graph[t].active => graph[t].replaced_by = {}

\* The active part is a DAG: every nonempty set of active Tickets holds one
\* that waits for no member of that set.  (GraphSearch checks this against the
\* depth-first search of the code.)
ActiveIsDag(graph) ==
  \A group \in SUBSET ActiveIn(graph) :
     group # {} => \E t \in group : graph[t].dependencies \cap group = {}

\* A mutated form: the search for a cycle is left out.
ValidEdges(graph) == DependenciesValid(graph) /\ ReplacementsValid(graph)

ValidGraph(graph) ==
  /\ DependenciesValid(graph)
  /\ ReplacementsValid(graph)
  /\ ActiveIsDag(graph)

\* read_graph's "ready": startable, with every dependency integrated.
ReadyIn(graph, t) ==
  /\ graph[t].active
  /\ graph[t].status \in {"pending", "ready"}
  /\ \A d \in graph[t].dependencies : graph[d].status = "integrated"
============================================================================
