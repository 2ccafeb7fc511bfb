---------------------------- MODULE GraphSearch ----------------------------
(***************************************************************************)
(* The depth-first search with which _validate_graph looks for a cycle     *)
(* among active Tickets, kept apart from the modules that are proved about *)
(* because it is recursive.                                                *)
(***************************************************************************)
EXTENDS Tickets, FiniteSetsExt

\* visit(ticket_id): `visiting` is the path to t, `found` what the search has
\* already finished and whether it has met its own path.
RECURSIVE Visit(_, _, _, _)
Visit(graph, t, visiting, found) ==
  IF found.cycle THEN found
  ELSE IF t \in visiting THEN [found EXCEPT !.cycle = TRUE]
  ELSE IF t \in found.visited \/ ~graph[t].active THEN found
  ELSE LET below == FoldSet(LAMBDA d, f : Visit(graph, d, visiting \cup {t}, f),
                            found, graph[t].dependencies)
       IN  IF below.cycle THEN below
           ELSE [below EXCEPT !.visited = @ \cup {t}]

FindsCycle(graph) ==
  FoldSet(LAMBDA t, f : Visit(graph, t, {}, f),
          [cycle |-> FALSE, visited |-> {}], DOMAIN graph).cycle

\* The search and the set definition of a DAG agree on every graph over `nodes`
\* that the earlier checks of _validate_graph let through to the search.
SearchAgrees(nodes) ==
  \A active \in [nodes -> BOOLEAN], deps \in [nodes -> SUBSET nodes] :
     LET graph == [t \in nodes |-> [active |-> active[t], dependencies |-> deps[t]]]
     IN  DependenciesValid(graph) => (FindsCycle(graph) <=> ~ActiveIsDag(graph))
============================================================================
