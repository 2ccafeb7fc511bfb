---------------------------- MODULE TicketGraph ----------------------------
(***************************************************************************)
(* The durable Ticket graph of a Harness Project: registration, revision,  *)
(* the generic status update and graph readiness                           *)
(* (graph/ticket_graph.py), together with the status changes that a Team   *)
(* (graph/delivery_state.py) and Main's integration                        *)
(* (teams/coding/ticket_integration.py) make on the same records.          *)
(*                                                                         *)
(* Registration, revision and update hold tickets/.lock for the whole      *)
(* call, so each is one action here.  DeliveryState and Integration open   *)
(* the calls that are not serialised with them into their steps.           *)
(* The names that every specification has begin with Graph here, so that   *)
(* GraphProofs can reason about this module and GraphCommit together.      *)
(***************************************************************************)
EXTENDS Tickets, Naturals

CONSTANTS Budgets,     \* the distinct execution budgets a Ticket may declare
          NoBudget,    \* the body of a Ticket without execution_budget
          MaxRevised   \* how many Tickets one revision may name

ASSUME NoBudgetAssumption == NoBudget \notin Budgets

VARIABLES records,     \* ticket.yml of every registered Ticket
          integrations,\* Tickets with a successful integration event
          staffed      \* Tickets with a Team generation on disk

graphVars == <<records, integrations, staffed>>

Registered == DOMAIN records

Budget == Budgets \cup {NoBudget}

\* A definition as submitted: `reasoned` says that its budget gives the reason
\* of its revision.
Definition == [active : BOOLEAN, replaced_by : SUBSET TicketIds,
               dependencies : SUBSET TicketIds, budget : Budget, reasoned : BOOLEAN]

Record == [active : BOOLEAN, replaced_by : SUBSET TicketIds,
           dependencies : SUBSET TicketIds, budget : Budget, status : Status]

\* The record a Ticket gets when it enters the graph with definition d.
NewRecord(d) ==
  [active |-> d.active, replaced_by |-> d.replaced_by,
   dependencies |-> d.dependencies, budget |-> d.budget, status |-> "pending"]

\* The record of a Ticket that a revision gives definition d.
Revised(record, d) ==
  [record EXCEPT !.active = d.active, !.replaced_by = d.replaced_by,
                 !.dependencies = d.dependencies, !.budget = d.budget]

\* A mutated form: only the named records are validated, not those that depend on
\* them or are replaced by them.
NamedAreValid(graph, named) ==
  /\ \A t \in named : graph[t].active => graph[t].dependencies \subseteq ActiveIn(graph) \ {t}
  /\ ActiveIsDag(graph)

\* register_ticket and revise_tickets validate the graph as it would become, named
\* Tickets and all others.
Admissible(graph, named) == ValidGraph(graph)

SetStatus(t, status) == [records EXCEPT ![t].status = status]

----------------------------------------------------------------------------
(* Registration and revision *)

\* register_ticket: an accepted definition enters the graph as pending.
Register(t, dependencies, budget) ==
  /\ t \notin Registered
  /\ t \notin dependencies
  /\ LET record   == NewRecord([active |-> TRUE, replaced_by |-> {},
                                dependencies |-> dependencies, budget |-> budget])
         proposed == [u \in Registered \cup {t} |->
                        IF u = t THEN record ELSE records[u]]
     IN  /\ Admissible(proposed, {t})
         /\ records' = proposed
  /\ UNCHANGED <<integrations, staffed>>

\* The definitions of t that _validate_revision lets through: no self-edge, and
\* only an inactive Ticket is replaced.
WellFormed(t) ==
  {d \in Definition : /\ t \notin d.dependencies
                      /\ t \notin d.replaced_by
                      /\ d.active => d.replaced_by = {}
                      /\ d.reasoned => d.budget # NoBudget}

\* Every revision _validate_revision lets through.
Revisions ==
  UNION {{r \in [named -> Definition] : \A t \in named : r[t] \in WellFormed(t)} :
           named \in {s \in SUBSET TicketIds : s # {} /\ Cardinality(s) <= MaxRevised}}

\* A mutated form: a changed budget needs its reason, a removed one nothing.
BudgetRemovable(record, d) ==
  (d.budget # NoBudget /\ d.budget # record.budget) => d.reasoned

\* A budget is never removed, and a new or changed one gives its reason.
BudgetRevisable(record, d) ==
  /\ record.budget # NoBudget => d.budget # NoBudget
  /\ (d.budget # NoBudget /\ d.budget # record.budget) => d.reasoned

\* The revision says something the current definitions do not already say.  (A
\* reworded text alone is enough for the code; it changes nothing modelled.)
Meaningful(revised) ==
  \E t \in DOMAIN revised :
     t \in Registered => Revised(records[t], revised[t]) # records[t]

\* revise_tickets: the graph as a whole moves to the proposed one, or not at all.
Revise(revised) ==
  /\ Registered # {}
  /\ \A t \in DOMAIN revised :
        t \in Registered => BudgetRevisable(records[t], revised[t])
  /\ Meaningful(revised)
  /\ LET proposed ==
           [t \in Registered \cup DOMAIN revised |->
              IF t \notin DOMAIN revised THEN records[t]
              ELSE IF t \in Registered THEN Revised(records[t], revised[t])
              ELSE NewRecord(revised[t])]
     IN  /\ Admissible(proposed, DOMAIN revised)
         /\ records' = proposed
  /\ UNCHANGED <<integrations, staffed>>

----------------------------------------------------------------------------
(* Status changes *)

\* A mutated form: the generic update forgets that integration states are
\* Main's integrate command's own.
UpdatableAnywhere(from, to) == to \in Transitions[from]

Updatable(from, to) ==
  /\ to \notin IntegrationOnly
  /\ to \in Transitions[from]

\* update_ticket_state: Main's evidence-backed transition of an active Ticket.
UpdateTicketState(t, status) ==
  /\ t \in Registered
  /\ records[t].active
  /\ Updatable(records[t].status, status)
  /\ records' = SetStatus(t, status)
  /\ UNCHANGED <<integrations, staffed>>

\* The first Team generation starts on a ready Ticket.
TeamStarts(t) ==
  /\ t \in Registered
  /\ records[t].status = "ready"
  /\ t \notin staffed
  /\ staffed' = staffed \cup {t}
  /\ records' = SetStatus(t, "implementing")
  /\ UNCHANGED integrations

\* A later generation, after the previous Team retired: the status is written
\* whatever it was.
TeamReplaced(t) ==
  /\ t \in staffed
  /\ records' = SetStatus(t, "implementing")
  /\ UNCHANGED <<integrations, staffed>>

\* The transitions of the phases candidate, final and rework.
TeamProgress ==
  {<<"implementing", "reviewing">>, <<"reviewing", "awaiting-integration">>,
   <<"reviewing", "reworking">>, <<"reworking", "implementing">>}

TeamMoves(t, status) ==
  /\ t \in staffed
  /\ <<records[t].status, status>> \in TeamProgress
  /\ records' = SetStatus(t, status)
  /\ UNCHANGED <<integrations, staffed>>

\* Another Ticket's integration that Main has not finished.  (Integration also
\* counts an escalated Ticket whose integration escalated.)
Unfinished(t) == records[t].status \in {"integrating", "resolving-integration"}

\* The pending dependents that an integration of t leaves with every
\* dependency integrated.
Unlocked(t, after) ==
  {d \in DOMAIN after :
     /\ after[d].active
     /\ after[d].status = "pending"
     /\ t \in after[d].dependencies
     /\ \A b \in after[d].dependencies : after[b].status = "integrated"}

Outcomes == {"integrated", "integrating", "escalated"}

\* integrate_ticket from its start to its outcome, with the release of the
\* dependents when it succeeded.
Integrate(t, outcome) ==
  /\ t \in Registered
  /\ records[t].active
  /\ records[t].status \in {"awaiting-integration", "integrating"}
  /\ \A u \in Registered \ {t} : ~Unfinished(u)
  /\ LET after == SetStatus(t, outcome)
     IN  records' = IF outcome # "integrated" THEN after
                    ELSE [u \in Registered |->
                            IF u \in Unlocked(t, after)
                            THEN [after[u] EXCEPT !.status = "ready"]
                            ELSE after[u]]
  /\ integrations' = IF outcome = "integrated" THEN integrations \cup {t} ELSE integrations
  /\ UNCHANGED staffed

----------------------------------------------------------------------------
GraphInit ==
  /\ records = [t \in {} |-> NewRecord([active |-> TRUE, replaced_by |-> {},
                                        dependencies |-> {},
                                        budget |-> NoBudget])]
  /\ integrations = {}
  /\ staffed = {}

GraphNext ==
  \/ \E t \in TicketIds, dependencies \in SUBSET TicketIds, budget \in Budget :
        Register(t, dependencies, budget)
  \/ \E revised \in Revisions : Revise(revised)
  \/ \E t \in TicketIds, status \in Status :
        \/ UpdateTicketState(t, status)
        \/ TeamMoves(t, status)
  \/ \E t \in TicketIds : TeamStarts(t) \/ TeamReplaced(t)
  \/ \E t \in TicketIds, outcome \in Outcomes : Integrate(t, outcome)

GraphSpec == GraphInit /\ [][GraphNext]_graphVars

----------------------------------------------------------------------------
(* Properties *)

\* The retained files hold a registered, typed graph.
GraphTypeOK ==
  /\ Registered \subseteq TicketIds
  /\ \A t \in Registered : records[t] \in Record
  /\ integrations \subseteq Registered
  /\ staffed \subseteq Registered

\* Whatever mix of registrations, revisions and deliveries has happened, the
\* current graph passes the validation that every later read repeats
\* (_validate_graph in read_graph): Main is never locked out of its own graph.
GraphIsValid == ValidGraph(records)

\* Dependencies never deadlock delivery: while an active Ticket is not
\* integrated, some such Ticket waits for integrated Tickets only
\* (the DAG check together with the active-dependency check).
SomeTicketCanProceed ==
  LET open == {t \in ActiveIn(records) : records[t].status # "integrated"}
  IN  open # {} => \E t \in open :
                      \A d \in records[t].dependencies : records[d].status = "integrated"

\* read_graph calls a Ticket ready only when Main's integrate command has
\* succeeded for each of its dependencies; no generic update can unlock it.
OnlyIntegrationSatisfies ==
  \A t \in Registered :
     ReadyIn(records, t) => records[t].dependencies \subseteq integrations

\* A Ticket that declared a budget keeps one through every later step, whoever
\* rewrites its record (revise_tickets).
BudgetsSurvive ==
  [][\A t \in Registered :
        records[t].budget # NoBudget =>
           t \in DOMAIN records' /\ records'[t].budget # NoBudget]_graphVars
============================================================================
