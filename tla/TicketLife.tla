------------------------------ MODULE TicketLife ------------------------------
(* What the requests and commands on a Ticket promise together, as Main sees   *)
(* them between calls, whatever is refused, rolled back or killed on the way:  *)
(* the Ticket moves along the transition table, one generation of its Team     *)
(* follows another, and what is integrated was accepted.  DeliveryState is     *)
(* shown to implement it.                                                      *)
EXTENDS Tickets, Naturals

CONSTANTS Generations,   \* numbers from 1
          Candidates, NoCandidate

VARIABLES ticket,        \* Ticket -> its status, and the generation and the
                         \* candidate that it names
          stage,         \* Ticket -> generation -> how far its Team has come
          accepted       \* <<generation, candidate>> of the acceptances

vars == <<ticket, stage, accepted>>

Init ==
  /\ ticket = [t \in TicketIds |-> [status |-> "ready", ordinal |-> 0,
                                    candidate |-> NoCandidate]]
  /\ stage = [t \in TicketIds |-> [g \in Generations |-> "none"]]
  /\ accepted = [t \in TicketIds |-> {}]

\* Main, or a Team in a phase of its work, takes the Ticket along the table; what
\* it names may change with that.
Move(t) ==
  /\ ticket'[t].status \in Transitions[ticket[t].status] \ IntegrationOnly
  /\ ticket' = [ticket EXCEPT ![t] = ticket'[t]]
  /\ UNCHANGED <<stage, accepted>>

\* During a review its Team withdraws the candidate or fixes another.
Correct(t) ==
  /\ ticket[t].status = "reviewing"
  /\ ticket' = [ticket EXCEPT ![t].candidate = ticket'[t].candidate]
  /\ \E g \in Generations : stage[t][g] = "active"
  /\ UNCHANGED <<stage, accepted>>

\* The Team at work accepts the candidate under review.
Accept(t, g) ==
  /\ ticket[t].status = "reviewing"
  /\ ticket[t].candidate # NoCandidate
  /\ stage[t][g] = "active"
  /\ ticket' = [ticket EXCEPT ![t].status = "awaiting-integration"]
  /\ accepted' = [accepted EXCEPT ![t] = @ \cup {<<g, ticket[t].candidate>>}]
  /\ UNCHANGED stage

\* Only what its Team has accepted is integrated.
Integrate(t) ==
  /\ ticket[t].status \in {"awaiting-integration", "integrating"}
  /\ <<ticket[t].ordinal, ticket[t].candidate>> \in accepted[t]
  /\ ticket' = [ticket EXCEPT ![t].status = "integrating"]
  /\ UNCHANGED <<stage, accepted>>

Conclude(t) ==
  /\ ticket[t].status = "integrating"
  /\ ticket' = [ticket EXCEPT ![t].status = "integrated"]
  /\ UNCHANGED <<stage, accepted>>

\* A generation comes after the one that the Ticket names, when all before it have
\* retired and none has come after.
NextTeam(t, g) ==
  /\ g = ticket[t].ordinal + 1
  /\ g = 1 => ticket[t].status = "ready"
  /\ \A h \in Generations : stage[t][h] = IF h < g THEN "retired" ELSE "none"

Begin(t, g) ==
  /\ NextTeam(t, g)
  /\ ticket' = [ticket EXCEPT ![t] = [status |-> "implementing", ordinal |-> g,
                                      candidate |-> NoCandidate]]
  /\ stage' = [stage EXCEPT ![t][g] = "active"]
  /\ UNCHANGED accepted

\* The command that starts a Team is killed before the Ticket names it.
BeginUnnamed(t, g) ==
  /\ NextTeam(t, g)
  /\ stage' = [stage EXCEPT ![t][g] = "active"]
  /\ UNCHANGED <<ticket, accepted>>

\* A Team stops starting work, and is gone.
Retire(t, g) ==
  /\ <<stage[t][g], stage'[t][g]>> \in {<<"active", "retiring">>, <<"retiring", "retired">>}
  /\ stage' = [stage EXCEPT ![t][g] = stage'[t][g]]
  /\ UNCHANGED <<ticket, accepted>>

Next ==
  \E t \in TicketIds :
     \/ Move(t) \/ Correct(t) \/ Integrate(t) \/ Conclude(t)
     \/ \E g \in Generations :
           Accept(t, g) \/ Begin(t, g) \/ BeginUnnamed(t, g) \/ Retire(t, g)

Spec == Init /\ [][Next]_vars
=============================================================================
