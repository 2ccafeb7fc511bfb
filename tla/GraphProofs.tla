----------------------------- MODULE GraphProofs ----------------------------
(***************************************************************************)
(* What is proved of the Ticket graph, on both of its levels: the          *)
(* invariants and the action property of TicketGraph, which takes every    *)
(* command as one step, and of GraphCommit, which writes the commands to   *)
(* disk under two locks, that they are steps indeed and that what they     *)
(* leave can be read.  Everything holds for any number of Tickets,         *)
(* processes, budgets and events, any file size and any clock.             *)
(***************************************************************************)
EXTENDS TicketGraph, GraphCommit, TLAPS, WellFoundedInduction, FiniteSetTheorems, FunctionTheorems,
        SequenceTheorems

----------------------------------------------------------------------------
(* TicketGraph: the inductive invariant *)

\* Two graphs that differ in statuses and budgets only.
SameShape(g, h) ==
  /\ DOMAIN h = DOMAIN g
  /\ \A t \in DOMAIN g : /\ h[t].active = g[t].active
                         /\ h[t].dependencies = g[t].dependencies
                         /\ h[t].replaced_by = g[t].replaced_by

\* A record of a status change, of a Team or of Main, keeps all but the status.
StatusesOnly(g, h) ==
  /\ DOMAIN h = DOMAIN g
  /\ \A t \in DOMAIN g : \E s \in Status : h[t] = [g[t] EXCEPT !.status = s]

\* Only an integration leaves a Ticket integrated.
IntegratedIsRecorded ==
  \A t \in Registered : records[t].status = "integrated" => t \in integrations

\* The inductive invariant.
Consistent == GraphTypeOK /\ GraphIsValid /\ IntegratedIsRecorded

----------------------------------------------------------------------------
(* Lemmas *)

\* What _validate_graph looks at is the shape of the graph.
LEMMA ShapeDecidesValidity ==
  ASSUME NEW g, NEW h, SameShape(g, h), ValidGraph(g)
  PROVE  ValidGraph(h)
<1>1. ActiveIn(h) = ActiveIn(g)
  BY DEF SameShape, ActiveIn
<1>2. DependenciesValid(h)
  BY <1>1 DEF SameShape, ValidGraph, DependenciesValid
<1>3. ReplacementsValid(h)
  BY <1>1 DEF SameShape, ValidGraph, ReplacementsValid
<1>4. ActiveIsDag(h)
  <2> SUFFICES ASSUME NEW group \in SUBSET ActiveIn(h), group # {}
               PROVE  \E t \in group : h[t].dependencies \cap group = {}
    BY DEF ActiveIsDag
  <2>1. PICK t \in group : g[t].dependencies \cap group = {}
    BY <1>1 DEF ValidGraph, ActiveIsDag
  <2>2. t \in DOMAIN g
    BY <1>1 DEF ActiveIn
  <2> QED
    BY <2>1, <2>2 DEF SameShape
<1> QED
  BY <1>2, <1>3, <1>4 DEF ValidGraph

\* A change of statuses keeps a typed graph typed, valid and of the same shape.
LEMMA StatusesKeepTheGraph ==
  ASSUME NEW g, NEW h, \A t \in DOMAIN g : g[t] \in Record, StatusesOnly(g, h)
  PROVE  /\ \A t \in DOMAIN h : h[t] \in Record /\ h[t].budget = g[t].budget
         /\ SameShape(g, h)
<1> SUFFICES ASSUME NEW t \in DOMAIN g
             PROVE  /\ h[t] \in Record
                    /\ h[t].budget = g[t].budget
                    /\ h[t].active = g[t].active
                    /\ h[t].dependencies = g[t].dependencies
                    /\ h[t].replaced_by = g[t].replaced_by
  BY DEF StatusesOnly, SameShape
<1>1. PICK s \in Status : h[t] = [g[t] EXCEPT !.status = s]
  BY DEF StatusesOnly
<1>2. g[t] \in Record
  OBVIOUS
<1> QED
  BY <1>1, <1>2 DEF Record

\* SetStatus changes the status of one Ticket.
LEMMA SetStatusIsStatusesOnly ==
  ASSUME GraphTypeOK, NEW t \in Registered, NEW s \in Status
  PROVE  /\ StatusesOnly(records, SetStatus(t, s))
         /\ SetStatus(t, s)[t].status = s
         /\ \A u \in Registered \ {t} : SetStatus(t, s)[u] = records[u]
<1>1. \A u \in Registered : records[u] \in Record
  BY DEF GraphTypeOK
<1>2. ASSUME NEW u \in Registered
      PROVE  \E r \in Status : SetStatus(t, s)[u] = [records[u] EXCEPT !.status = r]
  <2>1. CASE u = t
    BY <2>1 DEF SetStatus, Registered
  <2>2. CASE u # t
    <3>1. SetStatus(t, s)[u] = records[u]
      BY <2>2 DEF SetStatus, Registered
    <3>2. records[u] = [records[u] EXCEPT !.status = records[u].status]
      BY <1>1 DEF Record
    <3> QED
      BY <1>1, <3>1, <3>2 DEF Record
  <2> QED
    BY <2>1, <2>2
<1>3. DOMAIN SetStatus(t, s) = Registered
  BY DEF SetStatus, Registered
<1>4. SetStatus(t, s)[t].status = s
  BY <1>1 DEF SetStatus, Registered, Record
<1>5. \A u \in Registered \ {t} : SetStatus(t, s)[u] = records[u]
  BY DEF SetStatus, Registered
<1> QED
  BY <1>2, <1>3, <1>4, <1>5 DEF StatusesOnly, Registered

\* A step that only changes statuses, and leaves integrated no Ticket that was
\* not and whose integration is not recorded, preserves the invariant.
LEMMA StatusesKeepConsistency ==
  ASSUME Consistent,
         StatusesOnly(records, records'),
         integrations \subseteq integrations', integrations' \subseteq Registered,
         staffed' \subseteq Registered,
         \A t \in Registered :
            records'[t].status = "integrated" =>
               records[t].status = "integrated" \/ t \in integrations'
  PROVE  Consistent'
<1>1. \A t \in Registered : records[t] \in Record
  BY DEF Consistent, GraphTypeOK
<1>2. /\ \A t \in DOMAIN records' : records'[t] \in Record
      /\ SameShape(records, records')
  BY <1>1, StatusesKeepTheGraph DEF Registered
<1>3. Registered' = Registered
  BY DEF StatusesOnly, Registered
<1>4. GraphTypeOK'
  BY <1>2, <1>3 DEF Consistent, GraphTypeOK, Registered
<1>5. GraphIsValid'
  BY <1>2, ShapeDecidesValidity DEF Consistent, GraphIsValid
<1>6. IntegratedIsRecorded'
  BY <1>3 DEF Consistent, IntegratedIsRecorded
<1> QED
  BY <1>4, <1>5, <1>6 DEF Consistent

\* The record of a Ticket that enters the graph is typed and pending.
LEMMA NewRecordIsPending ==
  ASSUME NEW d, d.active \in BOOLEAN, d.replaced_by \in SUBSET TicketIds,
         d.dependencies \in SUBSET TicketIds, d.budget \in Budget
  PROVE  NewRecord(d) \in Record /\ NewRecord(d).status = "pending"
BY DEF NewRecord, Record, Status

\* A revised record keeps its status, and takes the budget of the definition.
LEMMA RevisedKeepsStatus ==
  ASSUME NEW record \in Record, NEW d \in Definition
  PROVE  /\ Revised(record, d) \in Record
         /\ Revised(record, d).status = record.status
         /\ Revised(record, d).budget = d.budget
BY DEF Revised, Record, Definition

----------------------------------------------------------------------------
(* The invariant, action by action *)

\* The empty graph that a Project starts with is consistent.
LEMMA InitIsConsistent == GraphInit => Consistent
<1> SUFFICES ASSUME GraphInit PROVE Consistent
  OBVIOUS
<1>1. Registered = {} /\ integrations = {} /\ staffed = {}
  BY DEF GraphInit, Registered
<1>2. GraphTypeOK /\ IntegratedIsRecorded
  BY <1>1 DEF GraphTypeOK, IntegratedIsRecorded
<1>3. GraphIsValid
  BY <1>1 DEF GraphIsValid, ValidGraph, DependenciesValid, ReplacementsValid,
              ActiveIsDag, ActiveIn, Registered
<1> QED
  BY <1>2, <1>3 DEF Consistent

\* register_ticket: the new Ticket is pending, and the graph was validated.
LEMMA RegisterIsConsistent ==
  ASSUME Consistent, NEW t \in TicketIds, NEW dependencies \in SUBSET TicketIds,
         NEW budget \in Budget, Register(t, dependencies, budget)
  PROVE  Consistent'
<1> DEFINE definition == [active |-> TRUE, replaced_by |-> {},
                          dependencies |-> dependencies, budget |-> budget]
<1>1. NewRecord(definition) \in Record /\ NewRecord(definition).status = "pending"
  <2>1. /\ definition.active \in BOOLEAN
        /\ definition.replaced_by \in SUBSET TicketIds
        /\ definition.dependencies \in SUBSET TicketIds
        /\ definition.budget \in Budget
    OBVIOUS
  <2> HIDE DEF definition
  <2> QED
    BY <2>1, NewRecordIsPending
<1> HIDE DEF definition
<1>2. /\ records' = [u \in Registered \cup {t} |->
                       IF u = t THEN NewRecord(definition) ELSE records[u]]
      /\ ValidGraph(records')
      /\ UNCHANGED <<integrations, staffed>>
      /\ t \notin Registered
  BY DEF Register, Admissible, definition
<1>3. Registered' = Registered \cup {t}
  BY <1>2 DEF Registered
<1>4. GraphTypeOK'
  BY <1>1, <1>2, <1>3 DEF Consistent, GraphTypeOK
<1>5. IntegratedIsRecorded'
  BY <1>1, <1>2, <1>3 DEF Consistent, IntegratedIsRecorded
<1> QED
  BY <1>2, <1>4, <1>5 DEF Consistent, GraphIsValid

\* What a revision makes of each record.
LEMMA ReviseByRecord ==
  ASSUME GraphTypeOK, NEW revised \in Revisions, Revise(revised)
  PROVE  /\ Registered' = Registered \cup DOMAIN revised
         /\ ValidGraph(records')
         /\ UNCHANGED <<integrations, staffed>>
         /\ DOMAIN revised \subseteq TicketIds
         /\ \A t \in Registered' :
              \/ t \in Registered \ DOMAIN revised /\ records'[t] = records[t]
              \/ /\ t \in Registered \cap DOMAIN revised
                 /\ records'[t] \in Record
                 /\ records'[t].status = records[t].status
                 /\ records[t].budget # NoBudget => records'[t].budget # NoBudget
              \/ /\ t \notin Registered
                 /\ records'[t] \in Record
                 /\ records'[t].status = "pending"
<1>1. PICK named \in SUBSET TicketIds :
            /\ revised \in [named -> Definition]
            /\ \A t \in named : revised[t] \in WellFormed(t)
  BY DEF Revisions
<1>2. DOMAIN revised = named /\ \A t \in named : revised[t] \in Definition
  BY <1>1
<1>3. /\ records' = [t \in Registered \cup DOMAIN revised |->
                       IF t \notin DOMAIN revised THEN records[t]
                       ELSE IF t \in Registered THEN Revised(records[t], revised[t])
                       ELSE NewRecord(revised[t])]
      /\ ValidGraph(records')
      /\ UNCHANGED <<integrations, staffed>>
  BY DEF Revise, Admissible
<1>4. Registered' = Registered \cup DOMAIN revised
  BY <1>3 DEF Registered
<1>5. ASSUME NEW t \in Registered \cap named
      PROVE  /\ records'[t] \in Record
             /\ records'[t].status = records[t].status
             /\ records[t].budget # NoBudget => records'[t].budget # NoBudget
  <2>1. records'[t] = Revised(records[t], revised[t])
    BY <1>2, <1>3
  <2>2. records[t] \in Record /\ revised[t] \in Definition
    BY <1>2 DEF GraphTypeOK
  <2>3. BudgetRevisable(records[t], revised[t])
    BY <1>2 DEF Revise
  <2>4. records[t].budget # NoBudget => revised[t].budget # NoBudget
    BY <2>3 DEF BudgetRevisable
  <2> QED
    BY <2>1, <2>2, <2>4, RevisedKeepsStatus
<1>6. ASSUME NEW t \in named \ Registered
      PROVE  records'[t] \in Record /\ records'[t].status = "pending"
  <2>1. records'[t] = NewRecord(revised[t])
    BY <1>2, <1>3
  <2>2. /\ revised[t].active \in BOOLEAN
        /\ revised[t].replaced_by \in SUBSET TicketIds
        /\ revised[t].dependencies \in SUBSET TicketIds
        /\ revised[t].budget \in Budget
    BY <1>2 DEF Definition
  <2> QED
    BY <2>1, <2>2, NewRecordIsPending
<1>7. \A t \in Registered \ named : records'[t] = records[t]
  BY <1>2, <1>3
<1> QED
  BY <1>2, <1>3, <1>4, <1>5, <1>6, <1>7

\* revise_tickets: no status changes, and the proposed graph was validated.
LEMMA ReviseIsConsistent ==
  ASSUME Consistent, NEW revised \in Revisions, Revise(revised)
  PROVE  Consistent'
<1>1. GraphTypeOK
  BY DEF Consistent
<1>2. /\ Registered' = Registered \cup DOMAIN revised
      /\ ValidGraph(records')
      /\ UNCHANGED <<integrations, staffed>>
      /\ DOMAIN revised \subseteq TicketIds
  BY <1>1, ReviseByRecord
<1>3. \A t \in Registered' :
         \/ t \in Registered /\ records'[t] = records[t]
         \/ /\ t \in Registered
            /\ records'[t] \in Record
            /\ records'[t].status = records[t].status
         \/ records'[t] \in Record /\ records'[t].status = "pending"
  BY <1>1, ReviseByRecord
<1>4. GraphTypeOK'
  BY <1>1, <1>2, <1>3 DEF GraphTypeOK
<1>5. IntegratedIsRecorded'
  BY <1>2, <1>3 DEF Consistent, IntegratedIsRecorded
<1> QED
  BY <1>2, <1>4, <1>5 DEF Consistent, GraphIsValid

\* The status changes of UpdateTicketState, TeamStarts, TeamReplaced and
\* TeamMoves: one Ticket leaves its status for one that is not "integrated".
LEMMA OneStatusIsConsistent ==
  ASSUME Consistent, NEW t \in Registered, NEW s \in Status, s # "integrated",
         records' = SetStatus(t, s), integrations' = integrations,
         staffed' \subseteq staffed \cup {t}
  PROVE  Consistent'
<1>1. GraphTypeOK
  BY DEF Consistent
<1>2. /\ StatusesOnly(records, records')
      /\ records'[t].status = s
      /\ \A u \in Registered \ {t} : records'[u] = records[u]
  BY <1>1, SetStatusIsStatusesOnly
<1>3. integrations' \subseteq Registered /\ staffed' \subseteq Registered
  BY <1>1 DEF GraphTypeOK
<1> QED
  BY <1>2, <1>3, StatusesKeepConsistency

\* update_ticket_state never writes "integrated".
LEMMA UpdateIsConsistent ==
  ASSUME Consistent, NEW t \in TicketIds, NEW status \in Status,
         UpdateTicketState(t, status)
  PROVE  Consistent'
<1>1. status # "integrated"
  BY DEF UpdateTicketState, Updatable, IntegrationOnly
<1> QED
  BY <1>1, OneStatusIsConsistent DEF UpdateTicketState

\* The first Team of a Ticket makes it "implementing".
LEMMA TeamStartsIsConsistent ==
  ASSUME Consistent, NEW t \in TicketIds, TeamStarts(t)
  PROVE  Consistent'
<1>1. "implementing" \in Status
  BY DEF Status
<1> QED
  BY <1>1, OneStatusIsConsistent DEF TeamStarts

\* So does each later Team, whatever the status was.
LEMMA TeamReplacedIsConsistent ==
  ASSUME Consistent, NEW t \in TicketIds, TeamReplaced(t)
  PROVE  Consistent'
<1>1. "implementing" \in Status
  BY DEF Status
<1>2. t \in Registered
  BY DEF TeamReplaced, Consistent, GraphTypeOK
<1> QED
  BY <1>1, <1>2, OneStatusIsConsistent DEF TeamReplaced

\* The phases of a Team stop at "awaiting-integration".
LEMMA TeamMovesIsConsistent ==
  ASSUME Consistent, NEW t \in TicketIds, NEW status \in Status, TeamMoves(t, status)
  PROVE  Consistent'
<1>1. status # "integrated"
  BY DEF TeamMoves, TeamProgress
<1>2. t \in Registered
  BY DEF TeamMoves, Consistent, GraphTypeOK
<1> QED
  BY <1>1, <1>2, OneStatusIsConsistent DEF TeamMoves

\* An integration changes statuses only, and integrates no Ticket but its own.
LEMMA IntegrateKeepsTheRest ==
  ASSUME GraphTypeOK, NEW t \in TicketIds, NEW outcome \in Outcomes, Integrate(t, outcome)
  PROVE  /\ StatusesOnly(records, records')
         /\ \A u \in Registered :
              records'[u].status = "integrated" =>
                 records[u].status = "integrated" \/ u \in integrations'
<1> DEFINE after == SetStatus(t, outcome)
<1>1. t \in Registered /\ outcome \in Status
  BY DEF Integrate, Outcomes, Status
<1>2. /\ StatusesOnly(records, after)
      /\ after[t].status = outcome
      /\ \A u \in Registered \ {t} : after[u] = records[u]
  BY <1>1, SetStatusIsStatusesOnly
<1>3. CASE outcome # "integrated"
  BY <1>2, <1>3 DEF Integrate
<1>4. CASE outcome = "integrated"
  <2>1. /\ records' = [u \in Registered |->
                         IF u \in Unlocked(t, after)
                         THEN [after[u] EXCEPT !.status = "ready"]
                         ELSE after[u]]
        /\ t \in integrations'
    BY <1>4 DEF Integrate
  <2> HIDE DEF after
  <2>2. ASSUME NEW u \in Registered
        PROVE  /\ \E s \in Status : records'[u] = [records[u] EXCEPT !.status = s]
               /\ records'[u].status = "integrated" =>
                     records[u].status = "integrated" \/ u \in integrations'
    <3>1. PICK r \in Status : after[u] = [records[u] EXCEPT !.status = r]
      BY <1>2 DEF StatusesOnly, Registered
    <3>2. records[u] \in Record /\ "ready" \in Status
      BY DEF GraphTypeOK, Status
    <3>3. CASE u \in Unlocked(t, after)
      <4>1. records'[u] = [after[u] EXCEPT !.status = "ready"]
        BY <2>1, <3>3
      <4>2. records'[u] = [records[u] EXCEPT !.status = "ready"]
        BY <3>1, <3>2, <4>1 DEF Record
      <4>3. records'[u].status = "ready"
        BY <3>2, <4>2 DEF Record
      <4> QED
        BY <3>2, <4>2, <4>3
    <3>4. CASE u \notin Unlocked(t, after)
      <4>1. records'[u] = after[u]
        BY <2>1, <3>4
      <4>2. CASE u = t
        BY <2>1, <3>1, <4>1, <4>2
      <4>3. CASE u # t
        BY <1>2, <3>1, <4>1, <4>3
      <4> QED
        BY <4>2, <4>3
    <3> QED
      BY <3>3, <3>4
  <2> QED
    BY <2>1, <2>2 DEF StatusesOnly, Registered
<1> QED
  BY <1>3, <1>4

\* integrate_ticket records the one Ticket that it integrates.
LEMMA IntegrateIsConsistent ==
  ASSUME Consistent, NEW t \in TicketIds, NEW outcome \in Outcomes,
         Integrate(t, outcome)
  PROVE  Consistent'
<1>1. GraphTypeOK
  BY DEF Consistent
<1>2. /\ StatusesOnly(records, records')
      /\ \A u \in Registered :
           records'[u].status = "integrated" =>
              records[u].status = "integrated" \/ u \in integrations'
  BY <1>1, IntegrateKeepsTheRest
<1>3. /\ integrations \subseteq integrations'
      /\ integrations' \subseteq Registered
      /\ staffed' \subseteq Registered
  BY <1>1 DEF Integrate, GraphTypeOK
<1> QED
  BY <1>2, <1>3, StatusesKeepConsistency

\* Every step, and every stutter, preserves the invariant.
LEMMA NextIsConsistent == Consistent /\ [GraphNext]_graphVars => Consistent'
<1> SUFFICES ASSUME Consistent, [GraphNext]_graphVars PROVE Consistent'
  OBVIOUS
<1>1. ASSUME NEW t \in TicketIds, NEW dependencies \in SUBSET TicketIds,
             NEW budget \in Budget, Register(t, dependencies, budget)
      PROVE  Consistent'
  BY <1>1, RegisterIsConsistent
<1>2. ASSUME NEW revised \in Revisions, Revise(revised)
      PROVE  Consistent'
  BY <1>2, ReviseIsConsistent
<1>3. ASSUME NEW t \in TicketIds, NEW status \in Status, UpdateTicketState(t, status)
      PROVE  Consistent'
  BY <1>3, UpdateIsConsistent
<1>4. ASSUME NEW t \in TicketIds, NEW status \in Status, TeamMoves(t, status)
      PROVE  Consistent'
  BY <1>4, TeamMovesIsConsistent
<1>5. ASSUME NEW t \in TicketIds, TeamStarts(t)
      PROVE  Consistent'
  BY <1>5, TeamStartsIsConsistent
<1>6. ASSUME NEW t \in TicketIds, TeamReplaced(t)
      PROVE  Consistent'
  BY <1>6, TeamReplacedIsConsistent
<1>7. ASSUME NEW t \in TicketIds, NEW outcome \in Outcomes, Integrate(t, outcome)
      PROVE  Consistent'
  BY <1>7, IntegrateIsConsistent
<1>8. CASE UNCHANGED graphVars
  BY <1>8 DEF graphVars, Consistent, GraphTypeOK, GraphIsValid, IntegratedIsRecorded, Registered
<1> QED
  BY <1>1, <1>2, <1>3, <1>4, <1>5, <1>6, <1>7, <1>8 DEF GraphNext

\* The inductive invariant holds in every reachable state of the Ticket graph.
THEOREM ConsistentAlways == GraphSpec => []Consistent
BY InitIsConsistent, NextIsConsistent, PTL DEF GraphSpec

----------------------------------------------------------------------------
(* What follows from it *)

\* Whatever the commands and the Teams did, the files hold typed records of
\* Tickets, and Teams and integrations of registered ones only.
THEOREM TypeCorrect == GraphSpec => []GraphTypeOK
<1>1. Consistent => GraphTypeOK
  BY DEF Consistent
<1> QED
  BY <1>1, ConsistentAlways, PTL

\* The validation that read_graph repeats on every read never fails.
THEOREM GraphStaysValid == GraphSpec => []GraphIsValid
<1>1. Consistent => GraphIsValid
  BY DEF Consistent
<1> QED
  BY <1>1, ConsistentAlways, PTL

\* While active Tickets are not integrated, one of them waits for integrated
\* Tickets only.
THEOREM DeliveryIsNeverBlocked == GraphSpec => []SomeTicketCanProceed
<1>1. GraphIsValid => SomeTicketCanProceed
  <2> DEFINE open == {t \in ActiveIn(records) : records[t].status # "integrated"}
  <2> SUFFICES ASSUME GraphIsValid, open # {}
               PROVE  \E t \in open : \A d \in records[t].dependencies :
                         records[d].status = "integrated"
    BY DEF SomeTicketCanProceed
  <2>1. PICK t \in open : records[t].dependencies \cap open = {}
    BY DEF GraphIsValid, ValidGraph, ActiveIsDag
  <2>2. t \in DOMAIN records /\ records[t].active
    BY DEF ActiveIn
  <2>3. records[t].dependencies \subseteq ActiveIn(records)
    BY <2>2 DEF GraphIsValid, ValidGraph, DependenciesValid
  <2> QED
    BY <2>1, <2>3
<1> QED
  BY <1>1, GraphStaysValid, PTL

\* A Ticket read as ready has only dependencies whose integration succeeded.
THEOREM ReadinessIsEarned == GraphSpec => []OnlyIntegrationSatisfies
<1>1. Consistent => OnlyIntegrationSatisfies
  <2> SUFFICES ASSUME Consistent, NEW t \in Registered, ReadyIn(records, t),
                      NEW d \in records[t].dependencies
               PROVE  d \in integrations
    BY DEF OnlyIntegrationSatisfies
  <2>1. d \in Registered
    BY DEF Consistent, GraphIsValid, ValidGraph, DependenciesValid, Registered
  <2>2. records[d].status = "integrated"
    BY DEF ReadyIn
  <2> QED
    BY <2>1, <2>2 DEF Consistent, IntegratedIsRecorded
<1> QED
  BY <1>1, ConsistentAlways, PTL

\* No step, of whatever command or Team, leaves a Ticket without the budget
\* it had declared.
THEOREM BudgetsAlwaysSurvive == GraphSpec => BudgetsSurvive
<1> DEFINE KeepsBudgets == \A t \in Registered :
                      records[t].budget # NoBudget =>
                         t \in DOMAIN records' /\ records'[t].budget # NoBudget
<1>1. ASSUME GraphTypeOK, StatusesOnly(records, records')
      PROVE  KeepsBudgets
  <2>1. \A t \in DOMAIN records : records[t] \in Record
    BY <1>1 DEF GraphTypeOK, Registered
  <2>2. \A t \in DOMAIN records' : records'[t].budget = records[t].budget
    BY <1>1, <2>1, StatusesKeepTheGraph
  <2> QED
    BY <1>1, <2>2 DEF StatusesOnly, Registered
<1>2. ASSUME GraphTypeOK, NEW t \in Registered, NEW s \in Status, records' = SetStatus(t, s)
      PROVE  KeepsBudgets
  BY <1>1, <1>2, SetStatusIsStatusesOnly
<1>3. ASSUME GraphTypeOK, GraphNext
      PROVE  KeepsBudgets
  <2>1. ASSUME NEW t \in TicketIds, NEW dependencies \in SUBSET TicketIds,
               NEW budget \in Budget, Register(t, dependencies, budget)
        PROVE  KeepsBudgets
    BY <2>1 DEF Register, Registered
  <2>2. ASSUME NEW revised \in Revisions, Revise(revised)
        PROVE  KeepsBudgets
    <3>1. /\ Registered \subseteq DOMAIN records'
          /\ \A t \in Registered :
                records[t].budget # NoBudget => records'[t].budget # NoBudget
      BY <1>3, <2>2, ReviseByRecord DEF Registered
    <3> QED
      BY <3>1
  <2>3. ASSUME NEW t \in TicketIds, NEW status \in Status, UpdateTicketState(t, status)
        PROVE  KeepsBudgets
    BY <1>2, <1>3, <2>3 DEF UpdateTicketState
  <2>4. ASSUME NEW t \in TicketIds, NEW status \in Status, TeamMoves(t, status)
        PROVE  KeepsBudgets
    BY <1>2, <1>3, <2>4 DEF TeamMoves, GraphTypeOK
  <2>5. ASSUME NEW t \in TicketIds, TeamStarts(t) \/ TeamReplaced(t)
        PROVE  KeepsBudgets
    <3>1. t \in Registered /\ records' = SetStatus(t, "implementing")
      BY <1>3, <2>5 DEF TeamStarts, TeamReplaced, GraphTypeOK
    <3>2. "implementing" \in Status
      BY DEF Status
    <3> QED
      BY <1>2, <1>3, <3>1, <3>2
  <2>6. ASSUME NEW t \in TicketIds, NEW outcome \in Outcomes, Integrate(t, outcome)
        PROVE  KeepsBudgets
    BY <1>3, <2>6, IntegrateKeepsTheRest, <1>1
  <2> QED
    BY <1>3, <2>1, <2>2, <2>3, <2>4, <2>5, <2>6 DEF GraphNext
<1>4. GraphTypeOK /\ [GraphNext]_graphVars => [KeepsBudgets]_graphVars
  BY <1>3
<1> QED
  BY <1>4, TypeCorrect, PTL DEF GraphSpec, BudgetsSurvive

----------------------------------------------------------------------------
(* GraphCommit: the order of the lines *)

\* Where a line can be.
Spot == EventId \X Nat

Below(P, p) == {q \in P : Before(q, p)}
Rank(P, p) == Cardinality(Below(P, p))
Place(P, k) == CHOOSE p \in P : Rank(P, p) = k - 1

\* The lines that files f have at the positions P.
OrderOf(f, P) == [k \in 1 .. Cardinality(P) |-> f[Place(P, k)[1]][Place(P, k)[2]]]

PositionsOf(f) == UNION {{name} \X DOMAIN f[name] : name \in DOMAIN f}
WholeOf(f) == {p \in PositionsOf(f) : f[p[1]][p[2]] # TornLine}

LEMMA LogInOrder ==
  Lines = OrderOf(shards, PositionsOf(shards)) /\ Recorded = OrderOf(shards, WholeOf(shards))
BY DEF Lines, Recorded, InOrder, OrderOf, Positions, PositionsOf, LineAt, WholeOf,
       Place, Rank, Below

\* The names of files and the positions of lines are in strict total orders.
LEMMA EarlierIsTotal ==
  ASSUME NEW a \in EventId, NEW b \in EventId, NEW c \in EventId
  PROVE  /\ ~Earlier(a, a)
         /\ Earlier(a, b) /\ Earlier(b, c) => Earlier(a, c)
         /\ a = b \/ Earlier(a, b) \/ Earlier(b, a)
<1>1. a[1] \in Nat /\ b[1] \in Nat /\ c[1] \in Nat /\ a[2] \in Nat /\ b[2] \in Nat /\ c[2] \in Nat
  BY ShardAssumption DEF EventId
<1>2. a = b <=> a[1] = b[1] /\ a[2] = b[2]
  BY DEF EventId
<1>. QED BY <1>1, <1>2 DEF Earlier

LEMMA BeforeIsTotal ==
  ASSUME NEW p \in Spot, NEW q \in Spot, NEW r \in Spot
  PROVE  /\ ~Before(p, p)
         /\ Before(p, q) /\ Before(q, r) => Before(p, r)
         /\ p = q \/ Before(p, q) \/ Before(q, p)
<1>1. /\ p[1] \in EventId /\ q[1] \in EventId /\ r[1] \in EventId
      /\ p[2] \in Nat /\ q[2] \in Nat /\ r[2] \in Nat
  BY DEF Spot
<1>2. p = q <=> p[1] = q[1] /\ p[2] = q[2]
  BY DEF Spot
<1>. QED BY <1>1, <1>2, EarlierIsTotal DEF Before

\* The positions before one that is before another are fewer.
LEMMA RanksGrow ==
  ASSUME NEW P \in SUBSET Spot, IsFiniteSet(P), NEW p \in P, NEW q \in P
  PROVE  /\ Rank(P, p) \in Nat /\ Rank(P, q) \in Nat
         /\ Before(p, q) => Rank(P, p) < Rank(P, q)
         /\ Rank(P, p) < Cardinality(P) /\ Cardinality(P) \in Nat
<1>1. /\ Below(P, p) \subseteq P /\ Below(P, q) \subseteq P
      /\ p \notin Below(P, p)
  BY BeforeIsTotal DEF Below
<1>2. /\ IsFiniteSet(Below(P, p)) /\ IsFiniteSet(Below(P, q))
      /\ Cardinality(Below(P, p)) \in Nat /\ Cardinality(Below(P, q)) \in Nat
      /\ Cardinality(P) \in Nat
  BY <1>1, FS_Subset, FS_CardinalityType
<1>3. ASSUME Before(p, q) PROVE Rank(P, p) < Rank(P, q)
  <2>1. Below(P, p) \subseteq Below(P, q) /\ p \in Below(P, q)
    BY <1>3, BeforeIsTotal DEF Below
  <2>2. Cardinality(Below(P, p)) <= Cardinality(Below(P, q))
    BY <2>1, <1>2, FS_Subset
  <2>3. Cardinality(Below(P, p)) # Cardinality(Below(P, q))
    BY <2>1, <1>1, <1>2, FS_Subset
  <2>. QED BY <2>2, <2>3, <1>2 DEF Rank
<1>4. Rank(P, p) < Cardinality(P)
  <2>1. Cardinality(Below(P, p)) <= Cardinality(P) /\ Cardinality(Below(P, p)) # Cardinality(P)
    BY <1>1, FS_Subset
  <2>. QED BY <2>1, <1>2 DEF Rank
<1>. QED BY <1>2, <1>3, <1>4 DEF Rank

LEMMA RanksDiffer ==
  ASSUME NEW P \in SUBSET Spot, IsFiniteSet(P), NEW p \in P, NEW q \in P,
         Rank(P, p) = Rank(P, q)
  PROVE  p = q
BY RanksGrow, BeforeIsTotal

\* Every place is taken, because there are as many ranks as positions.
LEMMA RanksAreAll ==
  ASSUME NEW P \in SUBSET Spot, IsFiniteSet(P), NEW k \in 1 .. Cardinality(P)
  PROVE  \E p \in P : Rank(P, p) = k - 1
<1>. DEFINE n == Cardinality(P)
            R == {Rank(P, p) : p \in P}
            f == [p \in P |-> Rank(P, p)]
<1>1. n \in Nat
  BY FS_CardinalityType
<1>2. R \subseteq 0 .. n - 1
  BY <1>1, RanksGrow
<1>3. IsFiniteSet(0 .. n - 1) /\ Cardinality(0 .. n - 1) = n
  <2>1. 0 \in Int /\ n - 1 \in Int /\ (0 > n - 1 <=> n = 0) /\ (n - 1) - 0 + 1 = n
    BY <1>1
  <2>. HIDE DEF n
  <2>2. Cardinality(0 .. n - 1) = IF 0 > n - 1 THEN 0 ELSE (n - 1) - 0 + 1
    BY <2>1, FS_Interval
  <2>. QED BY <2>1, <2>2, FS_Interval
<1>4. f \in Bijection(P, R)
  <2>1. f \in [P -> R]
    OBVIOUS
  <2>2. \A p, q \in P : f[p] = f[q] => p = q
    BY RanksDiffer
  <2>3. \A r \in R : \E p \in P : f[p] = r
    OBVIOUS
  <2>. HIDE DEF f, R
  <2>. QED BY <2>1, <2>2, <2>3, Fun_IsBij
<1>5. IsFiniteSet(R)
  BY <1>2, <1>3, FS_Subset
<1>6. Cardinality(R) = n
  <2>1. ExistsBijection(P, R)
    BY <1>4 DEF ExistsBijection
  <2>. HIDE DEF R
  <2>. QED BY <2>1, FS_Bijection
<1>7. R = 0 .. n - 1
  BY <1>2, <1>3, <1>6, FS_Subset
<1>8. k - 1 \in 0 .. n - 1
  BY <1>1
<1>9. k - 1 \in R
  BY <1>7, <1>8
<1>. QED BY <1>9

LEMMA Places ==
  ASSUME NEW P \in SUBSET Spot, IsFiniteSet(P)
  PROVE  /\ Cardinality(P) \in Nat
         /\ \A k \in 1 .. Cardinality(P) : Place(P, k) \in P /\ Rank(P, Place(P, k)) = k - 1
         /\ \A p \in P : /\ Rank(P, p) + 1 \in 1 .. Cardinality(P)
                         /\ Place(P, Rank(P, p) + 1) = p
<1>1. Cardinality(P) \in Nat
  BY FS_CardinalityType
<1>2. \A k \in 1 .. Cardinality(P) : Place(P, k) \in P /\ Rank(P, Place(P, k)) = k - 1
  BY RanksAreAll DEF Place
<1>3. ASSUME NEW p \in P
      PROVE  Rank(P, p) + 1 \in 1 .. Cardinality(P) /\ Place(P, Rank(P, p) + 1) = p
  <2>1. Rank(P, p) \in Nat /\ Rank(P, p) < Cardinality(P)
    BY RanksGrow
  <2>2. Rank(P, p) + 1 \in 1 .. Cardinality(P) /\ (Rank(P, p) + 1) - 1 = Rank(P, p)
    BY <1>1, <2>1
  <2>3. Place(P, Rank(P, p) + 1) \in P /\ Rank(P, Place(P, Rank(P, p) + 1)) = Rank(P, p)
    BY <1>2, <2>2
  <2>. QED BY <2>2, <2>3, RanksDiffer
<1>. QED BY <1>1, <1>2, <1>3

\* A position after all others takes the place after theirs.
LEMMA AddLast ==
  ASSUME NEW P \in SUBSET Spot, IsFiniteSet(P), NEW last \in Spot,
         last \notin P, \A p \in P : Before(p, last)
  PROVE  /\ P \cup {last} \subseteq Spot /\ IsFiniteSet(P \cup {last})
         /\ Cardinality(P \cup {last}) = Cardinality(P) + 1
         /\ \A k \in 1 .. Cardinality(P) : Place(P \cup {last}, k) = Place(P, k)
         /\ Place(P \cup {last}, Cardinality(P) + 1) = last
<1>. DEFINE Q == P \cup {last}
<1>1. IsFiniteSet(Q) /\ Cardinality(Q) = Cardinality(P) + 1 /\ Cardinality(P) \in Nat
  BY FS_AddElement, FS_CardinalityType
<1>2. \A p \in P : ~Before(last, p)
  BY BeforeIsTotal
<1>3. \A p \in P : Rank(Q, p) = Rank(P, p)
  <2>1. \A p \in P : Below(Q, p) = Below(P, p)
    BY <1>2 DEF Below
  <2>. QED BY <2>1 DEF Rank
<1>4. Rank(Q, last) = Cardinality(P)
  <2>1. Below(Q, last) = P
    BY BeforeIsTotal DEF Below
  <2>. QED BY <2>1 DEF Rank
<1>5. Q \in SUBSET Spot /\ last \in Q
  OBVIOUS
<1>6. ASSUME NEW k \in 1 .. Cardinality(P) PROVE Place(Q, k) = Place(P, k)
  <2>1. Place(P, k) \in P /\ Rank(P, Place(P, k)) = k - 1
    BY Places
  <2>2. Place(P, k) \in Q /\ Rank(Q, Place(P, k)) = k - 1
    BY <2>1, <1>3
  <2>3. Place(Q, Rank(Q, Place(P, k)) + 1) = Place(P, k)
    <3>. HIDE DEF Q
    <3>. QED BY <2>2, <1>1, <1>5, Places
  <2>. QED BY <2>2, <2>3
<1>7. Place(Q, Cardinality(P) + 1) = last
  <2>. HIDE DEF Q
  <2>. QED BY <1>1, <1>4, <1>5, Places
<1>. QED BY <1>1, <1>5, <1>6, <1>7

\* What can be read at one position, and what files are.
Entry == Event \cup {TornLine}
Files(f) == /\ IsFiniteSet(DOMAIN f) /\ DOMAIN f \subseteq EventId
            /\ f \in [DOMAIN f -> Seq(Entry)]

LEMMA OrderTypes ==
  ASSUME NEW f, NEW P \in SUBSET Spot, IsFiniteSet(P), NEW S,
         \A p \in P : f[p[1]][p[2]] \in S
  PROVE  /\ OrderOf(f, P) \in Seq(S) /\ Len(OrderOf(f, P)) = Cardinality(P)
         /\ DOMAIN OrderOf(f, P) = 1 .. Cardinality(P)
         /\ \A k \in 1 .. Cardinality(P) :
               OrderOf(f, P)[k] = f[Place(P, k)[1]][Place(P, k)[2]]
<1>1. Cardinality(P) \in Nat
  BY FS_CardinalityType
<1>2. \A k \in 1 .. Cardinality(P) : f[Place(P, k)[1]][Place(P, k)[2]] \in S
  BY Places
<1>. DEFINE n == Cardinality(P)
            e(k) == f[Place(P, k)[1]][Place(P, k)[2]]
<1>3. [k \in 1 .. n |-> e(k)] \in Seq(S) /\ Len([k \in 1 .. n |-> e(k)]) = n
  <2>1. \A k \in 1 .. n : e(k) \in S
    BY <1>2
  <2>2. n \in Nat
    BY <1>1
  <2>. HIDE DEF n, e
  <2>. QED BY <2>1, <2>2
<1>. QED BY <1>3 DEF OrderOf

LEMMA AppendsLast ==
  ASSUME NEW f, NEW g, NEW P \in SUBSET Spot, IsFiniteSet(P),
         NEW last \in Spot, last \notin P, \A p \in P : Before(p, last),
         \A p \in P : f[p[1]][p[2]] \in Entry /\ g[p[1]][p[2]] = f[p[1]][p[2]],
         g[last[1]][last[2]] \in Entry
  PROVE  OrderOf(g, P \cup {last}) = Append(OrderOf(f, P), g[last[1]][last[2]])
<1>. DEFINE Q == P \cup {last}
            n == Cardinality(P)
            e == g[last[1]][last[2]]
            s == OrderOf(f, P)
            t == OrderOf(g, Q)
<1>1. /\ Q \in SUBSET Spot /\ IsFiniteSet(Q) /\ Cardinality(Q) = n + 1 /\ n \in Nat
      /\ \A k \in 1 .. n : Place(Q, k) = Place(P, k)
      /\ Place(Q, n + 1) = last
  BY AddLast, FS_CardinalityType
<1>2. s \in Seq(Entry) /\ Len(s) = n /\ \A k \in 1 .. n : s[k] = f[Place(P, k)[1]][Place(P, k)[2]]
  BY OrderTypes
<1>3. \A p \in Q : g[p[1]][p[2]] \in Entry
  OBVIOUS
<1>4. /\ t \in Seq(Entry) /\ Len(t) = n + 1
      /\ \A k \in 1 .. n + 1 : t[k] = g[Place(Q, k)[1]][Place(Q, k)[2]]
  <2>. HIDE DEF Q, n
  <2>1. /\ t \in Seq(Entry) /\ Len(t) = Cardinality(Q)
        /\ \A k \in 1 .. Cardinality(Q) : t[k] = g[Place(Q, k)[1]][Place(Q, k)[2]]
    BY <1>1, <1>3, OrderTypes
  <2>. QED BY <1>1, <2>1
<1>5. \A k \in 1 .. n : t[k] = s[k]
  <2>1. \A k \in 1 .. n : Place(P, k) \in P
    BY Places
  <2>2. \A k \in 1 .. n : g[Place(P, k)[1]][Place(P, k)[2]] = f[Place(P, k)[1]][Place(P, k)[2]]
    BY <2>1
  <2>. HIDE DEF s, t, Q, n, e
  <2>. QED BY <2>2, <1>1, <1>2, <1>4
<1>6. t[n + 1] = e
  <2>1. n + 1 \in 1 .. n + 1
    BY <1>1
  <2>. HIDE DEF s, t, Q, n
  <2>. QED BY <2>1, <1>1, <1>4
<1>7. e \in Entry
  OBVIOUS
<1>. HIDE DEF s, t, Q, n, e
<1>8. t = Append(s, e)
  <2>1. /\ Append(s, e) \in Seq(Entry) /\ Len(Append(s, e)) = n + 1
        /\ \A k \in 1 .. n : Append(s, e)[k] = s[k]
        /\ Append(s, e)[n + 1] = e
    BY <1>1, <1>2, <1>7, AppendProperties
  <2>2. \A k \in 1 .. Len(t) : t[k] = Append(s, e)[k]
    BY <2>1, <1>1, <1>4, <1>5, <1>6
  <2>. QED BY <2>1, <2>2, <1>1, <1>4, SeqEqual
<1>. QED BY <1>8 DEF s, t, Q, n, e

\* Files have finitely many positions, and an entry at each.
LEMMA FilesHavePositions ==
  ASSUME NEW f, Files(f)
  PROVE  /\ PositionsOf(f) \in SUBSET Spot /\ IsFiniteSet(PositionsOf(f))
         /\ WholeOf(f) \in SUBSET Spot /\ IsFiniteSet(WholeOf(f))
         /\ WholeOf(f) \subseteq PositionsOf(f)
         /\ \A p \in PositionsOf(f) : f[p[1]][p[2]] \in Entry
         /\ \A p \in WholeOf(f) : f[p[1]][p[2]] \in Event
         /\ \A p : p \in PositionsOf(f) <=> /\ p = <<p[1], p[2]>> /\ p[1] \in DOMAIN f
                                            /\ p[2] \in 1 .. Len(f[p[1]])
         /\ \A name \in DOMAIN f : \A i \in 1 .. Len(f[name]) : <<name, i>> \in PositionsOf(f)
<1>1. \A name \in DOMAIN f : f[name] \in Seq(Entry) /\ DOMAIN f[name] = 1 .. Len(f[name])
                             /\ Len(f[name]) \in Nat
  <2>1. \A name \in DOMAIN f : f[name] \in Seq(Entry)
    BY DEF Files
  <2>. QED BY <2>1, LenProperties
<1>. DEFINE U == {{name} \X DOMAIN f[name] : name \in DOMAIN f}
<1>2. IsFiniteSet(U)
  <2>. DEFINE h == [name \in DOMAIN f |-> {name} \X DOMAIN f[name]]
  <2>1. h \in Surjection(DOMAIN f, U)
    <3>1. h \in [DOMAIN f -> U]
      OBVIOUS
    <3>2. \A u \in U : \E name \in DOMAIN f : h[name] = u
      OBVIOUS
    <3>. HIDE DEF h, U
    <3>. QED BY <3>1, <3>2, Fun_IsSurj
  <2>2. IsFiniteSet(DOMAIN f)
    BY DEF Files
  <2>. HIDE DEF h, U
  <2>. QED BY <2>1, <2>2, FS_Surjection
<1>3. \A u \in U : IsFiniteSet(u)
  <2>1. ASSUME NEW name \in DOMAIN f PROVE IsFiniteSet({name} \X DOMAIN f[name])
    <3>1. IsFiniteSet(DOMAIN f[name])
      <4>1. 1 \in Int /\ Len(f[name]) \in Int
        BY <1>1
      <4>. QED BY <1>1, <4>1, FS_Interval
    <3>. QED BY <3>1, FS_Singleton, FS_Product
  <2>. QED BY <2>1
<1>4. IsFiniteSet(PositionsOf(f))
  <2>. HIDE DEF U
  <2>1. IsFiniteSet(UNION U)
    BY <1>2, <1>3, FS_UNION
  <2>. QED BY <2>1 DEF U, PositionsOf
<1>5. \A p : p \in PositionsOf(f) <=> /\ p = <<p[1], p[2]>> /\ p[1] \in DOMAIN f
                                      /\ p[2] \in 1 .. Len(f[p[1]])
  BY <1>1 DEF PositionsOf
<1>6. PositionsOf(f) \in SUBSET Spot
  BY <1>1, <1>5 DEF Files, Spot
<1>7. \A p \in PositionsOf(f) : f[p[1]][p[2]] \in Entry
  BY <1>1, <1>5, ElementOfSeq
<1>8. IsFiniteSet(WholeOf(f)) /\ WholeOf(f) \subseteq PositionsOf(f)
  <2>1. WholeOf(f) \subseteq PositionsOf(f)
    BY DEF WholeOf
  <2>. QED BY <2>1, <1>4, FS_Subset
<1>9. \A p \in WholeOf(f) : f[p[1]][p[2]] \in Event
  BY <1>7 DEF WholeOf, Entry
<1>10. \A name \in DOMAIN f : \A i \in 1 .. Len(f[name]) : <<name, i>> \in PositionsOf(f)
  BY <1>5
<1>. QED BY <1>4, <1>5, <1>6, <1>7, <1>8, <1>9, <1>10

\* Files f with `more` at the end of one of them.
FileOf(f, name) == IF name \in DOMAIN f THEN f[name] ELSE <<>>
With(f, name, more) ==
  [n \in DOMAIN f \cup {name} |-> FileOf(f, n) \o (IF n = name THEN more ELSE <<>>)]

LEMMA FilesGrow ==
  ASSUME NEW f, Files(f), NEW name \in EventId, NEW more \in Seq(Entry)
  PROVE  /\ Files(With(f, name, more))
         /\ DOMAIN With(f, name, more) = DOMAIN f \cup {name}
         /\ \A n \in DOMAIN f : n # name => With(f, name, more)[n] = f[n]
         /\ FileOf(f, name) \in Seq(Entry)
         /\ With(f, name, more)[name] = FileOf(f, name) \o more
         /\ Len(With(f, name, more)[name]) = Len(FileOf(f, name)) + Len(more)
         /\ \A n \in DOMAIN f : \A i \in 1 .. Len(f[n]) :
               /\ i \in 1 .. Len(With(f, name, more)[n])
               /\ With(f, name, more)[n][i] = f[n][i]
<1>. DEFINE g == With(f, name, more)
<1>1. DOMAIN g = DOMAIN f \cup {name}
  BY DEF With
<1>2. IsFiniteSet(DOMAIN g) /\ DOMAIN g \subseteq EventId
  BY <1>1, FS_AddElement DEF Files
<1>3. \A n \in DOMAIN f : f[n] \in Seq(Entry) /\ Len(f[n]) \in Nat
  <2>1. \A n \in DOMAIN f : f[n] \in Seq(Entry)
    BY DEF Files
  <2>. QED BY <2>1, LenProperties
<1>4. FileOf(f, name) \in Seq(Entry)
  BY <1>3, EmptySeq DEF FileOf
<1>5. ASSUME NEW n \in DOMAIN f, n # name PROVE g[n] = f[n]
  <2>1. g[n] = f[n] \o <<>>
    BY <1>5 DEF With, FileOf
  <2>. QED BY <2>1, <1>3, ConcatEmptySeq
<1>6. g[name] = FileOf(f, name) \o more
  BY DEF With
<1>7. /\ g[name] \in Seq(Entry) /\ Len(g[name]) = Len(FileOf(f, name)) + Len(more)
      /\ \A i \in 1 .. Len(FileOf(f, name)) + Len(more) :
           g[name][i] = IF i <= Len(FileOf(f, name)) THEN FileOf(f, name)[i]
                        ELSE more[i - Len(FileOf(f, name))]
      /\ Len(FileOf(f, name)) \in Nat /\ Len(more) \in Nat
  BY <1>4, <1>6, ConcatProperties, LenProperties
<1>8. Files(g)
  <2>1. \A n \in DOMAIN g : g[n] \in Seq(Entry)
    BY <1>1, <1>3, <1>5, <1>7
  <2>2. g \in [DOMAIN g -> Seq(Entry)]
    BY <2>1 DEF With
  <2>. QED BY <2>2, <1>2 DEF Files
<1>9. ASSUME NEW n \in DOMAIN f, NEW i \in 1 .. Len(f[n])
      PROVE  i \in 1 .. Len(g[n]) /\ g[n][i] = f[n][i]
  <2>1. CASE n # name
    BY <2>1, <1>5
  <2>2. CASE n = name
    <3>1. FileOf(f, name) = f[name]
      BY <2>2 DEF FileOf
    <3>. HIDE DEF g
    <3>. QED BY <2>2, <3>1, <1>7, <1>3
  <2>. QED BY <2>1, <2>2
<1>. QED BY <1>1, <1>4, <1>5, <1>6, <1>7, <1>8, <1>9

\* Files in which the same places hold the same lines are read alike.
LEMMA ReadAlike ==
  ASSUME NEW f, NEW g, NEW P \in SUBSET Spot, IsFiniteSet(P),
         \A p \in P : g[p[1]][p[2]] = f[p[1]][p[2]]
  PROVE  OrderOf(g, P) = OrderOf(f, P)
<1>1. \A k \in 1 .. Cardinality(P) : Place(P, k) \in P
  BY Places
<1>2. \A k \in 1 .. Cardinality(P) :
         g[Place(P, k)[1]][Place(P, k)[2]] = f[Place(P, k)[1]][Place(P, k)[2]]
  BY <1>1
<1>. QED BY <1>2 DEF OrderOf

\* A reader makes nothing of lines that are no event.
LEMMA TornAdded ==
  ASSUME NEW f, Files(f), NEW name \in EventId, NEW more \in Seq({TornLine})
  PROVE  /\ Files(With(f, name, more))
         /\ WholeOf(With(f, name, more)) = WholeOf(f)
         /\ OrderOf(With(f, name, more), WholeOf(With(f, name, more))) = OrderOf(f, WholeOf(f))
<1>. DEFINE g == With(f, name, more)
<1>1. more \in Seq(Entry) /\ Len(more) \in Nat /\ \A i \in 1 .. Len(more) : more[i] = TornLine
  BY SeqMonotonic, LenProperties, ElementOfSeq DEF Entry
<1>2. /\ Files(g) /\ DOMAIN g = DOMAIN f \cup {name}
      /\ \A n \in DOMAIN f : n # name => g[n] = f[n]
      /\ FileOf(f, name) \in Seq(Entry)
      /\ Len(g[name]) = Len(FileOf(f, name)) + Len(more)
      /\ \A n \in DOMAIN f : \A i \in 1 .. Len(f[n]) : i \in 1 .. Len(g[n]) /\ g[n][i] = f[n][i]
      /\ \A i \in 1 .. Len(more) : g[name][Len(FileOf(f, name)) + i] = more[i]
  <2>0. more \in Seq(Entry)
    BY <1>1
  <2>1. Files(g)
    BY <2>0, FilesGrow, Zenon
  <2>7. DOMAIN g = DOMAIN f \cup {name}
    BY <2>0, FilesGrow, Zenon
  <2>8. FileOf(f, name) \in Seq(Entry)
    BY <2>0, FilesGrow, Zenon
  <2>9. Len(g[name]) = Len(FileOf(f, name)) + Len(more)
    BY <2>0, FilesGrow, Zenon
  <2>2. \A n \in DOMAIN f : n # name => g[n] = f[n]
    BY <2>0, FilesGrow, Zenon
  <2>3. \A n \in DOMAIN f : \A i \in 1 .. Len(f[n]) : i \in 1 .. Len(g[n]) /\ g[n][i] = f[n][i]
    BY <2>0, FilesGrow, Zenon
  <2>4. \A i \in 1 .. Len(more) : g[name][Len(FileOf(f, name)) + i] = more[i]
    <3>1. g[name] = FileOf(f, name) \o more
      BY DEF With
    <3>2. Len(more) \in Nat /\ Len(FileOf(f, name)) \in Nat
      BY <2>0, <2>8, LenProperties
    <3>. HIDE DEF g
    <3>3. ASSUME NEW i \in 1 .. Len(more)
          PROVE (FileOf(f, name) \o more)[Len(FileOf(f, name)) + i] = more[i]
      <4>. DEFINE j == Len(FileOf(f, name)) + i
      <4>1. j \in 1 .. Len(FileOf(f, name)) + Len(more) /\ ~(j <= Len(FileOf(f, name)))
            /\ j - Len(FileOf(f, name)) = i
        BY <3>2
      <4>. HIDE DEF j
      <4>2. (FileOf(f, name) \o more)[j] = more[i]
        BY <4>1, <2>0, <2>8, ConcatProperties
      <4>. QED BY <4>2 DEF j
    <3>. QED BY <3>1, <3>3
  <2>. HIDE DEF g
  <2>. QED BY <2>1, <2>7, <2>8, <2>9, <2>2, <2>3, <2>4
<1>3. Len(FileOf(f, name)) \in Nat
  BY <1>2, LenProperties
<1>. HIDE DEF g
<1>4. \A p : p \in PositionsOf(f) => p \in PositionsOf(g) /\ g[p[1]][p[2]] = f[p[1]][p[2]]
  BY <1>2, FilesHavePositions
<1>5. ASSUME NEW p \in PositionsOf(g), p \notin PositionsOf(f) PROVE g[p[1]][p[2]] = TornLine
  <2>1. p = <<p[1], p[2]>> /\ p[1] \in DOMAIN g /\ p[2] \in 1 .. Len(g[p[1]])
    BY <1>2, FilesHavePositions
  <2>2. p[1] = name
    <3>1. CASE p[1] \in DOMAIN f /\ p[1] # name
      <4>1. g[p[1]] = f[p[1]]
        BY <3>1, <1>2
      <4>. QED BY <2>1, <3>1, <4>1, <1>5, FilesHavePositions
    <3>. QED BY <3>1, <2>1, <1>2
  <2>3. ~(p[2] <= Len(FileOf(f, name)))
    <3>1. SUFFICES ASSUME p[2] <= Len(FileOf(f, name)) PROVE FALSE
      OBVIOUS
    <3>2. p[2] \in 1 .. Len(FileOf(f, name))
      BY <3>1, <2>1, <1>3
    <3>3. CASE name \in DOMAIN f
      BY <3>2, <3>3, <2>1, <2>2, <1>5, FilesHavePositions DEF FileOf
    <3>4. CASE name \notin DOMAIN f
      <4>1. FileOf(f, name) = <<>>
        BY <3>4 DEF FileOf
      <4>. QED BY <3>2, <4>1
    <3>. QED BY <3>3, <3>4
  <2>4. p[2] - Len(FileOf(f, name)) \in 1 .. Len(more)
        /\ p[2] = Len(FileOf(f, name)) + (p[2] - Len(FileOf(f, name)))
    BY <2>1, <2>2, <2>3, <1>1, <1>2, <1>3
  <2>. QED BY <2>2, <2>4, <1>1, <1>2
<1>6. WholeOf(g) = WholeOf(f)
  BY <1>4, <1>5 DEF WholeOf
<1>7. \A p \in WholeOf(f) : g[p[1]][p[2]] = f[p[1]][p[2]]
  BY <1>4, FilesHavePositions
<1>8. OrderOf(g, WholeOf(f)) = OrderOf(f, WholeOf(f))
  BY <1>7, FilesHavePositions, ReadAlike
<1>. QED BY <1>2, <1>6, <1>8 DEF g

\* A line added to the last file, or to a later one, is the last of all.
LEMMA LineAdded ==
  ASSUME NEW f, Files(f), NEW name \in EventId, NEW e \in Event, e # TornLine,
         \A n \in DOMAIN f : n = name \/ Earlier(n, name)
  PROVE  /\ OrderOf(With(f, name, <<e>>), PositionsOf(With(f, name, <<e>>)))
              = Append(OrderOf(f, PositionsOf(f)), e)
         /\ OrderOf(With(f, name, <<e>>), WholeOf(With(f, name, <<e>>)))
              = Append(OrderOf(f, WholeOf(f)), e)
<1>. DEFINE more == <<e>>
            g == With(f, name, more)
            len == Len(FileOf(f, name))
            last == <<name, len + 1>>
<1>1. more \in Seq(Entry) /\ Len(more) = 1 /\ more[1] = e
  BY DEF Entry
<1>. HIDE DEF more
<1>2. /\ Files(g) /\ DOMAIN g = DOMAIN f \cup {name}
      /\ \A n \in DOMAIN f : n # name => g[n] = f[n]
      /\ FileOf(f, name) \in Seq(Entry)
      /\ Len(g[name]) = len + 1
      /\ \A n \in DOMAIN f : \A i \in 1 .. Len(f[n]) : i \in 1 .. Len(g[n]) /\ g[n][i] = f[n][i]
      /\ g[name][len + 1] = e
  <2>0. more \in Seq(Entry)
    BY <1>1
  <2>1. Files(g)
    BY <2>0, FilesGrow, Zenon
  <2>7. DOMAIN g = DOMAIN f \cup {name}
    BY <2>0, FilesGrow, Zenon
  <2>8. FileOf(f, name) \in Seq(Entry)
    BY <2>0, FilesGrow, Zenon
  <2>9. Len(g[name]) = Len(FileOf(f, name)) + Len(more)
    BY <2>0, FilesGrow, Zenon
  <2>2. \A n \in DOMAIN f : n # name => g[n] = f[n]
    BY <2>0, FilesGrow, Zenon
  <2>3. \A n \in DOMAIN f : \A i \in 1 .. Len(f[n]) : i \in 1 .. Len(g[n]) /\ g[n][i] = f[n][i]
    BY <2>0, FilesGrow, Zenon
  <2>4. \A i \in 1 .. Len(more) : g[name][Len(FileOf(f, name)) + i] = more[i]
    <3>1. g[name] = FileOf(f, name) \o more
      BY DEF With
    <3>2. Len(more) \in Nat /\ Len(FileOf(f, name)) \in Nat
      BY <2>0, <2>8, LenProperties
    <3>. HIDE DEF g
    <3>3. ASSUME NEW i \in 1 .. Len(more)
          PROVE (FileOf(f, name) \o more)[Len(FileOf(f, name)) + i] = more[i]
      <4>. DEFINE j == Len(FileOf(f, name)) + i
      <4>1. j \in 1 .. Len(FileOf(f, name)) + Len(more) /\ ~(j <= Len(FileOf(f, name)))
            /\ j - Len(FileOf(f, name)) = i
        BY <3>2
      <4>. HIDE DEF j
      <4>2. (FileOf(f, name) \o more)[j] = more[i]
        BY <4>1, <2>0, <2>8, ConcatProperties
      <4>. QED BY <4>2 DEF j
    <3>. QED BY <3>1, <3>3
  <2>. HIDE DEF g
  <2>5. 1 \in 1 .. Len(more)
    BY <1>1
  <2>6. g[name][len + 1] = e
    BY <2>4, <2>5, <1>1
  <2>. QED BY <2>1, <2>7, <2>8, <2>9, <2>2, <2>3, <2>6, <1>1
<1>3. len \in Nat
  BY <1>2, LenProperties
<1>. HIDE DEF g
<1>4. \A p : p \in PositionsOf(f) => p \in PositionsOf(g) /\ g[p[1]][p[2]] = f[p[1]][p[2]]
  BY <1>2, FilesHavePositions
<1>5. \A p \in PositionsOf(f) : p[1] = name => p[2] <= len
  <2>1. \A p \in PositionsOf(f) : p[1] \in DOMAIN f /\ p[2] \in 1 .. Len(f[p[1]])
    BY FilesHavePositions
  <2>. QED BY <2>1 DEF FileOf
<1>6. PositionsOf(f) \in SUBSET Spot
  BY FilesHavePositions
<1>7. last \in Spot /\ last[1] = name /\ last[2] = len + 1
  BY <1>3 DEF Spot
<1>8. last \notin PositionsOf(f)
  BY <1>3, <1>5, <1>7
<1>9. ASSUME NEW p \in PositionsOf(f) PROVE Before(p, last)
  <2>1. p[1] \in DOMAIN f /\ p[2] \in Nat
    BY <1>6, FilesHavePositions DEF Spot
  <2>2. CASE p[1] = name
    <3>1. p[2] < len + 1
      BY <2>1, <2>2, <1>3, <1>5
    <3>. QED BY <2>2, <3>1, <1>7 DEF Before
  <2>3. CASE p[1] # name
    BY <2>1, <2>3, <1>7 DEF Before
  <2>. QED BY <2>2, <2>3
<1>10. ASSUME NEW p \in PositionsOf(g), p # last PROVE p \in PositionsOf(f)
  <2>1. p = <<p[1], p[2]>> /\ p[1] \in DOMAIN g /\ p[2] \in 1 .. Len(g[p[1]])
    BY <1>2, FilesHavePositions
  <2>2. CASE p[1] # name
    <3>1. p[1] \in DOMAIN f /\ g[p[1]] = f[p[1]]
      BY <2>1, <2>2, <1>2
    <3>. QED BY <2>1, <3>1, FilesHavePositions
  <2>3. CASE p[1] = name
    <3>1. p[2] \in 1 .. len
      BY <2>1, <2>3, <1>2, <1>3, <1>10, <1>7
    <3>2. name \in DOMAIN f
      <4>1. SUFFICES ASSUME name \notin DOMAIN f PROVE FALSE
        OBVIOUS
      <4>2. len = 0
        BY <4>1 DEF FileOf
      <4>. QED BY <3>1, <4>2
    <3>3. f[name] = FileOf(f, name)
      BY <3>2 DEF FileOf
    <3>. QED BY <2>1, <2>3, <3>1, <3>2, <3>3, FilesHavePositions
  <2>. QED BY <2>2, <2>3
<1>11. last \in PositionsOf(g)
  <2>1. name \in DOMAIN g /\ len + 1 \in 1 .. Len(g[name])
    BY <1>2, <1>3
  <2>. QED BY <2>1, <1>2, FilesHavePositions
<1>12. PositionsOf(g) = PositionsOf(f) \cup {last}
  <2>. HIDE DEF last
  <2>. QED BY <1>4, <1>10, <1>11
<1>13. g[last[1]][last[2]] = e
  BY <1>2, <1>7
<1>14. WholeOf(g) = WholeOf(f) \cup {last}
  <2>. HIDE DEF last
  <2>1. \A p \in PositionsOf(f) : g[p[1]][p[2]] = f[p[1]][p[2]]
    BY <1>4
  <2>. QED BY <1>12, <1>13, <2>1 DEF WholeOf
<1>15. e \in Entry /\ \A p \in PositionsOf(f) : f[p[1]][p[2]] \in Entry
  BY FilesHavePositions DEF Entry
<1>. HIDE DEF last, len
<1>16. OrderOf(g, PositionsOf(f) \cup {last}) = Append(OrderOf(f, PositionsOf(f)), g[last[1]][last[2]])
  <2>. DEFINE P == PositionsOf(f)
  <2>1. /\ P \in SUBSET Spot /\ IsFiniteSet(P) /\ last \in Spot /\ last \notin P
        /\ \A p \in P : Before(p, last)
        /\ \A p \in P : f[p[1]][p[2]] \in Entry /\ g[p[1]][p[2]] = f[p[1]][p[2]]
        /\ g[last[1]][last[2]] \in Entry
    BY <1>4, <1>7, <1>8, <1>9, <1>13, <1>15, FilesHavePositions
  <2>. HIDE DEF P
  <2>2. OrderOf(g, P \cup {last}) = Append(OrderOf(f, P), g[last[1]][last[2]])
    BY <2>1, AppendsLast
  <2>. QED BY <2>2 DEF P
<1>17. OrderOf(g, WholeOf(f) \cup {last}) = Append(OrderOf(f, WholeOf(f)), g[last[1]][last[2]])
  <2>. DEFINE P == WholeOf(f)
  <2>1. /\ P \in SUBSET Spot /\ IsFiniteSet(P) /\ last \in Spot /\ last \notin P
        /\ \A p \in P : Before(p, last)
        /\ \A p \in P : f[p[1]][p[2]] \in Entry /\ g[p[1]][p[2]] = f[p[1]][p[2]]
        /\ g[last[1]][last[2]] \in Entry
    <3>1. P \subseteq PositionsOf(f) /\ P \in SUBSET Spot /\ IsFiniteSet(P)
      BY FilesHavePositions
    <3>. QED BY <3>1, <1>4, <1>7, <1>8, <1>9, <1>13, <1>15
  <2>. HIDE DEF P
  <2>2. OrderOf(g, P \cup {last}) = Append(OrderOf(f, P), g[last[1]][last[2]])
    BY <2>1, AppendsLast
  <2>. QED BY <2>2 DEF P
<1>18. OrderOf(g, PositionsOf(g)) = Append(OrderOf(f, PositionsOf(f)), e)
  BY <1>12, <1>13, <1>16
<1>19. OrderOf(g, WholeOf(g)) = Append(OrderOf(f, WholeOf(f)), e)
  BY <1>13, <1>14, <1>17
<1>. QED BY <1>18, <1>19 DEF g, more

----------------------------------------------------------------------------
(* The identifiers of a log *)

\* Induction over the numbers, for a set of them.
NatLess == {p \in Nat \X Nat : p[1] < p[2]}

LEMMA Induction ==
  ASSUME NEW S, 0 \in S, \A n \in Nat : n \in S => n + 1 \in S
  PROVE  Nat \subseteq S
<1>. DEFINE T == Nat \ S
<1>. SUFFICES ASSUME T # {} PROVE FALSE
  OBVIOUS
<1>1. PICK x \in T : \A y \in T : ~(<<y, x>> \in NatLess)
  <2>1. IsWellFoundedOn(NatLess, Nat)
    BY NatLessThanWellFounded DEF OpToRel, NatLess
  <2>. T \subseteq Nat
    OBVIOUS
  <2>. HIDE DEF T
  <2>. QED BY <2>1, WFMin
<1>2. x \in Nat /\ x # 0 /\ x - 1 \in Nat
  BY <1>1
<1>3. <<x - 1, x>> \in NatLess
  BY <1>2 DEF NatLess
<1>4. x - 1 \in S
  BY <1>1, <1>2, <1>3
<1>5. x \in S
  <2>1. (x - 1) + 1 = x
    BY <1>2
  <2>. QED BY <1>2, <1>4, <2>1
<1>. QED BY <1>5

LEMMA EventTypes ==
  ASSUME NEW e \in Event
  PROVE  /\ e.id \in EventId /\ e.id[1] \in Nat /\ e.id[2] \in Nat /\ e.id = <<e.id[1], e.id[2]>>
         /\ At(e) = e.id[1] /\ At(e) \in Nat /\ e.causes \subseteq EventId
         /\ e.affected \subseteq TicketIds /\ e # TornLine
<1>1. e.id \in EventId /\ e.causes \subseteq EventId /\ e.affected \subseteq TicketIds
  BY DEF Event
<1>2. e.id[1] \in Nat /\ e.id[2] \in Nat /\ e.id = <<e.id[1], e.id[2]>>
  <2>1. \A d \in Instants \X Nat : d[1] \in Instants /\ d[2] \in Nat /\ d = <<d[1], d[2]>>
    OBVIOUS
  <2>2. \A x \in Instants : x \in Nat
    BY ShardAssumption
  <2>. QED BY <1>1, <2>1, <2>2 DEF EventId
<1>. QED BY <1>1, <1>2, MarkerAssumption DEF At

\* A log that is well recorded has no torn line, so it is a sequence of events.
LEMMA WellRecordedEvents ==
  ASSUME NEW lines \in Seq(Entry), WellRecorded(lines)
  PROVE  lines \in Seq(Event)
<1>1. \A i \in 1 .. Len(lines) : lines[i] \in Event
  BY ElementOfSeq, LenProperties DEF WellRecorded, Entry
<1>2. lines = [i \in 1 .. Len(lines) |-> lines[i]] /\ Len(lines) \in Nat
  BY LenProperties
<1>. DEFINE n == Len(lines)
            e(i) == lines[i]
<1>3. [i \in 1 .. n |-> e(i)] \in Seq(Event)
  <2>1. \A i \in 1 .. n : e(i) \in Event
    BY <1>1
  <2>2. n \in Nat
    BY <1>2
  <2>. HIDE DEF n, e
  <2>. QED BY <2>1, <2>2
<1>. QED BY <1>2, <1>3

LEMMA PrefixOf ==
  ASSUME NEW S, NEW lines \in Seq(S), NEW i \in 1 .. Len(lines) + 1
  PROVE  /\ SubSeq(lines, 1, i - 1) \in Seq(S) /\ Len(SubSeq(lines, 1, i - 1)) = i - 1
         /\ DOMAIN SubSeq(lines, 1, i - 1) = 1 .. i - 1
         /\ \A j \in 1 .. i - 1 : SubSeq(lines, 1, i - 1)[j] = lines[j]
<1>1. Len(lines) \in Nat /\ \A j \in 1 .. Len(lines) : lines[j] \in S
  BY LenProperties, ElementOfSeq
<1>2. /\ 1 \in Int /\ i - 1 \in Int /\ \A j \in 1 .. i - 1 : lines[j] \in S
  BY <1>1
<1>3. /\ SubSeq(lines, 1, i - 1) \in Seq(S)
      /\ Len(SubSeq(lines, 1, i - 1)) = IF 1 <= i - 1 THEN i - 1 - 1 + 1 ELSE 0
      /\ \A j \in 1 .. i - 1 - 1 + 1 : SubSeq(lines, 1, i - 1)[j] = lines[1 + j - 1]
  BY <1>2, SubSeqProperties
<1>4. i \in Nat /\ i >= 1
  BY <1>1
<1>5. /\ Len(SubSeq(lines, 1, i - 1)) = i - 1
      /\ \A j \in 1 .. i - 1 : SubSeq(lines, 1, i - 1)[j] = lines[j]
  BY <1>3, <1>4
<1>. QED BY <1>3, <1>5, LenProperties

\* The events of one instant.
AtOnce(lines, now) == {i \in DOMAIN lines : lines[i] # TornLine /\ At(lines[i]) = now}

LEMMA AtOnceIsFinite ==
  ASSUME NEW lines, NEW S, lines \in Seq(S), NEW now
  PROVE  /\ IsFiniteSet(AtOnce(lines, now)) /\ SameInstant(lines, now) \in Nat
         /\ SameInstant(lines, now) = Cardinality(AtOnce(lines, now))
<1>1. AtOnce(lines, now) \subseteq 1 .. Len(lines) /\ Len(lines) \in Nat
  BY LenProperties DEF AtOnce
<1>2. IsFiniteSet(1 .. Len(lines))
  BY <1>1, FS_Interval
<1>3. IsFiniteSet(AtOnce(lines, now))
  BY <1>1, <1>2, FS_Subset
<1>4. SameInstant(lines, now) = Cardinality(AtOnce(lines, now))
  BY DEF SameInstant, AtOnce
<1>. QED BY <1>3, <1>4, FS_CardinalityType

LEMMA TimesGrow ==
  ASSUME NEW lines \in Seq(Event), WellRecorded(lines),
         NEW i \in 1 .. Len(lines), NEW j \in i .. Len(lines)
  PROVE  At(lines[i]) <= At(lines[j])
<1>. DEFINE n == Len(lines)
            time(k) == At(lines[k])
            S == {d \in Nat : \A k \in 1 .. n : k + d \in 1 .. n => time(k) <= time(k + d)}
<1>1. n \in Nat /\ \A k \in 1 .. n : time(k) \in Nat
  <2>1. n \in Nat /\ \A k \in 1 .. n : lines[k] \in Event
    BY LenProperties, ElementOfSeq
  <2>. QED BY <2>1, EventTypes
<1>2. \A k \in 1 .. n : k > 1 => time(k - 1) <= time(k)
  BY LenProperties DEF WellRecorded
<1>. HIDE DEF n, time
<1>3. 0 \in S
  BY <1>1
<1>4. ASSUME NEW d \in Nat, d \in S PROVE d + 1 \in S
  <2>1. ASSUME NEW k \in 1 .. n, k + (d + 1) \in 1 .. n PROVE time(k) <= time(k + (d + 1))
    <3>1. k + d \in 1 .. n /\ k + (d + 1) > 1 /\ (k + (d + 1)) - 1 = k + d
      BY <2>1, <1>1
    <3>2. time(k) <= time(k + d)
      BY <3>1, <1>4
    <3>3. time(k + d) <= time(k + (d + 1))
      BY <3>1, <2>1, <1>2
    <3>4. time(k) \in Nat /\ time(k + d) \in Nat /\ time(k + (d + 1)) \in Nat
      BY <3>1, <2>1, <1>1
    <3>. QED BY <3>2, <3>3, <3>4
  <2>. QED BY <2>1
<1>5. Nat \subseteq S
  <2>. HIDE DEF S
  <2>. QED BY <1>3, <1>4, Induction
<1>6. j - i \in S /\ i + (j - i) = j /\ i \in 1 .. n /\ j \in 1 .. n
  <2>1. i \in 1 .. n /\ j \in 1 .. n /\ i <= j /\ i \in Nat /\ j \in Nat
    BY <1>1 DEF n
  <2>2. j - i \in Nat /\ i + (j - i) = j
    BY <2>1
  <2>. QED BY <2>1, <2>2, <1>5
<1>7. time(i) <= time(j)
  BY <1>6
<1>. QED BY <1>7 DEF time

\* The identifier that is due comes after all that are there.
LEMMA DueIsLater ==
  ASSUME NEW lines \in Seq(Event), WellRecorded(lines), NEW now \in Nat,
         lines # <<>> => now >= At(Last(lines)), NEW i \in DOMAIN lines
  PROVE  Earlier(lines[i].id, <<now, SameInstant(lines, now)>>)
<1>. DEFINE n == Len(lines)
<1>1. n \in Nat /\ DOMAIN lines = 1 .. n /\ \A k \in 1 .. n : lines[k] \in Event
  BY LenProperties, ElementOfSeq
<1>2. lines # <<>> /\ Last(lines) = lines[n] /\ n \in i .. n /\ i \in 1 .. n
  BY <1>1 DEF Last
<1>3. At(lines[i]) <= At(lines[n])
  BY <1>2, TimesGrow
<1>4. At(lines[i]) \in Nat /\ At(lines[n]) \in Nat /\ At(lines[i]) = lines[i].id[1]
  BY <1>1, <1>2, EventTypes
<1>5. CASE At(lines[i]) < now
  BY <1>4, <1>5 DEF Earlier
<1>6. CASE At(lines[i]) = now
  <2>. DEFINE before == SubSeq(lines, 1, i - 1)
  <2>1. /\ before \in Seq(Event) /\ DOMAIN before = 1 .. i - 1
        /\ \A j \in 1 .. i - 1 : before[j] = lines[j]
    <3>1. i \in 1 .. Len(lines) + 1
      BY <1>1, <1>2
    <3>. QED BY <3>1, PrefixOf
  <2>2. lines[i].id = <<now, SameInstant(before, now)>>
    BY <1>1, <1>2, <1>6 DEF WellRecorded
  <2>. HIDE DEF before
  <2>3. AtOnce(before, now) \subseteq AtOnce(lines, now) \ {i}
    BY <2>1, <1>1, <1>2 DEF AtOnce
  <2>4. i \in AtOnce(lines, now)
    BY <1>1, <1>2, <1>6, EventTypes DEF AtOnce
  <2>5. /\ IsFiniteSet(AtOnce(lines, now)) /\ IsFiniteSet(AtOnce(before, now))
        /\ SameInstant(lines, now) = Cardinality(AtOnce(lines, now))
        /\ SameInstant(before, now) = Cardinality(AtOnce(before, now))
        /\ SameInstant(lines, now) \in Nat /\ SameInstant(before, now) \in Nat
    BY <2>1, AtOnceIsFinite
  <2>6. AtOnce(before, now) \subseteq AtOnce(lines, now) /\ AtOnce(before, now) # AtOnce(lines, now)
    BY <2>3, <2>4
  <2>7. /\ Cardinality(AtOnce(before, now)) <= Cardinality(AtOnce(lines, now))
        /\ Cardinality(AtOnce(before, now)) # Cardinality(AtOnce(lines, now))
    BY <2>5, <2>6, FS_Subset
  <2>8. SameInstant(before, now) < SameInstant(lines, now)
    BY <2>5, <2>7
  <2>. QED BY <2>2, <2>8 DEF Earlier
<1>. QED BY <1>2, <1>3, <1>4, <1>5, <1>6

\* A log goes on being well recorded with an event whose identifier is due.
LEMMA WellExtended ==
  ASSUME NEW lines \in Seq(Event), WellRecorded(lines), NEW e \in Event,
         e.id = <<At(e), SameInstant(lines, At(e))>>,
         lines # <<>> => At(e) >= At(Last(lines)), e.causes \subseteq EventIds(lines)
  PROVE  WellRecorded(Append(lines, e))
<1>. DEFINE more == Append(lines, e)
            n == Len(lines)
<1>1. /\ more \in Seq(Event) /\ Len(more) = n + 1 /\ DOMAIN more = 1 .. n + 1 /\ n \in Nat
      /\ \A j \in 1 .. n : more[j] = lines[j]
      /\ more[n + 1] = e
      /\ DOMAIN lines = 1 .. n /\ \A j \in 1 .. n : lines[j] \in Event
  BY AppendProperties, LenProperties, ElementOfSeq
<1>. HIDE DEF more
<1>2. ASSUME NEW i \in 1 .. n + 1
      PROVE  /\ more[i] # TornLine
             /\ i > 1 => At(more[i - 1]) <= At(more[i])
             /\ more[i].id = <<At(more[i]), SameInstant(SubSeq(more, 1, i - 1), At(more[i]))>>
             /\ more[i].causes \subseteq EventIds(SubSeq(more, 1, i - 1))
  <2>1. more[i] \in Event
    BY <1>1, ElementOfSeq
  <2>2. SubSeq(more, 1, i - 1) = SubSeq(lines, 1, i - 1)
    <3>1. i \in 1 .. Len(lines) + 1 /\ i \in 1 .. Len(more) + 1
      BY <1>1
    <3>2. /\ SubSeq(lines, 1, i - 1) \in Seq(Event) /\ Len(SubSeq(lines, 1, i - 1)) = i - 1
          /\ \A j \in 1 .. i - 1 : SubSeq(lines, 1, i - 1)[j] = lines[j]
          /\ SubSeq(more, 1, i - 1) \in Seq(Event) /\ Len(SubSeq(more, 1, i - 1)) = i - 1
          /\ \A j \in 1 .. i - 1 : SubSeq(more, 1, i - 1)[j] = more[j]
      BY <3>1, <1>1, PrefixOf
    <3>3. \A j \in 1 .. i - 1 : more[j] = lines[j]
      BY <1>1
    <3>. QED BY <3>2, <3>3, SeqEqual
  <2>3. CASE i # n + 1
    <3>1. i \in 1 .. n /\ more[i] = lines[i] /\ (i > 1 => more[i - 1] = lines[i - 1])
      BY <2>3, <1>1
    <3>2. /\ lines[i] # TornLine
          /\ i > 1 => At(lines[i - 1]) <= At(lines[i])
          /\ lines[i].id = <<At(lines[i]), SameInstant(SubSeq(lines, 1, i - 1), At(lines[i]))>>
          /\ lines[i].causes \subseteq EventIds(SubSeq(lines, 1, i - 1))
      BY <3>1, <1>1 DEF WellRecorded
    <3>. QED BY <3>1, <3>2, <2>2
  <2>4. CASE i = n + 1
    <3>1. more[i] = e /\ SubSeq(lines, 1, i - 1) = lines
      <4>1. i - 1 = Len(lines)
        BY <2>4, <1>1
      <4>. QED BY <4>1, <2>4, <1>1, SubSeqFull
    <3>2. i > 1 => At(more[i - 1]) <= At(more[i])
      <4>1. SUFFICES ASSUME i > 1 PROVE At(more[n]) <= At(e)
        BY <3>1, <2>4, <1>1
      <4>2. n \in 1 .. n /\ lines # <<>> /\ Last(lines) = lines[n] /\ more[n] = lines[n]
        BY <4>1, <2>4, <1>1 DEF Last
      <4>3. At(e) >= At(lines[n]) /\ At(lines[n]) \in Nat /\ At(e) \in Nat
        BY <4>2, <1>1, EventTypes
      <4>. QED BY <4>2, <4>3
    <3>. QED BY <3>1, <3>2, <2>1, <2>2, EventTypes
  <2>. QED BY <2>3, <2>4
<1>. QED BY <1>1, <1>2 DEF WellRecorded, more

----------------------------------------------------------------------------
(* The log on disk *)

LEMMA LogInOrderNext ==
  /\ Lines' = OrderOf(shards', PositionsOf(shards'))
  /\ Recorded' = OrderOf(shards', WholeOf(shards'))
BY DEF Lines, Recorded, InOrder, OrderOf, Positions, PositionsOf, LineAt, WholeOf,
       Place, Rank, Below

LEMMA LogTypes ==
  ASSUME Files(shards)
  PROVE  /\ Lines \in Seq(Entry) /\ Recorded \in Seq(Event)
         /\ \A p \in PositionsOf(shards) : \E k \in DOMAIN Lines : Lines[k] = shards[p[1]][p[2]]
<1>1. /\ PositionsOf(shards) \in SUBSET Spot /\ IsFiniteSet(PositionsOf(shards))
      /\ WholeOf(shards) \in SUBSET Spot /\ IsFiniteSet(WholeOf(shards))
      /\ \A p \in PositionsOf(shards) : shards[p[1]][p[2]] \in Entry
      /\ \A p \in WholeOf(shards) : shards[p[1]][p[2]] \in Event
  BY FilesHavePositions
<1>. DEFINE P == PositionsOf(shards)
<1>2. /\ Lines \in Seq(Entry) /\ Recorded \in Seq(Event) /\ DOMAIN Lines = 1 .. Cardinality(P)
      /\ \A k \in 1 .. Cardinality(P) : Lines[k] = shards[Place(P, k)[1]][Place(P, k)[2]]
  BY <1>1, OrderTypes, LogInOrder
<1>3. ASSUME NEW p \in P PROVE \E k \in DOMAIN Lines : Lines[k] = shards[p[1]][p[2]]
  <2>1. Rank(P, p) + 1 \in 1 .. Cardinality(P) /\ Place(P, Rank(P, p) + 1) = p
    BY <1>1, Places
  <2>. QED BY <2>1, <1>2
<1>. QED BY <1>2, <1>3

LEMMA EventsOfLines ==
  ASSUME NEW lines \in Seq(Event)
  PROVE  /\ EventIds(lines) = {lines[i].id : i \in DOMAIN lines}
         /\ EventIds(lines) \subseteq EventId
<1>1. \A i \in DOMAIN lines : lines[i] \in Event
  BY LenProperties, ElementOfSeq
<1>2. \A i \in DOMAIN lines : lines[i] # TornLine /\ lines[i].id \in EventId
  BY <1>1, EventTypes
<1>. QED BY <1>2 DEF EventIds

\* What a reader accepts has no torn line, and begins each file with its name.
LEMMA ReadableLog ==
  ASSUME Files(shards), Readable
  PROVE  /\ Lines \in Seq(Event) /\ WellRecorded(Lines) /\ Recorded = Lines
         /\ \A name \in DOMAIN shards : \E i \in DOMAIN Lines : Lines[i].id = name
<1>1. Lines \in Seq(Entry) /\ WellRecorded(Lines)
  BY LogTypes DEF Readable
<1>2. Lines \in Seq(Event)
  BY <1>1, WellRecordedEvents
<1>3. Recorded = Lines
  <2>1. ASSUME NEW p \in PositionsOf(shards) PROVE p \in WholeOf(shards)
    <3>1. PICK k \in DOMAIN Lines : Lines[k] = shards[p[1]][p[2]]
      BY LogTypes
    <3>. QED BY <3>1, <1>1 DEF WellRecorded, WholeOf
  <2>2. WholeOf(shards) = PositionsOf(shards)
    BY <2>1 DEF WholeOf
  <2>. QED BY <2>2, LogInOrder
<1>4. ASSUME NEW name \in DOMAIN shards PROVE \E i \in DOMAIN Lines : Lines[i].id = name
  <2>1. shards[name] \in Seq(Entry) /\ Len(shards[name]) \in 1 .. ShardSize /\ Head(shards[name]).id = name
    BY DEF Readable, Files
  <2>2. Head(shards[name]) = shards[name][1] /\ 1 \in 1 .. Len(shards[name])
    BY <2>1
  <2>3. <<name, 1>> \in PositionsOf(shards)
    BY <2>2, FilesHavePositions
  <2>4. PICK i \in DOMAIN Lines : Lines[i] = shards[name][1]
    BY <2>3, LogTypes
  <2>. QED BY <2>1, <2>2, <2>4
<1>. QED BY <1>1, <1>2, <1>3, <1>4

\* The next identifier comes after every event and every file of a readable log.
LEMMA NextIsLater ==
  ASSUME Files(shards), Readable, NEW now \in Instants, InTime(now)
  PROVE  /\ NextEventId(now) \in EventId
         /\ \A name \in DOMAIN shards : Earlier(name, NextEventId(now))
         /\ NextEventId(now) \notin DOMAIN shards
         /\ NextEventId(now) \notin EventIds(Lines)
<1>1. /\ Lines \in Seq(Event) /\ WellRecorded(Lines)
      /\ \A name \in DOMAIN shards : \E i \in DOMAIN Lines : Lines[i].id = name
  BY ReadableLog
<1>2. now \in Nat
  BY ShardAssumption
<1>3. NextEventId(now) = <<now, SameInstant(Lines, now)>> /\ SameInstant(Lines, now) \in Nat
  BY <1>1, AtOnceIsFinite DEF NextEventId, Suffix
<1>4. NextEventId(now) \in EventId
  BY <1>3 DEF EventId
<1>5. \A i \in DOMAIN Lines : Earlier(Lines[i].id, NextEventId(now))
  BY <1>1, <1>2, <1>3, DueIsLater DEF InTime
<1>6. \A name \in DOMAIN shards : Earlier(name, NextEventId(now))
  BY <1>1, <1>5
<1>7. ~Earlier(NextEventId(now), NextEventId(now))
  BY <1>4, EarlierIsTotal
<1>8. NextEventId(now) \notin EventIds(Lines)
  BY <1>1, <1>5, <1>7, EventsOfLines
<1>. QED BY <1>4, <1>6, <1>7, <1>8

\* There is a last file, so the file written to is no earlier than any.
LEMMA LastFileIsLast ==
  ASSUME Files(shards), DOMAIN shards # {}
  PROVE  LastFile \in DOMAIN shards /\ \A n \in DOMAIN shards : ~Earlier(LastFile, n)
<1>. DEFINE P == (DOMAIN shards) \X {0}
<1>1. P \in SUBSET Spot /\ IsFiniteSet(P) /\ P # {}
  <2>1. IsFiniteSet({0}) /\ IsFiniteSet(DOMAIN shards) /\ DOMAIN shards \subseteq EventId
    BY FS_Singleton DEF Files
  <2>2. IsFiniteSet(P)
    BY <2>1, FS_Product
  <2>3. P \in SUBSET Spot
    BY <2>1 DEF Spot
  <2>4. PICK m : m \in DOMAIN shards
    OBVIOUS
  <2>5. <<m, 0>> \in P
    BY <2>4
  <2>. QED BY <2>2, <2>3, <2>5
<1>. DEFINE n == Cardinality(P)
            p == Place(P, n)
<1>2. n \in Nat /\ n # 0
  BY <1>1, FS_EmptySet, FS_CardinalityType
<1>3. p \in P /\ Rank(P, p) = n - 1
  <2>1. n \in 1 .. Cardinality(P)
    BY <1>2
  <2>. HIDE DEF P, n
  <2>. QED BY <2>1, <1>1, Places
<1>4. ASSUME NEW q \in P PROVE ~Before(p, q)
  <2>. HIDE DEF P, p
  <2>1. /\ Rank(P, q) < Cardinality(P) /\ Rank(P, q) \in Nat
        /\ Before(p, q) => Rank(P, p) < Rank(P, q)
    BY <1>1, <1>3, RanksGrow
  <2>. QED BY <2>1, <1>2, <1>3
<1>5. p[1] \in DOMAIN shards
  <2>. HIDE DEF p
  <2>. QED BY <1>3
<1>6. ASSUME NEW m \in DOMAIN shards PROVE ~Earlier(p[1], m)
  <2>1. <<m, 0>> \in P /\ <<m, 0>>[1] = m
    OBVIOUS
  <2>2. ~Before(p, <<m, 0>>)
    BY <1>4, <2>1
  <2>. HIDE DEF p
  <2>. QED BY <2>2 DEF Before
<1>. HIDE DEF p
<1>. QED BY <1>5, <1>6 DEF LastFile

LEMMA TargetIsLast ==
  ASSUME Files(shards), NEW id \in EventId, \A name \in DOMAIN shards : Earlier(name, id)
  PROVE  /\ Target(id) \in EventId
         /\ \A n \in DOMAIN shards : n = Target(id) \/ Earlier(n, Target(id))
         /\ Target(id) \in DOMAIN shards => HasRoom(Target(id))
         /\ Target(id) \notin DOMAIN shards => Target(id) = id
<1>1. DOMAIN shards \subseteq EventId
  BY DEF Files
<1>2. ~Earlier(id, id)
  BY EarlierIsTotal
<1>3. CASE DOMAIN shards # {} /\ HasRoom(LastFile)
  <2>1. LastFile \in DOMAIN shards /\ \A n \in DOMAIN shards : ~Earlier(LastFile, n)
    BY <1>3, LastFileIsLast
  <2>2. Target(id) = LastFile
    BY <1>3 DEF Target
  <2>3. \A n \in DOMAIN shards : n = LastFile \/ Earlier(n, LastFile)
    BY <2>1, <1>1, EarlierIsTotal
  <2>. QED BY <2>1, <2>2, <2>3, <1>1, <1>3
<1>4. CASE ~(DOMAIN shards # {} /\ HasRoom(LastFile))
  <2>1. Target(id) = id
    BY <1>4 DEF Target
  <2>. QED BY <2>1, <1>2
<1>. QED BY <1>3, <1>4

LEMMA WithLinesIsWith ==
  ASSUME NEW name, NEW more
  PROVE  WithLines(name, more) = With(shards, name, more)
BY DEF WithLines, With, FileOf

LEMMA TornWrite ==
  ASSUME Files(shards), NEW name \in EventId, NEW more \in Seq({TornLine}),
         shards' = WithLines(name, more)
  PROVE  Files(shards') /\ Recorded' = Recorded
<1>1. shards' = With(shards, name, more)
  BY WithLinesIsWith
<1>. QED BY <1>1, TornAdded, LogInOrder, LogInOrderNext

\* A whole line written in time, with the identifier that is due, leaves a readable
\* log that is longer by it.
LEMMA PlainWrite ==
  ASSUME Files(shards), Readable, NEW e \in Event,
         e.id = NextEventId(At(e)), InTime(At(e)), e.causes \subseteq EventIds(Lines),
         shards' = WithLines(Target(e.id), <<e>>)
  PROVE  /\ Files(shards') /\ Readable'
         /\ Lines' = Append(Lines, e) /\ Recorded' = Append(Recorded, e)
<1>. DEFINE name == Target(e.id)
            more == <<e>>
<1>1. At(e) \in Instants /\ e # TornLine /\ e.id \in EventId
  <2>1. e.id \in EventId /\ e # TornLine /\ At(e) = e.id[1]
    BY EventTypes
  <2>2. \A d \in EventId : d[1] \in Instants
    BY DEF EventId
  <2>. QED BY <2>1, <2>2
<1>2. /\ \A n \in DOMAIN shards : Earlier(n, e.id)
      /\ e.id \notin DOMAIN shards
  BY <1>1, NextIsLater
<1>3. /\ name \in EventId /\ \A n \in DOMAIN shards : n = name \/ Earlier(n, name)
      /\ name \in DOMAIN shards => HasRoom(name)
      /\ name \notin DOMAIN shards => name = e.id
  BY <1>1, <1>2, TargetIsLast
<1>4. more \in Seq(Entry) /\ Len(more) = 1 /\ more[1] = e
  BY DEF Entry
<1>. HIDE DEF name
<1>5. shards' = With(shards, name, <<e>>)
  BY WithLinesIsWith DEF name
<1>6. Lines' = Append(Lines, e) /\ Recorded' = Append(Recorded, e)
  BY <1>1, <1>3, <1>5, LineAdded, LogInOrder, LogInOrderNext
<1>. HIDE DEF more
<1>. DEFINE g == With(shards, name, more)
<1>7. shards' = g
  BY <1>5 DEF more
<1>8. Files(shards') /\ DOMAIN shards' = DOMAIN shards \cup {name}
  <2>1. Files(g)
    BY <1>3, <1>4, FilesGrow, Zenon
  <2>2. DOMAIN g = DOMAIN shards \cup {name}
    BY DEF With
  <2>. HIDE DEF g
  <2>. QED BY <2>1, <2>2, <1>7
<1>9. \A n \in DOMAIN shards : n # name => shards'[n] = shards[n]
  <2>1. \A n \in DOMAIN shards : n # name => g[n] = shards[n]
    BY <1>3, <1>4, FilesGrow, Zenon
  <2>. HIDE DEF g
  <2>. QED BY <2>1, <1>7
<1>10. shards'[name] = FileOf(shards, name) \o more /\ FileOf(shards, name) \in Seq(Entry)
  <2>1. FileOf(shards, name) \in Seq(Entry)
    BY <1>3, <1>4, FilesGrow, Zenon
  <2>2. g[name] = FileOf(shards, name) \o more
    BY DEF With
  <2>. HIDE DEF g
  <2>. QED BY <2>1, <2>2, <1>7
<1>. HIDE DEF g
<1>11. ASSUME NEW n \in DOMAIN shards'
       PROVE  /\ Len(shards'[n]) \in 1 .. ShardSize
              /\ Head(shards'[n]) # TornLine /\ Head(shards'[n]).id = n
  <2>1. CASE n # name
    <3>1. n \in DOMAIN shards /\ shards'[n] = shards[n]
      BY <2>1, <1>8, <1>9
    <3>. QED BY <3>1 DEF Readable
  <2>2. CASE n = name /\ name \in DOMAIN shards
    <3>1. FileOf(shards, name) = shards[name] /\ Len(shards[name]) < ShardSize
          /\ Len(shards[name]) \in 1 .. ShardSize
          /\ Head(shards[name]) # TornLine /\ Head(shards[name]).id = name
      BY <2>2, <1>3 DEF FileOf, HasRoom, Readable
    <3>2. /\ shards'[name] \in Seq(Entry) /\ Len(shards'[name]) = Len(shards[name]) + 1
          /\ shards'[name][1] = shards[name][1]
      <4>1. /\ FileOf(shards, name) \o more \in Seq(Entry)
            /\ Len(FileOf(shards, name) \o more) = Len(FileOf(shards, name)) + Len(more)
            /\ \A i \in 1 .. Len(FileOf(shards, name)) + Len(more) :
                 (FileOf(shards, name) \o more)[i] =
                   IF i <= Len(FileOf(shards, name)) THEN FileOf(shards, name)[i]
                   ELSE more[i - Len(FileOf(shards, name))]
        BY <1>4, <1>10, ConcatProperties
      <4>2. /\ 1 \in 1 .. Len(FileOf(shards, name)) + Len(more)
            /\ 1 <= Len(FileOf(shards, name))
        BY <3>1, <1>4
      <4>3. (FileOf(shards, name) \o more)[1] = FileOf(shards, name)[1]
        BY <4>1, <4>2
      <4>. QED BY <4>1, <4>3, <3>1, <1>4, <1>10
    <3>3. Head(shards'[name]) = shards'[name][1] /\ Head(shards[name]) = shards[name][1]
      BY <3>1, <3>2, <1>10
    <3>. QED BY <2>2, <3>1, <3>2, <3>3, ShardAssumption
  <2>3. CASE n = name /\ name \notin DOMAIN shards
    <3>1. FileOf(shards, name) = <<>>
      BY <2>3 DEF FileOf
    <3>2. shards'[name] = more
      BY <3>1, <1>4, <1>10, ConcatEmptySeq
    <3>3. Head(more) = e
      BY <1>4
    <3>4. Len(shards'[n]) = 1 /\ Head(shards'[n]) = e
      BY <2>3, <3>2, <3>3, <1>4
    <3>5. 1 \in 1 .. ShardSize
      BY ShardAssumption
    <3>. QED BY <2>3, <3>4, <3>5, <1>1, <1>3
  <2>. QED BY <2>1, <2>2, <2>3
<1>12. WellRecorded(Lines')
  <2>1. Lines \in Seq(Event) /\ WellRecorded(Lines)
    BY ReadableLog
  <2>2. e.id = <<At(e), SameInstant(Lines, At(e))>>
    BY DEF NextEventId, Suffix
  <2>3. Lines # <<>> => At(e) >= At(Last(Lines))
    BY DEF InTime
  <2>. QED BY <1>6, <2>1, <2>2, <2>3, WellExtended
<1>13. Readable'
  BY <1>11, <1>12 DEF Readable
<1>. QED BY <1>6, <1>8, <1>13

----------------------------------------------------------------------------
(* The inductive invariant *)

Touched(p) == {author[p].changed[i].ticket : i \in DOMAIN author[p].changed}
Left(p) == {author[p].todo[i] : i \in DOMAIN author[p].todo}

InLog == {"writing", "restoring"}

\* Whoever is in the log has found it readable, and what it is about to write fits.
EventFits(p) ==
  author[p].pc \in InLog =>
     /\ Readable
     /\ author[p].event \in Event
     /\ author[p].event.id = NextEventId(At(author[p].event)) /\ InTime(At(author[p].event))
     /\ author[p].event.causes \subseteq EventIds(Lines)
     /\ author[p].event.affected = author[p].affected /\ author[p].text \in Texts

\* Only the holder of tickets/.lock has Tickets to write or to undo, each once, and
\* a text of the graph's own.
OnlyHolder(p) ==
  /\ ticketsLock # p => /\ author[p].todo = <<>> /\ author[p].changed = <<>>
                        /\ author[p].affected = {}
  /\ ticketsLock = p => author[p].text = "plain"
  /\ author[p].pc \notin InLog => author[p].changed = <<>>
  /\ \A i, j \in DOMAIN author[p].todo : author[p].todo[i] = author[p].todo[j] => i = j
  /\ \A i, j \in DOMAIN author[p].changed :
        author[p].changed[i].ticket = author[p].changed[j].ticket => i = j

\* What a command has written and has yet to write are its Tickets, and apart from
\* the directory it has just made the two differ.
ProgressFits(p) ==
  /\ author[p].pc \in {"waiting", "writing"} =>
        author[p].affected = Left(p) \cup Touched(p)
  /\ author[p].pc = "writing" => \A i \in DOMAIN author[p].todo :
        author[p].todo[i] \in Touched(p) => i = 1 /\ tickets[author[p].todo[1]] = Bare

\* A Ticket that a command has touched has its event or only a directory, and there
\* is no other directory without a definition while the lock is held.
ChangesFit(p) ==
  /\ \A i \in DOMAIN author[p].changed :
        /\ author[p].changed[i].was # Bare
        /\ tickets[author[p].changed[i].ticket] \in {author[p].event.id, Bare}
  /\ ticketsLock = p => \A t \in TicketIds : tickets[t] = Bare =>
        /\ t \in Touched(p)
        /\ author[p].pc = "writing" => author[p].todo # <<>> /\ t = author[p].todo[1]

Fits(p) == EventFits(p) /\ OnlyHolder(p) /\ ProgressFits(p) /\ ChangesFit(p)
Coherent == TypeOK /\ \A p \in Authors : Fits(p)

LEMMA TypedFiles == ASSUME TypeOK PROVE Files(shards)
BY DEF TypeOK, Files, Entry

LEMMA AuthorTypes ==
  ASSUME TypeOK, NEW p \in Authors
  PROVE  /\ author[p] \in Command /\ p # Nobody
         /\ author[p].pc \in {"idle", "waiting", "writing", "restoring"}
         /\ author[p].todo \in Seq(TicketIds) /\ DOMAIN author[p].todo = 1 .. Len(author[p].todo)
         /\ Len(author[p].todo) \in Nat
         /\ \A i \in DOMAIN author[p].todo : author[p].todo[i] \in TicketIds
         /\ author[p].changed \in Seq(Change)
         /\ DOMAIN author[p].changed = 1 .. Len(author[p].changed) /\ Len(author[p].changed) \in Nat
         /\ \A i \in DOMAIN author[p].changed :
               /\ author[p].changed[i] \in Change /\ author[p].changed[i].ticket \in TicketIds
               /\ author[p].changed[i].was \in EventId \cup {Absent, Bare}
         /\ author[p].event \in Event \cup {NoSuchEvent}
         /\ author[p].affected \subseteq TicketIds /\ author[p].text \in {"plain", "separated"}
         /\ worldlineLock = p <=> author[p].pc \in InLog
         /\ ticketsLock = p => author[p].pc # "idle"
<1>1. author[p] \in Command /\ author \in [Authors -> Command]
  BY DEF TypeOK
<1>2. /\ author[p].pc \in {"idle", "waiting", "writing", "restoring"}
      /\ author[p].todo \in Seq(TicketIds) /\ author[p].changed \in Seq(Change)
      /\ author[p].event \in Event \cup {NoSuchEvent}
      /\ author[p].affected \subseteq TicketIds /\ author[p].text \in {"plain", "separated"}
  BY <1>1 DEF Command
<1>3. /\ DOMAIN author[p].todo = 1 .. Len(author[p].todo) /\ Len(author[p].todo) \in Nat
      /\ \A i \in DOMAIN author[p].todo : author[p].todo[i] \in TicketIds
      /\ DOMAIN author[p].changed = 1 .. Len(author[p].changed) /\ Len(author[p].changed) \in Nat
      /\ \A i \in DOMAIN author[p].changed : author[p].changed[i] \in Change
  BY <1>2, LenProperties, ElementOfSeq
<1>4. \A c \in Change : c.ticket \in TicketIds /\ c.was \in EventId \cup {Absent, Bare}
  BY DEF Change
<1>5. (worldlineLock = p <=> author[p].pc \in InLog) /\ (ticketsLock = p => author[p].pc # "idle")
  BY DEF TypeOK, InLog
<1>. QED BY <1>1, <1>2, <1>3, <1>4, <1>5, MarkerAssumption

\* What a command leaves when it ends.
LEMMA EndsFacts ==
  ASSUME TypeOK, NEW p \in Authors, Ends(p)
  PROVE  /\ author' \in [Authors -> Command]
         /\ author'[p].pc = "idle" /\ author'[p].todo = <<>> /\ author'[p].changed = <<>>
         /\ author'[p].affected = {} /\ author'[p].text = "plain"
         /\ \A q \in Authors : q # p => author'[q] = author[q]
         /\ {ticketsLock', worldlineLock'} \subseteq Authors \cup {Nobody}
         /\ ticketsLock' = (IF ticketsLock = p THEN Nobody ELSE ticketsLock)
         /\ worldlineLock' = (IF worldlineLock = p THEN Nobody ELSE worldlineLock)
         /\ \A q \in Authors : /\ worldlineLock' = q <=> author'[q].pc \in InLog
                               /\ ticketsLock' = q => author'[q].pc # "idle"
<1>1. Idle \in Command
  BY EmptySeq DEF Idle, Command
<1>2. /\ author' = [author EXCEPT ![p] = Idle] /\ author \in [Authors -> Command]
      /\ ticketsLock' = (IF ticketsLock = p THEN Nobody ELSE ticketsLock)
      /\ worldlineLock' = (IF worldlineLock = p THEN Nobody ELSE worldlineLock)
  BY DEF Ends, Free, TypeOK
<1>3. /\ author' \in [Authors -> Command] /\ author'[p] = Idle
      /\ \A q \in Authors : q # p => author'[q] = author[q]
  BY <1>1, <1>2
<1>4. {ticketsLock, worldlineLock} \subseteq Authors \cup {Nobody}
  BY DEF TypeOK
<1>5. author'[p].pc = "idle" /\ author'[p].todo = <<>> /\ author'[p].changed = <<>>
      /\ author'[p].affected = {} /\ author'[p].text = "plain"
  BY <1>3 DEF Idle
<1>6. ASSUME NEW q \in Authors
      PROVE  /\ worldlineLock' = q <=> author'[q].pc \in InLog
             /\ ticketsLock' = q => author'[q].pc # "idle"
  <2>1. p # Nobody /\ q # Nobody
    BY MarkerAssumption
  <2>2. CASE q = p
    BY <2>1, <2>2, <1>2, <1>5 DEF InLog
  <2>3. CASE q # p
    <3>1. (worldlineLock = q <=> author[q].pc \in InLog) /\ (ticketsLock = q => author[q].pc # "idle")
      BY AuthorTypes
    <3>. QED BY <2>1, <2>3, <3>1, <1>2, <1>3
  <2>. QED BY <2>2, <2>3
<1>. QED BY <1>2, <1>3, <1>4, <1>5, <1>6

----------------------------------------------------------------------------
(* What a reader under the lock sees *)

WasOf(changed, versions, t) ==
  LET mine == {changed[i] : i \in DOMAIN changed}
  IN  IF \E c \in mine : c.ticket = t THEN (CHOOSE c \in mine : c.ticket = t).was
      ELSE versions[t]

LEMMA SeenIs ==
  ASSUME NEW t
  PROVE  Seen(t) = IF ticketsLock = Nobody THEN tickets[t]
                   ELSE WasOf(author[ticketsLock].changed, tickets, t)
BY DEF Seen, WasOf

LEMMA SeenNextIs ==
  ASSUME NEW t
  PROVE  Seen(t)' = IF ticketsLock' = Nobody THEN tickets'[t]
                    ELSE WasOf(author'[ticketsLock'].changed, tickets', t)
BY DEF Seen, WasOf

LEMMA WasBefore ==
  ASSUME NEW changed, NEW versions, NEW t, NEW i \in DOMAIN changed, changed[i].ticket = t,
         \A j, k \in DOMAIN changed : changed[j].ticket = changed[k].ticket => j = k
  PROVE  WasOf(changed, versions, t) = changed[i].was
<1>. DEFINE mine == {changed[j] : j \in DOMAIN changed}
            c == CHOOSE d \in mine : d.ticket = t
<1>1. changed[i] \in mine
  OBVIOUS
<1>2. c \in mine /\ c.ticket = t
  <2>. HIDE DEF mine
  <2>. QED BY <1>1
<1>3. PICK j \in DOMAIN changed : c = changed[j]
  BY <1>2
<1>4. j = i
  <2>. HIDE DEF c
  <2>. QED BY <1>2, <1>3
<1>5. WasOf(changed, versions, t) = c.was
  BY <1>1 DEF WasOf
<1>. QED BY <1>3, <1>4, <1>5

LEMMA WasNever ==
  ASSUME NEW changed, NEW versions, NEW t, \A i \in DOMAIN changed : changed[i].ticket # t
  PROVE  WasOf(changed, versions, t) = versions[t]
BY DEF WasOf

----------------------------------------------------------------------------
(* What one process leaves to another *)

LEMMA SameLog ==
  ASSUME shards' = shards
  PROVE  /\ Lines' = Lines /\ Recorded' = Recorded /\ Readable' = Readable
         /\ \A now : InTime(now)' = InTime(now) /\ NextEventId(now)' = NextEventId(now)
<1>1. Lines' = Lines /\ Recorded' = Recorded
  BY LogInOrder, LogInOrderNext
<1>. QED BY <1>1 DEF Readable, InTime, NextEventId, Suffix

LEMMA EventStays ==
  ASSUME NEW q \in Authors, EventFits(q), shards' = shards,
         author'[q].event = author[q].event, author'[q].affected = author[q].affected,
         author'[q].text = author[q].text,
         author'[q].pc \in InLog => author[q].pc \in InLog
  PROVE  EventFits(q)'
BY SameLog DEF EventFits

LEMMA OthersStay ==
  ASSUME NEW p \in Authors, NEW q \in Authors, q # p, Fits(q),
         author'[q] = author[q], ticketsLock' = q <=> ticketsLock = q,
         tickets' = tickets \/ ticketsLock = p
  PROVE  OnlyHolder(q)' /\ ProgressFits(q)' /\ ChangesFit(q)'
<1>1. OnlyHolder(q) /\ ProgressFits(q) /\ ChangesFit(q)
  BY DEF Fits
<1>2. OnlyHolder(q)'
  BY <1>1 DEF OnlyHolder
<1>3. Left(q)' = Left(q) /\ Touched(q)' = Touched(q)
  BY DEF Left, Touched
<1>4. CASE tickets' = tickets
  BY <1>1, <1>2, <1>3, <1>4 DEF ProgressFits, ChangesFit
<1>5. CASE ticketsLock = p
  <2>1. author[q].todo = <<>> /\ author[q].changed = <<>> /\ author[q].affected = {}
    BY <1>1, <1>5 DEF OnlyHolder
  <2>2. Left(q) = {} /\ Touched(q) = {}
    BY <2>1 DEF Left, Touched
  <2>. QED BY <1>2, <1>3, <1>5, <2>1, <2>2 DEF ProgressFits, ChangesFit
<1>. QED BY <1>2, <1>4, <1>5

LEMMA WasNothing ==
  ASSUME NEW versions, NEW t
  PROVE  WasOf(<<>>, versions, t) = versions[t]
<1>1. DOMAIN <<>> = {}
  OBVIOUS
<1>2. {<<>>[i] : i \in DOMAIN <<>>} = {}
  BY <1>1
<1>. QED BY <1>2 DEF WasOf

\* Nothing that a reader sees is different.
SeenSame == \A t \in TicketIds : Seen(t)' = Seen(t)

LEMMA BeginStep ==
  ASSUME Coherent, NEW p \in Authors, NEW order \in Orders, Begin(p, order)
  PROVE  Coherent' /\ SeenSame
<1>1. /\ author[p].pc = "idle" /\ ticketsLock = Nobody /\ Loadable /\ ticketsLock' = p
      /\ UNCHANGED <<shards, tickets, worldlineLock, failures, kills>>
      /\ author' = [author EXCEPT ![p] = [Idle EXCEPT !.pc = "waiting", !.todo = order,
                                                      !.affected = ToSet(order)]]
  BY DEF Begin
<1>2. TypeOK /\ Fits(p)
  BY DEF Coherent
<1>3. /\ order \in Seq(TicketIds)
      /\ \A i, j \in DOMAIN order : order[i] = order[j] => i = j
  <2>1. PICK n \in 1 .. Cardinality(TicketIds) : order \in [1 .. n -> TicketIds]
    BY DEF Orders
  <2>2. Cardinality(TicketIds) \in Nat
    BY BoundsAssumption, FS_CardinalityType
  <2>3. order \in Seq(TicketIds)
    BY <2>1, <2>2
  <2>. QED BY <2>3 DEF Orders, IsInjective
<1>4. ToSet(order) = {order[i] : i \in DOMAIN order} /\ ToSet(order) \subseteq TicketIds
  BY <1>3, LenProperties, ElementOfSeq DEF ToSet
<1>. DEFINE new == [Idle EXCEPT !.pc = "waiting", !.todo = order, !.affected = ToSet(order)]
<1>5. /\ new \in Command /\ new.pc = "waiting" /\ new.todo = order /\ new.changed = <<>>
      /\ new.event = NoSuchEvent /\ new.affected = ToSet(order) /\ new.text = "plain"
  BY <1>3, <1>4, EmptySeq DEF Idle, Command
<1>6. author \in [Authors -> Command]
  BY <1>2 DEF TypeOK
<1>. HIDE DEF new
<1>7. author'[p] = new /\ \A q \in Authors : q # p => author'[q] = author[q]
  BY <1>1, <1>6 DEF new
<1>8. author' \in [Authors -> Command]
  BY <1>1, <1>5, <1>6 DEF new
<1>9. worldlineLock # p
  BY <1>1, <1>2, AuthorTypes DEF InLog
<1>10. TypeOK'
  <2>1. ASSUME NEW q \in Authors
        PROVE  /\ worldlineLock' = q <=> author'[q].pc \in {"writing", "restoring"}
               /\ ticketsLock' = q => author'[q].pc # "idle"
    <3>1. CASE q = p
      BY <3>1, <1>1, <1>5, <1>7, <1>9
    <3>2. CASE q # p
      BY <3>2, <1>1, <1>2, <1>7 DEF TypeOK
    <3>. QED BY <3>1, <3>2
  <2>. QED BY <2>1, <1>1, <1>2, <1>8 DEF TypeOK
<1>11. ASSUME NEW q \in Authors, q # p PROVE Fits(q)'
  <2>1. Fits(q) /\ q # Nobody
    BY MarkerAssumption DEF Coherent
  <2>2. EventFits(q)'
    BY <2>1, <1>1, <1>7, <1>11, EventStays DEF Fits
  <2>3. OnlyHolder(q)' /\ ProgressFits(q)' /\ ChangesFit(q)'
    BY <2>1, <1>1, <1>7, <1>11, OthersStay
  <2>. QED BY <2>2, <2>3 DEF Fits
<1>12. Fits(p)'
  <2>1. /\ author'[p].pc = "waiting" /\ author'[p].todo = order /\ author'[p].changed = <<>>
        /\ author'[p].affected = ToSet(order) /\ author'[p].text = "plain"
    BY <1>5, <1>7
  <2>2. EventFits(p)'
    BY <2>1 DEF EventFits, InLog
  <2>3. OnlyHolder(p)'
    BY <2>1, <1>1, <1>3 DEF OnlyHolder
  <2>4. Touched(p)' = {} /\ Left(p)' = ToSet(order)
    BY <2>1, <1>4 DEF Touched, Left
  <2>5. ProgressFits(p)' /\ ChangesFit(p)'
    BY <2>1, <2>4, <1>1 DEF ProgressFits, ChangesFit, Loadable
  <2>. QED BY <2>2, <2>3, <2>5 DEF Fits
<1>13. SeenSame
  <2>1. ASSUME NEW t \in TicketIds PROVE Seen(t)' = Seen(t)
    <3>1. author'[p].changed = <<>> /\ p # Nobody
      BY <1>5, <1>7, MarkerAssumption
    <3>2. WasOf(<<>>, tickets', t) = tickets'[t]
      BY WasNothing
    <3>. QED BY <3>1, <3>2, <1>1, SeenIs, SeenNextIs
  <2>. QED BY <2>1 DEF SeenSame
<1>. QED BY <1>10, <1>11, <1>12, <1>13 DEF Coherent

LEMMA SeenKept ==
  ASSUME ticketsLock' = ticketsLock, tickets' = tickets,
         ticketsLock # Nobody => author'[ticketsLock].changed = author[ticketsLock].changed
  PROVE  SeenSame
<1>1. ASSUME NEW t \in TicketIds PROVE Seen(t)' = Seen(t)
  BY SeenIs, SeenNextIs
<1>. QED BY <1>1 DEF SeenSame

LEMMA EndsFit ==
  ASSUME Coherent, NEW p \in Authors, Ends(p), tickets' = tickets,
         shards' = shards \/ worldlineLock = p
  PROVE  \A q \in Authors : Fits(q)'
<1>1. TypeOK /\ Fits(p) /\ p # Nobody
  BY MarkerAssumption DEF Coherent
<1>2. /\ author'[p].pc = "idle" /\ author'[p].todo = <<>> /\ author'[p].changed = <<>>
      /\ author'[p].affected = {} /\ author'[p].text = "plain"
      /\ \A q \in Authors : q # p => author'[q] = author[q]
      /\ ticketsLock' = (IF ticketsLock = p THEN Nobody ELSE ticketsLock)
  BY <1>1, EndsFacts
<1>3. ASSUME NEW q \in Authors, q # p PROVE Fits(q)'
  <2>1. Fits(q) /\ q # Nobody
    BY MarkerAssumption DEF Coherent
  <2>2. EventFits(q)'
    <3>1. CASE shards' = shards
      BY <2>1, <3>1, <1>2, <1>3, EventStays DEF Fits
    <3>2. CASE worldlineLock = p
      <4>1. author[q].pc \notin InLog
        BY <3>2, <1>1, <1>3, AuthorTypes
      <4>. QED BY <4>1, <1>2, <1>3 DEF EventFits
    <3>. QED BY <3>1, <3>2
  <2>3. OnlyHolder(q)' /\ ProgressFits(q)' /\ ChangesFit(q)'
    BY <2>1, <1>1, <1>2, <1>3, OthersStay
  <2>. QED BY <2>2, <2>3 DEF Fits
<1>4. Fits(p)'
  <2>1. EventFits(p)'
    BY <1>2 DEF EventFits, InLog
  <2>2. OnlyHolder(p)'
    BY <1>2 DEF OnlyHolder
  <2>3. Touched(p)' = {} /\ Left(p)' = {}
    BY <1>2 DEF Touched, Left
  <2>4. ProgressFits(p)'
    BY <1>2, <2>3 DEF ProgressFits
  <2>5. ChangesFit(p)'
    BY <1>1, <1>2 DEF ChangesFit
  <2>. QED BY <2>1, <2>2, <2>4, <2>5 DEF Fits
<1>. QED BY <1>3, <1>4

LEMMA EndsTyped ==
  ASSUME TypeOK, NEW p \in Authors, Ends(p), Files(shards'),
         tickets' \in [TicketIds -> EventId \cup {Absent, Bare}],
         failures' \in 0 .. MaxFailures, kills' \in 0 .. MaxKills
  PROVE  TypeOK'
BY EndsFacts DEF TypeOK, InLog, Files, Entry

\* A command that has changed nothing leaves nothing different.
LEMMA EndsUnseen ==
  ASSUME TypeOK, NEW p \in Authors, Ends(p), tickets' = tickets, author[p].changed = <<>>
  PROVE  SeenSame
<1>1. /\ ticketsLock' = (IF ticketsLock = p THEN Nobody ELSE ticketsLock)
      /\ \A q \in Authors : q # p => author'[q] = author[q]
      /\ ticketsLock \in Authors \cup {Nobody} /\ p # Nobody
  BY EndsFacts, MarkerAssumption DEF TypeOK
<1>2. CASE ticketsLock = p
  <2>1. ASSUME NEW t \in TicketIds PROVE Seen(t)' = Seen(t)
    BY <1>1, <1>2, SeenIs, SeenNextIs, WasNothing
  <2>. QED BY <2>1 DEF SeenSame
<1>3. CASE ticketsLock # p
  <2>1. ticketsLock' = ticketsLock /\ (ticketsLock # Nobody => author'[ticketsLock] = author[ticketsLock])
    BY <1>1, <1>3
  <2>. QED BY <2>1, SeenKept
<1>. QED BY <1>2, <1>3

LEMMA CaptureStep ==
  ASSUME Coherent, NEW p \in Authors, NEW now \in Instants, NEW causes, NEW text \in Texts,
         Capture(p, now, causes, text)
  PROVE  Coherent' /\ SeenSame
<1>1. /\ author[p].pc \in {"idle", "waiting"} /\ worldlineLock = Nobody
      /\ shards' = shards /\ tickets' = tickets /\ failures' = failures /\ kills' = kills
  BY DEF Capture
<1>2. TypeOK /\ Fits(p) /\ p # Nobody /\ Files(shards)
  BY MarkerAssumption, TypedFiles DEF Coherent
<1>3. author[p].changed = <<>>
  BY <1>1, <1>2 DEF Fits, OnlyHolder, InLog
<1>4. CASE ~(Readable /\ causes \subseteq EventIds(Lines) /\ InTime(now))
  <2>1. Ends(p)
    BY <1>4 DEF Capture
  <2>2. TypeOK'
    BY <1>1, <1>2, <2>1, EndsTyped DEF TypeOK
  <2>. QED BY <1>1, <1>2, <1>3, <2>1, <2>2, EndsFit, EndsUnseen DEF Coherent
<1>5. CASE Readable /\ causes \subseteq EventIds(Lines) /\ InTime(now)
  <2>. DEFINE e == [id |-> NextEventId(now), causes |-> causes, affected |-> author[p].affected]
              new == [author[p] EXCEPT !.pc = "writing", !.text = text, !.event = e]
  <2>1. /\ worldlineLock' = p /\ ticketsLock' = ticketsLock
        /\ author' = [author EXCEPT ![p].pc = "writing", ![p].text = text, ![p].event = e]
    BY <1>5 DEF Capture
  <2>2. author[p] \in Command /\ author \in [Authors -> Command]
    BY <1>2, AuthorTypes DEF TypeOK
  <2>3. /\ NextEventId(now) \in EventId /\ causes \subseteq EventId
        /\ author[p].affected \subseteq TicketIds
    <3>1. EventIds(Lines) \subseteq EventId
      BY <1>2, <1>5, ReadableLog, EventsOfLines
    <3>. QED BY <3>1, <1>2, <1>5, NextIsLater, AuthorTypes
  <2>4. e \in Event /\ e.id = NextEventId(now) /\ e.causes = causes /\ e.affected = author[p].affected
    BY <2>3 DEF Event
  <2>5. At(e) = now
    BY <2>4 DEF At, NextEventId
  <2>. HIDE DEF e
  <2>6. author'[p] = new /\ \A q \in Authors : q # p => author'[q] = author[q]
    BY <2>1, <2>2 DEF Command
  <2>7. text \in {"plain", "separated"}
    BY BoundsAssumption
  <2>8. /\ new \in Command /\ new.pc = "writing" /\ new.todo = author[p].todo
        /\ new.changed = author[p].changed /\ new.event = e
        /\ new.affected = author[p].affected /\ new.text = text
    BY <2>2, <2>4, <2>7 DEF Command
  <2>9. author' \in [Authors -> Command]
    BY <2>1, <2>2, <2>4, <2>7 DEF Command
  <2>. HIDE DEF new
  <2>10. /\ author'[p].pc = "writing" /\ author'[p].todo = author[p].todo
         /\ author'[p].changed = <<>> /\ author'[p].event = e
         /\ author'[p].affected = author[p].affected /\ author'[p].text = text
    BY <2>6, <2>8, <1>3
  <2>11. TypeOK'
    <3>1. ASSUME NEW q \in Authors
          PROVE  /\ worldlineLock' = q <=> author'[q].pc \in {"writing", "restoring"}
                 /\ ticketsLock' = q => author'[q].pc # "idle"
      <4>1. CASE q = p
        BY <4>1, <2>1, <2>10
      <4>2. CASE q # p
        <5>1. q # Nobody
          BY MarkerAssumption
        <5>. QED BY <4>2, <5>1, <1>1, <1>2, <2>1, <2>6 DEF TypeOK
      <4>. QED BY <4>1, <4>2
    <3>. QED BY <3>1, <1>1, <1>2, <2>1, <2>9 DEF TypeOK
  <2>12. ASSUME NEW q \in Authors, q # p PROVE Fits(q)'
    <3>1. Fits(q)
      BY DEF Coherent
    <3>2. EventFits(q)'
      BY <3>1, <1>1, <2>6, <2>12, EventStays DEF Fits
    <3>3. OnlyHolder(q)' /\ ProgressFits(q)' /\ ChangesFit(q)'
      BY <3>1, <1>1, <2>1, <2>6, <2>12, OthersStay
    <3>. QED BY <3>2, <3>3 DEF Fits
  <2>13. Fits(p)'
    <3>1. EventFits(p)'
      <4>1. Lines' = Lines /\ Readable' = Readable /\ InTime(now)' = InTime(now)
            /\ NextEventId(now)' = NextEventId(now)
        BY <1>1, SameLog
      <4>. QED BY <4>1, <2>4, <2>5, <2>10, <1>5 DEF EventFits
    <3>2. OnlyHolder(p)'
      <4>1. OnlyHolder(p)
        BY <1>2 DEF Fits
      <4>2. \A i, j \in DOMAIN author'[p].todo : author'[p].todo[i] = author'[p].todo[j] => i = j
        BY <4>1, <2>10 DEF OnlyHolder
      <4>3. \A i, j \in DOMAIN author'[p].changed :
               author'[p].changed[i].ticket = author'[p].changed[j].ticket => i = j
        BY <2>10
      <4>4. ticketsLock' # p => author'[p].todo = <<>> /\ author'[p].affected = {}
        BY <4>1, <2>1, <2>10 DEF OnlyHolder
      <4>5. ticketsLock' = p => text = "plain"
        BY <2>1, <1>1, <1>2, AuthorTypes DEF Capture
      <4>. QED BY <4>2, <4>3, <4>4, <4>5, <2>10 DEF OnlyHolder
    <3>3. Touched(p)' = {} /\ Left(p)' = Left(p) /\ Touched(p) = {}
      BY <2>10, <1>3 DEF Touched, Left
    <3>4. ProgressFits(p)'
      <4>1. author[p].affected = Left(p) \cup Touched(p)
        <5>1. CASE author[p].pc = "waiting"
          BY <5>1, <1>2 DEF Fits, ProgressFits
        <5>2. CASE author[p].pc = "idle"
          <6>1. ticketsLock # p
            BY <5>2, <1>2, AuthorTypes
          <6>2. author[p].todo = <<>> /\ author[p].affected = {}
            BY <6>1, <1>2 DEF Fits, OnlyHolder
          <6>. QED BY <6>2, <3>3 DEF Left
        <5>. QED BY <5>1, <5>2, <1>1
      <4>. QED BY <4>1, <3>3, <2>10 DEF ProgressFits
    <3>5. ChangesFit(p)'
      BY <2>1, <2>10, <3>3, <1>1, <1>2 DEF Fits, ChangesFit
    <3>. QED BY <3>1, <3>2, <3>4, <3>5 DEF Fits
  <2>14. SeenSame
    <3>1. ticketsLock \in Authors \cup {Nobody}
      BY <1>2 DEF TypeOK
    <3>2. ticketsLock # Nobody => author'[ticketsLock].changed = author[ticketsLock].changed
      BY <3>1, <1>3, <2>6, <2>10
    <3>. QED BY <3>2, <1>1, <2>1, SeenKept
  <2>. QED BY <2>11, <2>12, <2>13, <2>14 DEF Coherent
<1>. QED BY <1>4, <1>5

\* What is known of a process that has a Ticket to write.
LEMMA HasLeft ==
  ASSUME Coherent, NEW p \in Authors, author[p].todo # <<>>
  PROVE  /\ ticketsLock = p /\ author[p].todo[1] \in TicketIds
         /\ 1 \in DOMAIN author[p].todo
         /\ Tail(author[p].todo) \in Seq(TicketIds)
         /\ DOMAIN Tail(author[p].todo) = 1 .. Len(author[p].todo) - 1
         /\ \A i \in 1 .. Len(author[p].todo) - 1 :
               /\ i + 1 \in DOMAIN author[p].todo /\ i + 1 # 1
               /\ Tail(author[p].todo)[i] = author[p].todo[i + 1]
<1>1. TypeOK /\ Fits(p)
  BY DEF Coherent
<1>2. /\ author[p].todo \in Seq(TicketIds) /\ DOMAIN author[p].todo = 1 .. Len(author[p].todo)
      /\ Len(author[p].todo) \in Nat
      /\ \A i \in DOMAIN author[p].todo : author[p].todo[i] \in TicketIds
  BY <1>1, AuthorTypes
<1>3. Len(author[p].todo) # 0
  BY <1>2
<1>4. /\ Tail(author[p].todo) \in Seq(TicketIds)
      /\ Len(Tail(author[p].todo)) = Len(author[p].todo) - 1
      /\ \A i \in 1 .. Len(Tail(author[p].todo)) : Tail(author[p].todo)[i] = author[p].todo[i + 1]
  BY <1>2, HeadTailProperties
<1>5. DOMAIN Tail(author[p].todo) = 1 .. Len(author[p].todo) - 1
  BY <1>4, LenProperties
<1>6. ticketsLock = p
  BY <1>1 DEF Fits, OnlyHolder
<1>. QED BY <1>2, <1>3, <1>4, <1>5, <1>6

LEMMA MutateStep ==
  ASSUME Coherent, NEW p \in Authors, Mutate(p)
  PROVE  Coherent' /\ SeenSame
<1>. DEFINE todo == author[p].todo
            changed == author[p].changed
            t == todo[1]
            e == author[p].event
<1>1. /\ author[p].pc = "writing" /\ todo # <<>>
      /\ shards' = shards /\ ticketsLock' = ticketsLock /\ worldlineLock' = worldlineLock
      /\ failures' = failures /\ kills' = kills
      /\ tickets' = [tickets EXCEPT ![t] = NextVersion(p)]
      /\ author' = [author EXCEPT ![p].changed = Noted(p),
                                  ![p].todo = IF NextVersion(p) = Bare THEN @ ELSE Tail(@)]
  BY DEF Mutate
<1>2. TypeOK /\ Fits(p) /\ p # Nobody
  BY MarkerAssumption DEF Coherent
<1>3. /\ ticketsLock = p /\ t \in TicketIds /\ 1 \in DOMAIN todo
      /\ Tail(todo) \in Seq(TicketIds) /\ DOMAIN Tail(todo) = 1 .. Len(todo) - 1
      /\ \A i \in 1 .. Len(todo) - 1 :
           i + 1 \in DOMAIN todo /\ i + 1 # 1 /\ Tail(todo)[i] = todo[i + 1]
  BY <1>1, HasLeft
<1>4. /\ author[p] \in Command /\ author \in [Authors -> Command]
      /\ todo \in Seq(TicketIds) /\ DOMAIN todo = 1 .. Len(todo) /\ Len(todo) \in Nat
      /\ changed \in Seq(Change) /\ DOMAIN changed = 1 .. Len(changed) /\ Len(changed) \in Nat
      /\ \A i \in DOMAIN changed : changed[i] \in Change /\ changed[i].ticket \in TicketIds
      /\ author[p].affected \subseteq TicketIds
  BY <1>2, AuthorTypes DEF TypeOK
<1>5. /\ tickets \in [TicketIds -> EventId \cup {Absent, Bare}]
      /\ Absent \notin EventId /\ Bare \notin EventId /\ Absent # Bare
  BY <1>2, MarkerAssumption DEF TypeOK
<1>6. e \in Event /\ e.id \in EventId
  BY <1>1, <1>2, EventTypes DEF Fits, EventFits, InLog
<1>7. /\ NextVersion(p) = IF tickets[t] = Absent THEN Bare ELSE e.id
      /\ NextVersion(p) \in EventId \cup {Absent, Bare}
      /\ NextVersion(p) = Bare <=> tickets[t] = Absent
      /\ NextVersion(p) \in {e.id, Bare}
  BY <1>5, <1>6 DEF NextVersion
<1>8. /\ tickets' \in [TicketIds -> EventId \cup {Absent, Bare}]
      /\ tickets'[t] = NextVersion(p) /\ \A u \in TicketIds : u # t => tickets'[u] = tickets[u]
  BY <1>1, <1>3, <1>5, <1>7
<1>. DEFINE noted == [ticket |-> t, was |-> tickets[t]]
<1>9. noted \in Change /\ noted.ticket = t /\ noted.was = tickets[t]
  BY <1>3, <1>5 DEF Change
<1>10. /\ Append(changed, noted) \in Seq(Change)
       /\ DOMAIN Append(changed, noted) = 1 .. Len(changed) + 1
       /\ \A i \in DOMAIN changed : Append(changed, noted)[i] = changed[i]
       /\ Append(changed, noted)[Len(changed) + 1] = noted
  <2>. HIDE DEF noted
  <2>. QED BY <1>4, <1>9, AppendProperties, LenProperties
<1>11. Noted(p) = IF tickets[t] = Bare THEN changed ELSE Append(changed, noted)
  BY DEF Noted
<1>. HIDE DEF noted
<1>. DEFINE left == IF NextVersion(p) = Bare THEN todo ELSE Tail(todo)
            new == [author[p] EXCEPT !.changed = Noted(p), !.todo = left]
<1>12. Noted(p) \in Seq(Change) /\ left \in Seq(TicketIds)
  BY <1>3, <1>4, <1>10, <1>11
<1>13. /\ author' = [author EXCEPT ![p] = new]
  BY <1>1, <1>4 DEF Command
<1>14. /\ new \in Command /\ new.pc = "writing" /\ new.todo = left /\ new.changed = Noted(p)
       /\ new.event = e /\ new.affected = author[p].affected /\ new.text = author[p].text
  <2>. HIDE DEF left
  <2>. QED BY <1>1, <1>4, <1>12 DEF Command
<1>. HIDE DEF new
<1>15. /\ author' \in [Authors -> Command] /\ author'[p] = new
       /\ \A q \in Authors : q # p => author'[q] = author[q]
  BY <1>4, <1>13, <1>14
<1>16. /\ author'[p].pc = "writing" /\ author'[p].todo = left /\ author'[p].changed = Noted(p)
       /\ author'[p].event = e /\ author'[p].affected = author[p].affected
       /\ author'[p].text = author[p].text
  BY <1>14, <1>15
<1>. HIDE DEF left
<1>17. TypeOK'
  <2>1. \A q \in Authors : /\ worldlineLock' = q <=> author'[q].pc \in {"writing", "restoring"}
                           /\ ticketsLock' = q => author'[q].pc # "idle"
    <3>1. ASSUME NEW q \in Authors PROVE author'[q].pc = author[q].pc
      BY <1>1, <1>15, <1>16
    <3>. QED BY <3>1, <1>1, <1>2 DEF TypeOK
  <2>. QED BY <2>1, <1>1, <1>2, <1>8, <1>15 DEF TypeOK
<1>18. ASSUME NEW q \in Authors, q # p PROVE Fits(q)'
  <2>1. Fits(q)
    BY DEF Coherent
  <2>2. EventFits(q)'
    BY <2>1, <1>1, <1>15, <1>18, EventStays DEF Fits
  <2>3. OnlyHolder(q)' /\ ProgressFits(q)' /\ ChangesFit(q)'
    BY <2>1, <1>1, <1>3, <1>15, <1>18, OthersStay
  <2>. QED BY <2>2, <2>3 DEF Fits
<1>19. \A i, j \in DOMAIN todo : todo[i] = todo[j] => i = j
  BY <1>2 DEF Fits, OnlyHolder
<1>20. \A i, j \in DOMAIN changed : changed[i].ticket = changed[j].ticket => i = j
  BY <1>2 DEF Fits, OnlyHolder
<1>21. /\ \A i \in DOMAIN todo : todo[i] \in Touched(p) => i = 1 /\ tickets[t] = Bare
       /\ author[p].affected = Left(p) \cup Touched(p)
  BY <1>1, <1>2 DEF Fits, ProgressFits
<1>22. /\ \A i \in DOMAIN changed : changed[i].was # Bare /\ tickets[changed[i].ticket] \in {e.id, Bare}
       /\ \A u \in TicketIds : tickets[u] = Bare => u \in Touched(p) /\ u = t
  BY <1>1, <1>2, <1>3 DEF Fits, ChangesFit
<1>23. Touched(p) = {changed[i].ticket : i \in DOMAIN changed}
       /\ Touched(p)' = {Noted(p)[i].ticket : i \in DOMAIN Noted(p)}
       /\ Left(p) = {todo[i] : i \in DOMAIN todo} /\ Left(p)' = {left[i] : i \in DOMAIN left}
  BY <1>16 DEF Touched, Left
<1>24. t \in Touched(p) <=> tickets[t] = Bare
  BY <1>3, <1>21, <1>22
<1>25. Touched(p)' = Touched(p) \cup {t}
  <2>1. CASE tickets[t] = Bare
    BY <2>1, <1>11, <1>23, <1>24
  <2>2. CASE tickets[t] # Bare
    <3>1. Noted(p) = Append(changed, noted)
      BY <2>2, <1>11
    <3>2. DOMAIN Noted(p) = DOMAIN changed \cup {Len(changed) + 1}
      BY <3>1, <1>4, <1>10
    <3>3. /\ \A i \in DOMAIN changed : Noted(p)[i].ticket = changed[i].ticket
          /\ Noted(p)[Len(changed) + 1].ticket = t
      BY <3>1, <1>9, <1>10
    <3>. QED BY <3>2, <3>3, <1>23
  <2>. QED BY <2>1, <2>2
<1>26. \A i \in DOMAIN Noted(p) :
          \/ i \in DOMAIN changed /\ Noted(p)[i] = changed[i]
          \/ i = Len(changed) + 1 /\ Noted(p)[i] = noted /\ tickets[t] # Bare
  BY <1>4, <1>10, <1>11
<1>27. EventFits(p)'
  BY <1>1, <1>2, <1>16, EventStays DEF Fits
<1>28. OnlyHolder(p)'
  <2>1. \A i, j \in DOMAIN left : left[i] = left[j] => i = j
    <3>1. CASE NextVersion(p) = Bare
      BY <3>1, <1>19 DEF left
    <3>2. CASE NextVersion(p) # Bare
      <4>1. left = Tail(todo)
        BY <3>2 DEF left
      <4>2. ASSUME NEW i \in 1 .. Len(todo) - 1, NEW j \in 1 .. Len(todo) - 1,
                   Tail(todo)[i] = Tail(todo)[j]
            PROVE i = j
        <5>1. i + 1 = j + 1
          BY <4>2, <1>3, <1>19
        <5>. QED BY <5>1, <1>4
      <4>. QED BY <4>1, <4>2, <1>3
    <3>. QED BY <3>1, <3>2
  <2>2. \A i, j \in DOMAIN Noted(p) : Noted(p)[i].ticket = Noted(p)[j].ticket => i = j
    <3>1. \A i \in DOMAIN changed : tickets[t] # Bare => changed[i].ticket # t
      BY <1>23, <1>24
    <3>. QED BY <3>1, <1>9, <1>20, <1>26
  <2>3. ticketsLock' = p /\ author[p].text = "plain"
    BY <1>1, <1>2, <1>3 DEF Fits, OnlyHolder
  <2>. QED BY <2>1, <2>2, <2>3, <1>16 DEF OnlyHolder, InLog
<1>29. ProgressFits(p)'
  <2>1. Left(p)' \cup {t} = Left(p)
    <3>1. CASE NextVersion(p) = Bare
      BY <3>1, <1>3, <1>23 DEF left
    <3>2. CASE NextVersion(p) # Bare
      <4>1. left = Tail(todo)
        BY <3>2 DEF left
      <4>2. \A i \in DOMAIN todo : i = 1 \/ (i - 1 \in 1 .. Len(todo) - 1 /\ todo[i] = Tail(todo)[i - 1])
        <5>1. ASSUME NEW i \in DOMAIN todo, i # 1
              PROVE i - 1 \in 1 .. Len(todo) - 1 /\ todo[i] = Tail(todo)[i - 1]
          <6>1. i - 1 \in 1 .. Len(todo) - 1 /\ (i - 1) + 1 = i
            BY <5>1, <1>4
          <6>. QED BY <6>1, <1>3
        <5>. QED BY <5>1
      <4>3. t \in Left(p)
        BY <1>3, <1>23
      <4>4. \A i \in DOMAIN left : left[i] \in Left(p)
        BY <4>1, <1>3, <1>23
      <4>5. \A i \in DOMAIN todo : todo[i] = t \/ todo[i] \in Left(p)'
        BY <4>1, <4>2, <1>3, <1>23
      <4>. QED BY <4>3, <4>4, <4>5, <1>23
    <3>. QED BY <3>1, <3>2
  <2>2. author'[p].affected = Left(p)' \cup Touched(p)'
    BY <2>1, <1>16, <1>21, <1>25
  <2>3. ASSUME NEW i \in DOMAIN left, left[i] \in Touched(p)'
        PROVE  i = 1 /\ tickets'[left[1]] = Bare
    <3>1. CASE NextVersion(p) = Bare
      <4>1. left = todo /\ tickets'[t] = Bare
        BY <3>1, <1>8 DEF left
      <4>2. left[i] = t \/ left[i] \in Touched(p)
        BY <2>3, <1>25
      <4>. QED BY <4>1, <4>2, <1>3, <1>19, <1>21
    <3>2. CASE NextVersion(p) # Bare
      <4>1. left = Tail(todo)
        BY <3>2 DEF left
      <4>2. i + 1 \in DOMAIN todo /\ i + 1 # 1 /\ left[i] = todo[i + 1]
        BY <4>1, <1>3
      <4>3. left[i] # t
        BY <4>2, <1>3, <1>19
      <4>4. left[i] \notin Touched(p)
        BY <4>2, <1>21
      <4>. QED BY <4>3, <4>4, <2>3, <1>25
    <3>. QED BY <3>1, <3>2
  <2>. QED BY <2>2, <2>3, <1>16 DEF ProgressFits
<1>30. ChangesFit(p)'
  <2>1. ASSUME NEW i \in DOMAIN Noted(p)
        PROVE Noted(p)[i].was # Bare /\ tickets'[Noted(p)[i].ticket] \in {e.id, Bare}
    <3>1. CASE i \in DOMAIN changed /\ Noted(p)[i] = changed[i]
      <4>1. changed[i].was # Bare /\ tickets[changed[i].ticket] \in {e.id, Bare}
            /\ changed[i].ticket \in TicketIds
        BY <3>1, <1>4, <1>22
      <4>. QED BY <3>1, <4>1, <1>7, <1>8
    <3>2. CASE i = Len(changed) + 1 /\ Noted(p)[i] = noted /\ tickets[t] # Bare
      BY <3>2, <1>7, <1>8, <1>9
    <3>. QED BY <3>1, <3>2, <1>26
  <2>2. ASSUME NEW u \in TicketIds, tickets'[u] = Bare
        PROVE  u \in Touched(p)' /\ left # <<>> /\ u = left[1]
    <3>1. u = t
      BY <2>2, <1>8, <1>22
    <3>2. NextVersion(p) = Bare
      BY <2>2, <3>1, <1>8
    <3>3. left = todo
      BY <3>2 DEF left
    <3>. QED BY <3>1, <3>3, <1>1, <1>25
  <2>. QED BY <2>1, <2>2, <1>16 DEF ChangesFit
<1>. HIDE DEF changed, todo, t, e
<1>31. SeenSame
  <2>1. ASSUME NEW u \in TicketIds PROVE Seen(u)' = Seen(u)
    <3>1. Seen(u) = WasOf(changed, tickets, u) /\ Seen(u)' = WasOf(Noted(p), tickets', u)
      BY <1>1, <1>2, <1>3, <1>16, SeenIs, SeenNextIs DEF changed
    <3>2. \A i, j \in DOMAIN Noted(p) : Noted(p)[i].ticket = Noted(p)[j].ticket => i = j
      BY <1>16, <1>28 DEF OnlyHolder
    <3>3. CASE u \in Touched(p)
      <4>1. PICK i \in DOMAIN changed : changed[i].ticket = u
        BY <3>3, <1>23
      <4>2. i \in DOMAIN Noted(p) /\ Noted(p)[i] = changed[i]
        BY <1>4, <1>10, <1>11
      <4>3. WasOf(changed, tickets, u) = changed[i].was
        BY <4>1, <1>20, WasBefore
      <4>4. WasOf(Noted(p), tickets', u) = changed[i].was
        <5>1. Noted(p)[i].ticket = u
          BY <4>1, <4>2
        <5>2. WasOf(Noted(p), tickets', u) = Noted(p)[i].was
          BY <4>2, <5>1, <3>2, WasBefore
        <5>. QED BY <4>2, <5>2
      <4>. QED BY <3>1, <4>3, <4>4
    <3>4. CASE u \notin Touched(p)
      <4>1. WasOf(changed, tickets, u) = tickets[u]
        BY <3>4, <1>23, WasNever
      <4>2. CASE u # t
        <5>1. WasOf(Noted(p), tickets', u) = tickets'[u]
          BY <4>2, <3>4, <1>23, <1>25, WasNever
        <5>. QED BY <3>1, <4>1, <4>2, <5>1, <1>8
      <4>3. CASE u = t
        <5>1. tickets[t] # Bare
          BY <3>4, <4>3, <1>24
        <5>2. Len(changed) + 1 \in DOMAIN Noted(p) /\ Noted(p)[Len(changed) + 1] = noted
          BY <5>1, <1>4, <1>10, <1>11
        <5>3. WasOf(Noted(p), tickets', u) = noted.was
          <6>. DEFINE k == Len(changed) + 1
          <6>1. k \in DOMAIN Noted(p) /\ Noted(p)[k] = noted /\ Noted(p)[k].ticket = u
            BY <5>2, <4>3, <1>9
          <6>. HIDE DEF k
          <6>2. WasOf(Noted(p), tickets', u) = Noted(p)[k].was
            BY <6>1, <3>2, WasBefore
          <6>. QED BY <6>1, <6>2
        <5>. QED BY <3>1, <4>1, <4>3, <5>3, <1>9
      <4>. QED BY <4>2, <4>3
    <3>. QED BY <3>3, <3>4
  <2>. QED BY <2>1 DEF SeenSame
<1>. QED BY <1>17, <1>18, <1>27, <1>28, <1>29, <1>30, <1>31 DEF Coherent, Fits

LEMMA WriterKnows ==
  ASSUME Coherent, NEW p \in Authors, author[p].pc \in InLog
  PROVE  /\ Files(shards) /\ Readable /\ worldlineLock = p
         /\ author[p].event \in Event /\ author[p].event.id \in EventId
         /\ author[p].event.id \notin EventIds(Lines)
         /\ \A n \in DOMAIN shards : Earlier(n, author[p].event.id)
         /\ Target(author[p].event.id) \in EventId
         /\ author[p].event.id = NextEventId(At(author[p].event)) /\ InTime(At(author[p].event))
         /\ author[p].event.causes \subseteq EventIds(Lines)
         /\ author[p].event.affected = author[p].affected /\ author[p].text \in Texts
<1>. DEFINE e == author[p].event
<1>1. TypeOK /\ Fits(p) /\ Files(shards)
  BY TypedFiles DEF Coherent
<1>2. /\ Readable /\ e \in Event /\ e.id = NextEventId(At(e)) /\ InTime(At(e))
      /\ e.causes \subseteq EventIds(Lines) /\ e.affected = author[p].affected /\ author[p].text \in Texts
  BY <1>1 DEF Fits, EventFits
<1>3. worldlineLock = p
  BY <1>1, AuthorTypes
<1>. HIDE DEF e
<1>4. e.id \in EventId /\ At(e) \in Instants
  <2>1. e.id \in EventId /\ At(e) = e.id[1]
    BY <1>2, EventTypes
  <2>2. \A d \in EventId : d[1] \in Instants
    BY DEF EventId
  <2>. QED BY <2>1, <2>2
<1>5. e.id \notin EventIds(Lines) /\ \A n \in DOMAIN shards : Earlier(n, e.id)
  BY <1>1, <1>2, <1>4, NextIsLater
<1>6. Target(e.id) \in EventId
  BY <1>1, <1>4, <1>5, TargetIsLast
<1>. QED BY <1>1, <1>2, <1>3, <1>4, <1>5, <1>6 DEF e

\* What can be read after a line is written.
LEMMA Written ==
  ASSUME Coherent, NEW p \in Authors, Write(p)
  PROVE  /\ Files(shards') /\ author[p].event \in Event
         /\ author[p].event.id \notin EventIds(Lines)
         /\ author[p].event.causes \subseteq EventIds(Lines)
         /\ author[p].text = "plain" =>
               Readable' /\ Recorded = Lines /\ Recorded' = Append(Recorded, author[p].event)
         /\ author[p].text # "plain" => Recorded' = Recorded
<1>. DEFINE e == author[p].event
<1>1. /\ author[p].pc = "writing" /\ author[p].todo = <<>>
      /\ shards' = WithLines(Target(e.id), LinesOf(e, author[p].text))
  BY DEF Write
<1>2. /\ Files(shards) /\ Readable /\ e \in Event /\ e.id \in EventId
      /\ e.id \notin EventIds(Lines) /\ Target(e.id) \in EventId
      /\ e.id = NextEventId(At(e)) /\ InTime(At(e)) /\ e.causes \subseteq EventIds(Lines)
  BY <1>1, WriterKnows DEF InLog
<1>3. Recorded = Lines
  BY <1>2, ReadableLog
<1>. HIDE DEF e
<1>4. CASE author[p].text = "plain"
  <2>1. shards' = WithLines(Target(e.id), <<e>>)
    BY <1>1, <1>4 DEF LinesOf
  <2>2. Files(shards') /\ Readable' /\ Recorded' = Append(Recorded, e)
    BY <1>2, <2>1, PlainWrite
  <2>. QED BY <1>2, <1>3, <1>4, <2>2 DEF e
<1>5. CASE author[p].text # "plain"
  <2>1. shards' = WithLines(Target(e.id), <<TornLine, TornLine>>)
    BY <1>1, <1>5 DEF LinesOf
  <2>2. <<TornLine, TornLine>> \in Seq({TornLine})
    OBVIOUS
  <2>3. Files(shards') /\ Recorded' = Recorded
    BY <1>2, <2>1, <2>2, TornWrite
  <2>. QED BY <1>2, <1>5, <2>3 DEF e
<1>. QED BY <1>4, <1>5

LEMMA WriteStep ==
  ASSUME Coherent, NEW p \in Authors, Write(p)
  PROVE  /\ Coherent'
         /\ \A t \in TicketIds : Seen(t)' = IF t \in author[p].event.affected
                                            THEN author[p].event.id ELSE Seen(t)
         /\ author[p].text # "plain" => SeenSame
<1>. DEFINE e == author[p].event
            changed == author[p].changed
<1>1. /\ author[p].pc = "writing" /\ author[p].todo = <<>> /\ Ends(p)
      /\ tickets' = tickets /\ failures' = failures /\ kills' = kills
  BY DEF Write
<1>2. TypeOK /\ Fits(p) /\ p # Nobody /\ worldlineLock = p /\ e.affected = author[p].affected
  BY <1>1, WriterKnows, MarkerAssumption DEF Coherent, InLog
<1>3. Coherent'
  <2>1. TypeOK'
    BY <1>1, <1>2, Written, EndsTyped DEF TypeOK
  <2>. QED BY <1>1, <1>2, <2>1, EndsFit DEF Coherent
<1>4. /\ ticketsLock' = (IF ticketsLock = p THEN Nobody ELSE ticketsLock)
      /\ \A q \in Authors : q # p => author'[q] = author[q]
      /\ ticketsLock \in Authors \cup {Nobody}
  BY <1>1, <1>2, EndsFacts DEF TypeOK
<1>5. CASE ticketsLock = p
  <2>1. author[p].affected = Touched(p)
    <3>1. Left(p) = {}
      BY <1>1 DEF Left
    <3>. QED BY <3>1, <1>1, <1>2 DEF Fits, ProgressFits
  <2>2. /\ \A i \in DOMAIN changed : tickets[changed[i].ticket] \in {e.id, Bare}
        /\ \A t \in TicketIds : tickets[t] # Bare
    BY <1>1, <1>2, <1>5 DEF Fits, ChangesFit
  <2>3. \A i \in DOMAIN changed : changed[i].ticket \in TicketIds
    BY <1>2, AuthorTypes
  <2>4. ASSUME NEW t \in TicketIds
        PROVE  Seen(t)' = IF t \in e.affected THEN e.id ELSE Seen(t)
    <3>1. Seen(t)' = tickets[t] /\ Seen(t) = WasOf(changed, tickets, t)
      BY <1>1, <1>2, <1>4, <1>5, SeenIs, SeenNextIs
    <3>2. CASE t \in Touched(p)
      <4>1. PICK i \in DOMAIN changed : changed[i].ticket = t
        BY <3>2 DEF Touched
      <4>2. tickets[t] = e.id
        BY <4>1, <2>2
      <4>. QED BY <3>1, <3>2, <4>2, <2>1, <1>2
    <3>3. CASE t \notin Touched(p)
      <4>1. WasOf(changed, tickets, t) = tickets[t]
        BY <3>3, WasNever DEF Touched
      <4>. QED BY <3>1, <3>3, <4>1, <2>1, <1>2
    <3>. QED BY <3>2, <3>3
  <2>5. author[p].text = "plain"
    BY <1>2, <1>5 DEF Fits, OnlyHolder
  <2>. QED BY <1>3, <2>4, <2>5
<1>6. CASE ticketsLock # p
  <2>1. author[p].affected = {}
    BY <1>2, <1>6 DEF Fits, OnlyHolder
  <2>2. ticketsLock' = ticketsLock /\ (ticketsLock # Nobody => author'[ticketsLock] = author[ticketsLock])
    BY <1>4, <1>6
  <2>3. SeenSame
    BY <2>2, <1>1, SeenKept
  <2>. QED BY <1>2, <1>3, <2>1, <2>3 DEF SeenSame
<1>. QED BY <1>5, <1>6

LEMMA FailStep ==
  ASSUME Coherent, NEW p \in Authors, Fail(p)
  PROVE  Coherent' /\ SeenSame
<1>1. /\ author[p].pc = "writing" /\ failures < MaxFailures /\ failures' = failures + 1
      /\ shards' = shards /\ tickets' = tickets /\ ticketsLock' = ticketsLock
      /\ worldlineLock' = worldlineLock /\ kills' = kills
      /\ author' = [author EXCEPT ![p].pc = "restoring"]
  BY DEF Fail
<1>2. TypeOK /\ Fits(p) /\ p # Nobody
  BY MarkerAssumption DEF Coherent
<1>3. author[p] \in Command /\ author \in [Authors -> Command]
  BY <1>2, AuthorTypes DEF TypeOK
<1>. DEFINE new == [author[p] EXCEPT !.pc = "restoring"]
<1>4. /\ new \in Command /\ new.pc = "restoring" /\ new.todo = author[p].todo
      /\ new.changed = author[p].changed /\ new.event = author[p].event
      /\ new.affected = author[p].affected /\ new.text = author[p].text
  BY <1>3 DEF Command
<1>5. author' = [author EXCEPT ![p] = new]
  BY <1>1, <1>3 DEF Command
<1>. HIDE DEF new
<1>6. /\ author' \in [Authors -> Command] /\ author'[p] = new
      /\ \A q \in Authors : q # p => author'[q] = author[q]
  BY <1>3, <1>4, <1>5
<1>7. TypeOK'
  <2>1. failures' \in 0 .. MaxFailures
    BY <1>1, <1>2, BoundsAssumption DEF TypeOK
  <2>2. \A q \in Authors : /\ worldlineLock' = q <=> author'[q].pc \in {"writing", "restoring"}
                           /\ ticketsLock' = q => author'[q].pc # "idle"
    <3>1. ASSUME NEW q \in Authors
          PROVE  /\ worldlineLock' = q <=> author'[q].pc \in {"writing", "restoring"}
                 /\ ticketsLock' = q => author'[q].pc # "idle"
      <4>1. (worldlineLock = q <=> author[q].pc \in {"writing", "restoring"})
            /\ (ticketsLock = q => author[q].pc # "idle")
        BY <1>2 DEF TypeOK
      <4>. QED BY <4>1, <1>1, <1>4, <1>6
    <3>. QED BY <3>1
  <2>. QED BY <2>1, <2>2, <1>1, <1>2, <1>6 DEF TypeOK
<1>8. ASSUME NEW q \in Authors, q # p PROVE Fits(q)'
  <2>1. Fits(q)
    BY DEF Coherent
  <2>2. EventFits(q)'
    BY <2>1, <1>1, <1>6, <1>8, EventStays DEF Fits
  <2>3. OnlyHolder(q)' /\ ProgressFits(q)' /\ ChangesFit(q)'
    BY <2>1, <1>1, <1>6, <1>8, OthersStay
  <2>. QED BY <2>2, <2>3 DEF Fits
<1>9. Fits(p)'
  <2>1. EventFits(p)'
    BY <1>1, <1>2, <1>4, <1>6, EventStays DEF Fits, InLog
  <2>2. OnlyHolder(p)'
    BY <1>1, <1>2, <1>4, <1>6 DEF Fits, OnlyHolder, InLog
  <2>3. ProgressFits(p)'
    BY <1>4, <1>6 DEF ProgressFits
  <2>4. Touched(p)' = Touched(p)
    BY <1>4, <1>6 DEF Touched
  <2>5. ChangesFit(p)'
    BY <1>1, <1>2, <1>4, <1>6, <2>4 DEF Fits, ChangesFit
  <2>. QED BY <2>1, <2>2, <2>3, <2>5 DEF Fits
<1>10. SeenSame
  <2>1. ticketsLock \in Authors \cup {Nobody}
    BY <1>2 DEF TypeOK
  <2>2. ticketsLock # Nobody => author'[ticketsLock].changed = author[ticketsLock].changed
    BY <2>1, <1>4, <1>6
  <2>. QED BY <2>2, <1>1, SeenKept
<1>. QED BY <1>7, <1>8, <1>9, <1>10 DEF Coherent

LEMMA RestoreStep ==
  ASSUME Coherent, NEW p \in Authors, Restore(p)
  PROVE  Coherent' /\ SeenSame
<1>. DEFINE changed == author[p].changed
            n == Len(changed)
            c == changed[n]
            t == c.ticket
            e == author[p].event
            empty == c.was = Absent /\ tickets[t] \notin {Absent, Bare}
            version == IF empty THEN Bare ELSE c.was
            rest == IF empty THEN changed ELSE Front(changed)
<1>1. /\ author[p].pc = "restoring"
      /\ shards' = shards /\ failures' = failures /\ kills' = kills
  BY DEF Restore
<1>2. TypeOK /\ Fits(p) /\ p # Nobody /\ Files(shards)
  BY MarkerAssumption, TypedFiles DEF Coherent
<1>3. CASE changed = <<>>
  <2>1. Ends(p) /\ tickets' = tickets
    BY <1>3 DEF Restore
  <2>2. TypeOK'
    BY <1>1, <1>2, <2>1, EndsTyped DEF TypeOK
  <2>. QED BY <1>1, <1>2, <1>3, <2>1, <2>2, EndsFit, EndsUnseen DEF Coherent
<1>4. CASE changed # <<>>
  <2>1. /\ tickets' = [tickets EXCEPT ![t] = version]
        /\ author' = [author EXCEPT ![p].changed = IF empty THEN @ ELSE Front(@)]
        /\ ticketsLock' = ticketsLock /\ worldlineLock' = worldlineLock
    BY <1>4 DEF Restore, Last
  <2>2. /\ author[p] \in Command /\ author \in [Authors -> Command]
        /\ changed \in Seq(Change) /\ DOMAIN changed = 1 .. n /\ n \in Nat
        /\ \A i \in DOMAIN changed : /\ changed[i].ticket \in TicketIds
                                     /\ changed[i].was \in EventId \cup {Absent, Bare}
        /\ tickets \in [TicketIds -> EventId \cup {Absent, Bare}]
    BY <1>2, AuthorTypes DEF TypeOK
  <2>3. n \in DOMAIN changed
    <3>1. n # 0
      BY <1>4, <2>2
    <3>. QED BY <2>2, <3>1
  <2>4. ticketsLock = p
    BY <1>2, <1>4 DEF Fits, OnlyHolder
  <2>5. /\ \A i, j \in DOMAIN changed : changed[i].ticket = changed[j].ticket => i = j
        /\ author[p].text = "plain"
    BY <1>2, <2>4 DEF Fits, OnlyHolder
  <2>6. /\ \A i \in DOMAIN changed : changed[i].was # Bare /\ tickets[changed[i].ticket] \in {e.id, Bare}
        /\ \A u \in TicketIds : tickets[u] = Bare => u \in Touched(p)
    BY <1>2, <2>4 DEF Fits, ChangesFit
  <2>7. Front(changed) \in Seq(Change) /\ DOMAIN Front(changed) = 1 .. n - 1
        /\ \A i \in 1 .. n - 1 : Front(changed)[i] = changed[i]
    <3>1. n \in 1 .. Len(changed) + 1
      BY <2>2, <2>3
    <3>2. Front(changed) = SubSeq(changed, 1, n - 1)
      BY DEF Front
    <3>. HIDE DEF n
    <3>. QED BY <3>1, <3>2, <2>2, PrefixOf
  <2>8. t \in TicketIds /\ c.was \in EventId \cup {Absent, Bare} /\ c.was # Bare
    BY <2>2, <2>3, <2>6
  <2>. HIDE DEF c, t
  <2>9. /\ tickets' \in [TicketIds -> EventId \cup {Absent, Bare}]
        /\ tickets'[t] = version /\ \A u \in TicketIds : u # t => tickets'[u] = tickets[u]
    BY <2>1, <2>2, <2>8
  <2>. DEFINE new == [author[p] EXCEPT !.changed = rest]
  <2>10. author' = [author EXCEPT ![p] = new]
    BY <2>1, <2>2 DEF Command
  <2>11. rest \in Seq(Change)
    BY <2>2, <2>7
  <2>. HIDE DEF rest
  <2>12. /\ new \in Command /\ new.pc = "restoring" /\ new.todo = author[p].todo
         /\ new.changed = rest /\ new.event = author[p].event
         /\ new.affected = author[p].affected /\ new.text = author[p].text
    BY <1>1, <2>2, <2>11 DEF Command
  <2>. HIDE DEF new
  <2>13. /\ author' \in [Authors -> Command] /\ author'[p] = new
         /\ \A q \in Authors : q # p => author'[q] = author[q]
    BY <2>2, <2>10, <2>12
  <2>14. TypeOK'
    <3>1. \A q \in Authors : author'[q].pc = author[q].pc
      BY <1>1, <2>12, <2>13
    <3>2. \A q \in Authors : /\ worldlineLock' = q <=> author'[q].pc \in {"writing", "restoring"}
                             /\ ticketsLock' = q => author'[q].pc # "idle"
      BY <3>1, <2>1, <1>2 DEF TypeOK
    <3>. QED BY <3>2, <1>1, <1>2, <2>1, <2>9, <2>13 DEF TypeOK
  <2>15. ASSUME NEW q \in Authors, q # p PROVE Fits(q)'
    <3>1. Fits(q)
      BY DEF Coherent
    <3>2. EventFits(q)'
      BY <3>1, <1>1, <2>13, <2>15, EventStays DEF Fits
    <3>3. OnlyHolder(q)' /\ ProgressFits(q)' /\ ChangesFit(q)'
      BY <3>1, <2>1, <2>4, <2>13, <2>15, OthersStay
    <3>. QED BY <3>2, <3>3 DEF Fits
  <2>16. \A i \in DOMAIN rest : i \in DOMAIN changed /\ rest[i] = changed[i] /\ (~empty => i # n)
    BY <2>2, <2>7 DEF rest
  <2>17. Touched(p) = {changed[i].ticket : i \in DOMAIN changed}
         /\ Touched(p)' = {rest[i].ticket : i \in DOMAIN rest}
    BY <2>12, <2>13 DEF Touched
  <2>18. \A i \in DOMAIN changed : i = n \/ (i \in DOMAIN rest /\ rest[i] = changed[i])
    BY <2>2, <2>7 DEF rest
  <2>19. empty => rest = changed
    BY DEF rest
  <2>. HIDE DEF empty
  <2>20. Fits(p)'
    <3>1. EventFits(p)'
      BY <1>1, <1>2, <2>12, <2>13, EventStays DEF Fits, InLog
    <3>2. OnlyHolder(p)'
      <4>1. \A i, j \in DOMAIN rest : rest[i].ticket = rest[j].ticket => i = j
        BY <2>5, <2>16
      <4>2. \A i, j \in DOMAIN author[p].todo : author[p].todo[i] = author[p].todo[j] => i = j
        BY <1>2 DEF Fits, OnlyHolder
      <4>3. /\ author'[p].todo = author[p].todo /\ author'[p].changed = rest
            /\ author'[p].pc \in InLog /\ author'[p].text = "plain" /\ ticketsLock' = p
        BY <2>1, <2>4, <2>5, <2>12, <2>13 DEF InLog
      <4>4. \A i, j \in DOMAIN author'[p].todo : author'[p].todo[i] = author'[p].todo[j] => i = j
        BY <4>2, <4>3
      <4>5. \A i, j \in DOMAIN author'[p].changed :
               author'[p].changed[i].ticket = author'[p].changed[j].ticket => i = j
        BY <4>1, <4>3
      <4>. QED BY <4>3, <4>4, <4>5 DEF OnlyHolder
    <3>3. ProgressFits(p)'
      BY <2>12, <2>13 DEF ProgressFits
    <3>4. ChangesFit(p)'
      <4>1. ASSUME NEW i \in DOMAIN rest
            PROVE  rest[i].was # Bare /\ tickets'[rest[i].ticket] \in {e.id, Bare}
        <5>1. i \in DOMAIN changed /\ rest[i] = changed[i] /\ changed[i].was # Bare
              /\ tickets[changed[i].ticket] \in {e.id, Bare} /\ changed[i].ticket \in TicketIds
          BY <2>2, <2>6, <2>16
        <5>2. CASE changed[i].ticket # t
          BY <5>1, <5>2, <2>9
        <5>3. CASE changed[i].ticket = t
          <6>1. i = n
            BY <5>1, <5>3, <2>3, <2>5 DEF t, c
          <6>2. empty
            BY <6>1, <2>16
          <6>. QED BY <5>1, <5>3, <6>2, <2>9
        <5>. QED BY <5>2, <5>3
      <4>2. ASSUME NEW u \in TicketIds, tickets'[u] = Bare PROVE u \in Touched(p)'
        <5>1. CASE u = t
          <6>1. empty
            BY <4>2, <5>1, <2>8, <2>9
          <6>. QED BY <6>1, <5>1, <2>3, <2>17, <2>19 DEF t, c
        <5>2. CASE u # t
          <6>1. u \in Touched(p)
            BY <4>2, <5>2, <2>6, <2>9
          <6>2. PICK i \in DOMAIN changed : changed[i].ticket = u
            BY <6>1, <2>17
          <6>3. i # n
            BY <6>2, <5>2 DEF t, c
          <6>. QED BY <6>2, <6>3, <2>17, <2>18
        <5>. QED BY <5>1, <5>2
      <4>. QED BY <4>1, <4>2, <1>1, <2>12, <2>13 DEF ChangesFit
    <3>. QED BY <3>1, <3>2, <3>3, <3>4 DEF Fits
  <2>21. ASSUME NEW u \in TicketIds PROVE Seen(u)' = Seen(u)
    <3>1. Seen(u) = WasOf(changed, tickets, u) /\ Seen(u)' = WasOf(rest, tickets', u)
      BY <1>2, <2>1, <2>4, <2>12, <2>13, SeenIs, SeenNextIs
    <3>. HIDE DEF changed, n
    <3>2. \A i, j \in DOMAIN rest : rest[i].ticket = rest[j].ticket => i = j
      BY <2>5, <2>16
    <3>3. CASE \E i \in DOMAIN rest : rest[i].ticket = u
      <4>1. PICK i \in DOMAIN rest : rest[i].ticket = u
        BY <3>3
      <4>2. i \in DOMAIN changed /\ rest[i] = changed[i] /\ changed[i].ticket = u
        BY <4>1, <2>16
      <4>3. WasOf(changed, tickets, u) = changed[i].was
        BY <4>2, <2>5, WasBefore
      <4>4. WasOf(rest, tickets', u) = rest[i].was
        BY <4>1, <3>2, WasBefore
      <4>. QED BY <3>1, <4>2, <4>3, <4>4
    <3>4. CASE ~(\E i \in DOMAIN rest : rest[i].ticket = u)
      <4>1. WasOf(rest, tickets', u) = tickets'[u]
        BY <3>4, WasNever
      <4>2. CASE u = t
        <5>1. changed[n].ticket = u /\ c = changed[n]
          BY <4>2 DEF t, c
        <5>2. WasOf(changed, tickets, u) = changed[n].was
          BY <5>1, <2>3, <2>5, WasBefore
        <5>3. ~empty
          BY <5>1, <3>4, <2>3, <2>19
        <5>. QED BY <3>1, <4>1, <4>2, <5>1, <5>2, <5>3, <2>9
      <4>3. CASE u # t
        <5>1. \A i \in DOMAIN changed : changed[i].ticket # u
          BY <4>3, <3>4, <2>18 DEF t, c
        <5>2. WasOf(changed, tickets, u) = tickets[u]
          BY <5>1, WasNever
        <5>. QED BY <3>1, <4>1, <4>3, <5>2, <2>9
      <4>. QED BY <4>2, <4>3
    <3>. QED BY <3>3, <3>4
  <2>. QED BY <2>14, <2>15, <2>20, <2>21 DEF Coherent, SeenSame
<1>. QED BY <1>3, <1>4

LEMMA KillStep ==
  ASSUME Coherent, NEW p \in Authors, Kill(p)
  PROVE  /\ Coherent' /\ Recorded' = Recorded /\ kills' = kills + 1
         /\ \A t \in TicketIds : Seen(t)' # Seen(t) =>
               /\ author[p].pc \in InLog
               /\ Seen(t)' \in {author[p].event.id, Bare}
<1>. DEFINE e == author[p].event
            changed == author[p].changed
<1>1. /\ author[p].pc # "idle" /\ kills < MaxKills /\ kills' = kills + 1
      /\ shards' \in Leftovers(p) /\ Ends(p) /\ tickets' = tickets /\ failures' = failures
  BY DEF Kill
<1>2. TypeOK /\ Fits(p) /\ p # Nobody /\ Files(shards)
  BY MarkerAssumption, TypedFiles DEF Coherent
<1>3. /\ Files(shards') /\ Recorded' = Recorded
      /\ shards' = shards \/ worldlineLock = p
  <2>1. CASE shards' = shards
    BY <2>1, <1>2, SameLog
  <2>2. CASE shards' # shards
    <3>1. /\ author[p].pc = "writing"
          /\ \E lines \in {<<>>, <<TornLine>>} : shards' = WithLines(Target(e.id), lines)
      BY <1>1, <2>2 DEF Leftovers
    <3>2. PICK lines \in {<<>>, <<TornLine>>} : shards' = WithLines(Target(e.id), lines)
      BY <3>1
    <3>3. lines \in Seq({TornLine})
      <4>1. <<>> \in Seq({TornLine}) /\ <<TornLine>> \in Seq({TornLine})
        OBVIOUS
      <4>. QED BY <3>2, <4>1
    <3>4. Target(e.id) \in EventId /\ worldlineLock = p
      BY <3>1, WriterKnows DEF InLog
    <3>. QED BY <3>2, <3>3, <3>4, <1>2, TornWrite
  <2>. QED BY <2>1, <2>2
<1>4. Coherent'
  <2>1. kills' \in 0 .. MaxKills
    BY <1>1, <1>2, BoundsAssumption DEF TypeOK
  <2>2. TypeOK'
    BY <1>1, <1>2, <1>3, <2>1, EndsTyped DEF TypeOK
  <2>. QED BY <1>1, <1>3, <2>2, EndsFit DEF Coherent
<1>5. /\ ticketsLock' = (IF ticketsLock = p THEN Nobody ELSE ticketsLock)
      /\ \A q \in Authors : q # p => author'[q] = author[q]
      /\ ticketsLock \in Authors \cup {Nobody}
  BY <1>1, <1>2, EndsFacts DEF TypeOK
<1>6. ASSUME NEW t \in TicketIds, Seen(t)' # Seen(t)
      PROVE  author[p].pc \in InLog /\ Seen(t)' \in {e.id, Bare}
  <2>1. ticketsLock = p
    <3>1. SUFFICES ASSUME ticketsLock # p PROVE FALSE
      OBVIOUS
    <3>2. ticketsLock' = ticketsLock /\ (ticketsLock # Nobody => author'[ticketsLock] = author[ticketsLock])
      BY <3>1, <1>5
    <3>3. SeenSame
      BY <3>2, <1>1, SeenKept
    <3>. QED BY <3>3, <1>6 DEF SeenSame
  <2>2. Seen(t)' = tickets[t] /\ Seen(t) = WasOf(changed, tickets, t)
    BY <1>1, <1>2, <1>5, <2>1, SeenIs, SeenNextIs
  <2>3. \E i \in DOMAIN changed : changed[i].ticket = t
    BY <1>6, <2>2, WasNever
  <2>4. tickets[t] \in {e.id, Bare}
    BY <1>2, <2>3 DEF Fits, ChangesFit
  <2>5. author[p].pc \in InLog
    <3>1. changed # <<>>
      BY <2>3
    <3>. QED BY <3>1, <1>2 DEF Fits, OnlyHolder
  <2>. QED BY <2>2, <2>4, <2>5
<1>. QED BY <1>1, <1>3, <1>4, <1>6

----------------------------------------------------------------------------
(* The invariant holds *)

LEMMA EmptyLog ==
  ASSUME shards = <<>>
  PROVE  Files(shards) /\ Lines = <<>> /\ Recorded = <<>> /\ Readable
<1>1. DOMAIN shards = {} /\ shards \in [{} -> Seq(Entry)]
  OBVIOUS
<1>2. Files(shards)
  BY <1>1, FS_EmptySet DEF Files
<1>3. Positions = {} /\ {p \in Positions : LineAt(p) # TornLine} = {}
  BY <1>1 DEF Positions
<1>4. Lines = <<>> /\ Recorded = <<>>
  <2>1. Cardinality({}) = 0
    BY FS_EmptySet
  <2>2. InOrder({}) = <<>>
    BY <2>1 DEF InOrder
  <2>. QED BY <1>3, <2>2 DEF Lines, Recorded
<1>5. Readable
  <2>1. DOMAIN Lines = {}
    BY <1>4
  <2>. QED BY <1>1, <2>1 DEF Readable, WellRecorded
<1>. QED BY <1>2, <1>4, <1>5

LEMMA InitIsCoherent == Init => Coherent
<1>. SUFFICES ASSUME Init PROVE Coherent
  OBVIOUS
<1>1. /\ shards = <<>> /\ ticketsLock = Nobody /\ worldlineLock = Nobody
      /\ tickets = [t \in TicketIds |-> Absent] /\ author = [p \in Authors |-> Idle]
      /\ failures = 0 /\ kills = 0
  BY DEF Init
<1>2. Idle \in Command
  BY EmptySeq DEF Idle, Command
<1>3. \A p \in Authors : /\ author[p].pc = "idle" /\ author[p].todo = <<>>
                         /\ author[p].changed = <<>> /\ author[p].affected = {}
                         /\ author[p].text = "plain" /\ p # Nobody
  BY <1>1, MarkerAssumption DEF Idle
<1>4. TypeOK
  <2>1. author \in [Authors -> Command]
    BY <1>1, <1>2
  <2>2. Files(shards)
    BY <1>1, EmptyLog
  <2>. QED BY <1>1, <1>3, <2>1, <2>2, BoundsAssumption DEF TypeOK, Files, Entry
<1>5. ASSUME NEW p \in Authors PROVE Fits(p)
  <2>1. Touched(p) = {} /\ Left(p) = {}
    BY <1>3 DEF Touched, Left
  <2>. QED BY <1>1, <1>3, <2>1 DEF Fits, EventFits, OnlyHolder, ProgressFits, ChangesFit, InLog
<1>. QED BY <1>4, <1>5 DEF Coherent

LEMMA StutterIsCoherent ==
  ASSUME Coherent, UNCHANGED vars
  PROVE  Coherent' /\ SeenSame /\ Recorded' = Recorded
<1>1. /\ shards' = shards /\ tickets' = tickets /\ ticketsLock' = ticketsLock
      /\ worldlineLock' = worldlineLock /\ author' = author /\ failures' = failures
      /\ kills' = kills
  BY DEF vars
<1>2. TypeOK'
  BY <1>1 DEF Coherent, TypeOK
<1>3. ASSUME NEW p \in Authors PROVE Fits(p)'
  <2>1. Fits(p)
    BY DEF Coherent
  <2>2. EventFits(p)'
    BY <1>1, <2>1, EventStays DEF Fits
  <2>3. Touched(p)' = Touched(p) /\ Left(p)' = Left(p)
    BY <1>1 DEF Touched, Left
  <2>4. OnlyHolder(p)' /\ ProgressFits(p)' /\ ChangesFit(p)'
    BY <1>1, <2>1, <2>3 DEF Fits, OnlyHolder, ProgressFits, ChangesFit
  <2>. QED BY <2>2, <2>4 DEF Fits
<1>. QED BY <1>1, <1>2, <1>3, SeenKept, SameLog DEF Coherent

\* Every step but a write and a kill changes nothing that a reader sees.
HiddenStep == Coherent' /\ SeenSame /\ shards' = shards /\ kills' = kills

LEMMA Steps ==
  ASSUME Coherent, [Next]_vars
  PROVE  HiddenStep \/ \E p \in Authors : Write(p) \/ Kill(p)
<1>1. ASSUME NEW p \in Authors, NEW order \in Orders, Begin(p, order) PROVE HiddenStep
  BY <1>1, BeginStep DEF Begin, HiddenStep
<1>2. ASSUME NEW p \in Authors, NEW now \in Instants, NEW causes \in CauseChoices,
             NEW text \in Texts, Capture(p, now, causes, text)
      PROVE  HiddenStep
  BY <1>2, CaptureStep DEF Capture, HiddenStep
<1>3. ASSUME NEW p \in Authors, Mutate(p) PROVE HiddenStep
  BY <1>3, MutateStep DEF Mutate, HiddenStep
<1>4. ASSUME NEW p \in Authors, Fail(p) PROVE HiddenStep
  BY <1>4, FailStep DEF Fail, HiddenStep
<1>5. ASSUME NEW p \in Authors, Restore(p) PROVE HiddenStep
  BY <1>5, RestoreStep DEF Restore, HiddenStep
<1>6. ASSUME UNCHANGED vars PROVE HiddenStep
  BY <1>6, StutterIsCoherent DEF vars, HiddenStep
<1>. QED BY <1>1, <1>2, <1>3, <1>4, <1>5, <1>6 DEF Next

LEMMA NextIsCoherent == Coherent /\ [Next]_vars => Coherent'
BY Steps, WriteStep, KillStep DEF HiddenStep

\* The states of a command are those its type names: what is on disk is files of
\* events, and whoever is in the log holds worldline/.lock
\* (delivery_worldline.py:41-94).
THEOREM CommitTypeCorrect == Spec => []TypeOK
<1>1. Coherent => TypeOK
  BY DEF Coherent
<1>. QED BY <1>1, InitIsCoherent, NextIsCoherent, PTL DEF Spec

----------------------------------------------------------------------------
(* The log and the Tickets stay readable *)

\* Until a process is killed the log is readable, and what a reader sees of a
\* Ticket is never a directory without a definition.
Unbroken == kills = 0 => Readable /\ \A t \in TicketIds : Seen(t) # Bare

LEMMA UnbrokenStep ==
  ASSUME Texts \subseteq {"plain"}, Coherent, Unbroken, [Next]_vars
  PROVE  Unbroken'
<1>1. kills \in Nat
  BY BoundsAssumption DEF Coherent, TypeOK
<1>2. CASE HiddenStep
  <2>1. /\ shards' = shards /\ kills' = kills /\ \A t \in TicketIds : Seen(t)' = Seen(t)
    BY <1>2 DEF HiddenStep, SeenSame
  <2>. QED BY <2>1, SameLog DEF Unbroken
<1>3. ASSUME NEW p \in Authors, Write(p) PROVE Unbroken'
  <2>1. kills' = kills /\ author[p].pc \in InLog
    BY <1>3 DEF Write, InLog
  <2>2. author[p].text = "plain" /\ author[p].event.id \in EventId
    BY <2>1, WriterKnows
  <2>3. Readable'
    BY <1>3, <2>2, Written
  <2>4. \A t \in TicketIds : Seen(t)' = author[p].event.id \/ Seen(t)' = Seen(t)
    BY <1>3, WriteStep
  <2>5. author[p].event.id # Bare
    BY <2>2, MarkerAssumption
  <2>. QED BY <2>1, <2>3, <2>4, <2>5 DEF Unbroken
<1>4. ASSUME NEW p \in Authors, Kill(p) PROVE Unbroken'
  BY <1>1, <1>4 DEF Kill, Unbroken
<1>. QED BY <1>2, <1>3, <1>4, Steps

\* As long as no process dies inside a command, and no text holds a separator that a
\* reader splits a line at, every append leaves a log that can be read and every
\* command Tickets that can be loaded, for any clock that goes forward or back, any
\* file size and any number of processes, events and failures
\* (delivery_worldline.py:41-94, ticket_graph.py:283-420).
THEOREM LogStaysReadable ==
  ASSUME Texts \subseteq {"plain"}
  PROVE  Spec => []ReadableUnlessKilled
<1>1. Init => Unbroken
  <2>. SUFFICES ASSUME Init PROVE Unbroken
    OBVIOUS
  <2>1. ASSUME NEW t \in TicketIds PROVE Seen(t) # Bare
    BY SeenIs, MarkerAssumption DEF Init
  <2>. QED BY <2>1, EmptyLog DEF Init, Unbroken
<1>2. Coherent /\ Unbroken /\ [Next]_vars => Unbroken'
  BY UnbrokenStep
<1>3. Unbroken => ReadableUnlessKilled
  <2>1. ASSUME NEW t \in TicketIds, ticketsLock = Nobody PROVE Seen(t) = tickets[t]
    BY <2>1, SeenIs
  <2>. QED BY <2>1 DEF Unbroken, ReadableUnlessKilled, Loadable
<1>. QED BY <1>1, <1>2, <1>3, InitIsCoherent, NextIsCoherent, PTL DEF Spec

----------------------------------------------------------------------------
(* The commands are atomic *)

Versions == [t \in TicketIds |-> Seen(t)]

LEMMA VersionsNext == Versions' = [t \in TicketIds |-> Seen(t)']
BY DEF Versions

LEMMA HiddenIsStutter ==
  ASSUME SeenSame, Recorded' = Recorded, kills' = kills
  PROVE  UNCHANGED <<Recorded, Versions, kills>>
<1>1. Versions' = Versions
  BY VersionsNext DEF Versions, SeenSame
<1>. QED BY <1>1

LEMMA WriteIsCommit ==
  ASSUME Coherent, NEW p \in Authors, Write(p)
  PROVE  [History!Next]_<<Recorded, Versions, kills>>
<1>. DEFINE e == author[p].event
<1>1. /\ Files(shards) /\ author[p].event \in Event /\ kills' = kills
      /\ e.id \notin EventIds(Lines) /\ e.causes \subseteq EventIds(Lines)
      /\ author[p].text = "plain" => Recorded = Lines /\ Recorded' = Append(Recorded, e)
      /\ author[p].text # "plain" => Recorded' = Recorded
  BY Written, TypedFiles DEF Write, Coherent
<1>2. /\ \A t \in TicketIds : Seen(t)' = IF t \in e.affected THEN e.id ELSE Seen(t)
      /\ author[p].text # "plain" => SeenSame
  BY WriteStep
<1>. HIDE DEF e
<1>3. CASE author[p].text # "plain"
  BY <1>1, <1>2, <1>3, HiddenIsStutter
<1>4. CASE author[p].text = "plain"
  <2>1. Recorded \in Seq(Event) /\ e \in Event
    BY <1>1, LogTypes DEF e
  <2>2. Len(Recorded') = Len(Recorded) + 1 /\ Recorded'[Len(Recorded')] = e
    BY <1>1, <1>4, <2>1, AppendProperties
  <2>3. History!Ids = EventIds(Lines)
    BY <1>1, <1>4, <2>1, EventsOfLines DEF History!Ids
  <2>4. Versions' = [t \in TicketIds |-> IF t \in e.affected THEN e.id ELSE Versions[t]]
    BY <1>2, VersionsNext DEF Versions
  <2>5. History!Commit(e)
    BY <1>1, <1>4, <2>3, <2>4 DEF History!Commit, Versions
  <2>. QED BY <2>2, <2>5 DEF History!Next
<1>. QED BY <1>3, <1>4

LEMMA KillIsDeath ==
  ASSUME Coherent, NEW p \in Authors, Kill(p)
  PROVE  History!Next
<1>. DEFINE e == author[p].event
            moved == {Versions'[t] : t \in {u \in TicketIds : Versions'[u] # Versions[u]}}
<1>1. /\ Recorded' = Recorded /\ kills' = kills + 1
      /\ \A t \in TicketIds : Seen(t)' # Seen(t) =>
            author[p].pc \in InLog /\ Seen(t)' \in {e.id, Bare}
  BY KillStep
<1>2. \A t \in TicketIds : Versions'[t] = Seen(t)' /\ Versions[t] = Seen(t)
  BY VersionsNext DEF Versions
<1>3. moved \subseteq {e.id, Bare} /\ (moved # {} => author[p].pc \in InLog)
  BY <1>1, <1>2
<1>. HIDE DEF moved
<1>4. /\ Recorded \in Seq(Event) /\ History!Ids = EventIds(Recorded) /\ EventIds(Recorded) \subseteq EventId
  BY TypedFiles, LogTypes, EventsOfLines DEF Coherent, History!Ids
<1>5. moved \cap History!Ids = {}
  <2>1. CASE moved = {}
    BY <2>1
  <2>2. CASE moved # {}
    <3>1. author[p].pc \in InLog
      BY <2>2, <1>3
    <3>2. e.id \notin EventIds(Lines) /\ Files(shards) /\ Readable
      BY <3>1, WriterKnows
    <3>3. Recorded = Lines
      BY <3>2, ReadableLog
    <3>4. Bare \notin EventId
      BY MarkerAssumption
    <3>. QED BY <3>2, <3>3, <3>4, <1>3, <1>4
  <2>. QED BY <2>1, <2>2
<1>6. \A v, w \in moved \ {Bare} : v = w
  BY <1>3
<1>7. DOMAIN Versions' = TicketIds
  BY VersionsNext
<1>8. History!Death
  <2>. DEFINE versions == [t \in TicketIds |-> Seen(t)]
              all == {versions'[s] : s \in {u \in TicketIds : versions'[u] # versions[u]}}
  <2>1. all = moved /\ DOMAIN versions' = TicketIds
    BY <1>7 DEF moved, Versions
  <2>2. all \cap History!Ids = {} /\ \A v, w \in all \ {Bare} : v = w
    <3>. HIDE DEF all
    <3>. QED BY <2>1, <1>5, <1>6
  <2>. QED BY <2>1, <2>2, <1>1 DEF History!Death
<1>. QED BY <1>8 DEF History!Next

\* Whatever the interleaving of commands, the failures and their rollback, the kills,
\* the clocks and the file boundaries, whoever takes tickets/.lock sees commands that
\* happened at once or not at all: the files, the locks and the writes implement the
\* history of atomic commits (delivery_worldline.py:41-94, ticket_graph.py:283-420).
THEOREM CommitsAreAtomic == Spec => CommandsAreAtomic
<1>1. Init => History!Init
  <2>. SUFFICES ASSUME Init PROVE History!Init
    OBVIOUS
  <2>1. ASSUME NEW t \in TicketIds PROVE Seen(t) = Absent
    BY SeenIs DEF Init
  <2>2. Recorded = <<>>
    BY EmptyLog DEF Init
  <2>3. [t \in TicketIds |-> Seen(t)] = [t \in TicketIds |-> Absent]
    BY <2>1
  <2>. QED BY <2>2, <2>3 DEF Init, History!Init
<1>2. Coherent /\ [Next]_vars => [History!Next]_<<Recorded, Versions, kills>>
  <2>. SUFFICES ASSUME Coherent, [Next]_vars
                PROVE  [History!Next]_<<Recorded, Versions, kills>>
    OBVIOUS
  <2>1. CASE HiddenStep
    BY <2>1, HiddenIsStutter, SameLog DEF HiddenStep
  <2>. QED BY <2>1, Steps, WriteIsCommit, KillIsDeath
<1>3. Coherent /\ [Next]_vars => [History!Next]_<<Recorded, [t \in TicketIds |-> Seen(t)], kills>>
  BY <1>2 DEF Versions
<1>. QED BY <1>1, <1>3, InitIsCoherent, NextIsCoherent, PTL
     DEF Spec, CommandsAreAtomic, History!Spec
=============================================================================
