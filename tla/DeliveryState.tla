--------------------------- MODULE DeliveryState ---------------------------
(***************************************************************************)
(* Delivery State requests (graph/delivery_state.py): how a Team starts,   *)
(* fixes a candidate, is reviewed, reworks, is replaced and retires, and   *)
(* how each step reaches the disk.  Main's generic status update           *)
(* (graph/ticket_graph.py) and the records Main's integration writes       *)
(* (teams/coding/ticket_integration.py) act on the same ticket.yml.        *)
(*                                                                         *)
(* A call reads the Ticket and its Team, computes what both are to become  *)
(* and commits that under worldline/.lock: team.yml, then ticket.yml, then *)
(* one Worldline event, or the rollback of both files.  Delivery State     *)
(* requests do not take tickets/.lock, so what they commit may be stale.   *)
(* A killed process releases its locks and leaves the files it has already *)
(* replaced.                                                               *)
(*                                                                         *)
(* Of a seat only whether it has a Session is kept: no guard tells one     *)
(* Session of a seat from another.  Worktree and branch are carried along  *)
(* unchanged, the Leader's Session never changes within a generation, and  *)
(* all three are left out.                                                 *)
(***************************************************************************)
EXTENDS Tickets, Naturals

CONSTANTS Candidates,      \* candidate commits
          Reviewers,       \* the review axes that have a Team seat
          Clients,         \* concurrent callers: Team drivers, Main's commands
          NoCandidate,
          Engineer,        \* the Engineer's seat
          Nobody,          \* holder of a free lock
          MaxGeneration, MaxRound, MaxCrashes   \* bounds

ASSUME BoundsAssumption ==
  /\ MaxGeneration \in Nat \ {0} /\ MaxRound \in Nat \ {0}
  /\ MaxCrashes \in Nat
ASSUME SentinelAssumption ==
  NoCandidate \notin Candidates /\ Engineer \notin Reviewers /\ Nobody \notin Clients
ASSUME TicketsAssumption == TicketIds # {}

VARIABLES ticket,        \* ticket.yml
          team,          \* team.yml of every generation
          closed,        \* the Team Rounds whose directory is read-only
          rework,        \* the Round whose confirmed rejection is the Ticket's
                         \* latest Worldline event; 0 when that is another event
          logged,        \* the status that the Ticket's events say it has
          retirements,   \* <<generation, kind>> of the retirement events
          rejections,    \* <<generation, round>> of the confirmed rejections
          accepted,      \* <<generation, candidate>> of the acceptances
          call,          \* what each client is doing
          ticketsLock, worldlineLock,
          crashes

disk == <<ticket, team, closed>>
worldline == <<rework, logged, retirements, rejections, accepted>>
locks == <<ticketsLock, worldlineLock>>
vars == <<disk, worldline, call, locks, crashes>>

Seats == {Engineer} \cup Reviewers
Generations == 1..MaxGeneration
Rounds == 1..MaxRound

TicketRecord == [status : Status, ordinal : 0..MaxGeneration,
                 candidate : Candidates \cup {NoCandidate}]

TeamRecord == [status : {"none", "active", "retiring", "retired"},
               members : SUBSET Seats, round : 0..MaxRound]

NoTeam == [status |-> "none", members |-> {}, round |-> 0]
NewTeam == [NoTeam EXCEPT !.status = "active", !.round = 1]

\* What an event says: its kind, the Team and Round it names, the candidate, and
\* the status it moves the Ticket to (KeepsStatus when it moves it nowhere).
KeepsStatus == "keeps-status"

Kinds == {"team-started", "team-replaced", "team-retiring", "team-retired",
          "team-member-started", "team-member-replaced", "team-process-correction",
          "candidate-ready-for-review", "team-round-rework-started",
          "team-round-accepted", "team-round-rejected",
          "team-round-implementation-rejected", "ticket-state-changed",
          "ticket-integration-started", "ticket-integration-ended", "none"}

Event == [kind : Kinds, generation : 0..MaxGeneration, round : 0..MaxRound,
          candidate : Candidates \cup {NoCandidate}, to : Status \cup {KeepsStatus}]

NoEvent == [kind |-> "none", generation |-> 0, round |-> 0,
            candidate |-> NoCandidate, to |-> KeepsStatus]

\* A call: its progress, the Ticket it is about, the values it read (restored by
\* a rollback), the values it will write, and the event it will append.
Steps == {"idle", "prepared", "team-written", "ticket-written", "merging"}

IdleCall == [step |-> "idle", id |-> CHOOSE t \in TicketIds : TRUE,
             generation |-> 1, ticketRead |-> [status |-> "pending", ordinal |-> 0,
                                               candidate |-> NoCandidate],
             teamRead |-> NoTeam, ticketWrite |-> [status |-> "pending", ordinal |-> 0,
                                                   candidate |-> NoCandidate],
             teamWrite |-> NoTeam, event |-> NoEvent, wasClosed |-> FALSE]

Idle(c) == call[c].step = "idle"

\* A client has read what it needs and decided what to write.
Prepare(c, t, generation, ticketWrite, teamWrite, event) ==
  call' = [call EXCEPT ![c] =
             [step |-> "prepared", id |-> t, generation |-> generation,
              ticketRead |-> ticket[t], teamRead |-> team[t][generation],
              ticketWrite |-> ticketWrite, teamWrite |-> teamWrite, event |-> event,
              wasClosed |-> FALSE]]

EventOf(kind, generation, round, candidate, to) ==
  [kind |-> kind, generation |-> generation, round |-> round,
   candidate |-> candidate, to |-> to]

----------------------------------------------------------------------------
(* The phases of a Delivery State request *)

\* The generation the Ticket names (1 before its first Team).
Current(t) == IF ticket[t].ordinal = 0 THEN 1 ELSE ticket[t].ordinal

\* A mutated form: a retiring Team counts as retired.
ReplaceableEarly(t) ==
  /\ ticket[t].ordinal # 0
  /\ team[t][Current(t)].status \in {"retiring", "retired"}

\* start on a Ticket whose Team has retired.
Replaceable(t) ==
  /\ ticket[t].ordinal # 0
  /\ team[t][Current(t)].status = "retired"

FirstStartable(t) ==
  /\ ticket[t].ordinal = 0
  /\ ticket[t].status = "ready"
  /\ ticket[t].candidate = NoCandidate

\* start: Team generation 1 of a ready Ticket, or the successor of a retired one.
Start(c, t) ==
  /\ Idle(c)
  /\ FirstStartable(t) \/ Replaceable(t)
  /\ LET generation == ticket[t].ordinal + 1
     IN  /\ generation \in Generations
         /\ team[t][generation] = NoTeam
         /\ Prepare(c, t, generation,
                    [status |-> "implementing", ordinal |-> generation,
                     candidate |-> NoCandidate],
                    NewTeam,
                    EventOf(IF Replaceable(t) THEN "team-replaced" ELSE "team-started",
                            generation, 1, NoCandidate, "implementing"))
  /\ UNCHANGED <<disk, worldline, locks, crashes>>

\* A mutated form: any Team on disk may go on.
NeverStopped(t) == team[t][Current(t)].status # "none"

\* Every other phase finds the Team; all but `retired` need it active.
Working(t) == team[t][Current(t)].status = "active"

\* Round of the current Team, and a request that leaves the Ticket as it is.
Round(t) == team[t][Current(t)].round

TeamRequest(c, t, teamWrite, kind) ==
  Prepare(c, t, Current(t), ticket[t], teamWrite,
          EventOf(kind, Current(t), Round(t), NoCandidate, KeepsStatus))

\* retiring: Main or the user stops the Team from starting work.
Retire(c, t) ==
  /\ Idle(c)
  /\ Working(t)
  /\ TeamRequest(c, t, [team[t][Current(t)] EXCEPT !.status = "retiring"], "team-retiring")
  /\ UNCHANGED <<disk, worldline, locks, crashes>>

\* retired: the retiring Leader's trace is retained.
Retired(c, t) ==
  /\ Idle(c)
  /\ team[t][Current(t)].status = "retiring"
  /\ TeamRequest(c, t, [team[t][Current(t)] EXCEPT !.status = "retired"], "team-retired")
  /\ UNCHANGED <<disk, worldline, locks, crashes>>

\* replace-member: a fresh Session takes a seat other than the Leader's.
ReplaceMember(c, t, seat) ==
  /\ Idle(c)
  /\ Working(t)
  /\ TeamRequest(c, t, [team[t][Current(t)] EXCEPT !.members = @ \cup {seat}],
                 "team-member-replaced")
  /\ UNCHANGED <<disk, worldline, locks, crashes>>

\* member: the first Session of a seat, in that seat's delivery phase.
Member(c, t, seat) ==
  /\ Idle(c)
  /\ Working(t)
  /\ seat \notin team[t][Current(t)].members
  /\ ticket[t].status = IF seat = Engineer THEN "implementing" ELSE "reviewing"
  /\ TeamRequest(c, t, [team[t][Current(t)] EXCEPT !.members = @ \cup {seat}],
                 "team-member-started")
  /\ UNCHANGED <<disk, worldline, locks, crashes>>

\* correction: the responsible Session resumes; an Engineer's withdraws the
\* fixed candidate.
Correction(c, t, seat) ==
  /\ Idle(c)
  /\ Working(t)
  /\ ticket[t].status = "reviewing"
  /\ seat \in team[t][Current(t)].members
  /\ Prepare(c, t, Current(t),
             IF seat = Engineer THEN [ticket[t] EXCEPT !.candidate = NoCandidate]
             ELSE ticket[t],
             team[t][Current(t)],
             EventOf("team-process-correction", Current(t), Round(t), NoCandidate, KeepsStatus))
  /\ UNCHANGED <<disk, worldline, locks, crashes>>

\* candidate: the Engineer's commit is fixed for review.
Candidate(c, t, candidate) ==
  /\ Idle(c)
  /\ Working(t)
  /\ ticket[t].status \in {"implementing", "reviewing"}
  /\ ticket[t].candidate # candidate
  /\ Engineer \in team[t][Current(t)].members
  /\ Prepare(c, t, Current(t),
             [ticket[t] EXCEPT !.status = "reviewing", !.candidate = candidate],
             team[t][Current(t)],
             EventOf("candidate-ready-for-review", Current(t), Round(t), candidate, "reviewing"))
  /\ UNCHANGED <<disk, worldline, locks, crashes>>

\* A mutated form: rework accepts any reworking Ticket.
UnconfirmedRework(t) == ticket[t].status = "reworking"

\* rework needs the confirmed rejection of this very Round as the latest event.
ConfirmedRework(t) ==
  /\ ticket[t].status = "reworking"
  /\ rework[t] = Round(t)

\* rework: the same Team opens its next Round.
Rework(c, t) ==
  /\ Idle(c)
  /\ Working(t)
  /\ ConfirmedRework(t)
  /\ Round(t) + 1 \in Rounds
  /\ Prepare(c, t, Current(t),
             [ticket[t] EXCEPT !.status = "implementing", !.candidate = NoCandidate],
             [team[t][Current(t)] EXCEPT !.round = @ + 1],
             EventOf("team-round-rework-started", Current(t), Round(t) + 1,
                     NoCandidate, "implementing"))
  /\ UNCHANGED <<disk, worldline, locks, crashes>>

Decisions == {"accepted", "rejected", "implementation-rejected"}

\* A mutated form: a rejected implementation goes straight back to implementing.
EagerStatus(t, decision) ==
  CASE decision = "accepted" -> "awaiting-integration"
    [] decision = "implementation-rejected" -> "implementing"
    [] decision = "rejected" -> ticket[t].status

DecidedStatus(t, decision) ==
  CASE decision = "accepted" -> "awaiting-integration"
    [] decision = "implementation-rejected" -> "reworking"
    [] decision = "rejected" -> ticket[t].status

KindOf(decision) ==
  CASE decision = "accepted" -> "team-round-accepted"
    [] decision = "implementation-rejected" -> "team-round-implementation-rejected"
    [] decision = "rejected" -> "team-round-rejected"

\* final: the Leader decides on the fixed candidate; `reported` are the axes
\* whose report the decision cites (an implementation rejection cites them all).
Final(c, t, decision, reported) ==
  /\ Idle(c)
  /\ Working(t)
  /\ ticket[t].status = "reviewing"
  /\ ticket[t].candidate # NoCandidate
  /\ {Engineer} \cup reported \subseteq team[t][Current(t)].members
  /\ decision = "implementation-rejected" => reported = Reviewers
  /\ Prepare(c, t, Current(t),
             [ticket[t] EXCEPT !.status = DecidedStatus(t, decision)],
             team[t][Current(t)],
             EventOf(KindOf(decision), Current(t), Round(t), ticket[t].candidate,
                     DecidedStatus(t, decision)))
  /\ UNCHANGED <<disk, worldline, locks, crashes>>

----------------------------------------------------------------------------
(* Main's status update and integration records: under tickets/.lock *)

\* update_ticket_state reads under the lock it keeps until it has committed.
UpdateTicketState(c, t, status, ordinal, candidate) ==
  /\ Idle(c)
  /\ ticketsLock = Nobody
  /\ status \in Transitions[ticket[t].status] \ IntegrationOnly
  /\ Prepare(c, t, Current(t),
             [status |-> status, ordinal |-> ordinal, candidate |-> candidate],
             team[t][Current(t)],
             EventOf("ticket-state-changed", ordinal, 0, candidate, status))
  /\ ticketsLock' = c
  /\ UNCHANGED <<disk, worldline, worldlineLock, crashes>>

\* A mutated form: the acceptance of the candidate by any Team counts.
AcceptedOnce(t) == \E g \in Generations : <<g, ticket[t].candidate>> \in accepted[t]

\* The Worldline has the acceptance of the Ticket's candidate by the Team it names.
Accepted(t) == <<ticket[t].ordinal, ticket[t].candidate>> \in accepted[t]

\* _integrate reads the Ticket once, without tickets/.lock, and needs the
\* acceptance of its candidate by its current Team.
IntegrationStart(c, t) ==
  /\ Idle(c)
  /\ ticket[t].status \in {"awaiting-integration", "integrating"}
  /\ Accepted(t)
  /\ Prepare(c, t, Current(t), [ticket[t] EXCEPT !.status = "integrating"],
             team[t][Current(t)],
             EventOf("ticket-integration-started", 0, 0, ticket[t].candidate, "integrating"))
  /\ UNCHANGED <<disk, worldline, locks, crashes>>

\* The outcome is written over the record that the same call started from.
IntegrationEnd(c, status) ==
  /\ call[c].step = "merging"
  /\ call' = [call EXCEPT ![c].step = "prepared",
                          ![c].ticketWrite.status = status,
                          ![c].event.kind = "ticket-integration-ended",
                          ![c].event.to = status]
  /\ UNCHANGED <<disk, worldline, locks, crashes>>

----------------------------------------------------------------------------
(* The commit under worldline/.lock *)

\* Calls that hold tickets/.lock while they commit; they leave team.yml alone.
Locked(c) == call[c].event.kind \in {"ticket-state-changed", "ticket-integration-started",
                                     "ticket-integration-ended"}

\* The locks are taken in the order tickets/.lock, worldline/.lock; the team file
\* is replaced first.  A locked call rolls back to what it finds under the lock,
\* a Delivery State request to what it read before it.
WriteTeam(c) ==
  LET t == call[c].id
  IN  /\ call[c].step = "prepared"
      /\ worldlineLock = Nobody
      /\ worldlineLock' = c
      /\ IF Locked(c)
         THEN /\ ticketsLock \in {Nobody, c}
              /\ ticketsLock' = c
              /\ call' = [call EXCEPT ![c].step = "team-written", ![c].ticketRead = ticket[t]]
              /\ UNCHANGED team
         ELSE /\ team' = [team EXCEPT ![t][call[c].generation] = call[c].teamWrite]
              /\ call' = [call EXCEPT ![c].step = "team-written"]
              /\ UNCHANGED ticketsLock
      /\ UNCHANGED <<ticket, closed, worldline, crashes>>

\* A mutated form: only an acceptance closes its Round.
ClosesOnAcceptance(event) == event.kind = "team-round-accepted"

\* The decisions that make the Round's directory read-only.
ClosesRound(event) ==
  event.kind \in {"team-round-accepted", "team-round-implementation-rejected"}

WriteTicket(c) ==
  LET t == call[c].id
      round == <<call[c].event.generation, call[c].event.round>>
  IN  /\ call[c].step = "team-written"
      /\ ticket' = [ticket EXCEPT ![t] = call[c].ticketWrite]
      /\ closed' = IF ClosesRound(call[c].event)
                   THEN [closed EXCEPT ![t] = @ \cup {round}] ELSE closed
      /\ call' = [call EXCEPT ![c].step = "ticket-written",
                              ![c].wasClosed = round \in closed[t]]
      /\ UNCHANGED <<team, worldline, locks, crashes>>

Release(c) ==
  /\ worldlineLock' = IF worldlineLock = c THEN Nobody ELSE worldlineLock
  /\ ticketsLock' = IF ticketsLock = c THEN Nobody ELSE ticketsLock

\* The event is appended and the call ends; a started integration goes on to merge
\* with the record it has just written.
Append(c) ==
  LET t == call[c].id
      e == call[c].event
  IN  /\ call[c].step = "ticket-written"
      /\ rework' = [rework EXCEPT ![t] =
                      IF e.kind = "team-round-implementation-rejected" THEN e.round ELSE 0]
      /\ logged' = IF e.to = KeepsStatus THEN logged ELSE [logged EXCEPT ![t] = e.to]
      /\ retirements' =
           IF e.kind \in {"team-retiring", "team-retired"}
           THEN [retirements EXCEPT ![t] = @ \cup {<<e.generation, e.kind>>}]
           ELSE retirements
      /\ rejections' =
           IF e.kind = "team-round-implementation-rejected"
           THEN [rejections EXCEPT ![t] = @ \cup {<<e.generation, e.round>>}]
           ELSE rejections
      /\ accepted' =
           IF e.kind = "team-round-accepted"
           THEN [accepted EXCEPT ![t] = @ \cup {<<e.generation, e.candidate>>}]
           ELSE accepted
      /\ call' = [call EXCEPT ![c] =
                    IF e.kind = "ticket-integration-started"
                    THEN [@ EXCEPT !.step = "merging", !.ticketRead = call[c].ticketWrite]
                    ELSE IdleCall]
      /\ Release(c)
      /\ UNCHANGED <<disk, crashes>>

\* A mutated form: the rollback leaves ticket.yml as it is.
TicketKept(c) == ticket[call[c].id]

TicketRestored(c) == call[c].ticketRead

\* The mutation or the append raises: both files go back to what was read, and
\* the Round's directory to the mode it had.
RollBack(c) ==
  LET t == call[c].id
      e == call[c].event
  IN  /\ call[c].step \in {"team-written", "ticket-written"}
      /\ ticket' = [ticket EXCEPT ![t] = TicketRestored(c)]
      /\ team' = IF Locked(c) THEN team
                 ELSE [team EXCEPT ![t][call[c].generation] = call[c].teamRead]
      /\ closed' = IF call[c].step = "ticket-written" /\ ClosesRound(e) /\ ~call[c].wasClosed
                   THEN [closed EXCEPT ![t] = @ \ {<<e.generation, e.round>>}] ELSE closed
      /\ call' = [call EXCEPT ![c] = IdleCall]
      /\ Release(c)
      /\ UNCHANGED <<worldline, crashes>>

\* The append refuses before it calls the mutation: an unknown cause, or a clock
\* behind the last event.
Refuse(c) ==
  /\ call[c].step = "prepared"
  /\ call' = [call EXCEPT ![c] = IdleCall]
  /\ Release(c)
  /\ UNCHANGED <<disk, worldline, crashes>>

\* The client's process is killed inside a call.
Crash(c) ==
  /\ ~Idle(c)
  /\ crashes < MaxCrashes
  /\ crashes' = crashes + 1
  /\ call' = [call EXCEPT ![c] = IdleCall]
  /\ Release(c)
  /\ UNCHANGED <<disk, worldline>>

----------------------------------------------------------------------------
Init ==
  /\ ticket = [t \in TicketIds |-> [status |-> "ready", ordinal |-> 0,
                                     candidate |-> NoCandidate]]
  /\ team = [t \in TicketIds |-> [g \in Generations |-> NoTeam]]
  /\ closed = [t \in TicketIds |-> {}]
  /\ rework = [t \in TicketIds |-> 0]
  /\ logged = [t \in TicketIds |-> "ready"]
  /\ retirements = [t \in TicketIds |-> {}]
  /\ rejections = [t \in TicketIds |-> {}]
  /\ accepted = [t \in TicketIds |-> {}]
  /\ call = [c \in Clients |-> IdleCall]
  /\ ticketsLock = Nobody
  /\ worldlineLock = Nobody
  /\ crashes = 0

\* One Delivery State request on t.
Request(c, t) ==
  \/ Start(c, t)
  \/ Retire(c, t)
  \/ Retired(c, t)
  \/ Rework(c, t)
  \/ \E seat \in Seats :
        ReplaceMember(c, t, seat) \/ Member(c, t, seat) \/ Correction(c, t, seat)
  \/ \E candidate \in Candidates : Candidate(c, t, candidate)
  \/ \E decision \in Decisions, reported \in SUBSET Reviewers :
        Final(c, t, decision, reported)

\* The ordinal and candidate that Main's updates are checked with: Main writes
\* any pair it likes; these are what it reads in the graph, and nothing.
MainFacts(t) == {<<ticket[t].ordinal, ticket[t].candidate>>, <<0, NoCandidate>>}

Command(c, t) ==
  \/ \E status \in Status, facts \in MainFacts(t) :
        UpdateTicketState(c, t, status, facts[1], facts[2])
  \/ IntegrationStart(c, t)

Progress(c) ==
  \/ \E status \in {"integrated", "integrating", "escalated"} : IntegrationEnd(c, status)
  \/ WriteTeam(c)
  \/ WriteTicket(c)
  \/ Append(c)
  \/ RollBack(c)
  \/ Refuse(c)
  \/ Crash(c)

Step(c) == Progress(c) \/ \E t \in TicketIds : Request(c, t) \/ Command(c, t)

\* Calls interleave as the locks allow.
Next == \E c \in Clients : Step(c)

Spec == Init /\ [][Next]_vars

\* Calls follow one another: whoever drives delivery waits for each to end.
SerialNext == \E c \in Clients : (\A d \in Clients \ {c} : Idle(d)) /\ Step(c)

SerialSpec == Init /\ [][SerialNext]_vars

----------------------------------------------------------------------------
(* Properties *)

TypeOK ==
  /\ ticket \in [TicketIds -> TicketRecord]
  /\ team \in [TicketIds -> [Generations -> TeamRecord]]
  /\ closed \in [TicketIds -> SUBSET (Generations \X Rounds)]
  /\ rework \in [TicketIds -> 0..MaxRound]
  /\ logged \in [TicketIds -> Status]
  /\ retirements \in [TicketIds -> SUBSET (Generations \X {"team-retiring", "team-retired"})]
  /\ rejections \in [TicketIds -> SUBSET (Generations \X Rounds)]
  /\ accepted \in [TicketIds -> SUBSET (Generations \X Candidates)]
  /\ call \in [Clients -> [step : Steps, id : TicketIds, generation : Generations,
                           ticketRead : TicketRecord, ticketWrite : TicketRecord,
                           teamRead : TeamRecord, teamWrite : TeamRecord,
                           event : Event, wasClosed : BOOLEAN]]
  /\ ticketsLock \in Clients \cup {Nobody}
  /\ worldlineLock \in Clients \cup {Nobody}
  /\ crashes \in 0..MaxCrashes

\* No call has replaced a file of t without having ended.
Settled(t) ==
  \A c \in Clients : call[c].id = t => call[c].step \notin {"team-written", "ticket-written"}

\* A Team generation exists only after every earlier one has retired, whatever
\* Main writes into the Ticket and wherever a call is rolled back or killed: two
\* generations never work on one Ticket (the start guard).
SupersededTeamsAreRetired ==
  \A t \in TicketIds, g, h \in Generations :
     (g < h /\ team[t][h].status # "none") => team[t][g].status = "retired"

\* Once the Worldline says that a Team is retiring or retired, its team.yml never
\* says otherwise: "The Team has stopped starting new work."
RetirementIsPermanent ==
  \A t \in TicketIds, g \in Generations :
     Settled(t) =>
        /\ <<g, "team-retiring">> \in retirements[t] => team[t][g].status \in {"retiring", "retired"}
        /\ <<g, "team-retired">> \in retirements[t] => team[t][g].status = "retired"

\* A Team is in Round r + 1 only because the Worldline confirmed the rejection of
\* Round r, whose directory has been read-only since (the rework and final phases).
\* Five kills can break it: the rework phase compares the last event's Ticket and
\* Round with the Team's, not its ordinal; fewer cannot (DeliveryStateProofs).
RoundsOpenedByRejection ==
  \A t \in TicketIds, g \in Generations, r \in Rounds :
     r < team[t][g].round => <<g, r>> \in rejections[t] \cap closed[t]

\* What is being integrated or is integrated was accepted: the Ticket names a candidate
\* and the generation whose acceptance of it the Worldline has, also while a call has
\* written one file of two and after kills (_integrate and Main's updates).
IntegratedWasAccepted ==
  \A t \in TicketIds :
     ticket[t].status \in IntegrationOnly =>
       <<ticket[t].ordinal, ticket[t].candidate>> \in accepted[t]

\* Replaying the events gives the status on disk: a state change and its causal
\* event come together or not at all, unless the process was killed between them.
StatusFollowsWorldline ==
  \A t \in TicketIds : (Settled(t) /\ crashes = 0) => ticket[t].status = logged[t]

\* The transition table gives an integrated Ticket no successor status, and Main's
\* updates, a Team's late phases and the integrations keep to it; one request
\* does not: the start of a Team in the place of a retired one.
IntegratedReopensOnlyByReplacement ==
  [][\A t \in TicketIds :
       LET old == ticket[t]
           new == ticket'[t]
       IN  old.status = "integrated" /\ logged[t] = "integrated" /\ new.status # "integrated" =>
             /\ new.status = "implementing" /\ new.ordinal = old.ordinal + 1
             /\ old.ordinal \in Generations /\ team[t][old.ordinal].status = "retired"]_vars

\* The holder of worldline/.lock has replaced files of t that it may yet put back.
Held(t) == worldlineLock # Nobody /\ call[worldlineLock].id = t

\* A Ticket and a Team without what that call has written.
KnownTicket(t) == IF Held(t) THEN call[worldlineLock].ticketRead ELSE ticket[t]

KnownStage(t, g) ==
  IF Held(t) /\ call[worldlineLock].generation = g THEN call[worldlineLock].teamRead.status
  ELSE team[t][g].status

Life == INSTANCE TicketLife
          WITH ticket <- [t \in TicketIds |-> KnownTicket(t)],
               stage <- [t \in TicketIds |-> [g \in Generations |-> KnownStage(t, g)]]

\* Each request and command is one step of a Ticket's life or none, however many
\* files it replaces and wherever it is refused, rolled back or killed: the Ticket
\* moves along the transition table, a Team begins when all before it have retired
\* and only goes forward, and only an accepted candidate is integrated.
TicketsKeepTheirLife == Life!Spec
============================================================================
