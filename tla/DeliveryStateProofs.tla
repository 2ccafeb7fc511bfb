-------------------------- MODULE DeliveryStateProofs --------------------------
(***************************************************************************)
(* What holds of Delivery State requests that follow one another, for any  *)
(* Tickets, candidates, reviewers and callers, wherever a call is refused, *)
(* rolled back or killed; types hold however calls interleave.             *)
(***************************************************************************)
EXTENDS DeliveryState, TLAPS

----------------------------------------------------------------------------
(* What a call goes by *)

Starting(r) == r.event.kind \in {"team-started", "team-replaced"}
LockedCall(r) == r.event.kind \in {"ticket-state-changed", "ticket-integration-started",
                                   "ticket-integration-ended"}

\* A Team on disk has opened a Round.
Formed(tm) == tm.status # "none" => tm.round \in Rounds

\* What a call appends names the Team and Round it is about.
Names(e, g) ==
  /\ ClosesRound(e) => e.generation = g /\ e.round \in Rounds
  /\ e.kind = "team-round-accepted" => e.candidate \in Candidates
  /\ e.kind \in {"team-retiring", "team-retired"} => e.generation = g

EventNames(r) == Formed(r.teamRead) /\ Formed(r.teamWrite) /\ Names(r.event, r.generation)

CallRecord == [step : Steps, id : TicketIds, generation : Generations,
               ticketRead : TicketRecord, ticketWrite : TicketRecord,
               teamRead : TeamRecord, teamWrite : TeamRecord,
               event : Event, wasClosed : BOOLEAN]

Typed ==
  /\ TypeOK
  /\ \A t \in TicketIds, g \in Generations : Formed(team[t][g])
  /\ \A c \in Clients : EventNames(call[c])

\* How what a call writes comes from what it read.
StartPlan(r) ==
  /\ r.teamRead.status = "none" /\ r.teamWrite.status = "active" /\ r.teamWrite.round = 1
  /\ r.generation = r.ticketRead.ordinal + 1 /\ r.ticketWrite.ordinal = r.generation
  /\ r.ticketWrite.status = "implementing"
  /\ r.ticketRead.status = "integrated" => r.ticketRead.ordinal # 0

LaterPlan(r) ==
  /\ r.ticketWrite.ordinal \in {r.ticketRead.ordinal, 0}
  /\ r.ticketWrite.status = "reworking" => r.ticketRead.status \in {"reviewing", "reworking"}
  /\ r.ticketRead.status = "integrated" => r.ticketWrite.status = "integrated"
  /\ \/ r.teamWrite.status = r.teamRead.status
     \/ r.teamRead.status = "active" /\ r.teamWrite.status = "retiring"
     \/ r.teamRead.status = "retiring" /\ r.teamWrite.status = "retired"

Plan(r) ==
  /\ IF Starting(r) THEN StartPlan(r) ELSE LaterPlan(r)
  /\ LockedCall(r) => r.teamWrite = r.teamRead
  /\ ~LockedCall(r) /\ ~Starting(r) => r.teamRead.status \in {"active", "retiring"}
  /\ r.event.kind = "ticket-integration-started" => r.event.to = "integrating"
  /\ r.step = "merging" => /\ r.event.kind = "ticket-integration-started"
                           /\ r.ticketRead.status = "integrating"
  /\ r.event.kind = "team-retiring" => r.teamWrite.status = "retiring"
  /\ r.event.kind = "team-retired" => r.teamWrite.status = "retired"
  /\ r.event.kind = "team-round-implementation-rejected" =>
       /\ r.generation = r.ticketRead.ordinal \/ r.ticketRead.ordinal = 0
       /\ r.ticketWrite.ordinal = r.ticketRead.ordinal
       /\ r.teamRead.status = "active" /\ r.teamWrite.status = "active"
  /\ r.ticketWrite.status =
       IF r.event.to = KeepsStatus THEN r.ticketRead.status ELSE r.event.to

\* The files are as the call under way has left them.
FilesFollow(c) ==
  LET r == call[c]
  IN  /\ ticket[r.id] = IF r.step = "ticket-written" THEN r.ticketWrite ELSE r.ticketRead
      /\ team[r.id][r.generation] =
           IF r.step \in {"team-written", "ticket-written"} THEN r.teamWrite ELSE r.teamRead

CallsAreSound ==
  \A c \in Clients : ~Idle(c) => Plan(call[c]) /\ FilesFollow(c)

----------------------------------------------------------------------------
(* Generations and retirement *)

\* Every generation before g has retired, none comes after it.
Frontier(t, g) ==
  \A h \in Generations : /\ h < g => team[t][h].status = "retired"
                         /\ h > g => team[t][h].status = "none"

RequestsAreAtTheFrontier ==
  \A c \in Clients : ~Idle(c) /\ ~LockedCall(call[c]) => Frontier(call[c].id, call[c].generation)

\* A team.yml that agrees with the events about that Team.
Agrees(tm, t, g) ==
  /\ <<g, "team-retiring">> \in retirements[t] => tm.status \in {"retiring", "retired"}
  /\ <<g, "team-retired">> \in retirements[t] => tm.status = "retired"
  /\ (\E r \in Rounds : <<g, r>> \in rejections[t]) => tm.status # "none"

TeamsAgree ==
  /\ \A t \in TicketIds, g \in Generations : Agrees(team[t][g], t, g)
  /\ \A c \in Clients : ~Idle(c) =>
       LET r == call[c]
       IN  Agrees(r.teamRead, r.id, r.generation) /\ Agrees(r.teamWrite, r.id, r.generation)

----------------------------------------------------------------------------
(* Rounds *)

\* A confirmed rejection has closed its Round, for good.
RejectionsClose ==
  /\ \A t \in TicketIds : rejections[t] \subseteq closed[t]
  /\ \A c \in Clients :
       LET r == call[c]
           round == <<r.event.generation, r.event.round>>
       IN  r.step = "ticket-written" /\ ClosesRound(r.event) =>
             /\ round \in closed[r.id]
             /\ ~r.wasClosed => round \notin rejections[r.id]

\* The Rounds behind a Team were rejected.
Opened(tm, t, g) == \A r \in Rounds : r < tm.round => <<g, r>> \in rejections[t]

TeamsAreOpened ==
  /\ \A t \in TicketIds, g \in Generations : Opened(team[t][g], t, g)
  /\ \A c \in Clients : ~Idle(c) =>
       LET r == call[c]
       IN  Opened(r.teamRead, r.id, r.generation) /\ Opened(r.teamWrite, r.id, r.generation)

\* How many events were lost to kills when a Ticket and its Teams are as tk and tm
\* although the last event is a rejection of a Round of generation h: one or two to
\* retire that Team, one to start the next, two to take the Ticket back to reworking.
Lost(n, tk, tm, h) ==
  /\ tm[h].status = "retiring" => n >= 1
  /\ tm[h].status = "retired" => n >= 2
  /\ \A g \in Generations : g > h /\ tm[g].status # "none" => n >= 3
  /\ tk.ordinal > h => /\ n >= 3
                       /\ tk.status = "reviewing" => n >= 4
                       /\ tk.status = "reworking" => n >= 5

\* The Teams of a Ticket as they were before a call.
Reverted(r) == [team[r.id] EXCEPT ![r.generation] = r.teamRead]

\* The rejection that the Worldline ends with, and what is to be seen of it when the
\* call under way has not counted.
Stands(t, h) ==
  /\ <<h, rework[t]>> \in rejections[t]
  /\ \A c \in Clients : ~Idle(c) /\ call[c].id = t =>
       Lost(crashes, call[c].ticketRead, Reverted(call[c]), h)
  /\ (\A c \in Clients : Idle(c) \/ call[c].id # t) => Lost(crashes, ticket[t], team[t], h)

ReworkStands == \A t \in TicketIds : rework[t] # 0 => \E h \in Generations : Stands(t, h)

----------------------------------------------------------------------------
(* Statuses *)

StatusesAreRead ==
  \A c \in Clients : ~Idle(c) /\ crashes = 0 => call[c].ticketRead.status = logged[call[c].id]

\* Only an integration that the Worldline says is under way integrates.
IntegrationsAreLogged ==
  \A c \in Clients : ~Idle(c) =>
     LET r == call[c]
     IN  /\ r.step = "merging" \/ r.event.kind = "ticket-integration-ended" =>
              logged[r.id] = "integrating"
         /\ r.ticketWrite.status = "integrated" =>
              \/ r.ticketRead.status = "integrated"
              \/ r.event.kind = "ticket-integration-ended"

----------------------------------------------------------------------------
(* The life of a Ticket *)

SameNames(new, old) == new.ordinal = old.ordinal /\ new.candidate = old.candidate

\* What a call is to be in the life of its Ticket, by what it read: the start of a Team,
\* an acceptance, a part of an integration, a retirement, a move or nothing.
LifePlan(r, acceptances) ==
  LET old == r.ticketRead
      new == r.ticketWrite
      kind == r.event.kind
  IN  /\ Starting(r) => /\ new.candidate = NoCandidate
                        /\ r.generation = 1 => old.status = "ready"
      /\ kind = "team-round-accepted" =>
           /\ old.status = "reviewing" /\ old.candidate # NoCandidate
           /\ r.teamRead.status = "active" /\ r.teamWrite.status = "active"
           /\ new.status = "awaiting-integration" /\ SameNames(new, old)
           /\ r.event.generation = r.generation /\ r.event.candidate = old.candidate
      /\ kind = "ticket-integration-started" =>
           /\ old.status \in {"awaiting-integration", "integrating"}
           /\ new.status = "integrating" /\ SameNames(new, old)
           /\ <<old.ordinal, old.candidate>> \in acceptances[r.id]
      /\ kind = "ticket-integration-ended" =>
           /\ old.status = "integrating" /\ SameNames(new, old)
           /\ new.status \in {"integrated", "integrating", "escalated"}
      /\ ~Starting(r) /\ r.teamWrite.status # r.teamRead.status => new = old
      /\ kind \notin {"team-started", "team-replaced", "team-round-accepted",
                     "ticket-integration-started", "ticket-integration-ended"} =>
           \/ new = old
           \/ new.status \in Transitions[old.status] \ IntegrationOnly
           \/ /\ old.status = "reviewing" /\ new.status = "reviewing"
              /\ new.ordinal = old.ordinal /\ r.teamRead.status = "active"

LivesArePlanned == \A c \in Clients : ~Idle(c) => LifePlan(call[c], accepted)

\* worldline/.lock is held while files are replaced.
LockIsHeld ==
  \A c \in Clients : worldlineLock = c <=> call[c].step \in {"team-written", "ticket-written"}

----------------------------------------------------------------------------
(* What a call decides before it commits *)

\* c has read what is on disk and is to commit r.
Prepares(c, t, r) ==
  /\ r \in CallRecord /\ r.step = "prepared" /\ r.id = t
  /\ r.ticketRead = ticket[t] /\ r.teamRead = team[t][r.generation]
  /\ Idle(c) /\ call' = [call EXCEPT ![c] = r]
  /\ UNCHANGED <<disk, worldline, worldlineLock, crashes>>
  /\ ticketsLock' \in {ticketsLock, c}

\* What the guards of the requests and commands leave of it.
Decided(t, r) ==
  /\ EventNames(r) /\ Plan(r) /\ LifePlan(r, accepted)
  /\ Starting(r) =>
       r.generation = 1 \/ team[t][r.generation - 1].status = "retired"
  /\ r.event.kind \notin {"team-started", "team-replaced", "team-round-rework-started"} =>
       r.teamWrite.round = r.teamRead.round
  /\ r.event.kind = "team-round-rework-started" =>
       /\ r.ticketRead.status = "reworking" /\ r.teamRead.status = "active"
       /\ r.teamRead.round = rework[t] /\ r.teamWrite.round = r.teamRead.round + 1
       /\ r.generation = Current(t)
  /\ r.ticketWrite.status = "integrated" => r.ticketRead.status = "integrated"
  /\ r.event.kind # "ticket-integration-ended"

\* The bounds of generations, Rounds and kills.
LEMMA Numbers ==
  /\ 0 \in 0..MaxGeneration /\ 1 \in Generations /\ 0 \in 0..MaxRound /\ 1 \in Rounds
  /\ \A g \in Generations : g \in 0..MaxGeneration
  /\ \A g \in 0..MaxGeneration : g # 0 => g \in Generations
  /\ \A r \in Rounds : r \in 0..MaxRound
  /\ \A r \in 0..MaxRound : r # 0 => r \in Rounds
  /\ 0 \in 0..MaxCrashes
BY BoundsAssumption DEF BoundsAssumption, Generations, Rounds

\* The calls, as CallRecord names their type.
LEMMA CallTyped ==
  ASSUME Typed
  PROVE  call \in [Clients -> CallRecord]
BY DEF Typed, TypeOK, CallRecord

\* A decision that follows from the files is one a call may have prepared.
LEMMA PrepareReads ==
  ASSUME Typed, NEW c \in Clients, NEW t \in TicketIds, NEW g \in Generations,
         NEW tw \in TicketRecord, NEW mw \in TeamRecord, NEW e \in Event,
         Idle(c), Prepare(c, t, g, tw, mw, e), UNCHANGED <<disk, worldline, worldlineLock, crashes>>,
         ticketsLock' \in {ticketsLock, c},
         Decided(t, [step |-> "prepared", id |-> t, generation |-> g,
                     ticketRead |-> ticket[t], teamRead |-> team[t][g],
                     ticketWrite |-> tw, teamWrite |-> mw, event |-> e, wasClosed |-> FALSE])
  PROVE  \E r \in CallRecord : Prepares(c, t, r) /\ Decided(t, r)
<1>. DEFINE r == [step |-> "prepared", id |-> t, generation |-> g,
                  ticketRead |-> ticket[t], teamRead |-> team[t][g],
                  ticketWrite |-> tw, teamWrite |-> mw, event |-> e, wasClosed |-> FALSE]
<1>1. ticket[t] \in TicketRecord /\ team[t][g] \in TeamRecord
  BY DEF Typed, TypeOK
<1>2. r \in CallRecord
  BY <1>1 DEF CallRecord, Steps
<1>3. Prepares(c, t, r)
  BY <1>2 DEF Prepares, Prepare
<1>. QED BY <1>2, <1>3

\* The generation that a Ticket names, and the Team that is there.
LEMMA CurrentTeam ==
  ASSUME Typed, NEW t \in TicketIds
  PROVE  /\ ticket[t] \in TicketRecord /\ ticket[t].ordinal \in 0..MaxGeneration
         /\ ticket[t].status \in Status /\ ticket[t].candidate \in Candidates \cup {NoCandidate}
         /\ Current(t) \in Generations /\ Current(t) \in 0..MaxGeneration
         /\ ticket[t].ordinal # 0 => Current(t) = ticket[t].ordinal
         /\ ticket[t].ordinal = 0 => Current(t) = 1
         /\ team[t][Current(t)] \in TeamRecord /\ Formed(team[t][Current(t)])
         /\ Round(t) \in 0..MaxRound
<1>1. ticket[t] \in TicketRecord
  BY DEF Typed, TypeOK
<1>2. /\ ticket[t].ordinal \in 0..MaxGeneration
      /\ ticket[t].status \in Status /\ ticket[t].candidate \in Candidates \cup {NoCandidate}
  BY <1>1 DEF TicketRecord
<1>3. Current(t) \in Generations /\ Current(t) \in 0..MaxGeneration
  BY <1>2, Numbers DEF Current
<1>4. team[t][Current(t)] \in TeamRecord /\ Formed(team[t][Current(t)])
  BY <1>3 DEF Typed, TypeOK
<1>5. Round(t) \in 0..MaxRound
  BY <1>4 DEF Round, TeamRecord
<1>. QED BY <1>1, <1>2, <1>3, <1>4, <1>5 DEF Current

\* A request that leaves the Ticket alone.
LEMMA TeamRequestReads ==
  ASSUME Typed, NEW c \in Clients, NEW t \in TicketIds, NEW mw \in TeamRecord,
         NEW kind \in {"team-retiring", "team-retired", "team-member-started",
                       "team-member-replaced"},
         Idle(c), TeamRequest(c, t, mw, kind), UNCHANGED <<disk, worldline, locks, crashes>>,
         mw.round = Round(t), team[t][Current(t)].status \in {"active", "retiring"},
         \/ mw.status = team[t][Current(t)].status
         \/ team[t][Current(t)].status = "active" /\ mw.status = "retiring"
         \/ team[t][Current(t)].status = "retiring" /\ mw.status = "retired",
         kind = "team-retiring" => mw.status = "retiring",
         kind = "team-retired" => mw.status = "retired"
  PROVE  \E r \in CallRecord : Prepares(c, t, r) /\ Decided(t, r)
<1>. DEFINE g == Current(t)
            e == EventOf(kind, g, Round(t), NoCandidate, KeepsStatus)
            r == [step |-> "prepared", id |-> t, generation |-> g,
                  ticketRead |-> ticket[t], teamRead |-> team[t][g],
                  ticketWrite |-> ticket[t], teamWrite |-> mw, event |-> e, wasClosed |-> FALSE]
<1>1. /\ ticket[t] \in TicketRecord /\ ticket[t].status \in Status
      /\ g \in Generations /\ g \in 0..MaxGeneration /\ Formed(team[t][g])
      /\ Round(t) \in 0..MaxRound /\ team[t][g] \in TeamRecord
  BY CurrentTeam
<1>2. e \in Event
  BY <1>1 DEF EventOf, Event, Kinds
<1>3. Formed(mw)
  BY <1>1 DEF Formed, Round
<1>4. Names(e, g)
  BY DEF Names, EventOf, ClosesRound
<1>5. Plan(r)
  BY DEF Plan, Starting, LaterPlan, LockedCall, EventOf
<1>6. LifePlan(r, accepted)
  BY DEF LifePlan, Starting, EventOf
<1>7. Decided(t, r)
  BY <1>1, <1>3, <1>4, <1>5, <1>6 DEF Decided, EventNames, Starting, EventOf, Round
<1>. QED BY <1>1, <1>2, <1>7, PrepareReads DEF TeamRequest, locks

\* Whatever a request or a command prepares follows from the files it read.
LEMMA RequestsDecide ==
  ASSUME Typed, NEW c \in Clients, NEW t \in TicketIds, Request(c, t) \/ Command(c, t)
  PROVE  \E r \in CallRecord : Prepares(c, t, r) /\ Decided(t, r)
<1>. DEFINE g == Current(t)
            Of(n, tw, mw, e) == [step |-> "prepared", id |-> t, generation |-> n,
                                 ticketRead |-> ticket[t], teamRead |-> team[t][n],
                                 ticketWrite |-> tw, teamWrite |-> mw, event |-> e,
                                 wasClosed |-> FALSE]
<1>0. /\ ticket[t] \in TicketRecord /\ ticket[t].ordinal \in 0..MaxGeneration
      /\ ticket[t].status \in Status /\ ticket[t].candidate \in Candidates \cup {NoCandidate}
      /\ g \in Generations /\ g \in 0..MaxGeneration
      /\ ticket[t].ordinal # 0 => g = ticket[t].ordinal
      /\ ticket[t].ordinal = 0 => g = 1
      /\ team[t][g] \in TeamRecord /\ Formed(team[t][g])
      /\ Round(t) \in 0..MaxRound
  BY CurrentTeam
<1>1. CASE Start(c, t)
  <2>. DEFINE n == ticket[t].ordinal + 1
              tw == [status |-> "implementing", ordinal |-> n, candidate |-> NoCandidate]
              kind == IF Replaceable(t) THEN "team-replaced" ELSE "team-started"
              e == EventOf(kind, n, 1, NoCandidate, "implementing")
  <2>1. /\ Idle(c) /\ n \in Generations /\ team[t][n] = NoTeam
        /\ Prepare(c, t, n, tw, NewTeam, e)
        /\ FirstStartable(t) \/ Replaceable(t)
        /\ UNCHANGED <<disk, worldline, locks, crashes>>
    BY <1>1 DEF Start
  <2>2. tw \in TicketRecord
    BY <2>1, Numbers DEF TicketRecord, Status
  <2>3. NewTeam \in TeamRecord /\ NewTeam.status = "active" /\ NewTeam.round = 1
    BY Numbers DEF NewTeam, NoTeam, TeamRecord
  <2>4. e \in Event
    BY <2>1, Numbers DEF Event, EventOf, Kinds, Status
  <2>5. Formed(NewTeam) /\ Formed(NoTeam)
    BY <2>3, Numbers DEF Formed, NoTeam
  <2>6. Names(e, n)
    BY DEF Names, EventOf, ClosesRound
  <2>7. StartPlan(Of(n, tw, NewTeam, e))
    BY <2>1, <2>3 DEF StartPlan, NoTeam, FirstStartable, Replaceable
  <2>8. Plan(Of(n, tw, NewTeam, e))
    BY <2>7 DEF Plan, Starting, LockedCall, EventOf, KeepsStatus
  <2>9. n = 1 \/ team[t][n - 1].status = "retired"
    BY <1>0, <2>1 DEF FirstStartable, Replaceable
  <2>10. n = 1 => ticket[t].status = "ready"
    BY <1>0, <2>1 DEF FirstStartable, Replaceable
  <2>11. LifePlan(Of(n, tw, NewTeam, e), accepted)
    BY <2>10 DEF LifePlan, Starting, EventOf
  <2>12. Decided(t, Of(n, tw, NewTeam, e))
    BY <2>1, <2>5, <2>6, <2>8, <2>9, <2>11 DEF Decided, EventNames, Starting, EventOf
  <2>. QED BY <2>1, <2>2, <2>3, <2>4, <2>12, PrepareReads DEF locks
<1>2. CASE Retire(c, t)
  <2>. DEFINE mw == [team[t][g] EXCEPT !.status = "retiring"]
  <2>1. mw \in TeamRecord /\ mw.round = Round(t) /\ mw.status = "retiring"
    BY <1>0 DEF TeamRecord, Round
  <2>. QED BY <1>2, <2>1, TeamRequestReads DEF Retire, Working
<1>3. CASE Retired(c, t)
  <2>. DEFINE mw == [team[t][g] EXCEPT !.status = "retired"]
  <2>1. mw \in TeamRecord /\ mw.round = Round(t) /\ mw.status = "retired"
    BY <1>0 DEF TeamRecord, Round
  <2>. QED BY <1>3, <2>1, TeamRequestReads DEF Retired
<1>4. ASSUME NEW seat \in Seats, ReplaceMember(c, t, seat) \/ Member(c, t, seat)
      PROVE  \E r \in CallRecord : Prepares(c, t, r) /\ Decided(t, r)
  <2>. DEFINE mw == [team[t][g] EXCEPT !.members = @ \cup {seat}]
  <2>1. mw \in TeamRecord /\ mw.round = Round(t) /\ mw.status = team[t][g].status
    BY <1>0 DEF TeamRecord, Round
  <2>. QED BY <1>4, <2>1, TeamRequestReads DEF ReplaceMember, Member, Working
<1>5. ASSUME NEW seat \in Seats, Correction(c, t, seat)
      PROVE  \E r \in CallRecord : Prepares(c, t, r) /\ Decided(t, r)
  <2>. DEFINE tw == IF seat = Engineer THEN [ticket[t] EXCEPT !.candidate = NoCandidate]
                    ELSE ticket[t]
              e == EventOf("team-process-correction", g, Round(t), NoCandidate, KeepsStatus)
  <2>1. /\ Idle(c) /\ team[t][g].status = "active" /\ ticket[t].status = "reviewing"
        /\ Prepare(c, t, g, tw, team[t][g], e) /\ UNCHANGED <<disk, worldline, locks, crashes>>
    BY <1>5 DEF Correction, Working
  <2>2. tw \in TicketRecord /\ tw.status = ticket[t].status /\ tw.ordinal = ticket[t].ordinal
    BY <1>0 DEF TicketRecord
  <2>3. e \in Event
    BY <1>0 DEF Event, EventOf, Kinds
  <2>4. Names(e, g)
    BY DEF Names, EventOf, ClosesRound
  <2>5. Plan(Of(g, tw, team[t][g], e))
    BY <2>1, <2>2 DEF Plan, Starting, LaterPlan, LockedCall, EventOf
  <2>6. LifePlan(Of(g, tw, team[t][g], e), accepted)
    BY <2>1, <2>2 DEF LifePlan, Starting, EventOf
  <2>7. Decided(t, Of(g, tw, team[t][g], e))
    BY <1>0, <2>1, <2>2, <2>4, <2>5, <2>6 DEF Decided, EventNames, Starting, EventOf
  <2>. QED BY <1>0, <2>1, <2>2, <2>3, <2>7, PrepareReads DEF locks
<1>6. ASSUME NEW candidate \in Candidates, Candidate(c, t, candidate)
      PROVE  \E r \in CallRecord : Prepares(c, t, r) /\ Decided(t, r)
  <2>. DEFINE tw == [ticket[t] EXCEPT !.status = "reviewing", !.candidate = candidate]
              e == EventOf("candidate-ready-for-review", g, Round(t), candidate, "reviewing")
  <2>1. /\ Idle(c) /\ team[t][g].status = "active"
        /\ ticket[t].status \in {"implementing", "reviewing"}
        /\ Prepare(c, t, g, tw, team[t][g], e) /\ UNCHANGED <<disk, worldline, locks, crashes>>
    BY <1>6 DEF Candidate, Working
  <2>2. tw \in TicketRecord /\ tw.status = "reviewing" /\ tw.ordinal = ticket[t].ordinal
    BY <1>0 DEF TicketRecord, Status
  <2>3. e \in Event
    BY <1>0 DEF Event, EventOf, Kinds, Status
  <2>4. Names(e, g)
    BY DEF Names, EventOf, ClosesRound
  <2>5. Plan(Of(g, tw, team[t][g], e))
    BY <2>1, <2>2 DEF Plan, Starting, LaterPlan, LockedCall, EventOf, KeepsStatus
  <2>6. ticket[t].status = "implementing" =>
          "reviewing" \in Transitions[ticket[t].status] \ IntegrationOnly
    BY DEF Transitions, Status, IntegrationOnly
  <2>7. LifePlan(Of(g, tw, team[t][g], e), accepted)
    BY <2>1, <2>2, <2>6 DEF LifePlan, Starting, EventOf
  <2>8. Decided(t, Of(g, tw, team[t][g], e))
    BY <1>0, <2>1, <2>2, <2>4, <2>5, <2>7 DEF Decided, EventNames, Starting, EventOf
  <2>. QED BY <1>0, <2>1, <2>2, <2>3, <2>8, PrepareReads DEF locks
<1>7. CASE Rework(c, t)
  <2>. DEFINE tw == [ticket[t] EXCEPT !.status = "implementing", !.candidate = NoCandidate]
              mw == [team[t][g] EXCEPT !.round = @ + 1]
              e == EventOf("team-round-rework-started", g, Round(t) + 1, NoCandidate,
                           "implementing")
  <2>1. /\ Idle(c) /\ team[t][g].status = "active" /\ Round(t) + 1 \in Rounds
        /\ ticket[t].status = "reworking" /\ rework[t] = Round(t)
        /\ Prepare(c, t, g, tw, mw, e) /\ UNCHANGED <<disk, worldline, locks, crashes>>
    BY <1>7 DEF Rework, Working, ConfirmedRework
  <2>2. tw \in TicketRecord /\ tw.status = "implementing" /\ tw.ordinal = ticket[t].ordinal
    BY <1>0 DEF TicketRecord, Status
  <2>3. mw \in TeamRecord /\ mw.status = "active" /\ mw.round = Round(t) + 1
    BY <1>0, <2>1, Numbers DEF TeamRecord, Round
  <2>4. e \in Event
    BY <1>0, <2>1, Numbers DEF Event, EventOf, Kinds, Status
  <2>5. Names(e, g) /\ Formed(mw)
    BY <2>1, <2>3 DEF Names, EventOf, ClosesRound, Formed
  <2>6. Plan(Of(g, tw, mw, e))
    BY <2>1, <2>2, <2>3 DEF Plan, Starting, LaterPlan, LockedCall, EventOf, KeepsStatus
  <2>7. "implementing" \in Transitions[ticket[t].status] \ IntegrationOnly
    BY <2>1 DEF Transitions, Status, IntegrationOnly
  <2>8. LifePlan(Of(g, tw, mw, e), accepted)
    BY <2>1, <2>2, <2>3, <2>7 DEF LifePlan, Starting, EventOf
  <2>9. Decided(t, Of(g, tw, mw, e))
    BY <1>0, <2>1, <2>2, <2>3, <2>5, <2>6, <2>8 DEF Decided, EventNames, Starting, EventOf, Round
  <2>. QED BY <1>0, <2>1, <2>2, <2>3, <2>4, <2>9, PrepareReads DEF locks
<1>8. ASSUME NEW decision \in Decisions, NEW reported \in SUBSET Reviewers,
             Final(c, t, decision, reported)
      PROVE  \E r \in CallRecord : Prepares(c, t, r) /\ Decided(t, r)
  <2>. DEFINE to == DecidedStatus(t, decision)
              kind == KindOf(decision)
              tw == [ticket[t] EXCEPT !.status = to]
              e == EventOf(kind, g, Round(t), ticket[t].candidate, to)
  <2>1. /\ Idle(c) /\ team[t][g].status = "active" /\ ticket[t].status = "reviewing"
        /\ ticket[t].candidate # NoCandidate
        /\ Prepare(c, t, g, tw, team[t][g], e) /\ UNCHANGED <<disk, worldline, locks, crashes>>
    BY <1>8 DEF Final, Working
  <2>2. /\ to \in {"awaiting-integration", "reworking", "reviewing"}
        /\ kind \in {"team-round-accepted", "team-round-implementation-rejected",
                     "team-round-rejected"}
        /\ kind = "team-round-accepted" => to = "awaiting-integration"
    BY <2>1 DEF DecidedStatus, KindOf, Decisions
  <2>3. /\ tw \in TicketRecord /\ tw.status = to /\ SameNames(tw, ticket[t])
        /\ tw.ordinal = ticket[t].ordinal
    BY <1>0, <2>2 DEF TicketRecord, Status, SameNames
  <2>4. e \in Event
    BY <1>0, <2>2 DEF Event, EventOf, Kinds, Status
  <2>5. Names(e, g)
    BY <1>0, <2>1 DEF Names, EventOf, ClosesRound, Formed, Round
  <2>6. Plan(Of(g, tw, team[t][g], e))
    BY <1>0, <2>1, <2>2, <2>3 DEF Plan, Starting, LaterPlan, LockedCall, EventOf, KeepsStatus
  <2>7. to = "reviewing" => tw = ticket[t]
    BY <1>0, <2>1, <2>3 DEF TicketRecord
  <2>8. to # "reviewing" => to \in Transitions[ticket[t].status] \ IntegrationOnly
    BY <2>1, <2>2 DEF Transitions, Status, IntegrationOnly
  <2>9. LifePlan(Of(g, tw, team[t][g], e), accepted)
    BY <1>0, <2>1, <2>2, <2>3, <2>7, <2>8 DEF LifePlan, Starting, EventOf
  <2>10. Decided(t, Of(g, tw, team[t][g], e))
    BY <1>0, <2>1, <2>2, <2>3, <2>5, <2>6, <2>9 DEF Decided, EventNames, Starting, EventOf
  <2>. QED BY <1>0, <2>1, <2>3, <2>4, <2>10, PrepareReads DEF locks
<1>9. ASSUME NEW status \in Status, NEW facts \in MainFacts(t),
             UpdateTicketState(c, t, status, facts[1], facts[2])
      PROVE  \E r \in CallRecord : Prepares(c, t, r) /\ Decided(t, r)
  <2>. DEFINE tw == [status |-> status, ordinal |-> facts[1], candidate |-> facts[2]]
              e == EventOf("ticket-state-changed", facts[1], 0, facts[2], status)
  <2>1. /\ Idle(c) /\ status \in Transitions[ticket[t].status] \ IntegrationOnly
        /\ Prepare(c, t, g, tw, team[t][g], e) /\ ticketsLock' = c
        /\ UNCHANGED <<disk, worldline, worldlineLock, crashes>>
    BY <1>9 DEF UpdateTicketState
  <2>2. /\ facts[1] \in {ticket[t].ordinal, 0} /\ facts[1] \in 0..MaxGeneration
        /\ facts[2] \in Candidates \cup {NoCandidate}
    BY <1>0, Numbers DEF MainFacts
  <2>3. /\ tw \in TicketRecord /\ e \in Event
    BY <2>2, Numbers DEF TicketRecord, Event, EventOf, Kinds
  <2>4. /\ ticket[t].status # "integrated" /\ status # "integrated"
        /\ status = "reworking" => ticket[t].status \in {"reviewing", "reworking"}
    BY <1>0, <2>1 DEF Transitions, Status, Halted, IntegrationOnly
  <2>5. Names(e, g)
    BY DEF Names, EventOf, ClosesRound
  <2>6. status # KeepsStatus
    BY DEF KeepsStatus, Status
  <2>7. Plan(Of(g, tw, team[t][g], e))
    BY <2>2, <2>4, <2>6 DEF Plan, Starting, LaterPlan, LockedCall, EventOf
  <2>8. LifePlan(Of(g, tw, team[t][g], e), accepted)
    BY <2>1 DEF LifePlan, Starting, EventOf
  <2>9. Decided(t, Of(g, tw, team[t][g], e))
    BY <1>0, <2>1, <2>4, <2>5, <2>7, <2>8 DEF Decided, EventNames, Starting, EventOf
  <2>. QED BY <1>0, <2>1, <2>3, <2>9, PrepareReads
<1>10. CASE IntegrationStart(c, t)
  <2>. DEFINE tw == [ticket[t] EXCEPT !.status = "integrating"]
              e == EventOf("ticket-integration-started", 0, 0, ticket[t].candidate, "integrating")
  <2>1. /\ Idle(c) /\ ticket[t].status \in {"awaiting-integration", "integrating"}
        /\ <<ticket[t].ordinal, ticket[t].candidate>> \in accepted[t]
        /\ Prepare(c, t, g, tw, team[t][g], e) /\ UNCHANGED <<disk, worldline, locks, crashes>>
    BY <1>10 DEF IntegrationStart, Accepted
  <2>2. /\ tw \in TicketRecord /\ tw.status = "integrating" /\ SameNames(tw, ticket[t])
        /\ tw.ordinal = ticket[t].ordinal
    BY <1>0 DEF TicketRecord, Status, SameNames
  <2>3. e \in Event
    BY <1>0, Numbers DEF Event, EventOf, Kinds, Status
  <2>4. Names(e, g)
    BY DEF Names, EventOf, ClosesRound
  <2>5. Plan(Of(g, tw, team[t][g], e))
    BY <2>1, <2>2 DEF Plan, Starting, LaterPlan, LockedCall, EventOf, KeepsStatus
  <2>6. LifePlan(Of(g, tw, team[t][g], e), accepted)
    BY <2>1, <2>2 DEF LifePlan, Starting, EventOf
  <2>7. Decided(t, Of(g, tw, team[t][g], e))
    BY <1>0, <2>1, <2>2, <2>4, <2>5, <2>6 DEF Decided, EventNames, Starting, EventOf
  <2>. QED BY <1>0, <2>1, <2>2, <2>3, <2>7, PrepareReads DEF locks
<1>. QED BY <1>1, <1>2, <1>3, <1>4, <1>5, <1>6, <1>7, <1>8, <1>9, <1>10 DEF Request, Command

----------------------------------------------------------------------------
(* Types, however calls interleave *)

\* A call that has ended is typed, and under way in no step.
LEMMA IdleCallTyped == IdleCall \in CallRecord /\ EventNames(IdleCall) /\ IdleCall.step = "idle"
<1>1. IdleCall.id \in TicketIds
  BY TicketsAssumption DEF IdleCall, TicketsAssumption
<1>2. NoTeam \in TeamRecord /\ NoTeam.status = "none"
  BY Numbers DEF NoTeam, TeamRecord
<1>3. NoEvent \in Event /\ NoEvent.kind = "none"
  BY Numbers DEF NoEvent, Event, Kinds
<1>4. [status |-> "pending", ordinal |-> 0, candidate |-> NoCandidate] \in TicketRecord
  BY Numbers DEF TicketRecord, Status
<1>5. IdleCall \in CallRecord /\ IdleCall.step = "idle"
  BY <1>1, <1>2, <1>3, <1>4, Numbers DEF IdleCall, CallRecord, Steps
<1>6. /\ IdleCall.teamRead = NoTeam /\ IdleCall.teamWrite = NoTeam
      /\ IdleCall.event = NoEvent
  BY DEF IdleCall
<1>7. EventNames(IdleCall)
  BY <1>2, <1>3, <1>6 DEF EventNames, Names, Formed, ClosesRound
<1>. QED BY <1>5, <1>7

\* The fields of a call.
LEMMA CallFields ==
  ASSUME Typed, NEW c \in Clients
  PROVE  /\ call[c] \in CallRecord /\ call[c].id \in TicketIds /\ call[c].generation \in Generations
         /\ call[c].ticketRead \in TicketRecord /\ call[c].ticketWrite \in TicketRecord
         /\ call[c].teamRead \in TeamRecord /\ call[c].teamWrite \in TeamRecord
         /\ call[c].event \in Event /\ call[c].step \in Steps /\ EventNames(call[c])
<1>1. call[c] \in CallRecord
  BY CallTyped
<1>2. EventNames(call[c])
  BY DEF Typed
<1>. QED BY <1>1, <1>2 DEF CallRecord

\* The fields of an event.
LEMMA EventFields ==
  ASSUME NEW e \in Event
  PROVE  /\ e.kind \in Kinds /\ e.generation \in 0..MaxGeneration /\ e.round \in 0..MaxRound
         /\ e.candidate \in Candidates \cup {NoCandidate} /\ e.to \in Status \cup {KeepsStatus}
BY DEF Event

\* A call whose record has changed keeps the calls typed.
LEMMA OneCallChanges ==
  ASSUME Typed, NEW c \in Clients, NEW r \in CallRecord, EventNames(r),
         call' = [call EXCEPT ![c] = r]
  PROVE  /\ call' \in [Clients -> CallRecord]
         /\ \A d \in Clients : EventNames(call'[d])
<1>1. call \in [Clients -> CallRecord]
  BY CallTyped
<1>2. \A d \in Clients : call'[d] = IF d = c THEN r ELSE call[d]
  BY <1>1
<1>. QED BY <1>1, <1>2 DEF Typed

\* One team.yml is replaced.
LEMMA TeamReplaced ==
  ASSUME team \in [TicketIds -> [Generations -> TeamRecord]],
         NEW t \in TicketIds, NEW g \in Generations, NEW m \in TeamRecord,
         team' = [team EXCEPT ![t][g] = m]
  PROVE  /\ team' \in [TicketIds -> [Generations -> TeamRecord]]
         /\ \A u \in TicketIds, h \in Generations :
              team'[u][h] = IF u = t /\ h = g THEN m ELSE team[u][h]
<1>1. \A u \in TicketIds : team'[u] = IF u = t THEN [team[u] EXCEPT ![g] = m] ELSE team[u]
  OBVIOUS
<1>2. team' = [u \in TicketIds |-> IF u = t THEN [team[u] EXCEPT ![g] = m] ELSE team[u]]
  OBVIOUS
<1>3. \A u \in TicketIds : team'[u] \in [Generations -> TeamRecord]
  BY <1>1
<1>. QED BY <1>1, <1>2, <1>3

\* Typing by parts: the files, the Worldline, the calls and the locks.
DiskTyped ==
  /\ ticket \in [TicketIds -> TicketRecord]
  /\ team \in [TicketIds -> [Generations -> TeamRecord]]
  /\ closed \in [TicketIds -> SUBSET (Generations \X Rounds)]
  /\ \A t \in TicketIds, g \in Generations : Formed(team[t][g])

WorldlineTyped ==
  /\ rework \in [TicketIds -> 0..MaxRound]
  /\ logged \in [TicketIds -> Status]
  /\ retirements \in [TicketIds -> SUBSET (Generations \X {"team-retiring", "team-retired"})]
  /\ rejections \in [TicketIds -> SUBSET (Generations \X Rounds)]
  /\ accepted \in [TicketIds -> SUBSET (Generations \X Candidates)]

CallsTyped ==
  /\ call \in [Clients -> CallRecord]
  /\ \A c \in Clients : EventNames(call[c])

LocksTyped ==
  /\ ticketsLock \in Clients \cup {Nobody}
  /\ worldlineLock \in Clients \cup {Nobody}
  /\ crashes \in 0..MaxCrashes

\* Typed is the conjunction of its parts, before and after a step.
LEMMA TypedByParts == Typed <=> DiskTyped /\ WorldlineTyped /\ CallsTyped /\ LocksTyped
BY DEF Typed, TypeOK, DiskTyped, WorldlineTyped, CallsTyped, LocksTyped, CallRecord

LEMMA TypedByPartsNext == Typed' <=> DiskTyped' /\ WorldlineTyped' /\ CallsTyped' /\ LocksTyped'
BY DEF Typed, TypeOK, DiskTyped, WorldlineTyped, CallsTyped, LocksTyped, CallRecord, EventNames

\* The initial state is typed.
LEMMA InitTyped == Init => Typed
<1>. SUFFICES ASSUME Init PROVE Typed
  OBVIOUS
<1>1. NoTeam \in TeamRecord /\ Formed(NoTeam)
  BY Numbers DEF NoTeam, TeamRecord, Formed
<1>2. [status |-> "ready", ordinal |-> 0, candidate |-> NoCandidate] \in TicketRecord
  BY Numbers DEF TicketRecord, Status
<1>3. DiskTyped
  BY <1>1, <1>2 DEF Init, DiskTyped
<1>4. WorldlineTyped
  BY Numbers DEF Init, WorldlineTyped, Status
<1>5. CallsTyped
  BY IdleCallTyped DEF Init, CallsTyped
<1>6. LocksTyped
  BY Numbers DEF Init, LocksTyped
<1>. QED BY <1>3, <1>4, <1>5, <1>6, TypedByParts

\* Every step of every call keeps the types, whoever else is under way.
LEMMA TypedStep ==
  ASSUME Typed, [Next]_vars
  PROVE  Typed'
<1>0. DiskTyped /\ WorldlineTyped /\ CallsTyped /\ LocksTyped
  BY TypedByParts
<1>1. CASE UNCHANGED vars
  <2>1. DiskTyped' /\ WorldlineTyped'
    BY <1>0, <1>1 DEF vars, disk, worldline, DiskTyped, WorldlineTyped, Formed
  <2>2. CallsTyped' /\ LocksTyped'
    BY <1>0, <1>1 DEF vars, locks, CallsTyped, LocksTyped
  <2>. QED BY <2>1, <2>2, TypedByPartsNext
<1>. SUFFICES ASSUME NEW c \in Clients, Step(c)
              PROVE  Typed'
  BY <1>1 DEF Next
<1>. DEFINE r == call[c]
            t == call[c].id
<1>2. /\ r \in CallRecord /\ t \in TicketIds /\ r.generation \in Generations
      /\ r.ticketRead \in TicketRecord /\ r.ticketWrite \in TicketRecord
      /\ r.teamRead \in TeamRecord /\ r.teamWrite \in TeamRecord
      /\ r.event \in Event /\ EventNames(r)
  BY CallFields
<1>3. /\ r.event.kind \in Kinds /\ r.event.generation \in 0..MaxGeneration
      /\ r.event.round \in 0..MaxRound /\ r.event.candidate \in Candidates \cup {NoCandidate}
      /\ r.event.to \in Status \cup {KeepsStatus}
  BY <1>2, EventFields
<1>4. Formed(r.teamRead) /\ Formed(r.teamWrite) /\ Names(r.event, r.generation)
  BY <1>2 DEF EventNames
<1>5. ASSUME Release(c) PROVE LocksTyped' <=> crashes' \in 0..MaxCrashes
  BY <1>0, <1>5 DEF Release, LocksTyped
<1>6. ASSUME UNCHANGED disk PROVE DiskTyped'
  BY <1>0, <1>6 DEF disk, DiskTyped, Formed
<1>7. ASSUME UNCHANGED worldline PROVE WorldlineTyped'
  BY <1>0, <1>7 DEF worldline, WorldlineTyped
<1>8. ASSUME call' = [call EXCEPT ![c] = IdleCall] PROVE CallsTyped'
  <2>1. /\ call' \in [Clients -> CallRecord]
        /\ \A d \in Clients : EventNames(call'[d])
    BY <1>8, IdleCallTyped, OneCallChanges
  <2>. QED BY <2>1 DEF CallsTyped
<1>9. ASSUME NEW u \in TicketIds, Request(c, u) \/ Command(c, u)
      PROVE  Typed'
  <2>1. PICK q \in CallRecord : Prepares(c, u, q) /\ Decided(u, q)
    BY <1>9, RequestsDecide
  <2>2. CallsTyped'
    <3>1. /\ call' \in [Clients -> CallRecord]
          /\ \A d \in Clients : EventNames(call'[d])
      BY <2>1, OneCallChanges DEF Prepares, Decided
    <3>. QED BY <3>1 DEF CallsTyped
  <2>3. LocksTyped'
    BY <1>0, <2>1 DEF Prepares, LocksTyped
  <2>. QED BY <1>6, <1>7, <2>1, <2>2, <2>3, TypedByPartsNext DEF Prepares
<1>10. ASSUME NEW status \in {"integrated", "integrating", "escalated"}, IntegrationEnd(c, status)
       PROVE  Typed'
  <2>. DEFINE e == [r.event EXCEPT !.kind = "ticket-integration-ended", !.to = status]
              q == [r EXCEPT !.step = "prepared",
                             !.ticketWrite = [r.ticketWrite EXCEPT !.status = status],
                             !.event = e]
  <2>1. [r.ticketWrite EXCEPT !.status = status] \in TicketRecord
    BY <1>2 DEF TicketRecord, Status
  <2>2. e \in Event /\ e.kind = "ticket-integration-ended"
    BY <1>2 DEF Event, Kinds, Status
  <2>3. q \in CallRecord /\ EventNames(q)
    <3>1. q \in CallRecord
      BY <1>2, <2>1, <2>2 DEF CallRecord, Steps
    <3>2. q.teamRead = r.teamRead /\ q.teamWrite = r.teamWrite /\ q.event = e
      BY <1>2 DEF CallRecord
    <3>. QED BY <1>4, <2>2, <3>1, <3>2 DEF EventNames, Names, ClosesRound
  <2>4. call' = [call EXCEPT ![c] = q]
    <3>1. call \in [Clients -> CallRecord]
      BY CallTyped
    <3>. QED BY <1>2, <1>10, <3>1 DEF IntegrationEnd, CallRecord, Event, TicketRecord
  <2>5. CallsTyped'
    <3>1. /\ call' \in [Clients -> CallRecord]
          /\ \A d \in Clients : EventNames(call'[d])
      BY <2>3, <2>4, OneCallChanges
    <3>. QED BY <3>1 DEF CallsTyped
  <2>6. LocksTyped'
    BY <1>0, <1>10 DEF IntegrationEnd, LocksTyped, locks
  <2>. QED BY <1>6, <1>7, <1>10, <2>5, <2>6, TypedByPartsNext DEF IntegrationEnd
<1>11. CASE WriteTeam(c)
  <2>. DEFINE q == IF Locked(c)
                   THEN [r EXCEPT !.step = "team-written", !.ticketRead = ticket[t]]
                   ELSE [r EXCEPT !.step = "team-written"]
  <2>1. ticket[t] \in TicketRecord
    BY <1>0, <1>2 DEF DiskTyped
  <2>2. q \in CallRecord /\ EventNames(q)
    <3>1. q \in CallRecord
      <4>1. CASE Locked(c)
        <5>1. [r EXCEPT !.step = "team-written", !.ticketRead = ticket[t]] \in CallRecord
          BY <1>2, <2>1 DEF CallRecord, Steps
        <5>. QED BY <4>1, <5>1
      <4>2. CASE ~Locked(c)
        <5>1. [r EXCEPT !.step = "team-written"] \in CallRecord
          BY <1>2 DEF CallRecord, Steps
        <5>. QED BY <4>2, <5>1
      <4>. QED BY <4>1, <4>2
    <3>2. /\ q.teamRead = r.teamRead /\ q.teamWrite = r.teamWrite /\ q.event = r.event
          /\ q.generation = r.generation
      BY <1>2 DEF CallRecord
    <3>. QED BY <1>4, <3>1, <3>2 DEF EventNames
  <2>3. call' = [call EXCEPT ![c] = q]
    <3>1. call \in [Clients -> CallRecord]
      BY CallTyped
    <3>. QED BY <1>2, <1>11, <3>1 DEF WriteTeam, CallRecord
  <2>4. CallsTyped'
    <3>1. /\ call' \in [Clients -> CallRecord]
          /\ \A d \in Clients : EventNames(call'[d])
      BY <2>2, <2>3, OneCallChanges
    <3>. QED BY <3>1 DEF CallsTyped
  <2>5. DiskTyped'
    <3>1. ticket' = ticket /\ closed' = closed
      BY <1>11 DEF WriteTeam
    <3>2. CASE team' = team
      BY <1>0, <3>1, <3>2 DEF DiskTyped, Formed
    <3>3. CASE team' = [team EXCEPT ![t][r.generation] = r.teamWrite]
      <4>1. team' \in [TicketIds -> [Generations -> TeamRecord]]
        BY <1>0, <1>2, <3>3, TeamReplaced DEF DiskTyped
      <4>2. \A u \in TicketIds, g \in Generations : Formed(team'[u][g])
        BY <1>0, <1>2, <1>4, <3>3, TeamReplaced DEF DiskTyped
      <4>. QED BY <1>0, <3>1, <4>1, <4>2 DEF DiskTyped, Formed
    <3>. QED BY <1>11, <3>2, <3>3 DEF WriteTeam
  <2>6. LocksTyped'
    BY <1>0, <1>11 DEF WriteTeam, LocksTyped
  <2>. QED BY <1>7, <1>11, <2>4, <2>5, <2>6, TypedByPartsNext DEF WriteTeam
<1>12. CASE WriteTicket(c)
  <2>. DEFINE round == <<r.event.generation, r.event.round>>
              q == [r EXCEPT !.step = "ticket-written", !.wasClosed = round \in closed[t]]
  <2>1. q \in CallRecord /\ EventNames(q)
    <3>1. q \in CallRecord
      <4>1. \A b \in BOOLEAN : [r EXCEPT !.step = "ticket-written", !.wasClosed = b] \in CallRecord
        BY <1>2 DEF CallRecord, Steps
      <4>2. (round \in closed[t]) \in BOOLEAN
        OBVIOUS
      <4>. QED BY <4>1, <4>2, Zenon
    <3>2. /\ q.teamRead = r.teamRead /\ q.teamWrite = r.teamWrite /\ q.event = r.event
          /\ q.generation = r.generation
      BY <1>2 DEF CallRecord
    <3>. QED BY <1>4, <3>1, <3>2 DEF EventNames
  <2>2. call' = [call EXCEPT ![c] = q]
    <3>1. call \in [Clients -> CallRecord]
      BY CallTyped
    <3>. QED BY <1>2, <1>12, <3>1 DEF WriteTicket, CallRecord
  <2>3. CallsTyped'
    <3>1. /\ call' \in [Clients -> CallRecord]
          /\ \A d \in Clients : EventNames(call'[d])
      BY <2>1, <2>2, OneCallChanges
    <3>. QED BY <3>1 DEF CallsTyped
  <2>4. DiskTyped'
    <3>1. /\ ticket' = [ticket EXCEPT ![t] = r.ticketWrite] /\ team' = team
          /\ closed' = IF ClosesRound(r.event)
                       THEN [closed EXCEPT ![t] = @ \cup {round}] ELSE closed
      BY <1>12 DEF WriteTicket
    <3>2. ticket' \in [TicketIds -> TicketRecord]
      BY <1>0, <1>2, <3>1 DEF DiskTyped
    <3>3. ClosesRound(r.event) => round \in Generations \X Rounds
      BY <1>2, <1>4 DEF Names
    <3>4. closed' \in [TicketIds -> SUBSET (Generations \X Rounds)]
      BY <1>0, <1>2, <3>1, <3>3 DEF DiskTyped
    <3>. QED BY <1>0, <3>1, <3>2, <3>4 DEF DiskTyped, Formed
  <2>5. LocksTyped'
    BY <1>0, <1>12 DEF WriteTicket, LocksTyped, locks
  <2>. QED BY <1>7, <1>12, <2>3, <2>4, <2>5, TypedByPartsNext DEF WriteTicket
<1>13. CASE Append(c)
  <2>. DEFINE e == r.event
              q == IF e.kind = "ticket-integration-started"
                   THEN [r EXCEPT !.step = "merging", !.ticketRead = r.ticketWrite]
                   ELSE IdleCall
  <2>1. q \in CallRecord /\ EventNames(q)
    <3>1. CASE e.kind = "ticket-integration-started"
      <4>1. q = [r EXCEPT !.step = "merging", !.ticketRead = r.ticketWrite]
        BY <3>1
      <4>2. q \in CallRecord
        BY <1>2, <4>1 DEF CallRecord, Steps
      <4>3. /\ q.teamRead = r.teamRead /\ q.teamWrite = r.teamWrite /\ q.event = r.event
            /\ q.generation = r.generation
        BY <1>2, <4>1 DEF CallRecord
      <4>. QED BY <1>4, <4>2, <4>3 DEF EventNames
    <3>2. CASE e.kind # "ticket-integration-started"
      BY <3>2, IdleCallTyped
    <3>. QED BY <3>1, <3>2
  <2>2. call' = [call EXCEPT ![c] = q]
    <3>1. call \in [Clients -> CallRecord]
      BY CallTyped
    <3>. QED BY <1>2, <1>13, <3>1 DEF Append
  <2>3. CallsTyped'
    <3>1. /\ call' \in [Clients -> CallRecord]
          /\ \A d \in Clients : EventNames(call'[d])
      BY <2>1, <2>2, OneCallChanges
    <3>. QED BY <3>1 DEF CallsTyped
  <2>4. rework' \in [TicketIds -> 0..MaxRound]
    BY <1>0, <1>2, <1>3, <1>13, Numbers DEF Append, WorldlineTyped
  <2>5. logged' \in [TicketIds -> Status]
    BY <1>0, <1>2, <1>3, <1>13 DEF Append, WorldlineTyped
  <2>6. retirements' \in [TicketIds -> SUBSET (Generations \X {"team-retiring", "team-retired"})]
    BY <1>0, <1>2, <1>4, <1>13 DEF Append, WorldlineTyped, Names
  <2>7. rejections' \in [TicketIds -> SUBSET (Generations \X Rounds)]
    BY <1>0, <1>2, <1>4, <1>13 DEF Append, WorldlineTyped, Names, ClosesRound
  <2>8. accepted' \in [TicketIds -> SUBSET (Generations \X Candidates)]
    BY <1>0, <1>2, <1>4, <1>13 DEF Append, WorldlineTyped, Names, ClosesRound
  <2>9. WorldlineTyped'
    BY <2>4, <2>5, <2>6, <2>7, <2>8 DEF WorldlineTyped
  <2>10. LocksTyped'
    BY <1>0, <1>5, <1>13 DEF Append, LocksTyped
  <2>. QED BY <1>6, <1>13, <2>3, <2>9, <2>10, TypedByPartsNext DEF Append
<1>14. CASE RollBack(c)
  <2>1. /\ ticket' = [ticket EXCEPT ![t] = r.ticketRead]
        /\ team' = team \/ team' = [team EXCEPT ![t][r.generation] = r.teamRead]
        /\ closed' = closed
             \/ closed' = [closed EXCEPT ![t] = @ \ {<<r.event.generation, r.event.round>>}]
        /\ call' = [call EXCEPT ![c] = IdleCall]
        /\ Release(c) /\ UNCHANGED <<worldline, crashes>>
    BY <1>14 DEF RollBack, TicketRestored
  <2>2. DiskTyped'
    <3>1. ticket' \in [TicketIds -> TicketRecord]
      BY <1>0, <1>2, <2>1 DEF DiskTyped
    <3>2. team' \in [TicketIds -> [Generations -> TeamRecord]]
      BY <1>0, <1>2, <2>1, TeamReplaced DEF DiskTyped
    <3>3. closed' \in [TicketIds -> SUBSET (Generations \X Rounds)]
      BY <1>0, <1>2, <2>1 DEF DiskTyped
    <3>4. \A u \in TicketIds, g \in Generations : Formed(team'[u][g])
      <4>1. CASE team' = team
        BY <1>0, <4>1 DEF DiskTyped, Formed
      <4>2. CASE team' = [team EXCEPT ![t][r.generation] = r.teamRead]
        BY <1>0, <1>2, <1>4, <4>2, TeamReplaced DEF DiskTyped
      <4>. QED BY <2>1, <4>1, <4>2
    <3>. QED BY <3>1, <3>2, <3>3, <3>4 DEF DiskTyped, Formed
  <2>3. LocksTyped'
    BY <1>0, <1>5, <2>1 DEF LocksTyped
  <2>. QED BY <1>7, <1>8, <2>1, <2>2, <2>3, TypedByPartsNext
<1>15. CASE Refuse(c)
  <2>1. LocksTyped'
    BY <1>0, <1>5, <1>15 DEF Refuse, LocksTyped
  <2>. QED BY <1>6, <1>7, <1>8, <1>15, <2>1, TypedByPartsNext DEF Refuse
<1>16. CASE Crash(c)
  <2>1. crashes' \in 0..MaxCrashes
    BY <1>0, <1>16, BoundsAssumption DEF Crash, LocksTyped, BoundsAssumption
  <2>2. LocksTyped'
    BY <1>5, <1>16, <2>1 DEF Crash
  <2>. QED BY <1>6, <1>7, <1>8, <1>16, <2>2, TypedByPartsNext DEF Crash
<1>. QED BY <1>9, <1>10, <1>11, <1>12, <1>13, <1>14, <1>15, <1>16 DEF Step, Progress

\* The types hold in every behaviour, whatever the interleaving of the calls.
THEOREM TypeCorrect == Spec => []TypeOK
<1>1. Init => Typed
  BY InitTyped
<1>2. Typed /\ [Next]_vars => Typed'
  BY TypedStep
<1>3. Typed => TypeOK
  BY DEF Typed
<1>. QED BY <1>1, <1>2, <1>3, PTL DEF Spec

\* Calls that follow one another are calls.
LEMMA SerialIsNext == [SerialNext]_vars => [Next]_vars
BY DEF SerialNext, Next

\* They hold in particular when calls follow one another.
THEOREM SerialTypeCorrect == SerialSpec => []Typed
<1>1. Init => Typed
  BY InitTyped
<1>2. Typed /\ [SerialNext]_vars => Typed'
  BY TypedStep, SerialIsNext
<1>. QED BY <1>1, <1>2, PTL DEF SerialSpec

----------------------------------------------------------------------------
(* The steps of a call that is alone *)

Alone(c) == \A d \in Clients \ {c} : Idle(d) /\ call'[d].step = "idle"

SameCall(q, r) ==
  /\ q.id = r.id /\ q.generation = r.generation /\ q.event = r.event
  /\ q.ticketRead = r.ticketRead /\ q.ticketWrite = r.ticketWrite
  /\ q.teamRead = r.teamRead /\ q.teamWrite = r.teamWrite

TicketBecomes(t, x) ==
  \A u \in TicketIds : ticket'[u] = IF u = t THEN x ELSE ticket[u]

TeamBecomes(t, g, m) ==
  \A u \in TicketIds, h \in Generations :
     team'[u][h] = IF u = t /\ h = g THEN m ELSE team[u][h]

\* The merge has an outcome.
MergeEnded(c) ==
  LET r == call[c]
      q == call'[c]
  IN  /\ r.step = "merging" /\ q.step = "prepared"
      /\ q.id = r.id /\ q.generation = r.generation /\ q.ticketRead = r.ticketRead
      /\ q.teamRead = r.teamRead /\ q.teamWrite = r.teamWrite
      /\ q.event.kind = "ticket-integration-ended" /\ q.event.to = q.ticketWrite.status
      /\ SameNames(q.ticketWrite, r.ticketWrite)
      /\ q.ticketWrite.status \in {"integrated", "integrating", "escalated"}
      /\ UNCHANGED <<disk, worldline, crashes>>

TeamWritten(c) ==
  LET r == call[c]
  IN  /\ r.step = "prepared" /\ call'[c].step = "team-written" /\ SameCall(call'[c], r)
      /\ TeamBecomes(r.id, r.generation, r.teamWrite)
      /\ UNCHANGED <<ticket, closed, worldline, crashes>>

TicketWritten(c) ==
  LET r == call[c]
      round == <<r.event.generation, r.event.round>>
  IN  /\ r.step = "team-written" /\ call'[c].step = "ticket-written" /\ SameCall(call'[c], r)
      /\ call'[c].wasClosed = (round \in closed[r.id])
      /\ TicketBecomes(r.id, r.ticketWrite)
      /\ closed' = IF ClosesRound(r.event)
                   THEN [closed EXCEPT ![r.id] = @ \cup {round}] ELSE closed
      /\ UNCHANGED <<team, worldline, crashes>>

\* The event is on the Worldline; a merge goes on.
Appended(c) ==
  LET r == call[c]
      q == call'[c]
  IN  /\ r.step = "ticket-written" /\ Append(c)
      /\ UNCHANGED <<disk, crashes>>
      /\ IF r.event.kind = "ticket-integration-started"
         THEN /\ q.step = "merging" /\ q.id = r.id /\ q.generation = r.generation
              /\ q.ticketRead = r.ticketWrite /\ q.ticketWrite = r.ticketWrite
              /\ q.teamRead = r.teamRead /\ q.teamWrite = r.teamWrite /\ q.event = r.event
         ELSE q.step = "idle"

RolledBack(c) ==
  LET r == call[c]
      round == <<r.event.generation, r.event.round>>
  IN  /\ r.step \in {"team-written", "ticket-written"} /\ call'[c].step = "idle"
      /\ TicketBecomes(r.id, r.ticketRead)
      /\ TeamBecomes(r.id, r.generation, r.teamRead)
      /\ closed' = IF r.step = "ticket-written" /\ ClosesRound(r.event) /\ ~r.wasClosed
                   THEN [closed EXCEPT ![r.id] = @ \ {round}] ELSE closed
      /\ UNCHANGED <<worldline, crashes>>

\* A refusal before anything was written, or a kill anywhere.
Dropped(c) ==
  /\ call[c].step # "idle" /\ call'[c].step = "idle"
  /\ UNCHANGED <<disk, worldline>>
  /\ \/ crashes' = crashes /\ call[c].step = "prepared"
     \/ crashes' = crashes + 1

\* A step of c, when the others are idle, changes the call of c only.
LEMMA CallBecomes ==
  ASSUME Typed, NEW c \in Clients, NEW q, \A d \in Clients \ {c} : Idle(d),
         call' = [call EXCEPT ![c] = q]
  PROVE  Alone(c) /\ call'[c] = q
<1>1. call \in [Clients -> CallRecord]
  BY CallTyped
<1>. QED BY <1>1 DEF Alone, Idle

\* Every step is one of seven, told by what it does to the files and to its call.
LEMMA SerialSteps ==
  ASSUME Typed, CallsAreSound, [SerialNext]_vars, ~UNCHANGED vars
  PROVE  \E c \in Clients :
           /\ Alone(c)
           /\ \/ \E t \in TicketIds, r \in CallRecord : Prepares(c, t, r) /\ Decided(t, r)
              \/ MergeEnded(c) \/ TeamWritten(c) \/ TicketWritten(c) \/ Appended(c)
              \/ RolledBack(c) \/ Dropped(c)
<1>1. PICK c \in Clients : (\A d \in Clients \ {c} : Idle(d)) /\ Step(c)
  BY DEF SerialNext
<1>. DEFINE r == call[c]
            t == call[c].id
            g == call[c].generation
<1>2. /\ r \in CallRecord /\ t \in TicketIds /\ g \in Generations
      /\ r.ticketRead \in TicketRecord /\ r.ticketWrite \in TicketRecord
      /\ r.teamRead \in TeamRecord /\ r.teamWrite \in TeamRecord /\ r.event \in Event
  BY CallFields
<1>3. /\ ticket \in [TicketIds -> TicketRecord]
      /\ team \in [TicketIds -> [Generations -> TeamRecord]]
  BY DEF Typed, TypeOK
<1>4. ~Idle(c) => Plan(r) /\ FilesFollow(c)
  BY DEF CallsAreSound
<1>5. IdleCall.step = "idle"
  BY IdleCallTyped
<1>6. Locked(c) <=> LockedCall(r)
  BY DEF Locked, LockedCall
<1>7. ASSUME NEW m \in TeamRecord, team' = [team EXCEPT ![t][g] = m]
      PROVE  TeamBecomes(t, g, m)
  BY <1>2, <1>3, <1>7, TeamReplaced DEF TeamBecomes
<1>8. ASSUME team' = team, team[t][g] = r.teamWrite \/ team[t][g] = r.teamRead, Locked(c), ~Idle(c)
      PROVE  TeamBecomes(t, g, r.teamRead) /\ TeamBecomes(t, g, r.teamWrite)
  BY <1>4, <1>6, <1>8 DEF TeamBecomes, Plan
<1>9. ASSUME NEW u \in TicketIds, Request(c, u) \/ Command(c, u)
      PROVE  Alone(c) /\ \E q \in CallRecord : Prepares(c, u, q) /\ Decided(u, q)
  <2>1. PICK q \in CallRecord : Prepares(c, u, q) /\ Decided(u, q)
    BY <1>9, RequestsDecide
  <2>2. Alone(c)
    BY <1>1, <2>1, CallBecomes DEF Prepares
  <2>. QED BY <2>1, <2>2
<1>10. ASSUME NEW status \in {"integrated", "integrating", "escalated"}, IntegrationEnd(c, status)
       PROVE  Alone(c) /\ MergeEnded(c)
  <2>. DEFINE e == [r.event EXCEPT !.kind = "ticket-integration-ended", !.to = status]
              tw == [r.ticketWrite EXCEPT !.status = status]
              q == [r EXCEPT !.step = "prepared", !.ticketWrite = tw, !.event = e]
  <2>1. call' = [call EXCEPT ![c] = q]
    <3>1. call \in [Clients -> CallRecord]
      BY CallTyped
    <3>. QED BY <1>2, <1>10, <3>1 DEF IntegrationEnd, CallRecord, Event, TicketRecord
  <2>2. Alone(c) /\ call'[c] = q
    <3>. HIDE DEF q
    <3>. QED BY <1>1, <2>1, CallBecomes
  <2>3. /\ tw.status = status /\ SameNames(tw, r.ticketWrite)
        /\ e.kind = "ticket-integration-ended" /\ e.to = status
    BY <1>2 DEF TicketRecord, Event, SameNames
  <2>4. /\ q.step = "prepared" /\ q.ticketWrite = tw /\ q.event = e /\ q.id = r.id
        /\ q.generation = r.generation /\ q.ticketRead = r.ticketRead
        /\ q.teamRead = r.teamRead /\ q.teamWrite = r.teamWrite
    BY <1>2 DEF CallRecord
  <2>. HIDE DEF q, tw, e
  <2>. QED BY <1>10, <2>2, <2>3, <2>4 DEF MergeEnded, IntegrationEnd
<1>11. CASE WriteTeam(c)
  <2>. DEFINE q == [r EXCEPT !.step = "team-written"]
  <2>0. ~Idle(c) /\ r.step = "prepared"
    BY <1>11 DEF WriteTeam, Idle
  <2>1. ticket[t] = r.ticketRead /\ team[t][g] = r.teamRead
    BY <1>4, <2>0 DEF FilesFollow
  <2>2. Locked(c) => [r EXCEPT !.step = "team-written", !.ticketRead = ticket[t]] = q
    BY <1>2, <2>1 DEF CallRecord
  <2>3. call' = [call EXCEPT ![c] = q]
    <3>1. call \in [Clients -> CallRecord]
      BY CallTyped
    <3>2. CASE Locked(c)
      <4>1. call' = [call EXCEPT ![c] = [r EXCEPT !.step = "team-written", !.ticketRead = ticket[t]]]
        BY <1>2, <1>11, <3>1, <3>2 DEF WriteTeam, CallRecord
      <4>. QED BY <2>2, <3>2, <4>1
    <3>3. CASE ~Locked(c)
      BY <1>2, <1>11, <3>1, <3>3 DEF WriteTeam, CallRecord
    <3>. QED BY <3>2, <3>3
  <2>4. Alone(c) /\ call'[c] = q
    <3>. HIDE DEF q
    <3>. QED BY <1>1, <2>3, CallBecomes
  <2>5. q.step = "team-written" /\ SameCall(q, r)
    BY <1>2 DEF CallRecord, SameCall
  <2>6. TeamBecomes(t, g, r.teamWrite)
    <3>1. CASE Locked(c)
      BY <1>8, <1>11, <2>0, <2>1, <3>1 DEF WriteTeam
    <3>2. CASE ~Locked(c)
      BY <1>2, <1>7, <1>11, <3>2 DEF WriteTeam
    <3>. QED BY <3>1, <3>2
  <2>. HIDE DEF q
  <2>7. TeamWritten(c)
    BY <1>11, <2>0, <2>4, <2>5, <2>6 DEF TeamWritten, WriteTeam
  <2>. QED BY <2>4, <2>7
<1>12. CASE WriteTicket(c)
  <2>. DEFINE round == <<r.event.generation, r.event.round>>
              b == round \in closed[t]
              q == [r EXCEPT !.step = "ticket-written", !.wasClosed = b]
  <2>1. call' = [call EXCEPT ![c] = q]
    <3>1. call \in [Clients -> CallRecord]
      BY CallTyped
    <3>. QED BY <1>2, <1>12, <3>1 DEF WriteTicket, CallRecord
  <2>. HIDE DEF b
  <2>2. q.step = "ticket-written" /\ SameCall(q, r) /\ q.wasClosed = b
    BY <1>2 DEF CallRecord, SameCall
  <2>. HIDE DEF q
  <2>3. Alone(c) /\ call'[c] = q
    BY <1>1, <2>1, CallBecomes
  <2>4. TicketBecomes(t, r.ticketWrite)
    BY <1>2, <1>3, <1>12 DEF WriteTicket, TicketBecomes
  <2>5. TicketWritten(c)
    BY <1>12, <2>2, <2>3, <2>4 DEF TicketWritten, WriteTicket, b
  <2>. QED BY <2>3, <2>5
<1>13. CASE Append(c)
  <2>1. CASE r.event.kind = "ticket-integration-started"
    <3>. DEFINE q == [r EXCEPT !.step = "merging", !.ticketRead = r.ticketWrite]
    <3>1. call' = [call EXCEPT ![c] = q]
      <4>1. call \in [Clients -> CallRecord]
        BY CallTyped
      <4>. QED BY <1>2, <1>13, <2>1, <4>1 DEF Append, CallRecord
    <3>2. /\ q.step = "merging" /\ q.id = r.id /\ q.generation = r.generation
          /\ q.ticketRead = r.ticketWrite /\ q.ticketWrite = r.ticketWrite
          /\ q.teamRead = r.teamRead /\ q.teamWrite = r.teamWrite /\ q.event = r.event
      BY <1>2 DEF CallRecord
    <3>. HIDE DEF q
    <3>3. Alone(c) /\ call'[c] = q
      BY <1>1, <3>1, CallBecomes
    <3>4. r.step = "ticket-written" /\ UNCHANGED <<disk, crashes>>
      BY <1>13 DEF Append
    <3>. QED BY <1>13, <2>1, <3>2, <3>3, <3>4 DEF Appended
  <2>2. CASE r.event.kind # "ticket-integration-started"
    <3>1. call' = [call EXCEPT ![c] = IdleCall]
      BY <1>13, <2>2 DEF Append
    <3>2. Alone(c) /\ call'[c] = IdleCall
      BY <1>1, <3>1, CallBecomes
    <3>3. r.step = "ticket-written" /\ UNCHANGED <<disk, crashes>>
      BY <1>13 DEF Append
    <3>. QED BY <1>5, <1>13, <2>2, <3>2, <3>3 DEF Appended
  <2>. QED BY <2>1, <2>2
<1>14. CASE RollBack(c)
  <2>1. ~Idle(c) /\ r.step \in {"team-written", "ticket-written"}
    BY <1>14 DEF RollBack, Idle
  <2>2. Alone(c) /\ call'[c] = IdleCall
    BY <1>1, <1>14, CallBecomes DEF RollBack
  <2>3. team[t][g] = r.teamWrite
    BY <1>4, <2>1 DEF FilesFollow
  <2>4. TeamBecomes(t, g, r.teamRead)
    <3>1. CASE Locked(c)
      BY <1>8, <1>14, <2>1, <2>3, <3>1 DEF RollBack
    <3>2. CASE ~Locked(c)
      BY <1>2, <1>7, <1>14, <3>2 DEF RollBack
    <3>. QED BY <3>1, <3>2
  <2>5. TicketBecomes(t, r.ticketRead)
    BY <1>2, <1>3, <1>14 DEF RollBack, TicketBecomes, TicketRestored
  <2>6. RolledBack(c)
    BY <1>5, <1>14, <2>1, <2>2, <2>4, <2>5 DEF RolledBack, RollBack
  <2>. QED BY <2>2, <2>6
<1>15. CASE Refuse(c)
  <2>1. Alone(c) /\ call'[c] = IdleCall
    BY <1>1, <1>15, CallBecomes DEF Refuse
  <2>. QED BY <1>5, <1>15, <2>1 DEF Refuse, Dropped
<1>16. CASE Crash(c)
  <2>1. Alone(c) /\ call'[c] = IdleCall
    BY <1>1, <1>16, CallBecomes DEF Crash
  <2>. QED BY <1>5, <1>16, <2>1 DEF Crash, Dropped, Idle
<1>. QED BY <1>1, <1>9, <1>10, <1>11, <1>12, <1>13, <1>14, <1>15, <1>16 DEF Step, Progress

----------------------------------------------------------------------------
(* Calls go by the files they find *)

\* After a step of c alone, only its call can be under way.
LEMMA OnlyMine ==
  ASSUME NEW c \in Clients, Alone(c), NEW d \in Clients, call'[d].step # "idle"
  PROVE  d = c
BY DEF Alone

\* Each step leaves the files as its call says.
LEMMA CallsStaySound ==
  ASSUME Typed, CallsAreSound, [SerialNext]_vars
  PROVE  CallsAreSound'
<1>1. CASE UNCHANGED vars
  BY <1>1 DEF CallsAreSound, Idle, FilesFollow, vars, disk
<1>2. CASE ~UNCHANGED vars
  <2>1. PICK c \in Clients :
           /\ Alone(c)
           /\ \/ \E t \in TicketIds, r \in CallRecord : Prepares(c, t, r) /\ Decided(t, r)
              \/ MergeEnded(c) \/ TeamWritten(c) \/ TicketWritten(c) \/ Appended(c)
              \/ RolledBack(c) \/ Dropped(c)
    BY <1>2, SerialSteps
  <2>. DEFINE r == call[c]
              q == call'[c]
  <2>. SUFFICES ASSUME q.step # "idle" PROVE Plan(q) /\ (FilesFollow(c))'
    BY <2>1, OnlyMine DEF CallsAreSound, Idle
  <2>2. r.step # "idle" => Plan(r) /\ FilesFollow(c)
    BY DEF CallsAreSound, Idle
  <2>3. r.id \in TicketIds /\ r.generation \in Generations
    BY CallFields
  <2>4. ASSUME NEW t \in TicketIds, NEW p \in CallRecord, Prepares(c, t, p), Decided(t, p)
        PROVE  Plan(q) /\ (FilesFollow(c))'
    <3>1. q = p
      BY <2>4, CallTyped DEF Prepares
    <3>. QED BY <2>4, <3>1 DEF Prepares, Decided, FilesFollow, disk
  <2>5. CASE MergeEnded(c)
    <3>1. Plan(r) /\ FilesFollow(c)
      BY <2>2, <2>5 DEF MergeEnded
    <3>2. Plan(q)
      BY <2>5, <3>1 DEF MergeEnded, SameNames, Plan, Starting, StartPlan, LaterPlan, LockedCall,
         KeepsStatus
    <3>3. (FilesFollow(c))'
      BY <2>5, <3>1 DEF MergeEnded, FilesFollow, disk
    <3>. QED BY <3>2, <3>3
  <2>6. ASSUME SameCall(q, r), r.step # "idle", q.step # "merging"
        PROVE  Plan(q)
    BY <2>2, <2>6 DEF SameCall, Plan, Starting, StartPlan, LaterPlan, LockedCall
  <2>7. CASE TeamWritten(c)
    <3>1. Plan(q)
      BY <2>6, <2>7 DEF TeamWritten
    <3>2. (FilesFollow(c))'
      BY <2>2, <2>3, <2>7 DEF TeamWritten, FilesFollow, TeamBecomes, SameCall
    <3>. QED BY <3>1, <3>2
  <2>8. CASE TicketWritten(c)
    <3>1. Plan(q)
      BY <2>6, <2>8 DEF TicketWritten
    <3>2. (FilesFollow(c))'
      BY <2>2, <2>3, <2>8 DEF TicketWritten, FilesFollow, TicketBecomes, SameCall
    <3>. QED BY <3>1, <3>2
  <2>9. CASE Appended(c)
    <3>1. /\ r.event.kind = "ticket-integration-started" /\ r.step = "ticket-written"
          /\ Plan(r) /\ FilesFollow(c)
      BY <2>2, <2>9 DEF Appended
    <3>2. Plan(q)
      BY <2>9, <3>1 DEF Appended, Plan, Starting, StartPlan, LaterPlan, LockedCall, KeepsStatus
    <3>3. (FilesFollow(c))'
      BY <2>9, <3>1 DEF Appended, Plan, FilesFollow, LockedCall, disk
    <3>. QED BY <3>2, <3>3
  <2>. QED BY <2>1, <2>4, <2>5, <2>7, <2>8, <2>9 DEF RolledBack, Dropped
<1>. QED BY <1>1, <1>2

\* The files are always as the call under way has left them, and its record follows
\* from what it read.
THEOREM CallsAlwaysSound == SerialSpec => [](Typed /\ CallsAreSound)
<1>1. Init => Typed /\ CallsAreSound
  <2>1. Init => CallsAreSound
    BY IdleCallTyped DEF Init, CallsAreSound, Idle
  <2>. QED BY <2>1, InitTyped
<1>2. Typed /\ CallsAreSound /\ [SerialNext]_vars => (Typed /\ CallsAreSound)'
  BY TypedStep, SerialIsNext, CallsStaySound
<1>. QED BY <1>1, <1>2, PTL DEF SerialSpec

----------------------------------------------------------------------------
(* Generations and retirement *)

GenInv == SupersededTeamsAreRetired /\ RequestsAreAtTheFrontier /\ TeamsAgree

\* A request is about the last generation there is, or starts the next.
LEMMA PreparedAtTheFrontier ==
  ASSUME Typed, SupersededTeamsAreRetired, NEW c \in Clients, NEW t \in TicketIds,
         NEW r \in CallRecord, Prepares(c, t, r), Decided(t, r), ~LockedCall(r)
  PROVE  Frontier(t, r.generation)
<1>. DEFINE g == r.generation
<1>1. g \in Generations /\ r.teamRead = team[t][g] /\ Plan(r)
  BY DEF CallRecord, Prepares, Decided
<1>2. CASE Starting(r)
  <2>1. r.teamRead.status = "none" /\ (g = 1 \/ team[t][g - 1].status = "retired")
    BY <1>1, <1>2 DEF Plan, StartPlan, Decided
  <2>2. ASSUME NEW h \in Generations, h < g PROVE team[t][h].status = "retired"
    <3>1. g # 1 /\ g - 1 \in Generations /\ (h = g - 1 \/ h < g - 1)
      BY <1>1, <2>2, BoundsAssumption DEF Generations, BoundsAssumption
    <3>. QED BY <2>1, <2>2, <3>1 DEF SupersededTeamsAreRetired
  <2>3. ASSUME NEW h \in Generations, h > g PROVE team[t][h].status = "none"
    BY <1>1, <2>1, <2>3 DEF SupersededTeamsAreRetired, Generations
  <2>. QED BY <2>2, <2>3 DEF Frontier
<1>3. CASE ~Starting(r)
  BY <1>1, <1>3 DEF Plan, SupersededTeamsAreRetired, Frontier, Generations
<1>. QED BY <1>2, <1>3

\* The last generation may change without the others.
LEMMA FrontierMoves ==
  ASSUME SupersededTeamsAreRetired, NEW t \in TicketIds, NEW g \in Generations, NEW m,
         Frontier(t, g) \/ m = team[t][g], TeamBecomes(t, g, m)
  PROVE  SupersededTeamsAreRetired' /\ (Frontier(t, g) => (Frontier(t, g))')
<1>1. SupersededTeamsAreRetired'
  <2>. SUFFICES ASSUME NEW u \in TicketIds, NEW e \in Generations, NEW h \in Generations,
                       e < h, team'[u][h].status # "none"
                PROVE  team'[u][e].status = "retired"
    BY DEF SupersededTeamsAreRetired
  <2>1. CASE u # t \/ (e # g /\ h # g) \/ m = team[t][g]
    BY <2>1 DEF TeamBecomes, SupersededTeamsAreRetired
  <2>2. CASE u = t /\ e = g /\ Frontier(t, g)
    BY <2>2 DEF TeamBecomes, Frontier, Generations
  <2>3. CASE u = t /\ h = g /\ Frontier(t, g)
    BY <2>3 DEF TeamBecomes, Frontier, Generations
  <2>. QED BY <2>1, <2>2, <2>3
<1>2. ASSUME Frontier(t, g) PROVE (Frontier(t, g))'
  BY <1>2 DEF TeamBecomes, Frontier, Generations
<1>. QED BY <1>1, <1>2

\* What a Team becomes agrees with the events when what it was did.
LEMMA WritesAgree ==
  ASSUME NEW t, NEW r, Plan(r), Agrees(r.teamRead, t, r.generation)
  PROVE  Agrees(r.teamWrite, t, r.generation)
BY DEF Plan, StartPlan, LaterPlan, Agrees

\* Each step keeps the order of the generations and what the events say of them.
LEMMA GenerationsStep ==
  ASSUME Typed, CallsAreSound, GenInv, [SerialNext]_vars
  PROVE  GenInv'
<1>0. SupersededTeamsAreRetired /\ RequestsAreAtTheFrontier /\ TeamsAgree
  BY DEF GenInv
<1>1. CASE UNCHANGED vars
  BY <1>0, <1>1 DEF GenInv, SupersededTeamsAreRetired, RequestsAreAtTheFrontier, TeamsAgree,
     Frontier, Agrees, Idle, vars, disk, worldline
<1>2. CASE ~UNCHANGED vars
  <2>1. PICK c \in Clients :
           /\ Alone(c)
           /\ \/ \E t \in TicketIds, r \in CallRecord : Prepares(c, t, r) /\ Decided(t, r)
              \/ MergeEnded(c) \/ TeamWritten(c) \/ TicketWritten(c) \/ Appended(c)
              \/ RolledBack(c) \/ Dropped(c)
    BY <1>2, SerialSteps
  <2>. PICK r : r = call[c]
    OBVIOUS
  <2>. PICK q : q = call'[c]
    OBVIOUS
  <2>. DEFINE Mine == q.step # "idle" =>
                        /\ ~LockedCall(q) => (Frontier(q.id, q.generation))'
                        /\ (Agrees(q.teamRead, q.id, q.generation))'
                        /\ (Agrees(q.teamWrite, q.id, q.generation))'
  <2>2. r.step # "idle" => /\ Plan(r) /\ FilesFollow(c)
                           /\ ~LockedCall(r) => Frontier(r.id, r.generation)
                           /\ Agrees(r.teamRead, r.id, r.generation)
                           /\ Agrees(r.teamWrite, r.id, r.generation)
    BY <1>0 DEF CallsAreSound, RequestsAreAtTheFrontier, TeamsAgree, Idle
  <2>3. r.id \in TicketIds /\ r.generation \in Generations /\ EventNames(r) /\ r.event \in Event
    BY CallFields
  <2>4. ASSUME SupersededTeamsAreRetired',
               \A u \in TicketIds, h \in Generations : Agrees(team[u][h], u, h)', Mine
        PROVE  GenInv'
    <3>1. RequestsAreAtTheFrontier'
      BY <2>1, <2>4, OnlyMine DEF RequestsAreAtTheFrontier, Idle
    <3>2. TeamsAgree'
      BY <2>1, <2>4, OnlyMine DEF TeamsAgree, Idle
    <3>. QED BY <2>4, <3>1, <3>2 DEF GenInv
  <2>5. ASSUME UNCHANGED worldline
        PROVE  \A m, u, h : Agrees(m, u, h) => Agrees(m, u, h)'
    BY <2>5 DEF worldline, Agrees
  <2>6. ASSUME UNCHANGED team
        PROVE  /\ SupersededTeamsAreRetired'
               /\ \A u, h : Frontier(u, h) => (Frontier(u, h))'
    BY <1>0, <2>6 DEF SupersededTeamsAreRetired, Frontier
  <2>7. ASSUME UNCHANGED <<team, worldline>>
        PROVE  \A u \in TicketIds, h \in Generations : Agrees(team[u][h], u, h)'
    BY <1>0, <2>7 DEF TeamsAgree, Agrees, worldline
  <2>8. ASSUME NEW t \in TicketIds, NEW p \in CallRecord, Prepares(c, t, p), Decided(t, p)
        PROVE  GenInv'
    <3>1. q = p /\ p.id = t /\ p.generation \in Generations /\ p.teamRead = team[t][p.generation]
          /\ Plan(p) /\ UNCHANGED <<team, worldline>>
      BY <2>8, CallTyped DEF Prepares, Decided, disk, CallRecord
    <3>2. ~LockedCall(p) => Frontier(t, p.generation)
      BY <1>0, <2>8, PreparedAtTheFrontier
    <3>3. Agrees(p.teamRead, t, p.generation) /\ Agrees(p.teamWrite, t, p.generation)
      BY <1>0, <3>1, WritesAgree DEF TeamsAgree
    <3>4. Mine
      BY <3>1, <3>2, <3>3 DEF Agrees, Frontier, worldline
    <3>. QED BY <2>4, <2>6, <2>7, <3>1, <3>4
  <2>9. CASE MergeEnded(c)
    <3>1. UNCHANGED <<team, worldline>> /\ LockedCall(q)
      BY <2>9 DEF MergeEnded, disk, LockedCall
    <3>2. Mine
      BY <2>2, <2>9, <3>1 DEF MergeEnded, Agrees, worldline
    <3>. QED BY <2>4, <2>6, <2>7, <3>1, <3>2
  <2>10. CASE TeamWritten(c)
    <3>1. /\ Plan(r) /\ FilesFollow(c) /\ TeamBecomes(r.id, r.generation, r.teamWrite)
          /\ SameCall(q, r) /\ UNCHANGED worldline
          /\ team[r.id][r.generation] = r.teamRead
      BY <2>2, <2>10 DEF TeamWritten, FilesFollow
    <3>2. Frontier(r.id, r.generation) \/ r.teamWrite = team[r.id][r.generation]
      BY <2>2, <2>10, <3>1 DEF Plan, TeamWritten
    <3>3. /\ SupersededTeamsAreRetired'
          /\ Frontier(r.id, r.generation) => (Frontier(r.id, r.generation))'
      BY <1>0, <2>3, <3>1, <3>2, FrontierMoves
    <3>4. ASSUME NEW u \in TicketIds, NEW h \in Generations PROVE Agrees(team[u][h], u, h)'
      <4>1. team'[u][h] = IF u = r.id /\ h = r.generation THEN r.teamWrite ELSE team[u][h]
        BY <3>1 DEF TeamBecomes
      <4>2. Agrees(team[u][h], u, h) /\ Agrees(r.teamWrite, r.id, r.generation)
        BY <1>0, <2>2, <2>10 DEF TeamsAgree, TeamWritten
      <4>. QED BY <3>1, <4>1, <4>2 DEF Agrees, worldline
    <3>5. Mine
      BY <2>2, <2>10, <3>1, <3>3 DEF TeamWritten, SameCall, Agrees, worldline, LockedCall, Frontier
    <3>. QED BY <2>4, <3>3, <3>4, <3>5
  <2>11. CASE TicketWritten(c)
    <3>1. UNCHANGED <<team, worldline>> /\ SameCall(q, r) /\ r.step # "idle"
      BY <2>11 DEF TicketWritten
    <3>2. Mine
      BY <2>2, <3>1 DEF SameCall, Agrees, worldline, LockedCall, Frontier
    <3>. QED BY <2>4, <2>6, <2>7, <3>1, <3>2
  <2>12. CASE Appended(c)
    <3>. DEFINE e == r.event
                t == r.id
                g == r.generation
    <3>1. /\ Plan(r) /\ team[t][g] = r.teamWrite /\ UNCHANGED team
          /\ Agrees(r.teamRead, t, g) /\ Agrees(r.teamWrite, t, g) /\ Names(e, g)
      BY <2>2, <2>3, <2>12 DEF Appended, FilesFollow, disk, EventNames
    <3>2. /\ retirements \in [TicketIds -> SUBSET (Generations \X {"team-retiring", "team-retired"})]
          /\ rejections \in [TicketIds -> SUBSET (Generations \X Rounds)]
      BY DEF Typed, TypeOK
    <3>3. ASSUME NEW u \in TicketIds, NEW h \in Generations PROVE Agrees(team[u][h], u, h)'
      <4>1. Agrees(team[u][h], u, h)
        BY <1>0 DEF TeamsAgree
      <4>2. ASSUME NEW k, <<h, k>> \in retirements'[u], <<h, k>> \notin retirements[u]
            PROVE  u = t /\ h = g /\ k = e.kind /\ e.kind \in {"team-retiring", "team-retired"}
        BY <2>3, <2>12, <3>1, <3>2, <4>2 DEF Appended, Append, Names
      <4>3. ASSUME NEW n, <<h, n>> \in rejections'[u], <<h, n>> \notin rejections[u]
            PROVE  u = t /\ h = g /\ e.kind = "team-round-implementation-rejected"
        BY <2>3, <2>12, <3>1, <3>2, <4>3 DEF Appended, Append, Names, ClosesRound
      <4>4. <<h, "team-retiring">> \in retirements'[u] =>
              team[u][h].status \in {"retiring", "retired"}
        BY <3>1, <4>1, <4>2 DEF Agrees, Plan
      <4>5. <<h, "team-retired">> \in retirements'[u] => team[u][h].status = "retired"
        BY <3>1, <4>1, <4>2 DEF Agrees, Plan
      <4>6. (\E n \in Rounds : <<h, n>> \in rejections'[u]) => team[u][h].status # "none"
        BY <3>1, <4>1, <4>3 DEF Agrees, Plan
      <4>. QED BY <3>1, <4>4, <4>5, <4>6 DEF Agrees
    <3>4. Mine
      <4>1. CASE e.kind = "ticket-integration-started"
        <5>1. UNCHANGED <<retirements, rejections>>
          BY <2>12, <4>1 DEF Appended, Append
        <5>. QED BY <2>12, <3>1, <4>1, <5>1 DEF Appended, Agrees, LockedCall
      <4>2. CASE e.kind # "ticket-integration-started"
        BY <2>12, <4>2 DEF Appended
      <4>. QED BY <4>1, <4>2
    <3>. QED BY <2>4, <2>6, <3>1, <3>3, <3>4
  <2>13. CASE RolledBack(c)
    <3>1. /\ Plan(r) /\ FilesFollow(c) /\ TeamBecomes(r.id, r.generation, r.teamRead)
          /\ UNCHANGED worldline /\ team[r.id][r.generation] = r.teamWrite
      BY <2>2, <2>13 DEF RolledBack, FilesFollow
    <3>2. Frontier(r.id, r.generation) \/ r.teamRead = team[r.id][r.generation]
      BY <2>2, <2>13, <3>1 DEF Plan, RolledBack
    <3>3. SupersededTeamsAreRetired'
      BY <1>0, <2>3, <3>1, <3>2, FrontierMoves
    <3>4. ASSUME NEW u \in TicketIds, NEW h \in Generations PROVE Agrees(team[u][h], u, h)'
      <4>1. team'[u][h] = IF u = r.id /\ h = r.generation THEN r.teamRead ELSE team[u][h]
        BY <3>1 DEF TeamBecomes
      <4>2. Agrees(team[u][h], u, h) /\ Agrees(r.teamRead, r.id, r.generation)
        BY <1>0, <2>2, <2>13 DEF TeamsAgree, RolledBack
      <4>. QED BY <3>1, <4>1, <4>2 DEF Agrees, worldline
    <3>. QED BY <2>4, <2>13, <3>3, <3>4 DEF RolledBack
  <2>14. CASE Dropped(c)
    <3>1. UNCHANGED <<team, worldline>> /\ Mine
      BY <2>14 DEF Dropped, disk
    <3>. QED BY <2>4, <2>6, <2>7, <3>1
  <2>. QED BY <2>1, <2>8, <2>9, <2>10, <2>11, <2>12, <2>13, <2>14
<1>. QED BY <1>1, <1>2

\* The Teams of a Ticket follow one another, and agree with the retirements and
\* rejections that the Worldline records.
THEOREM GenerationsAlways == SerialSpec => []GenInv
<1>1. Init => GenInv
  <2>. SUFFICES ASSUME Init PROVE GenInv
    OBVIOUS
  <2>1. \A c \in Clients : Idle(c)
    BY IdleCallTyped DEF Init, Idle
  <2>2. \A t \in TicketIds, g \in Generations : team[t][g] = NoTeam /\ team[t][g].status = "none"
    BY DEF Init, NoTeam
  <2>3. SupersededTeamsAreRetired
    BY <2>2 DEF SupersededTeamsAreRetired
  <2>4. TeamsAgree /\ RequestsAreAtTheFrontier
    BY <2>1, <2>2 DEF Init, TeamsAgree, Agrees, RequestsAreAtTheFrontier
  <2>. QED BY <2>3, <2>4 DEF GenInv
<1>2. Typed /\ CallsAreSound /\ GenInv /\ [SerialNext]_vars => GenInv'
  BY GenerationsStep
<1>. QED BY <1>1, <1>2, CallsAlwaysSound, PTL DEF SerialSpec

\* A generation exists only after every earlier one has retired, whatever Main writes
\* and wherever calls are refused, rolled back or killed.
THEOREM TeamsAreSuperseded == SerialSpec => []SupersededTeamsAreRetired
<1>1. GenInv => SupersededTeamsAreRetired
  BY DEF GenInv
<1>. QED BY <1>1, GenerationsAlways, PTL

\* What the Worldline says of a retirement stays true of team.yml.
THEOREM RetirementHolds == SerialSpec => []RetirementIsPermanent
<1>1. GenInv => RetirementIsPermanent
  BY DEF GenInv, TeamsAgree, Agrees, RetirementIsPermanent
<1>. QED BY <1>1, GenerationsAlways, PTL

----------------------------------------------------------------------------
(* Rounds *)

\* No step reopens a Round whose rejection is on the Worldline.
LEMMA RejectionsStayClosed ==
  ASSUME Typed, CallsAreSound, RejectionsClose, [SerialNext]_vars
  PROVE  RejectionsClose'
<1>1. CASE UNCHANGED vars
  BY <1>1 DEF RejectionsClose, vars, disk, worldline
<1>2. CASE ~UNCHANGED vars
  <2>1. PICK c \in Clients :
           /\ Alone(c)
           /\ \/ \E t \in TicketIds, r \in CallRecord : Prepares(c, t, r) /\ Decided(t, r)
              \/ MergeEnded(c) \/ TeamWritten(c) \/ TicketWritten(c) \/ Appended(c)
              \/ RolledBack(c) \/ Dropped(c)
    BY <1>2, SerialSteps
  <2>. PICK r : r = call[c]
    OBVIOUS
  <2>. PICK q : q = call'[c]
    OBVIOUS
  <2>. DEFINE round == <<r.event.generation, r.event.round>>
              Mine == q.step = "ticket-written" /\ ClosesRound(q.event) =>
                        /\ <<q.event.generation, q.event.round>> \in closed'[q.id]
                        /\ ~q.wasClosed =>
                             <<q.event.generation, q.event.round>> \notin rejections'[q.id]
  <2>2. /\ \A t \in TicketIds : rejections[t] \subseteq closed[t]
        /\ r.step = "ticket-written" /\ ClosesRound(r.event) =>
             /\ round \in closed[r.id]
             /\ ~r.wasClosed => round \notin rejections[r.id]
    BY DEF RejectionsClose
  <2>3. /\ closed \in [TicketIds -> SUBSET (Generations \X Rounds)]
        /\ rejections \in [TicketIds -> SUBSET (Generations \X Rounds)]
        /\ r.id \in TicketIds
    BY CallFields DEF Typed, TypeOK
  <2>4. ASSUME \A t \in TicketIds : rejections'[t] \subseteq closed'[t], Mine
        PROVE  RejectionsClose'
    BY <2>1, <2>4, OnlyMine DEF RejectionsClose
  <2>5. ASSUME NEW t \in TicketIds, NEW p \in CallRecord, Prepares(c, t, p)
        PROVE  RejectionsClose'
    <3>1. q = p /\ p.step = "prepared" /\ UNCHANGED <<closed, rejections>>
      BY <2>5, CallTyped DEF Prepares, disk, worldline
    <3>. QED BY <2>2, <2>4, <3>1
  <2>6. CASE MergeEnded(c) \/ Dropped(c) \/ TeamWritten(c)
    <3>1. q.step # "ticket-written" /\ UNCHANGED <<closed, rejections>>
      BY <2>6 DEF MergeEnded, Dropped, TeamWritten, disk, worldline
    <3>. QED BY <2>2, <2>4, <3>1
  <2>7. CASE TicketWritten(c)
    <3>1. /\ q.id = r.id /\ q.event = r.event /\ q.wasClosed = (round \in closed[r.id])
          /\ closed' = IF ClosesRound(r.event)
                       THEN [closed EXCEPT ![r.id] = @ \cup {round}] ELSE closed
          /\ rejections' = rejections
      BY <2>7 DEF TicketWritten, SameCall, worldline
    <3>2. \A t \in TicketIds : closed[t] \subseteq closed'[t]
      BY <2>3, <3>1
    <3>3. ClosesRound(r.event) => round \in closed'[r.id]
      BY <2>3, <3>1
    <3>. QED BY <2>2, <2>3, <2>4, <3>1, <3>2, <3>3
  <2>8. CASE Appended(c)
    <3>1. r.step = "ticket-written" /\ closed' = closed /\ q.step # "ticket-written"
      BY <2>8 DEF Appended, disk
    <3>2. rejections' = IF r.event.kind = "team-round-implementation-rejected"
                        THEN [rejections EXCEPT ![r.id] = @ \cup {round}] ELSE rejections
      BY <2>8 DEF Appended, Append
    <3>3. r.event.kind = "team-round-implementation-rejected" => round \in closed[r.id]
      BY <2>2, <3>1 DEF ClosesRound
    <3>4. \A t \in TicketIds : rejections'[t] \subseteq closed'[t]
      BY <2>2, <2>3, <3>1, <3>2, <3>3
    <3>. QED BY <2>4, <3>1, <3>4
  <2>9. CASE RolledBack(c)
    <3>1. /\ q.step = "idle" /\ rejections' = rejections
          /\ closed' = IF r.step = "ticket-written" /\ ClosesRound(r.event) /\ ~r.wasClosed
                       THEN [closed EXCEPT ![r.id] = @ \ {round}] ELSE closed
      BY <2>9 DEF RolledBack, worldline
    <3>2. \A t \in TicketIds : rejections'[t] \subseteq closed'[t]
      BY <2>2, <2>3, <3>1
    <3>. QED BY <2>4, <3>1, <3>2
  <2>. QED BY <2>1, <2>5, <2>6, <2>7, <2>8, <2>9
<1>. QED BY <1>1, <1>2

\* One more lost event brings what a call read to what it may have left.
LEMMA PlanLoses ==
  ASSUME NEW r \in CallRecord, Plan(r), NEW n \in Nat, NEW h \in Generations,
         NEW tm, tm[r.generation] = r.teamRead, Lost(n, r.ticketRead, tm, h),
         ~LockedCall(r) => \A g \in Generations : g < r.generation => tm[g].status = "retired",
         NEW tk \in {r.ticketRead, r.ticketWrite}, NEW after,
         \A g \in Generations : g # r.generation => after[g] = tm[g],
         after[r.generation] \in {r.teamRead, r.teamWrite}
  PROVE  Lost(n + 1, tk, after, h)
<1>0. /\ r.generation \in Generations /\ Generations \subseteq Nat \ {0}
      /\ r.ticketRead.ordinal \in Nat /\ r.ticketWrite.ordinal \in Nat
  BY BoundsAssumption DEF CallRecord, TicketRecord, Generations, BoundsAssumption
<1>1. ~LockedCall(r) /\ h < r.generation => n >= 2
  BY DEF Lost
<1>2. Starting(r) => ~LockedCall(r)
  BY DEF Starting, LockedCall
<1>3. after[h].status = "retiring" => n + 1 >= 1
  OBVIOUS
<1>4. after[h].status = "retired" => n + 1 >= 2
  BY <1>0 DEF Lost, Plan, StartPlan, LaterPlan
<1>5. ASSUME NEW g \in Generations, g > h, after[g].status # "none"
      PROVE  n + 1 >= 3
  <2>1. CASE tm[g].status # "none"
    BY <1>5, <2>1 DEF Lost
  <2>2. CASE tm[g].status = "none"
    <3>1. g = r.generation /\ r.teamRead.status = "none" /\ r.teamWrite.status # "none"
      BY <1>0, <1>5, <2>2
    <3>2. Starting(r)
      BY <3>1 DEF Plan
    <3>. QED BY <1>0, <1>1, <1>2, <1>5, <3>1, <3>2
  <2>. QED BY <2>1, <2>2
<1>6. ASSUME tk.ordinal > h
      PROVE  /\ n + 1 >= 3
             /\ tk.status = "reviewing" => n + 1 >= 4
             /\ tk.status = "reworking" => n + 1 >= 5
  <2>1. CASE tk = r.ticketRead
    BY <1>6, <2>1 DEF Lost
  <2>2. CASE tk = r.ticketWrite /\ Starting(r)
    BY <1>0, <1>1, <1>2, <1>6, <2>2 DEF Plan, StartPlan
  <2>3. CASE tk = r.ticketWrite /\ ~Starting(r)
    <3>1. r.ticketRead.ordinal > h /\ LaterPlan(r)
      BY <1>0, <1>6, <2>3 DEF Plan, LaterPlan
    <3>. QED BY <2>3, <3>1 DEF Lost, LaterPlan
  <2>. QED BY <2>1, <2>2, <2>3
<1>. QED BY <1>3, <1>4, <1>5, <1>6 DEF Lost

\* Lost looks at the Teams one by one.
LEMMA LostAlike ==
  ASSUME NEW n, NEW tk, NEW tm, NEW after, NEW h, Lost(n, tk, tm, h), h \in Generations,
         \A g \in Generations : after[g] = tm[g]
  PROVE  Lost(n, tk, after, h)
BY DEF Lost

\* Each step leaves of a rejection what the lost events allow.
LEMMA ReworkStandsStep ==
  ASSUME Typed, CallsAreSound, GenInv, ReworkStands, [SerialNext]_vars
  PROVE  ReworkStands'
<1>1. CASE UNCHANGED vars
  <2>1. /\ ticket' = ticket /\ team' = team /\ rework' = rework /\ rejections' = rejections
        /\ call' = call /\ crashes' = crashes
    BY <1>1 DEF vars, disk, worldline
  <2>. QED BY <2>1 DEF ReworkStands, Stands, Reverted, Idle
<1>2. CASE ~UNCHANGED vars
  <2>1. PICK c \in Clients :
           /\ Alone(c)
           /\ \/ \E t \in TicketIds, r \in CallRecord : Prepares(c, t, r) /\ Decided(t, r)
              \/ MergeEnded(c) \/ TeamWritten(c) \/ TicketWritten(c) \/ Appended(c)
              \/ RolledBack(c) \/ Dropped(c)
    BY <1>2, SerialSteps
  <2>. PICK r : r = call[c]
    OBVIOUS
  <2>. PICK q : q = call'[c]
    OBVIOUS
  <2>2. r.step # "idle" => /\ Plan(r) /\ FilesFollow(c)
                           /\ ~LockedCall(r) => Frontier(r.id, r.generation)
    BY DEF CallsAreSound, GenInv, RequestsAreAtTheFrontier, Idle
  <2>3. /\ r \in CallRecord /\ r.id \in TicketIds /\ r.generation \in Generations
        /\ EventNames(r) /\ r.event \in Event
    BY CallFields
  <2>4. /\ team \in [TicketIds -> [Generations -> TeamRecord]]
        /\ rejections \in [TicketIds -> SUBSET (Generations \X Rounds)]
        /\ crashes \in Nat
    BY DEF Typed, TypeOK
  <2>5. SUFFICES ASSUME NEW u \in TicketIds, rework'[u] # 0
                 PROVE  \E h \in Generations : Stands(u, h)'
    BY DEF ReworkStands
  \* What is to be shown when it was this rejection before.
  <2>6. ASSUME NEW h \in Generations, <<h, rework'[u]>> \in rejections'[u],
               q.step # "idle" /\ q.id = u => Lost(crashes', q.ticketRead, Reverted(q)', h),
               q.step = "idle" \/ q.id # u => Lost(crashes', ticket'[u], team'[u], h)
        PROVE  \E k \in Generations : Stands(u, k)'
    <3>1. \A d \in Clients : call'[d].step # "idle" => d = c
      BY <2>1, OnlyMine
    <3>. QED BY <2>6, <3>1 DEF Stands, Idle, Reverted
  \* What is known of the rejection before the step.
  <2>7. ASSUME UNCHANGED <<rework, rejections>>
        PROVE  \E h \in Generations :
                 /\ <<h, rework'[u]>> \in rejections'[u]
                 /\ r.step # "idle" /\ r.id = u => Lost(crashes, r.ticketRead, Reverted(r), h)
                 /\ r.step = "idle" \/ r.id # u => Lost(crashes, ticket[u], team[u], h)
    <3>1. PICK h \in Generations : Stands(u, h)
      BY <2>5, <2>7 DEF ReworkStands
    <3>2. r.step = "idle" \/ r.id # u => \A d \in Clients : Idle(d) \/ call[d].id # u
      BY <2>1 DEF Alone, Idle
    <3>. QED BY <2>7, <3>1, <3>2 DEF Stands, Idle
  <2>8. \A g \in Generations : /\ g # r.generation => Reverted(r)[g] = team[r.id][g]
                               /\ Reverted(r)[r.generation] = r.teamRead
    BY <2>3, <2>4 DEF Reverted
  <2>9. ASSUME NEW t \in TicketIds, NEW p \in CallRecord, Prepares(c, t, p), Decided(t, p)
        PROVE  \E h \in Generations : Stands(u, h)'
    <3>1. /\ q = p /\ p.step = "prepared" /\ p.id = t /\ p.generation \in Generations
          /\ p.ticketRead = ticket[t] /\ p.teamRead = team[t][p.generation] /\ r.step = "idle"
          /\ UNCHANGED <<ticket, team, rework, rejections, crashes>>
      BY <2>9, CallTyped DEF Prepares, disk, worldline, Idle, CallRecord
    <3>2. Reverted(q)' = team[t]
      BY <2>4, <3>1 DEF Reverted
    <3>3. PICK h \in Generations : /\ <<h, rework'[u]>> \in rejections'[u]
                                   /\ Lost(crashes, ticket[u], team[u], h)
      BY <2>7, <3>1
    <3>. QED BY <2>6, <3>1, <3>2, <3>3
  <2>10. CASE MergeEnded(c) \/ TeamWritten(c) \/ TicketWritten(c)
    <3>1. /\ q.id = r.id /\ q.generation = r.generation /\ q.ticketRead = r.ticketRead
          /\ q.teamRead = r.teamRead /\ r.step # "idle" /\ q.step # "idle"
          /\ UNCHANGED <<rework, rejections, crashes>>
      BY <2>10 DEF MergeEnded, TeamWritten, TicketWritten, SameCall, worldline
    <3>2. /\ \A v \in TicketIds : v # r.id => ticket'[v] = ticket[v]
          /\ \A v \in TicketIds, g \in Generations :
               v # r.id \/ g # r.generation => team'[v][g] = team[v][g]
      BY <2>10 DEF MergeEnded, TeamWritten, TicketWritten, TicketBecomes, TeamBecomes, disk
    <3>3. team' \in [TicketIds -> [Generations -> TeamRecord]]
      BY TypedStep, SerialIsNext DEF Typed, TypeOK
    <3>4. \A g \in Generations : Reverted(q)'[g] = Reverted(r)[g]
      BY <2>3, <2>4, <3>1, <3>2, <3>3 DEF Reverted
    <3>5. PICK h \in Generations :
                 /\ <<h, rework'[u]>> \in rejections'[u]
                 /\ r.id = u => Lost(crashes, r.ticketRead, Reverted(r), h)
                 /\ r.id # u => Lost(crashes, ticket[u], team[u], h)
      BY <2>7, <3>1
    <3>6. q.id = u => Lost(crashes', q.ticketRead, Reverted(q)', h)
      BY <3>1, <3>4, <3>5, LostAlike
    <3>7. q.id # u => Lost(crashes', ticket'[u], team'[u], h)
      BY <3>1, <3>2, <3>5, LostAlike
    <3>. QED BY <2>6, <3>1, <3>5, <3>6, <3>7
  <2>11. CASE Appended(c)
    <3>. DEFINE e == r.event
    <3>1. /\ r.step = "ticket-written" /\ UNCHANGED <<ticket, team, crashes>>
          /\ Plan(r) /\ FilesFollow(c) /\ Append(c)
      BY <2>2, <2>11 DEF Appended, disk
    <3>2. /\ rework' = [rework EXCEPT ![r.id] =
                          IF e.kind = "team-round-implementation-rejected" THEN e.round ELSE 0]
          /\ rejections' = IF e.kind = "team-round-implementation-rejected"
                           THEN [rejections EXCEPT ![r.id] = @ \cup {<<e.generation, e.round>>}]
                           ELSE rejections
      BY <3>1 DEF Append
    <3>3. rework \in [TicketIds -> 0..MaxRound]
      BY DEF Typed, TypeOK
    <3>4. CASE u # r.id
      <4>1. rework'[u] = rework[u] /\ rejections'[u] = rejections[u]
        BY <2>3, <2>4, <3>2, <3>3, <3>4
      <4>2. PICK h \in Generations : Stands(u, h)
        BY <2>5, <4>1 DEF ReworkStands
      <4>3. \A d \in Clients : Idle(d) \/ call[d].id # u
        BY <2>1, <3>4 DEF Alone
      <4>4. q.step # "idle" => q.id = r.id
        BY <2>11 DEF Appended
      <4>. QED BY <2>6, <3>1, <3>4, <4>1, <4>2, <4>3, <4>4 DEF Stands
    <3>5. CASE u = r.id
      <4>1. e.kind = "team-round-implementation-rejected" /\ rework'[u] = e.round
        BY <2>3, <2>5, <3>2, <3>3, <3>5
      <4>. DEFINE h == r.generation
      <4>2. e.generation = h /\ <<h, rework'[u]>> \in rejections'[u] /\ q.step = "idle"
        BY <2>3, <2>4, <2>11, <3>2, <3>5, <4>1 DEF EventNames, Names, ClosesRound, Appended
      <4>3. Frontier(u, h)
        BY <2>2, <3>1, <3>5, <4>1 DEF LockedCall
      <4>4. /\ team[u][h].status = "active" /\ ticket[u] = r.ticketWrite
            /\ ticket[u].ordinal = h \/ ticket[u].ordinal = 0
        BY <3>1, <3>5, <4>1 DEF Plan, FilesFollow
      <4>5. h \in Nat /\ h > 0
        BY <2>3, BoundsAssumption DEF Generations, BoundsAssumption
      <4>6. Lost(crashes, ticket[u], team[u], h)
        BY <4>3, <4>4, <4>5 DEF Lost, Frontier
      <4>. QED BY <2>3, <2>6, <3>1, <4>2, <4>6
    <3>. QED BY <3>4, <3>5
  <2>12. CASE RolledBack(c) \/ Dropped(c)
    <3>1. /\ q.step = "idle" /\ r.step # "idle" /\ UNCHANGED <<rework, rejections>>
          /\ Plan(r) /\ FilesFollow(c)
      BY <2>2, <2>12 DEF RolledBack, Dropped, worldline
    <3>2. PICK h \in Generations :
                 /\ <<h, rework'[u]>> \in rejections'[u]
                 /\ r.id = u => Lost(crashes, r.ticketRead, Reverted(r), h)
                 /\ r.id # u => Lost(crashes, ticket[u], team[u], h)
      BY <2>7, <3>1
    <3>3. CASE RolledBack(c) /\ u # r.id
      BY <2>6, <3>1, <3>2, <3>3, LostAlike DEF RolledBack, TicketBecomes, TeamBecomes
    <3>4. CASE RolledBack(c) /\ u = r.id
      <4>1. /\ crashes' = crashes /\ ticket'[u] = r.ticketRead
            /\ \A g \in Generations : team'[u][g] = Reverted(r)[g]
        BY <2>3, <2>8, <3>4 DEF RolledBack, TicketBecomes, TeamBecomes
      <4>2. Lost(crashes', ticket'[u], team'[u], h)
        BY <3>2, <3>4, <4>1, LostAlike
      <4>. QED BY <2>6, <3>1, <3>2, <4>2
    <3>5. CASE Dropped(c) /\ u # r.id
      <4>1. ticket' = ticket /\ team' = team /\ (crashes' = crashes \/ crashes' = crashes + 1)
        BY <3>5 DEF Dropped, disk
      <4>2. Lost(crashes', ticket'[u], team'[u], h)
        BY <2>4, <3>2, <3>5, <4>1 DEF Lost
      <4>. QED BY <2>6, <3>1, <3>2, <4>2
    <3>6. CASE Dropped(c) /\ u = r.id /\ crashes' = crashes /\ r.step = "prepared"
      <4>1. ticket'[u] = r.ticketRead /\ team' = team /\ team[u][r.generation] = r.teamRead
        BY <3>1, <3>6 DEF Dropped, disk, FilesFollow
      <4>2. \A g \in Generations : team[u][g] = Reverted(r)[g]
        BY <2>8, <3>6, <4>1
      <4>3. Lost(crashes', ticket'[u], team'[u], h)
        BY <3>2, <3>6, <4>1, <4>2, LostAlike
      <4>. QED BY <2>6, <3>1, <3>2, <4>3
    <3>7. CASE Dropped(c) /\ u = r.id /\ crashes' = crashes + 1
      <4>1. /\ ticket' = ticket /\ team' = team
            /\ ticket[u] \in {r.ticketRead, r.ticketWrite}
            /\ team[u][r.generation] \in {r.teamRead, r.teamWrite}
        BY <3>1, <3>7 DEF Dropped, disk, FilesFollow
      <4>2. ~LockedCall(r) =>
              \A g \in Generations : g < r.generation => Reverted(r)[g].status = "retired"
        BY <2>2, <2>3, <2>8, <3>1, BoundsAssumption
           DEF Frontier, Generations, BoundsAssumption
      <4>3. Lost(crashes + 1, ticket[u], team[u], h)
        <5>. DEFINE tm == Reverted(r)
        <5>1. tm[r.generation] = r.teamRead /\ Lost(crashes, r.ticketRead, tm, h)
          BY <2>3, <2>8, <3>2, <3>7
        <5>2. \A g \in Generations : g # r.generation => team[u][g] = tm[g]
          BY <2>8, <3>7
        <5>. HIDE DEF tm
        <5>. QED BY <2>3, <2>4, <3>1, <4>1, <4>2, <5>1, <5>2, PlanLoses DEF tm
      <4>. QED BY <2>6, <3>1, <3>2, <3>7, <4>1, <4>3
    <3>. QED BY <2>12, <3>3, <3>4, <3>5, <3>6, <3>7 DEF Dropped
  <2>. QED BY <2>1, <2>9, <2>10, <2>11, <2>12
<1>. QED BY <1>1, <1>2

\* The Rounds behind a Team stay rejected, and the next opens on the rejection of the
\* last: four lost events are too few for a rejection to outlive its Team.
LEMMA RoundsStep ==
  ASSUME MaxCrashes < 5, Typed, CallsAreSound, GenInv, ReworkStands, TeamsAreOpened,
         [SerialNext]_vars
  PROVE  TeamsAreOpened'
<1>1. CASE UNCHANGED vars
  BY <1>1 DEF TeamsAreOpened, Opened, Idle, vars, disk, worldline
<1>2. CASE ~UNCHANGED vars
  <2>1. PICK c \in Clients :
           /\ Alone(c)
           /\ \/ \E t \in TicketIds, r \in CallRecord : Prepares(c, t, r) /\ Decided(t, r)
              \/ MergeEnded(c) \/ TeamWritten(c) \/ TicketWritten(c) \/ Appended(c)
              \/ RolledBack(c) \/ Dropped(c)
    BY <1>2, SerialSteps
  <2>. PICK r : r = call[c]
    OBVIOUS
  <2>. PICK q : q = call'[c]
    OBVIOUS
  <2>. DEFINE Mine == q.step # "idle" =>
                        /\ Opened(q.teamRead, q.id, q.generation)'
                        /\ Opened(q.teamWrite, q.id, q.generation)'
  <2>2. r.step # "idle" => /\ Opened(r.teamRead, r.id, r.generation)
                           /\ Opened(r.teamWrite, r.id, r.generation)
    BY DEF TeamsAreOpened, Idle
  <2>3. /\ r.id \in TicketIds /\ r.generation \in Generations
        /\ rejections \in [TicketIds -> SUBSET (Generations \X Rounds)]
    BY CallFields DEF Typed, TypeOK
  <2>4. ASSUME NEW m, NEW u \in TicketIds, NEW g, Opened(m, u, g)
        PROVE  Opened(m, u, g)'
    <3>1. rejections[u] \subseteq rejections'[u]
      <4>1. CASE Appended(c)
        BY <2>3, <4>1 DEF Appended, Append
      <4>2. CASE ~Appended(c)
        BY <2>1, <4>2 DEF Prepares, MergeEnded, TeamWritten, TicketWritten, RolledBack, Dropped,
           worldline
      <4>. QED BY <4>1, <4>2
    <3>. QED BY <2>4, <3>1 DEF Opened
  <2>5. ASSUME \A u \in TicketIds, g \in Generations : Opened(team'[u][g], u, g), Mine
        PROVE  TeamsAreOpened'
    <3>1. \A u \in TicketIds, g \in Generations : Opened(team[u][g], u, g)'
      <4>. SUFFICES ASSUME NEW u \in TicketIds, NEW g \in Generations
                    PROVE  Opened(team[u][g], u, g)'
        OBVIOUS
      <4>1. PICK m : m = team'[u][g]
        OBVIOUS
      <4>2. Opened(m, u, g)'
        BY <2>4, <2>5, <4>1
      <4>. QED BY <4>1, <4>2 DEF Opened
    <3>2. \A d \in Clients : call'[d].step # "idle" => d = c
      BY <2>1, OnlyMine
    <3>. QED BY <2>5, <3>1, <3>2 DEF TeamsAreOpened, Opened, Idle
  <2>6. ASSUME team' = team
        PROVE  \A u \in TicketIds, g \in Generations : Opened(team'[u][g], u, g)
    BY <2>6 DEF TeamsAreOpened
  <2>7. ASSUME NEW m, TeamBecomes(r.id, r.generation, m), Opened(m, r.id, r.generation)
        PROVE  \A u \in TicketIds, g \in Generations : Opened(team'[u][g], u, g)
    BY <2>7 DEF TeamsAreOpened, TeamBecomes
  <2>8. ASSUME NEW t \in TicketIds, NEW p \in CallRecord, Prepares(c, t, p), Decided(t, p)
        PROVE  TeamsAreOpened'
    <3>. DEFINE g == p.generation
    <3>1. /\ q = p /\ p.id = t /\ g \in Generations /\ p.teamRead = team[t][g]
          /\ p.ticketRead = ticket[t] /\ team' = team /\ Plan(p) /\ r.step = "idle"
          /\ p.teamRead.round \in 0..MaxRound
      BY <2>8, CallTyped DEF Prepares, Decided, disk, CallRecord, TeamRecord, Idle
    <3>2. Opened(p.teamRead, t, g)
      BY <3>1 DEF TeamsAreOpened
    <3>4. CASE p.event.kind = "team-round-rework-started"
      <4>1. /\ ticket[t].status = "reworking" /\ team[t][g].status = "active"
            /\ team[t][g].round = rework[t] /\ p.teamWrite.round = rework[t] + 1
            /\ g = Current(t)
        BY <2>8, <3>1, <3>4 DEF Decided
      <4>2. ASSUME rework[t] # 0 PROVE <<g, rework[t]>> \in rejections[t]
        <5>1. PICK h \in Generations : Stands(t, h)
          BY <4>2 DEF ReworkStands
        <5>2. \A d \in Clients : Idle(d)
          BY <2>1, <3>1 DEF Alone, Idle
        <5>3. <<h, rework[t]>> \in rejections[t] /\ Lost(crashes, ticket[t], team[t], h)
          BY <5>1, <5>2 DEF Stands
        <5>4. rework[t] \in Rounds
          BY <2>3, <5>3
        <5>5. team[t][h].status # "none"
          BY <5>3, <5>4 DEF GenInv, TeamsAgree, Agrees
        <5>6. crashes \in Nat /\ crashes < 5
          BY BoundsAssumption DEF Typed, TypeOK, BoundsAssumption
        <5>7. ticket[t].ordinal # 0 => g = ticket[t].ordinal
          BY <4>1, CurrentTeam
        <5>8. ticket[t].ordinal = 0 => g = 1
          BY <4>1, CurrentTeam
        <5>9. g \in Nat /\ h \in Nat /\ h > 0 /\ g > 0
          BY <3>1, BoundsAssumption DEF Generations, BoundsAssumption
        <5>10. ~(h < g)
          BY <4>1, <5>3, <5>6, <5>7, <5>8, <5>9 DEF Lost
        <5>11. ~(g < h)
          BY <3>1, <4>1, <5>5 DEF GenInv, SupersededTeamsAreRetired
        <5>. QED BY <5>3, <5>9, <5>10, <5>11
      <4>3. Opened(p.teamWrite, t, g)
        <5>. SUFFICES ASSUME NEW n \in Rounds, n < p.teamWrite.round
                      PROVE  <<g, n>> \in rejections[t]
          BY DEF Opened
        <5>1. n \in Nat /\ n # 0 /\ rework[t] \in Nat
          BY <3>1, <4>1, BoundsAssumption DEF Rounds, BoundsAssumption
        <5>2. CASE n < rework[t]
          BY <3>1, <3>2, <4>1, <5>2 DEF Opened
        <5>3. CASE n = rework[t]
          BY <4>2, <5>1, <5>3
        <5>. QED BY <4>1, <5>1, <5>2, <5>3
      <4>. QED BY <2>4, <2>5, <2>6, <3>1, <3>2, <4>3
    <3>5. CASE ~Starting(p) /\ p.event.kind # "team-round-rework-started"
      <4>1. p.teamWrite.round = p.teamRead.round
        BY <2>8, <3>5 DEF Decided, Starting
      <4>2. Opened(p.teamWrite, t, g)
        BY <3>2, <4>1 DEF Opened
      <4>. QED BY <2>4, <2>5, <2>6, <3>1, <3>2, <4>2
    <3>6. CASE Starting(p) /\ Opened(p.teamWrite, t, g)
      BY <2>4, <2>5, <2>6, <3>1, <3>2, <3>6
    <3>7. Starting(p) => Opened(p.teamWrite, t, g)
      BY <3>1, BoundsAssumption DEF Plan, StartPlan, Opened, Rounds, BoundsAssumption
    <3>. QED BY <3>4, <3>5, <3>6, <3>7
  <2>9. CASE MergeEnded(c) \/ TicketWritten(c) \/ Appended(c)
    <3>1. /\ team' = team /\ r.step # "idle"
          /\ q.step # "idle" => /\ q.id = r.id /\ q.generation = r.generation
                                /\ q.teamRead = r.teamRead /\ q.teamWrite = r.teamWrite
      BY <2>9 DEF MergeEnded, TicketWritten, Appended, SameCall, disk
    <3>2. Mine
      BY <2>2, <2>3, <2>4, <3>1
    <3>. QED BY <2>5, <2>6, <3>1, <3>2
  <2>10. CASE TeamWritten(c)
    <3>1. /\ TeamBecomes(r.id, r.generation, r.teamWrite) /\ r.step # "idle"
          /\ q.id = r.id /\ q.generation = r.generation
          /\ q.teamRead = r.teamRead /\ q.teamWrite = r.teamWrite
      BY <2>10 DEF TeamWritten, SameCall
    <3>2. Mine
      BY <2>2, <2>3, <2>4, <3>1
    <3>. QED BY <2>2, <2>5, <2>7, <3>1, <3>2
  <2>11. CASE RolledBack(c)
    BY <2>2, <2>5, <2>7, <2>11 DEF RolledBack
  <2>12. CASE Dropped(c)
    BY <2>5, <2>6, <2>12 DEF Dropped, disk
  <2>. QED BY <2>1, <2>8, <2>9, <2>10, <2>11, <2>12
<1>. QED BY <1>1, <1>2

\* A Team is in its Round because every Round before it was rejected and closed, if
\* fewer than five events are lost to kills: the rework phase compares the Round of the
\* last rejection with the Team's and not the generation.
THEOREM RoundsAreEarned ==
  ASSUME MaxCrashes < 5
  PROVE  SerialSpec => []RoundsOpenedByRejection
<1>1. Init => RejectionsClose /\ ReworkStands /\ TeamsAreOpened
  <2>. SUFFICES ASSUME Init PROVE RejectionsClose /\ ReworkStands /\ TeamsAreOpened
    OBVIOUS
  <2>1. \A c \in Clients : call[c].step = "idle"
    BY IdleCallTyped DEF Init
  <2>2. RejectionsClose
    BY <2>1 DEF Init, RejectionsClose
  <2>3. ReworkStands
    BY DEF Init, ReworkStands
  <2>4. \A t \in TicketIds, g \in Generations : team[t][g].round = 0
    BY DEF Init, NoTeam
  <2>5. TeamsAreOpened
    BY <2>1, <2>4, BoundsAssumption
       DEF TeamsAreOpened, Opened, Idle, Rounds, BoundsAssumption
  <2>. QED BY <2>2, <2>3, <2>5
<1>2. ASSUME Typed, CallsAreSound, GenInv, RejectionsClose, ReworkStands, TeamsAreOpened,
             [SerialNext]_vars
      PROVE  RejectionsClose' /\ ReworkStands' /\ TeamsAreOpened'
  BY <1>2, RejectionsStayClosed, ReworkStandsStep, RoundsStep
<1>3. RejectionsClose /\ TeamsAreOpened => RoundsOpenedByRejection
  BY DEF RejectionsClose, TeamsAreOpened, Opened, RoundsOpenedByRejection
<1>. QED BY <1>1, <1>2, <1>3, CallsAlwaysSound, GenerationsAlways, PTL DEF SerialSpec

----------------------------------------------------------------------------
(* Statuses *)

StatusInv == StatusFollowsWorldline /\ StatusesAreRead /\ IntegrationsAreLogged

\* Each step keeps the status on disk and the status of the events together.
LEMMA StatusStep ==
  ASSUME Typed, CallsAreSound, StatusInv, [SerialNext]_vars
  PROVE  StatusInv'
<1>1. CASE UNCHANGED vars
  BY <1>1 DEF StatusInv, StatusFollowsWorldline, StatusesAreRead, IntegrationsAreLogged,
     Settled, Idle, vars, disk, worldline
<1>2. CASE ~UNCHANGED vars
  <2>1. PICK c \in Clients :
           /\ Alone(c)
           /\ \/ \E t \in TicketIds, r \in CallRecord : Prepares(c, t, r) /\ Decided(t, r)
              \/ MergeEnded(c) \/ TeamWritten(c) \/ TicketWritten(c) \/ Appended(c)
              \/ RolledBack(c) \/ Dropped(c)
    BY <1>2, SerialSteps
  <2>. PICK r : r = call[c]
    OBVIOUS
  <2>. PICK q : q = call'[c]
    OBVIOUS
  <2>. DEFINE InFlight(x) == x.step \in {"team-written", "ticket-written"}
              Logged(x, log) ==
                /\ x.step = "merging" \/ x.event.kind = "ticket-integration-ended" =>
                     log[x.id] = "integrating"
                /\ x.ticketWrite.status = "integrated" =>
                     \/ x.ticketRead.status = "integrated"
                     \/ x.event.kind = "ticket-integration-ended"
  <2>2. /\ r.step # "idle" => Plan(r) /\ FilesFollow(c) /\ Logged(r, logged)
        /\ r.step # "idle" /\ crashes = 0 => r.ticketRead.status = logged[r.id]
        /\ \A u \in TicketIds : crashes = 0 /\ (~InFlight(r) \/ r.id # u) =>
             ticket[u].status = logged[u]
    <3>1. r.step # "idle" => Plan(r) /\ FilesFollow(c) /\ Logged(r, logged)
      BY DEF CallsAreSound, StatusInv, IntegrationsAreLogged, Idle
    <3>2. r.step # "idle" /\ crashes = 0 => r.ticketRead.status = logged[r.id]
      BY DEF StatusInv, StatusesAreRead, Idle
    <3>3. \A u \in TicketIds : ~InFlight(r) \/ r.id # u => Settled(u)
      BY <2>1 DEF Settled, Alone, Idle
    <3>. QED BY <3>1, <3>2, <3>3 DEF StatusInv, StatusFollowsWorldline
  <2>3. /\ r.id \in TicketIds /\ logged \in [TicketIds -> Status] /\ crashes \in Nat
    BY CallFields DEF Typed, TypeOK
  <2>4. ASSUME q.step # "idle" => Logged(q, logged'),
               q.step # "idle" /\ crashes' = 0 => q.ticketRead.status = logged'[q.id],
               \A u \in TicketIds : crashes' = 0 /\ (~InFlight(q) \/ q.id # u) =>
                  ticket'[u].status = logged'[u]
        PROVE  StatusInv'
    <3>1. \A d \in Clients : call'[d].step # "idle" => d = c
      BY <2>1, OnlyMine
    <3>2. StatusesAreRead'
      BY <2>4, <3>1 DEF StatusesAreRead, Idle
    <3>3. IntegrationsAreLogged'
      BY <2>4, <3>1 DEF IntegrationsAreLogged, Idle
    <3>4. StatusFollowsWorldline'
      <4>. SUFFICES ASSUME NEW u \in TicketIds, Settled(u)', crashes' = 0
                    PROVE  ticket'[u].status = logged'[u]
        BY DEF StatusFollowsWorldline
      <4>1. ~InFlight(q) \/ q.id # u
        BY DEF Settled
      <4>. QED BY <2>4, <4>1
    <3>. QED BY <3>2, <3>3, <3>4 DEF StatusInv
  <2>5. ASSUME NEW t \in TicketIds, NEW p \in CallRecord, Prepares(c, t, p), Decided(t, p)
        PROVE  StatusInv'
    <3>1. /\ q = p /\ p.step = "prepared" /\ p.id = t /\ r.step = "idle"
          /\ p.ticketRead = ticket[t]
          /\ UNCHANGED <<ticket, logged, crashes>>
          /\ p.event.kind # "ticket-integration-ended"
          /\ p.ticketWrite.status = "integrated" => p.ticketRead.status = "integrated"
      BY <2>5, CallTyped DEF Prepares, Decided, disk, worldline, Idle
    <3>. QED BY <2>2, <2>4, <3>1
  <2>6. CASE MergeEnded(c)
    <3>1. /\ r.step = "merging" /\ q.step = "prepared" /\ q.id = r.id
          /\ q.ticketRead = r.ticketRead /\ q.event.kind = "ticket-integration-ended"
          /\ UNCHANGED <<ticket, logged, crashes>>
      BY <2>6 DEF MergeEnded, disk, worldline
    <3>. QED BY <2>2, <2>4, <3>1
  <2>7. CASE TeamWritten(c) \/ TicketWritten(c)
    <3>1. /\ r.step # "idle" /\ q.step \in {"team-written", "ticket-written"} /\ q.id = r.id
          /\ q.ticketRead = r.ticketRead /\ q.ticketWrite = r.ticketWrite /\ q.event = r.event
          /\ UNCHANGED <<logged, crashes>>
          /\ \A u \in TicketIds : u # r.id => ticket'[u] = ticket[u]
      BY <2>7 DEF TeamWritten, TicketWritten, SameCall, TicketBecomes, worldline
    <3>. QED BY <2>2, <2>4, <3>1
  <2>8. CASE Appended(c)
    <3>. DEFINE e == r.event
    <3>1. /\ r.step = "ticket-written" /\ ticket' = ticket /\ crashes' = crashes
          /\ Plan(r) /\ ticket[r.id] = r.ticketWrite
          /\ q.step # "idle" => /\ e.kind = "ticket-integration-started" /\ q.event = e
                                /\ q.id = r.id /\ q.step = "merging"
                                /\ q.ticketRead = r.ticketWrite /\ q.ticketWrite = r.ticketWrite
          /\ q.step \in {"idle", "merging"}
      BY <2>2, <2>8 DEF Appended, disk, FilesFollow
    <3>2. logged' = IF e.to = KeepsStatus THEN logged ELSE [logged EXCEPT ![r.id] = e.to]
      BY <2>8 DEF Appended, Append
    <3>3. \A u \in TicketIds : logged'[u] = IF u = r.id /\ e.to # KeepsStatus THEN e.to
                                             ELSE logged[u]
      BY <2>3, <3>2
    <3>4. r.ticketWrite.status = IF e.to = KeepsStatus THEN r.ticketRead.status ELSE e.to
      BY <3>1 DEF Plan
    <3>5. e.kind = "ticket-integration-started" => e.to = "integrating"
      BY <3>1 DEF Plan
    <3>6. q.step # "idle" => Logged(q, logged')
      BY <2>3, <3>1, <3>3, <3>5 DEF KeepsStatus
    <3>7. crashes = 0 => ticket'[r.id].status = logged'[r.id]
      BY <2>2, <2>3, <3>1, <3>3, <3>4
    <3>. QED BY <2>2, <2>3, <2>4, <3>1, <3>3, <3>6, <3>7
  <2>9. CASE RolledBack(c)
    <3>1. /\ r.step # "idle" /\ q.step = "idle" /\ UNCHANGED <<logged, crashes>>
          /\ \A u \in TicketIds : ticket'[u] = IF u = r.id THEN r.ticketRead ELSE ticket[u]
      BY <2>9 DEF RolledBack, TicketBecomes, worldline
    <3>. QED BY <2>2, <2>4, <3>1
  <2>10. CASE Dropped(c)
    <3>1. /\ q.step = "idle" /\ UNCHANGED <<ticket, logged>>
          /\ \/ crashes' = crashes /\ r.step = "prepared"
             \/ crashes' = crashes + 1
      BY <2>10 DEF Dropped, disk, worldline
    <3>. QED BY <2>2, <2>3, <2>4, <3>1
  <2>. QED BY <2>1, <2>5, <2>6, <2>7, <2>8, <2>9, <2>10
<1>. QED BY <1>1, <1>2

\* What a call read of the status is what the events say until a process is killed.
THEOREM StatusesAlways == SerialSpec => []StatusInv
<1>1. Init => StatusInv
  <2>. SUFFICES ASSUME Init PROVE StatusInv
    OBVIOUS
  <2>1. \A c \in Clients : Idle(c)
    BY IdleCallTyped DEF Init, Idle
  <2>2. StatusFollowsWorldline
    BY DEF Init, StatusFollowsWorldline
  <2>. QED BY <2>1, <2>2 DEF StatusInv, StatusesAreRead, IntegrationsAreLogged
<1>2. Typed /\ CallsAreSound /\ StatusInv /\ [SerialNext]_vars => StatusInv'
  BY StatusStep
<1>. QED BY <1>1, <1>2, CallsAlwaysSound, PTL DEF SerialSpec

\* Until a process is killed, the status on disk is the one that the events give,
\* whatever is refused or rolled back.
THEOREM StatusAndWorldlineAgree == SerialSpec => []StatusFollowsWorldline
<1>1. StatusInv => StatusFollowsWorldline
  BY DEF StatusInv
<1>. QED BY <1>1, StatusesAlways, PTL

\* Nothing but the start of a Team in the place of a retired one takes a Ticket from
\* integrated.
THEOREM IntegratedIsFinal == SerialSpec => IntegratedReopensOnlyByReplacement
<1>. DEFINE Reopens ==
       \A t \in TicketIds :
         LET old == ticket[t]
             new == ticket'[t]
         IN  old.status = "integrated" /\ logged[t] = "integrated" /\ new.status # "integrated" =>
               /\ new.status = "implementing" /\ new.ordinal = old.ordinal + 1
               /\ old.ordinal \in Generations /\ team[t][old.ordinal].status = "retired"
<1>1. Typed /\ CallsAreSound /\ GenInv /\ StatusInv /\ [SerialNext]_vars => [Reopens]_vars
  <2>. SUFFICES ASSUME Typed, CallsAreSound, GenInv, StatusInv, [SerialNext]_vars,
                       ~UNCHANGED vars, NEW t \in TicketIds,
                       ticket[t].status = "integrated", logged[t] = "integrated",
                       ticket'[t].status # "integrated"
                PROVE  /\ ticket'[t].status = "implementing"
                       /\ ticket'[t].ordinal = ticket[t].ordinal + 1
                       /\ ticket[t].ordinal \in Generations
                       /\ team[t][ticket[t].ordinal].status = "retired"
    BY DEF Reopens
  <2>1. PICK c \in Clients :
           \/ \E u \in TicketIds, r \in CallRecord : Prepares(c, u, r)
           \/ MergeEnded(c) \/ TeamWritten(c) \/ TicketWritten(c) \/ Appended(c)
           \/ RolledBack(c) \/ Dropped(c)
    BY SerialSteps
  <2>. PICK r : r = call[c]
    OBVIOUS
  <2>2. /\ r.step # "idle" => /\ Plan(r) /\ FilesFollow(c)
                              /\ ~LockedCall(r) => Frontier(r.id, r.generation)
                              /\ r.event.kind = "ticket-integration-ended" =>
                                   logged[r.id] = "integrating"
                              /\ r.ticketWrite.status = "integrated" =>
                                   \/ r.ticketRead.status = "integrated"
                                   \/ r.event.kind = "ticket-integration-ended"
    BY DEF CallsAreSound, GenInv, RequestsAreAtTheFrontier, StatusInv, IntegrationsAreLogged, Idle
  <2>3. CASE TicketWritten(c)
    <3>1. /\ Plan(r) /\ t = r.id /\ ticket[t] = r.ticketRead /\ ticket'[t] = r.ticketWrite
          /\ ~LockedCall(r) => Frontier(t, r.generation)
      BY <2>2, <2>3 DEF TicketWritten, TicketBecomes, FilesFollow
    <3>2. Starting(r) /\ StartPlan(r)
      BY <3>1 DEF Plan, LaterPlan
    <3>3. ticket[t].ordinal \in 0..MaxGeneration /\ r.generation \in Generations
      BY CurrentTeam, CallFields
    <3>4. ticket[t].ordinal \in Generations /\ ticket[t].ordinal < r.generation
      BY <3>1, <3>2, <3>3, BoundsAssumption DEF StartPlan, Generations, BoundsAssumption
    <3>5. team[t][ticket[t].ordinal].status = "retired"
      BY <3>1, <3>2, <3>4 DEF Frontier, Starting, LockedCall
    <3>. QED BY <3>1, <3>2, <3>4, <3>5 DEF StartPlan
  <2>4. CASE RolledBack(c)
    <3>1. /\ t = r.id /\ ticket'[t] = r.ticketRead /\ FilesFollow(c)
          /\ r.step \in {"team-written", "ticket-written"}
      BY <2>2, <2>4 DEF RolledBack, TicketBecomes
    <3>2. ticket[t] = r.ticketWrite
      BY <3>1 DEF FilesFollow
    <3>. QED BY <2>2, <3>1, <3>2
  <2>5. CASE ticket' = ticket
    BY <2>5
  <2>. QED BY <2>1, <2>3, <2>4, <2>5
       DEF Prepares, MergeEnded, TeamWritten, Appended, Dropped, disk
<1>. QED BY <1>1, CallsAlwaysSound, GenerationsAlways, StatusesAlways, PTL
     DEF SerialSpec, IntegratedReopensOnlyByReplacement, Reopens

----------------------------------------------------------------------------
(* The life of a Ticket *)

\* Each step keeps the plan of the call under way.
LEMMA LivesStayPlanned ==
  ASSUME Typed, CallsAreSound, LivesArePlanned, [SerialNext]_vars
  PROVE  LivesArePlanned'
<1>1. CASE UNCHANGED vars
  BY <1>1 DEF LivesArePlanned, LifePlan, Idle, vars, worldline
<1>2. CASE ~UNCHANGED vars
  <2>1. PICK c \in Clients :
           /\ Alone(c)
           /\ \/ \E t \in TicketIds, r \in CallRecord : Prepares(c, t, r) /\ Decided(t, r)
              \/ MergeEnded(c) \/ TeamWritten(c) \/ TicketWritten(c) \/ Appended(c)
              \/ RolledBack(c) \/ Dropped(c)
    BY <1>2, SerialSteps
  <2>. PICK r : r = call[c]
    OBVIOUS
  <2>. PICK q : q = call'[c]
    OBVIOUS
  <2>. SUFFICES ASSUME q.step # "idle" PROVE LifePlan(q, accepted')
    BY <2>1, OnlyMine DEF LivesArePlanned, Idle
  <2>2. r.step # "idle" => Plan(r) /\ LifePlan(r, accepted)
    BY DEF CallsAreSound, LivesArePlanned, Idle
  <2>3. ASSUME NEW t \in TicketIds, NEW p \in CallRecord, Prepares(c, t, p), Decided(t, p)
        PROVE  LifePlan(q, accepted')
    <3>1. q = p /\ accepted' = accepted
      BY <2>3, CallTyped DEF Prepares, worldline
    <3>. QED BY <2>3, <3>1 DEF Decided, LifePlan
  <2>4. CASE MergeEnded(c)
    <3>1. Plan(r) /\ LifePlan(r, accepted) /\ r.event.kind = "ticket-integration-started"
          /\ r.ticketRead.status = "integrating"
      BY <2>2, <2>4 DEF MergeEnded, Plan
    <3>2. r.teamWrite = r.teamRead
      BY <3>1 DEF Plan, LockedCall
    <3>. QED BY <2>4, <3>1, <3>2 DEF MergeEnded, LifePlan, SameNames, Starting
  <2>5. CASE TeamWritten(c) \/ TicketWritten(c)
    <3>1. SameCall(q, r) /\ r.step # "idle" /\ accepted' = accepted
      BY <2>5 DEF TeamWritten, TicketWritten, worldline
    <3>. QED BY <2>2, <3>1 DEF SameCall, LifePlan, Starting
  <2>6. CASE Appended(c)
    <3>1. /\ r.event.kind = "ticket-integration-started" /\ Plan(r) /\ LifePlan(r, accepted)
          /\ q.id = r.id /\ q.ticketRead = r.ticketWrite /\ q.ticketWrite = r.ticketWrite
          /\ q.teamRead = r.teamRead /\ q.teamWrite = r.teamWrite /\ q.event = r.event
          /\ accepted' = accepted
      BY <2>2, <2>6 DEF Appended, Append
    <3>. QED BY <3>1 DEF LifePlan, SameNames, Starting
  <2>. QED BY <2>1, <2>3, <2>4, <2>5, <2>6 DEF RolledBack, Dropped
<1>. QED BY <1>1, <1>2

\* Each step that replaces a file holds the lock, and each end of a call gives it back.
LEMMA LockStaysHeld ==
  ASSUME Typed, LockIsHeld, [Next]_vars
  PROVE  LockIsHeld'
<1>1. CASE UNCHANGED vars
  BY <1>1 DEF LockIsHeld, vars, locks
<1>2. CASE Next
  <2>1. PICK c \in Clients : Step(c)
    BY <1>2 DEF Next
  <2>2. call \in [Clients -> CallRecord] /\ c # Nobody
    BY CallTyped, SentinelAssumption DEF SentinelAssumption
  <2>. DEFINE Flight(x) == x.step \in {"team-written", "ticket-written"}
  <2>3. worldlineLock = c <=> Flight(call[c])
    BY DEF LockIsHeld
  <2>4. ASSUME NEW q, call' = [call EXCEPT ![c] = q], worldlineLock' = c <=> Flight(q),
               \A d \in Clients \ {c} : worldlineLock' = d <=> worldlineLock = d
        PROVE  LockIsHeld'
    BY <2>2, <2>4 DEF LockIsHeld
  <2>5. ASSUME NEW q, call' = [call EXCEPT ![c] = q], q.step \in {"idle", "merging"}, Release(c)
        PROVE  LockIsHeld'
    <3>. HIDE DEF Flight
    <3>1. ~Flight(q)
      BY <2>5 DEF Flight
    <3>2. worldlineLock' # c /\ \A d \in Clients \ {c} : worldlineLock' = d <=> worldlineLock = d
      BY <2>2, <2>5, SentinelAssumption DEF Release, SentinelAssumption
    <3>. QED BY <2>4, <2>5, <3>1, <3>2
  <2>6. ASSUME NEW t \in TicketIds, Request(c, t) \/ Command(c, t)
        PROVE  LockIsHeld'
    <3>1. PICK p \in CallRecord : Prepares(c, t, p)
      BY <2>6, RequestsDecide
    <3>2. ~Flight(p) /\ ~Flight(call[c])
      BY <3>1 DEF Prepares, Idle
    <3>. QED BY <2>3, <2>4, <3>1, <3>2 DEF Prepares
  <2>7. ASSUME NEW status \in {"integrated", "integrating", "escalated"}, IntegrationEnd(c, status)
        PROVE  LockIsHeld'
    <3>1. call'[c].step = "prepared" /\ \A d \in Clients \ {c} : call'[d] = call[d]
      BY <2>2, <2>7 DEF IntegrationEnd, CallRecord
    <3>. QED BY <2>7, <3>1 DEF IntegrationEnd, LockIsHeld, locks
  <2>8. CASE WriteTeam(c)
    <3>1. /\ call'[c].step = "team-written" /\ \A d \in Clients \ {c} : call'[d] = call[d]
          /\ worldlineLock = Nobody /\ worldlineLock' = c
      <4>1. CASE Locked(c)
        BY <2>2, <2>8, <4>1 DEF WriteTeam, CallRecord
      <4>2. CASE ~Locked(c)
        BY <2>2, <2>8, <4>2 DEF WriteTeam, CallRecord
      <4>. QED BY <4>1, <4>2
    <3>. QED BY <3>1, SentinelAssumption DEF LockIsHeld, SentinelAssumption
  <2>9. CASE WriteTicket(c)
    <3>1. /\ call[c].step = "team-written" /\ call'[c].step = "ticket-written"
          /\ \A d \in Clients \ {c} : call'[d] = call[d]
          /\ worldlineLock' = worldlineLock
      BY <2>2, <2>9 DEF WriteTicket, CallRecord, locks
    <3>. QED BY <3>1 DEF LockIsHeld
  <2>10. CASE Append(c)
    <3>1. CASE call[c].event.kind = "ticket-integration-started"
      <4>. DEFINE q == [call[c] EXCEPT !.step = "merging", !.ticketRead = call[c].ticketWrite]
      <4>1. call' = [call EXCEPT ![c] = q]
        BY <2>2, <2>10, <3>1 DEF Append, CallRecord
      <4>2. q.step = "merging"
        BY <2>2 DEF CallRecord
      <4>. HIDE DEF q
      <4>. QED BY <2>5, <2>10, <4>1, <4>2 DEF Append
    <3>2. CASE call[c].event.kind # "ticket-integration-started"
      <4>1. call' = [call EXCEPT ![c] = IdleCall]
        BY <2>10, <3>2 DEF Append
      <4>. QED BY <2>5, <2>10, <4>1, IdleCallTyped DEF Append
    <3>. QED BY <3>1, <3>2
  <2>11. CASE RollBack(c)
    BY <2>5, <2>11, IdleCallTyped DEF RollBack
  <2>12. CASE Refuse(c)
    BY <2>5, <2>12, IdleCallTyped DEF Refuse
  <2>13. CASE Crash(c)
    BY <2>5, <2>13, IdleCallTyped DEF Crash
  <2>. QED BY <2>1, <2>6, <2>7, <2>8, <2>9, <2>10, <2>11, <2>12, <2>13 DEF Step, Progress
<1>. QED BY <1>1, <1>2

\* Calls are always planned and the lock held while files are replaced.
THEOREM LivesAlways == SerialSpec => [](LivesArePlanned /\ LockIsHeld)
<1>1. Init => LivesArePlanned /\ LockIsHeld
  BY IdleCallTyped, SentinelAssumption DEF Init, LivesArePlanned, LockIsHeld, Idle,
     SentinelAssumption
<1>2. Typed /\ CallsAreSound /\ LivesArePlanned /\ LockIsHeld /\ [SerialNext]_vars =>
        (LivesArePlanned /\ LockIsHeld)'
  BY LivesStayPlanned, LockStaysHeld, SerialIsNext
<1>. QED BY <1>1, <1>2, CallsAlwaysSound, PTL DEF SerialSpec

InFlight(r, t) == r.id = t /\ r.step \in {"team-written", "ticket-written"}

\* What is known of a Ticket is what the call in flight has read of it.
LEMMA KnownFiles ==
  ASSUME Typed, LockIsHeld, NEW c \in Clients, \A d \in Clients \ {c} : Idle(d),
         NEW t \in TicketIds
  PROVE  /\ KnownTicket(t) = IF InFlight(call[c], t) THEN call[c].ticketRead ELSE ticket[t]
         /\ \A g \in Generations :
              KnownStage(t, g) = IF InFlight(call[c], t) /\ call[c].generation = g
                                 THEN call[c].teamRead.status ELSE team[t][g].status
<1>1. worldlineLock \in Clients \cup {Nobody} /\ Nobody \notin Clients
  BY SentinelAssumption DEF Typed, TypeOK, SentinelAssumption
<1>2. worldlineLock \in {c, Nobody}
  BY <1>1 DEF LockIsHeld, Idle
<1>3. Held(t) <=> InFlight(call[c], t)
  BY <1>1, <1>2 DEF Held, InFlight, LockIsHeld
<1>4. Held(t) => worldlineLock = c
  BY <1>2 DEF Held
<1>. QED BY <1>3, <1>4 DEF KnownTicket, KnownStage

\* The same of the next state.
LEMMA KnownFilesNext ==
  ASSUME Typed', LockIsHeld', NEW c \in Clients, \A d \in Clients \ {c} : call'[d].step = "idle",
         NEW t \in TicketIds
  PROVE  /\ KnownTicket(t)' = IF InFlight(call'[c], t) THEN call'[c].ticketRead ELSE ticket'[t]
         /\ \A g \in Generations :
              KnownStage(t, g)' = IF InFlight(call'[c], t) /\ call'[c].generation = g
                                  THEN call'[c].teamRead.status ELSE team'[t][g].status
<1>1. worldlineLock' \in Clients \cup {Nobody} /\ Nobody \notin Clients
  BY SentinelAssumption DEF Typed, TypeOK, SentinelAssumption
<1>2. worldlineLock' \in {c, Nobody}
  BY <1>1 DEF LockIsHeld
<1>3. Held(t)' <=> InFlight(call'[c], t)
  BY <1>1, <1>2 DEF Held, InFlight, LockIsHeld
<1>4. Held(t)' => worldlineLock' = c
  BY <1>2 DEF Held
<1>. QED BY <1>3, <1>4 DEF KnownTicket, KnownStage

\* What is known of Ticket t becomes tk, and of its generation g, stage s.
KnownBecomes(t, tk, g, s) ==
  /\ \A u \in TicketIds : KnownTicket(u)' = IF u = t THEN tk ELSE KnownTicket(u)
  /\ \A u \in TicketIds, h \in Generations :
       KnownStage(u, h)' = IF u = t /\ h = g THEN s ELSE KnownStage(u, h)

\* The Tickets and the stages of the life, as the specification sees them.
KnownTickets == [t \in TicketIds |-> KnownTicket(t)]
KnownStages == [t \in TicketIds |-> [g \in Generations |-> KnownStage(t, g)]]

LEMMA TicketsBecome ==
  ASSUME NEW t \in TicketIds, NEW tk, NEW g \in Generations, NEW s, KnownBecomes(t, tk, g, s)
  PROVE  /\ KnownTickets' = [KnownTickets EXCEPT ![t] = tk]
         /\ KnownTickets[t] = KnownTicket(t) /\ KnownTickets'[t] = tk
         /\ tk = KnownTicket(t) => KnownTickets' = KnownTickets
BY DEF KnownBecomes, KnownTickets

LEMMA StagesBecome ==
  ASSUME NEW t \in TicketIds, NEW tk, NEW g \in Generations, NEW s, KnownBecomes(t, tk, g, s)
  PROVE  /\ KnownStages' = [KnownStages EXCEPT ![t][g] = s]
         /\ KnownStages'[t][g] = s
         /\ \A h \in Generations : KnownStages[t][h] = KnownStage(t, h)
         /\ s = KnownStage(t, g) => KnownStages' = KnownStages
<1>1. ASSUME NEW u \in TicketIds
      PROVE  KnownStages'[u] = IF u = t THEN [KnownStages[t] EXCEPT ![g] = s] ELSE KnownStages[u]
  BY <1>1 DEF KnownBecomes, KnownStages
<1>2. KnownStages' = [KnownStages EXCEPT ![t][g] = s]
  <2>1. /\ KnownStages' = [u \in TicketIds |-> KnownStages'[u]]
        /\ KnownStages = [u \in TicketIds |-> KnownStages[u]]
    BY DEF KnownStages
  <2>. QED BY <1>1, <2>1
<1>3. KnownStages'[t][g] = s /\ \A h \in Generations : KnownStages[t][h] = KnownStage(t, h)
  BY DEF KnownBecomes, KnownStages
<1>4. s = KnownStage(t, g) => KnownStages' = KnownStages
  BY DEF KnownBecomes, KnownStages
<1>. QED BY <1>2, <1>3, <1>4

\* The life of a Ticket has the transition table of the code.
LEMMA SameTable == Life!Transitions = Transitions /\ Life!IntegrationOnly = IntegrationOnly
BY DEF Life!Transitions, Life!IntegrationOnly, Life!Status, Life!Halted, Transitions,
   IntegrationOnly, Status, Halted

\* A call that counts is one step of the life of its Ticket, or none.
LEMMA CallLives ==
  ASSUME Typed, NEW r \in CallRecord, Plan(r), LifePlan(r, accepted),
         r.event.kind = "team-round-accepted" => r.event.candidate \in Candidates,
         ~LockedCall(r) => Frontier(r.id, r.generation),
         KnownTicket(r.id) = r.ticketRead,
         \A h \in Generations : KnownStage(r.id, h) =
            IF h = r.generation THEN r.teamRead.status ELSE team[r.id][h].status,
         KnownBecomes(r.id, r.ticketWrite, r.generation, r.teamWrite.status),
         \/ accepted' = accepted
         \/ /\ r.event.kind = "team-round-accepted"
            /\ accepted' = [accepted EXCEPT ![r.id] =
                              @ \cup {<<r.event.generation, r.event.candidate>>}],
         r.event.kind # "team-round-accepted" => accepted' = accepted
  PROVE  [Life!Next]_(Life!vars)
<1>. PICK t \in TicketIds : t = r.id
  BY DEF CallRecord
<1>. PICK g \in Generations : g = r.generation
  BY DEF CallRecord
<1>. PICK old \in TicketRecord : old = r.ticketRead
  BY DEF CallRecord
<1>. PICK new \in TicketRecord : new = r.ticketWrite
  BY DEF CallRecord
<1>. PICK was : was = r.teamRead.status
  OBVIOUS
<1>. PICK is : is = r.teamWrite.status
  OBVIOUS
<1>. DEFINE T == KnownTickets
            S == KnownStages
<1>1. /\ T' = [T EXCEPT ![t] = new] /\ T[t] = old /\ T'[t] = new
      /\ new = old => T' = T
  BY TicketsBecome
<1>2. /\ S' = [S EXCEPT ![t][g] = is] /\ S[t][g] = was /\ S'[t][g] = is
      /\ is = was => S' = S
      /\ \A h \in Generations : S[t][h] = IF h = g THEN was ELSE team[t][h].status
  <2>1. KnownBecomes(t, new, g, is) /\ KnownStage(t, g) = was
    OBVIOUS
  <2>2. /\ S' = [S EXCEPT ![t][g] = is] /\ S'[t][g] = is
        /\ \A h \in Generations : S[t][h] = KnownStage(t, h)
        /\ is = KnownStage(t, g) => S' = S
    BY <2>1, StagesBecome
  <2>. HIDE DEF S
  <2>3. \A h \in Generations : S[t][h] = IF h = g THEN was ELSE team[t][h].status
    BY <2>2
  <2>. QED BY <2>1, <2>2, <2>3
<1>3. CASE Starting(r)
  <2>1. /\ was = "none" /\ is = "active" /\ g = old.ordinal + 1 /\ new.ordinal = g
        /\ new.status = "implementing" /\ new.candidate = NoCandidate
        /\ g = 1 => old.status = "ready"
        /\ accepted' = accepted /\ Frontier(t, g)
    BY <1>3 DEF Plan, StartPlan, LifePlan, Starting, LockedCall
  <2>2. new = [status |-> "implementing", ordinal |-> g, candidate |-> NoCandidate]
    BY <2>1 DEF TicketRecord
  <2>3. \A h \in Generations : S[t][h] = IF h < g THEN "retired" ELSE "none"
    BY <1>2, <2>1 DEF Frontier, Generations
  <2>4. Life!Begin(t, g)
    BY <1>1, <1>2, <2>1, <2>2, <2>3 DEF Life!Begin, Life!NextTeam, KnownTickets, KnownStages
  <2>. QED BY <2>4 DEF Life!Next
<1>4. CASE r.event.kind = "team-round-accepted"
  <2>1. /\ was = "active" /\ is = "active" /\ old.status = "reviewing"
        /\ old.candidate # NoCandidate /\ new.status = "awaiting-integration"
        /\ SameNames(new, old)
        /\ r.event.generation = g /\ r.event.candidate = old.candidate
    BY <1>4 DEF LifePlan
  <2>2. new = [old EXCEPT !.status = "awaiting-integration"]
    BY <2>1 DEF TicketRecord, SameNames
  <2>3. T' = [T EXCEPT ![t].status = "awaiting-integration"]
    BY <1>1, <2>2
  <2>4. CASE accepted' = accepted
    <3>1. new.status \in Transitions[old.status] \ IntegrationOnly
      BY <2>1 DEF Transitions, Status, IntegrationOnly
    <3>2. Life!Move(t)
      BY <1>1, <1>2, <2>1, <2>4, <3>1, SameTable DEF Life!Move, KnownTickets, KnownStages
    <3>. QED BY <3>2 DEF Life!Next
  <2>5. CASE accepted' = [accepted EXCEPT ![r.id] =
                            @ \cup {<<r.event.generation, r.event.candidate>>}]
    <3>1. Life!Accept(t, g)
      BY <1>1, <1>2, <2>1, <2>3, <2>5 DEF Life!Accept, KnownTickets, KnownStages
    <3>. QED BY <3>1 DEF Life!Next
  <2>. QED BY <2>4, <2>5
<1>5. CASE r.event.kind = "ticket-integration-started"
  <2>1. /\ was = is /\ accepted' = accepted
        /\ old.status \in {"awaiting-integration", "integrating"}
        /\ new.status = "integrating" /\ SameNames(new, old)
        /\ <<old.ordinal, old.candidate>> \in accepted[t]
    BY <1>5 DEF LifePlan, Plan, LockedCall
  <2>2. new = [old EXCEPT !.status = "integrating"]
    BY <2>1 DEF TicketRecord, SameNames
  <2>3. T' = [T EXCEPT ![t].status = "integrating"]
    BY <1>1, <2>2
  <2>4. Life!Integrate(t)
    BY <1>1, <1>2, <2>1, <2>3 DEF Life!Integrate, KnownTickets, KnownStages
  <2>. QED BY <2>4 DEF Life!Next
<1>6. CASE r.event.kind = "ticket-integration-ended"
  <2>1. /\ was = is /\ accepted' = accepted /\ old.status = "integrating"
        /\ SameNames(new, old) /\ new.status \in {"integrated", "integrating", "escalated"}
    BY <1>6 DEF LifePlan, Plan, LockedCall
  <2>2. CASE new.status = "integrated"
    <3>1. new = [old EXCEPT !.status = "integrated"]
      BY <2>1, <2>2 DEF TicketRecord, SameNames
    <3>2. T' = [T EXCEPT ![t].status = "integrated"]
      BY <1>1, <3>1
    <3>3. Life!Conclude(t)
      BY <1>1, <1>2, <2>1, <3>2 DEF Life!Conclude, KnownTickets, KnownStages
    <3>. QED BY <3>3 DEF Life!Next
  <2>3. CASE new.status = "integrating"
    <3>1. new = old
      BY <2>1, <2>3 DEF TicketRecord, SameNames
    <3>. QED BY <1>1, <1>2, <2>1, <3>1 DEF Life!vars, KnownTickets, KnownStages
  <2>4. CASE new.status = "escalated"
    <3>1. new.status \in Transitions[old.status] \ IntegrationOnly
      BY <2>1, <2>4 DEF Transitions, Status, IntegrationOnly, Halted
    <3>2. Life!Move(t)
      BY <1>1, <1>2, <2>1, <2>4, <3>1, SameTable DEF Life!Move, KnownTickets, KnownStages
    <3>. QED BY <3>2 DEF Life!Next
  <2>. QED BY <2>1, <2>2, <2>3, <2>4
<1>7. CASE /\ ~Starting(r)
           /\ r.event.kind \notin {"team-round-accepted", "ticket-integration-started",
                                   "ticket-integration-ended"}
  <2>1. /\ accepted' = accepted
        /\ was # is => new = old
        /\ was # is => <<was, is>> \in {<<"active", "retiring">>, <<"retiring", "retired">>}
        /\ \/ new = old
           \/ new.status \in Transitions[old.status] \ IntegrationOnly
           \/ /\ old.status = "reviewing" /\ new.status = "reviewing"
              /\ new.ordinal = old.ordinal /\ was = "active"
    BY <1>7 DEF Plan, LaterPlan, LifePlan, Starting
  <2>2. CASE was # is
    <3>1. Life!Retire(t, g)
      BY <1>1, <1>2, <2>1, <2>2 DEF Life!Retire, KnownTickets, KnownStages
    <3>. QED BY <3>1 DEF Life!Next
  <2>3. CASE was = is /\ new = old
    BY <1>1, <1>2, <2>1, <2>3 DEF Life!vars, KnownTickets, KnownStages
  <2>4. CASE was = is /\ new.status \in Transitions[old.status] \ IntegrationOnly
    <3>1. Life!Move(t)
      BY <1>1, <1>2, <2>1, <2>4, SameTable DEF Life!Move, KnownTickets, KnownStages
    <3>. QED BY <3>1 DEF Life!Next
  <2>5. CASE /\ was = is /\ old.status = "reviewing" /\ new.status = "reviewing"
             /\ new.ordinal = old.ordinal /\ was = "active"
    <3>1. new = [old EXCEPT !.candidate = new.candidate]
      BY <2>5 DEF TicketRecord
    <3>2. T' = [T EXCEPT ![t].candidate = T'[t].candidate]
      BY <1>1, <3>1
    <3>3. Life!Correct(t)
      BY <1>1, <1>2, <2>1, <2>5, <3>2 DEF Life!Correct, KnownTickets, KnownStages
    <3>. QED BY <3>3 DEF Life!Next
  <2>. QED BY <2>1, <2>2, <2>3, <2>4, <2>5
<1>. QED BY <1>3, <1>4, <1>5, <1>6, <1>7 DEF Starting

\* A call killed between its two files is one step of the life of its Ticket, or none.
LEMMA HalfCallLives ==
  ASSUME Typed, NEW r \in CallRecord, Plan(r), LifePlan(r, accepted),
         ~LockedCall(r) => Frontier(r.id, r.generation),
         KnownTicket(r.id) = r.ticketRead,
         \A h \in Generations : KnownStage(r.id, h) =
            IF h = r.generation THEN r.teamRead.status ELSE team[r.id][h].status,
         KnownBecomes(r.id, r.ticketRead, r.generation, r.teamWrite.status),
         accepted' = accepted
  PROVE  [Life!Next]_(Life!vars)
<1>. PICK t \in TicketIds : t = r.id
  BY DEF CallRecord
<1>. PICK g \in Generations : g = r.generation
  BY DEF CallRecord
<1>. PICK old \in TicketRecord : old = r.ticketRead
  BY DEF CallRecord
<1>. PICK was : was = r.teamRead.status
  OBVIOUS
<1>. PICK is : is = r.teamWrite.status
  OBVIOUS
<1>. DEFINE T == KnownTickets
            S == KnownStages
<1>1. T' = T /\ T[t] = old
  BY TicketsBecome
<1>2. /\ S' = [S EXCEPT ![t][g] = is] /\ S[t][g] = was /\ S'[t][g] = is
      /\ is = was => S' = S
      /\ \A h \in Generations : S[t][h] = IF h = g THEN was ELSE team[t][h].status
  <2>1. KnownBecomes(t, old, g, is) /\ KnownStage(t, g) = was
    OBVIOUS
  <2>2. /\ KnownStages' = [KnownStages EXCEPT ![t][g] = is] /\ KnownStages'[t][g] = is
        /\ \A h \in Generations : KnownStages[t][h] = KnownStage(t, h)
        /\ is = KnownStage(t, g) => KnownStages' = KnownStages
    BY ONLY <2>1, StagesBecome, t \in TicketIds, g \in Generations
  <2>3. \A h \in Generations : KnownStages[t][h] = IF h = g THEN was ELSE team[t][h].status
    BY <2>2
  <2>. QED BY <2>1, <2>2, <2>3
<1>3. CASE Starting(r)
  <2>1. /\ was = "none" /\ is = "active" /\ g = old.ordinal + 1
        /\ g = 1 => old.status = "ready"
        /\ Frontier(t, g)
    BY <1>3 DEF Plan, StartPlan, LifePlan, Starting, LockedCall
  <2>2. \A h \in Generations : S[t][h] = IF h < g THEN "retired" ELSE "none"
    BY <1>2, <2>1 DEF Frontier, Generations
  <2>3. Life!BeginUnnamed(t, g)
    BY <1>1, <1>2, <2>1, <2>2 DEF Life!BeginUnnamed, Life!NextTeam, KnownTickets, KnownStages
  <2>. QED BY <2>3 DEF Life!Next
<1>4. CASE ~Starting(r) /\ was # is
  <2>1. <<was, is>> \in {<<"active", "retiring">>, <<"retiring", "retired">>}
    BY <1>4 DEF Plan, LaterPlan
  <2>2. Life!Retire(t, g)
    BY <1>1, <1>2, <2>1 DEF Life!Retire, KnownTickets, KnownStages
  <2>. QED BY <2>2 DEF Life!Next
<1>5. CASE was = is
  BY <1>1, <1>2, <1>5 DEF Life!vars, KnownTickets, KnownStages
<1>. QED BY <1>3, <1>4, <1>5

\* Each step of the system is one step of the life of a Ticket, or none.
LEMMA LifeStep ==
  ASSUME Typed, Typed', CallsAreSound, RequestsAreAtTheFrontier, LivesArePlanned,
         LockIsHeld, LockIsHeld', [SerialNext]_vars
  PROVE  [Life!Next]_(Life!vars)
<1>1. ASSUME \A t \in TicketIds : KnownTicket(t)' = KnownTicket(t),
             \A t \in TicketIds, g \in Generations : KnownStage(t, g)' = KnownStage(t, g),
             accepted' = accepted
      PROVE  [Life!Next]_(Life!vars)
  BY <1>1 DEF Life!vars
<1>2. CASE UNCHANGED vars
  BY <1>1, <1>2 DEF vars, disk, worldline, locks, KnownTicket, KnownStage, Held
<1>3. CASE ~UNCHANGED vars
  <2>1. PICK c \in Clients :
           /\ Alone(c)
           /\ \/ \E t \in TicketIds, p \in CallRecord : Prepares(c, t, p) /\ Decided(t, p)
              \/ MergeEnded(c) \/ TeamWritten(c) \/ TicketWritten(c) \/ Appended(c)
              \/ RolledBack(c) \/ Dropped(c)
    BY <1>3, SerialSteps
  <2>. PICK r : r = call[c]
    OBVIOUS
  <2>. PICK q : q = call'[c]
    OBVIOUS
  <2>2. ASSUME NEW t \in TicketIds
        PROVE  /\ KnownTicket(t) = IF InFlight(r, t) THEN r.ticketRead ELSE ticket[t]
               /\ \A g \in Generations :
                    KnownStage(t, g) = IF InFlight(r, t) /\ r.generation = g
                                       THEN r.teamRead.status ELSE team[t][g].status
    <3>1. \A d \in Clients \ {c} : Idle(d)
      BY <2>1 DEF Alone
    <3>. QED BY <3>1, KnownFiles
  <2>3. ASSUME NEW t \in TicketIds
        PROVE  /\ KnownTicket(t)' = IF InFlight(q, t) THEN q.ticketRead ELSE ticket'[t]
               /\ \A g \in Generations :
                    KnownStage(t, g)' = IF InFlight(q, t) /\ q.generation = g
                                        THEN q.teamRead.status ELSE team'[t][g].status
    <3>1. \A d \in Clients \ {c} : call'[d].step = "idle"
      BY <2>1 DEF Alone
    <3>. QED BY <3>1, KnownFilesNext
  <2>4. /\ r \in CallRecord /\ r.id \in TicketIds /\ r.generation \in Generations
        /\ r.event.kind = "team-round-accepted" => r.event.candidate \in Candidates
    BY CallFields, CallTyped DEF Typed, EventNames, Names
  <2>5. r.step # "idle" =>
          /\ Plan(r) /\ LifePlan(r, accepted) /\ (~LockedCall(r) => Frontier(r.id, r.generation))
          /\ ticket[r.id] = IF r.step = "ticket-written" THEN r.ticketWrite ELSE r.ticketRead
          /\ team[r.id][r.generation] =
               IF r.step \in {"team-written", "ticket-written"} THEN r.teamWrite ELSE r.teamRead
    BY DEF CallsAreSound, LivesArePlanned, RequestsAreAtTheFrontier, FilesFollow, Idle
  <2>6. ASSUME NEW t \in TicketIds, NEW p \in CallRecord, Prepares(c, t, p)
        PROVE  [Life!Next]_(Life!vars)
    <3>1. q = p /\ p.step = "prepared" /\ r.step = "idle" /\ UNCHANGED <<ticket, team, accepted>>
      BY <2>6, CallTyped DEF Prepares, Idle, disk, worldline
    <3>. QED BY <1>1, <2>2, <2>3, <3>1 DEF InFlight
  <2>7. CASE MergeEnded(c)
    <3>1. q.step = "prepared" /\ r.step = "merging" /\ UNCHANGED <<ticket, team, accepted>>
      BY <2>7 DEF MergeEnded, disk, worldline
    <3>. QED BY <1>1, <2>2, <2>3, <3>1 DEF InFlight
  <2>8. CASE TeamWritten(c)
    <3>1. /\ q.step = "team-written" /\ r.step = "prepared" /\ SameCall(q, r)
          /\ TeamBecomes(r.id, r.generation, r.teamWrite) /\ UNCHANGED <<ticket, accepted>>
      BY <2>8 DEF TeamWritten, worldline
    <3>2. \A t \in TicketIds : KnownTicket(t)' = KnownTicket(t)
      BY <2>2, <2>3, <2>5, <3>1 DEF InFlight, SameCall
    <3>3. \A t \in TicketIds, g \in Generations : KnownStage(t, g)' = KnownStage(t, g)
      BY <2>2, <2>3, <2>5, <3>1 DEF InFlight, SameCall, TeamBecomes
    <3>. QED BY <1>1, <3>1, <3>2, <3>3
  <2>9. CASE TicketWritten(c)
    <3>1. /\ q.step = "ticket-written" /\ r.step = "team-written" /\ SameCall(q, r)
          /\ TicketBecomes(r.id, r.ticketWrite) /\ UNCHANGED <<team, accepted>>
      BY <2>9 DEF TicketWritten, worldline
    <3>2. \A t \in TicketIds : KnownTicket(t)' = KnownTicket(t)
      BY <2>2, <2>3, <3>1 DEF InFlight, SameCall, TicketBecomes
    <3>3. \A t \in TicketIds, g \in Generations : KnownStage(t, g)' = KnownStage(t, g)
      BY <2>2, <2>3, <3>1 DEF InFlight, SameCall
    <3>. QED BY <1>1, <3>1, <3>2, <3>3
  <2>10. CASE RolledBack(c)
    <3>1. /\ q.step = "idle" /\ r.step \in {"team-written", "ticket-written"}
          /\ TicketBecomes(r.id, r.ticketRead) /\ TeamBecomes(r.id, r.generation, r.teamRead)
          /\ accepted' = accepted
      BY <2>10 DEF RolledBack, worldline
    <3>2. \A t \in TicketIds : KnownTicket(t)' = KnownTicket(t)
      BY <2>2, <2>3, <3>1 DEF InFlight, TicketBecomes
    <3>3. \A t \in TicketIds, g \in Generations : KnownStage(t, g)' = KnownStage(t, g)
      BY <2>2, <2>3, <3>1 DEF InFlight, TeamBecomes
    <3>. QED BY <1>1, <3>1, <3>2, <3>3
  <2>11. ASSUME r.step \in {"team-written", "ticket-written"}, ~(q.step \in {"team-written", "ticket-written"}),
                UNCHANGED <<ticket, team>>
         PROVE  /\ KnownTicket(r.id) = r.ticketRead
                /\ \A h \in Generations : KnownStage(r.id, h) =
                     IF h = r.generation THEN r.teamRead.status ELSE team[r.id][h].status
                /\ KnownBecomes(r.id, ticket[r.id], r.generation, r.teamWrite.status)
    <3>1. /\ KnownTicket(r.id) = r.ticketRead
          /\ \A h \in Generations : KnownStage(r.id, h) =
               IF h = r.generation THEN r.teamRead.status ELSE team[r.id][h].status
      BY <2>2, <2>4, <2>11 DEF InFlight
    <3>2. \A u \in TicketIds :
             KnownTicket(u)' = IF u = r.id THEN ticket[r.id] ELSE KnownTicket(u)
      BY <2>2, <2>3, <2>11 DEF InFlight
    <3>3. \A u \in TicketIds, h \in Generations :
             KnownStage(u, h)' = IF u = r.id /\ h = r.generation THEN r.teamWrite.status
                                 ELSE KnownStage(u, h)
      BY <2>2, <2>3, <2>5, <2>11 DEF InFlight
    <3>. QED BY <3>1, <3>2, <3>3 DEF KnownBecomes
  <2>12. CASE Appended(c)
    <3>1. /\ r.step = "ticket-written" /\ q.step \in {"merging", "idle"} /\ UNCHANGED <<ticket, team>>
          /\ accepted' = IF r.event.kind = "team-round-accepted"
                         THEN [accepted EXCEPT ![r.id] =
                                 @ \cup {<<r.event.generation, r.event.candidate>>}]
                         ELSE accepted
      BY <2>12 DEF Appended, Append, disk
    <3>2. ticket[r.id] = r.ticketWrite
      BY <2>5, <3>1
    <3>. QED BY <2>4, <2>5, <2>11, <3>1, <3>2, CallLives
  <2>13. CASE Dropped(c)
    <3>1. r.step # "idle" /\ q.step = "idle" /\ UNCHANGED <<ticket, team, accepted>>
      BY <2>13 DEF Dropped, disk, worldline
    <3>2. CASE r.step = "ticket-written"
      <4>1. ticket[r.id] = r.ticketWrite
        BY <2>5, <3>2
      <4>. QED BY <2>4, <2>5, <2>11, <3>1, <3>2, <4>1, CallLives
    <3>3. CASE r.step = "team-written"
      <4>1. ticket[r.id] = r.ticketRead
        BY <2>5, <3>3
      <4>. QED BY <2>4, <2>5, <2>11, <3>1, <3>3, <4>1, HalfCallLives
    <3>4. CASE r.step \notin {"team-written", "ticket-written"}
      BY <1>1, <2>2, <2>3, <3>1, <3>4 DEF InFlight
    <3>. QED BY <3>2, <3>3, <3>4
  <2>. QED BY <2>1, <2>6, <2>7, <2>8, <2>9, <2>10, <2>12, <2>13
<1>. QED BY <1>2, <1>3

\* The requests and commands together are the life of the Tickets that TicketLife
\* describes, whatever is refused, rolled back or killed on the way.
THEOREM TicketsLive == SerialSpec => TicketsKeepTheirLife
<1>1. Init => Life!Init
  <2>. SUFFICES ASSUME Init PROVE Life!Init
    OBVIOUS
  <2>1. \A t \in TicketIds : ~Held(t)
    BY DEF Init, Held
  <2>2. /\ \A t \in TicketIds : KnownTicket(t) = [status |-> "ready", ordinal |-> 0,
                                                  candidate |-> NoCandidate]
        /\ \A t \in TicketIds, g \in Generations : KnownStage(t, g) = "none"
    BY <2>1 DEF Init, KnownTicket, KnownStage, NoTeam
  <2>. QED BY <2>2 DEF Init, Life!Init
<1>2. Typed /\ Typed' /\ CallsAreSound /\ GenInv /\ LivesArePlanned /\ LockIsHeld /\ LockIsHeld'
        /\ [SerialNext]_vars => [Life!Next]_(Life!vars)
  BY LifeStep DEF GenInv
<1>. QED BY <1>1, <1>2, CallsAlwaysSound, GenerationsAlways, LivesAlways, PTL
     DEF SerialSpec, TicketsKeepTheirLife, Life!Spec

\* What the life of a Ticket says is being integrated was accepted.
KnownAreAccepted ==
  \A t \in TicketIds :
     KnownTickets[t].status \in IntegrationOnly =>
       <<KnownTickets[t].ordinal, KnownTickets[t].candidate>> \in accepted[t]

\* Each Ticket of the life is a Ticket.
LEMMA KnownTyped == Typed => KnownTickets \in [TicketIds -> TicketRecord]
<1>. SUFFICES ASSUME Typed, NEW t \in TicketIds PROVE KnownTicket(t) \in TicketRecord
  BY DEF KnownTickets
<1>1. ticket[t] \in TicketRecord /\ worldlineLock \in Clients \cup {Nobody}
  BY DEF Typed, TypeOK
<1>2. Held(t) => call[worldlineLock].ticketRead \in TicketRecord
  BY <1>1, CallFields DEF Held
<1>. QED BY <1>1, <1>2 DEF KnownTicket

\* Each step of the life of a Ticket keeps that.
LEMMA KnownStayAccepted ==
  ASSUME Typed, KnownAreAccepted, [Life!Next]_(Life!vars)
  PROVE  KnownAreAccepted'
<1>. DEFINE T == KnownTickets
<1>1. accepted \in [TicketIds -> SUBSET (Generations \X Candidates)]
  BY DEF Typed, TypeOK
<1>2. T \in [TicketIds -> TicketRecord]
  BY KnownTyped
<1>3. ASSUME T' = T, accepted' = accepted PROVE KnownAreAccepted'
  BY <1>3 DEF KnownAreAccepted
<1>4. CASE UNCHANGED Life!vars
  <2>1. T' = T /\ accepted' = accepted
    BY <1>4 DEF Life!vars, KnownTickets
  <2>. QED BY <1>3, <2>1
<1>5. CASE Life!Next
  <2>1. PICK t \in TicketIds :
           \/ Life!Move(t) \/ Life!Correct(t) \/ Life!Integrate(t) \/ Life!Conclude(t)
           \/ \E g \in Generations :
                 Life!Accept(t, g) \/ Life!Begin(t, g) \/ Life!BeginUnnamed(t, g)
                 \/ Life!Retire(t, g)
    BY <1>5 DEF Life!Next
  <2>2. ASSUME NEW x, T' = [T EXCEPT ![t] = x], accepted' = accepted,
               x.status \in IntegrationOnly =>
                 <<x.ordinal, x.candidate>> \in accepted[t]
        PROVE  KnownAreAccepted'
    BY <1>2, <2>2 DEF KnownAreAccepted
  <2>3. CASE Life!Move(t)
    <3>1. /\ T'[t].status \notin IntegrationOnly /\ accepted' = accepted
          /\ T' = [T EXCEPT ![t] = T'[t]]
      BY <2>3, SameTable DEF Life!Move, KnownTickets
    <3>. QED BY <2>2, <3>1
  <2>. PICK old \in TicketRecord : old = T[t]
    BY <1>2
  <2>4. CASE Life!Correct(t)
    <3>1. /\ old.status = "reviewing" /\ accepted' = accepted
          /\ T' = [T EXCEPT ![t] = [old EXCEPT !.candidate = T'[t].candidate]]
      BY <1>2, <2>4 DEF Life!Correct, KnownTickets
    <3>2. [old EXCEPT !.candidate = T'[t].candidate].status = "reviewing"
      BY <3>1 DEF TicketRecord
    <3>. QED BY <2>2, <3>1, <3>2 DEF IntegrationOnly
  <2>5. CASE Life!Integrate(t)
    <3>. DEFINE x == [old EXCEPT !.status = "integrating"]
    <3>1. /\ <<old.ordinal, old.candidate>> \in accepted[t] /\ accepted' = accepted
          /\ T' = [T EXCEPT ![t] = x]
      BY <1>2, <2>5 DEF Life!Integrate, KnownTickets
    <3>2. x.ordinal = old.ordinal /\ x.candidate = old.candidate
      BY DEF TicketRecord
    <3>. QED BY <2>2, <3>1, <3>2
  <2>6. CASE Life!Conclude(t)
    <3>. DEFINE x == [old EXCEPT !.status = "integrated"]
    <3>1. /\ old.status = "integrating" /\ accepted' = accepted
          /\ T' = [T EXCEPT ![t] = x]
      BY <1>2, <2>6 DEF Life!Conclude, KnownTickets
    <3>2. x.ordinal = old.ordinal /\ x.candidate = old.candidate
      BY DEF TicketRecord
    <3>3. <<old.ordinal, old.candidate>> \in accepted[t]
      BY <3>1 DEF KnownAreAccepted, IntegrationOnly
    <3>. QED BY <2>2, <3>1, <3>2, <3>3
  <2>7. ASSUME NEW g \in Generations, Life!Accept(t, g) PROVE KnownAreAccepted'
    <3>. DEFINE x == [old EXCEPT !.status = "awaiting-integration"]
    <3>1. /\ accepted' = [accepted EXCEPT ![t] = @ \cup {<<g, old.candidate>>}]
          /\ T' = [T EXCEPT ![t] = x]
      BY <1>2, <2>7 DEF Life!Accept, KnownTickets
    <3>2. x.status = "awaiting-integration"
      BY DEF TicketRecord
    <3>. HIDE DEF x
    <3>3. T'[t].status \notin IntegrationOnly
      BY <1>2, <3>1, <3>2 DEF IntegrationOnly
    <3>4. \A u \in TicketIds \ {t} : T'[u] = T[u] /\ accepted'[u] = accepted[u]
      BY <1>1, <1>2, <3>1
    <3>. QED BY <3>3, <3>4 DEF KnownAreAccepted
  <2>8. ASSUME NEW g \in Generations, Life!Begin(t, g) PROVE KnownAreAccepted'
    <3>. DEFINE x == [status |-> "implementing", ordinal |-> g, candidate |-> NoCandidate]
    <3>1. T' = [T EXCEPT ![t] = x] /\ accepted' = accepted
      BY <2>8 DEF Life!Begin, KnownTickets
    <3>. QED BY <2>2, <3>1 DEF IntegrationOnly
  <2>9. ASSUME NEW g \in Generations, Life!BeginUnnamed(t, g) \/ Life!Retire(t, g)
        PROVE  KnownAreAccepted'
    <3>1. T' = T /\ accepted' = accepted
      BY <2>9 DEF Life!BeginUnnamed, Life!Retire, KnownTickets
    <3>. QED BY <1>3, <3>1
  <2>. QED BY <2>1, <2>3, <2>4, <2>5, <2>6, <2>7, <2>8, <2>9
<1>. QED BY <1>4, <1>5

\* A command that has written an integration's status found the acceptance, or the
\* integration under way.
LEMMA KnownToDisk ==
  ASSUME Typed, CallsAreSound, LivesArePlanned, LockIsHeld, KnownAreAccepted
  PROVE  IntegratedWasAccepted
<1>. SUFFICES ASSUME NEW t \in TicketIds, ticket[t].status \in IntegrationOnly
              PROVE  <<ticket[t].ordinal, ticket[t].candidate>> \in accepted[t]
  BY DEF IntegratedWasAccepted
<1>1. KnownTicket(t).status \in IntegrationOnly =>
        <<KnownTicket(t).ordinal, KnownTicket(t).candidate>> \in accepted[t]
  BY DEF KnownAreAccepted, KnownTickets
<1>2. CASE ~Held(t)
  BY <1>1, <1>2 DEF KnownTicket
<1>3. CASE Held(t)
  <2>1. worldlineLock \in Clients
    BY <1>3 DEF Held, Typed, TypeOK
  <2>. PICK r : r = call[worldlineLock]
    OBVIOUS
  <2>2. /\ r.id = t /\ r.step \in {"team-written", "ticket-written"}
        /\ KnownTicket(t) = r.ticketRead
        /\ Plan(r) /\ LifePlan(r, accepted)
        /\ ticket[t] = IF r.step = "ticket-written" THEN r.ticketWrite ELSE r.ticketRead
    BY <1>3, <2>1 DEF Held, KnownTicket, LockIsHeld, CallsAreSound, LivesArePlanned, FilesFollow,
       Idle
  <2>3. CASE ticket[t] = r.ticketRead
    BY <1>1, <2>2, <2>3
  <2>4. CASE ticket[t] = r.ticketWrite /\ r.ticketWrite # r.ticketRead
    <3>1. \/ r.event.kind = "ticket-integration-started"
          \/ r.event.kind = "ticket-integration-ended"
      BY <2>2, <2>4 DEF LifePlan, Plan, StartPlan, Starting, IntegrationOnly
    <3>. QED BY <1>1, <2>2, <2>4, <3>1 DEF LifePlan, SameNames, IntegrationOnly
  <2>. QED BY <2>2, <2>3, <2>4
<1>. QED BY <1>2, <1>3

\* What is being integrated or is integrated, the Team that the Ticket names accepted.
THEOREM OnlyAcceptedIsIntegrated == SerialSpec => []IntegratedWasAccepted
<1>1. Init => KnownAreAccepted
  <2>. SUFFICES ASSUME Init, NEW t \in TicketIds
                PROVE  KnownTickets[t].status \notin IntegrationOnly
    BY DEF KnownAreAccepted
  <2>. QED BY DEF Init, Held, KnownTicket, KnownTickets, IntegrationOnly
<1>2. Typed /\ Typed' /\ CallsAreSound /\ GenInv /\ LivesArePlanned /\ LockIsHeld /\ LockIsHeld'
        /\ KnownAreAccepted /\ [SerialNext]_vars => KnownAreAccepted'
  BY LifeStep, KnownStayAccepted DEF GenInv
<1>3. Typed /\ CallsAreSound /\ LivesArePlanned /\ LockIsHeld /\ KnownAreAccepted =>
        IntegratedWasAccepted
  BY KnownToDisk
<1>. QED BY <1>1, <1>2, <1>3, CallsAlwaysSound, GenerationsAlways, LivesAlways, PTL DEF SerialSpec
=============================================================================
